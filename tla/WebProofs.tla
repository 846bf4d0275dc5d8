------------------------------ MODULE WebProofs -------------------------------
(***************************************************************************)
(* Proofs about what else the web client keeps: its socket, its session,    *)
(* the card of an agent at work and the issue pages; and about all of it    *)
(* together, as MCWeb composes it.                                          *)
(***************************************************************************)
EXTENDS MCWeb, WebListsProofs, SequenceTheorems

-------------------------------------------------------------------------------
(***************************************************************************)
(* The socket: one client lives.                                            *)
(***************************************************************************)

Living == {"connecting", "open", "waiting"}

\* A client that is not the provider's can do nothing any more; the provider's
\* has its onclose and has not been closed for good.
OldIsDead == \A c \in Slots :
    /\ c # current => /\ clients[c].st \in {"closing", "gone"} /\ ~clients[c].onclose
                      /\ ~clients[c].sync /\ ~clients[c].page /\ ~clients[c].timer
    /\ c = current => clients[c].st \in Living /\ clients[c].onclose
    /\ c = current /\ ~dirty => clients[c].id = listShown

\* A list is known to be stale only by a client that has been open and listens.
StaleIsKnown == stale /\ ~astray =>
    /\ current # 0 /\ clients[current].before /\ clients[current].sync
    /\ \/ clients[current].timer
       \/ "asked" \in fetches \/ "fresh" \in fetches
       \/ clients[current].st # "open"

RealtimeInv == RealtimeTypeOK /\ OldIsDead /\ StaleIsKnown

LEMMA NoSlotZero == 0 \notin Slots
  <1>1. Cardinality(Slots) \in Nat
    BY RealtimeAssumption, FS_CardinalityType
  <1> QED BY <1>1, RealtimeAssumption

LEMMA RealtimeStart == RealtimeInit => RealtimeInv
  <1> SUFFICES ASSUME RealtimeInit PROVE RealtimeInv
    OBVIOUS
  <1>1. NoClient \in Client
    BY DEF NoClient, Client
  <1>2. \A c \in Slots : clients[c] = NoClient /\ c # current
    BY NoSlotZero DEF RealtimeInit
  <1>3. OldIsDead
    BY <1>2 DEF OldIsDead, NoClient
  <1>4. RealtimeTypeOK /\ StaleIsKnown
    BY <1>1 DEF RealtimeInit, RealtimeTypeOK, StaleIsKnown
  <1> QED BY <1>3, <1>4 DEF RealtimeInv

-----------------------------------------------------------------------------
(* The provider replaces its client *)

LEMMA TornDownIsDead ==
  ASSUME RealtimeInv
  PROVE  /\ TornDown \in [Slots -> Client]
         /\ \A c \in Slots : /\ TornDown[c].st \in {"closing", "gone"} /\ ~TornDown[c].onclose
                             /\ ~TornDown[c].sync /\ ~TornDown[c].page /\ ~TornDown[c].timer
  <1>1. ASSUME NEW c \in Client
        PROVE  /\ Disconnected(c) \in Client /\ Disconnected(c).st \in {"closing", "gone"}
               /\ ~Disconnected(c).onclose /\ ~Disconnected(c).sync
               /\ ~Disconnected(c).page /\ ~Disconnected(c).timer
    BY DEF Disconnected, Client
  <1>2. CASE current = 0
    BY <1>2, NoSlotZero DEF RealtimeInv, RealtimeTypeOK, OldIsDead, TornDown
  <1>3. CASE current # 0
    <2>1. clients[current] \in Client /\ TornDown = [clients EXCEPT ![current] = Disconnected(clients[current])]
      BY <1>3 DEF RealtimeInv, RealtimeTypeOK, TornDown
    <2> QED BY <1>1, <2>1 DEF RealtimeInv, RealtimeTypeOK, OldIsDead
  <1> QED BY <1>2, <1>3

LEMMA RenderStep == ASSUME RealtimeInv, Render PROVE RealtimeInv'
  <1>1. /\ listShown \in Id \cup {NoId} /\ dirty' = FALSE /\ UNCHANGED <<listShown, stale, fetches>>
        /\ pageOpen' \in BOOLEAN /\ fetches \subseteq {"asked", "fresh", "old"} /\ stale \in BOOLEAN
        /\ astray' \in BOOLEAN /\ (stale => astray')
    BY DEF RealtimeInv, RealtimeTypeOK, Render, Loses
  <1>2. CASE listShown = NoId
    <2>1. clients' = TornDown /\ current' = 0
      BY <1>2 DEF Render
    <2> QED BY <1>1, <2>1, TornDownIsDead, NoSlotZero
            DEF RealtimeInv, RealtimeTypeOK, OldIsDead, StaleIsKnown
  <1>3. CASE listShown # NoId
    <2>1. PICK c \in Slots : /\ current' = c
                             /\ clients' = [TornDown EXCEPT ![c] = NewClient(listShown)]
      BY <1>3 DEF Render
    <2>2. NewClient(listShown) \in Client /\ NewClient(listShown).st = "connecting"
          /\ NewClient(listShown).onclose /\ NewClient(listShown).id = listShown
      BY <1>1 DEF NewClient, NoClient, Client
    <2>3. /\ clients' \in [Slots -> Client] /\ clients'[c] = NewClient(listShown)
          /\ \A d \in Slots \ {c} : clients'[d] = TornDown[d]
      BY <2>1, <2>2, TornDownIsDead
    <2> QED BY <1>1, <2>1, <2>2, <2>3, TornDownIsDead
            DEF RealtimeInv, RealtimeTypeOK, OldIsDead, StaleIsKnown, Living
  <1> QED BY <1>2, <1>3

-----------------------------------------------------------------------------
(* Every other step leaves the provider's client where it is *)

LEMMA FieldKeepsType ==
  ASSUME NEW f \in [Slots -> Client], NEW c \in Slots, NEW b \in BOOLEAN
  PROVE  /\ [f EXCEPT ![c].sync = b] \in [Slots -> Client]
         /\ [f EXCEPT ![c].page = b] \in [Slots -> Client]
         /\ [f EXCEPT ![c].timer = b] \in [Slots -> Client]
  BY DEF Client

\* The same field written in every client of a set.
LEMMA FieldOfAll ==
  ASSUME NEW f \in [Slots -> Client], NEW S, NEW b \in BOOLEAN
  PROVE  /\ [c \in Slots |-> [f[c] EXCEPT !.page = b]] \in [Slots -> Client]
         /\ [c \in Slots |-> IF c \in S THEN [f[c] EXCEPT !.timer = b] ELSE f[c]]
                \in [Slots -> Client]
  <1>1. \A x \in Client : [x EXCEPT !.page = b] \in Client /\ [x EXCEPT !.timer = b] \in Client
    BY DEF Client
  <1>2. \A c \in Slots : f[c] \in Client
    OBVIOUS
  <1> QED BY <1>1, <1>2

LEMMA ClientStep ==
  ASSUME RealtimeInv,
         SyncAttaches \/ PageSubscribes \/ PageUnmounts \/ SocketOpens \/ SocketCloses
         \/ ReconnectTimer \/ RefreshTimer
  PROVE  RealtimeInv'
  <1> USE NoSlotZero DEF RealtimeInv, RealtimeTypeOK, Client
  <1>1. UNCHANGED <<listShown, dirty, current, stale, astray>>
    BY DEF SyncAttaches, PageSubscribes, PageUnmounts, SocketOpens, SocketCloses, ReconnectTimer,
           RefreshTimer, listVars
  <1>2. CASE SyncAttaches
    <2>1. current # 0 /\ clients' = [clients EXCEPT ![current].sync = TRUE]
          /\ UNCHANGED <<pageOpen, fetches>>
      BY <1>2 DEF SyncAttaches, listVars
    <2>2. clients' \in [Slots -> Client]
      BY <2>1, FieldKeepsType
    <2> QED BY <1>1, <2>1, <2>2 DEF OldIsDead, StaleIsKnown
  <1>3. CASE PageSubscribes
    <2>1. clients' \in {clients, [clients EXCEPT ![current].page = TRUE]}
          /\ (clients' # clients => current # 0) /\ pageOpen' /\ UNCHANGED fetches
      BY <1>3 DEF PageSubscribes, listVars
    <2>2. clients' \in [Slots -> Client] /\ pageOpen' \in BOOLEAN
      BY <1>3, <2>1, FieldKeepsType DEF PageSubscribes
    <2> QED BY <1>1, <2>1, <2>2 DEF OldIsDead, StaleIsKnown
  <1>4. CASE PageUnmounts
    <2>1. clients' = [c \in Slots |-> [clients[c] EXCEPT !.page = FALSE]]
          /\ UNCHANGED fetches /\ pageOpen' \in BOOLEAN
      BY <1>4 DEF PageUnmounts, listVars
    <2>2. clients' \in [Slots -> Client]
      <3>1. clients \in [Slots -> Client] /\ FALSE \in BOOLEAN
        OBVIOUS
      <3> HIDE DEF Client, RealtimeInv, RealtimeTypeOK
      <3> QED BY <2>1, <3>1, FieldOfAll
    <2> QED BY <1>1, <2>1, <2>2 DEF OldIsDead, StaleIsKnown
  <1>5. CASE SocketOpens
    BY <1>1, <1>5 DEF SocketOpens, Refetch, OldIsDead, StaleIsKnown, Living
  <1>6. CASE SocketCloses
    BY <1>1, <1>6 DEF SocketCloses, listVars, OldIsDead, StaleIsKnown, Living
  <1>7. CASE ReconnectTimer
    BY <1>1, <1>7 DEF ReconnectTimer, listVars, OldIsDead, StaleIsKnown, Living
  <1>8. CASE RefreshTimer
    <2>1. PICK c \in Slots : /\ clients[c].timer
                             /\ clients' = [clients EXCEPT ![c].timer = FALSE]
                             /\ fetches' = fetches \cup {"asked"} /\ UNCHANGED pageOpen
      BY <1>8 DEF RefreshTimer
    <2>2. clients' \in [Slots -> Client]
      BY <2>1, FieldKeepsType
    <2> QED BY <1>1, <2>1, <2>2 DEF OldIsDead, StaleIsKnown
  <1> QED BY <1>2, <1>3, <1>4, <1>5, <1>6, <1>7, <1>8

LEMMA ListStep ==
  ASSUME RealtimeInv, IdentityChanges \/ ListChanges \/ ListAnswers \/ ListLands \/ ListFails
  PROVE  RealtimeInv'
  <1> USE NoSlotZero DEF RealtimeInv, RealtimeTypeOK
  <1>1. CASE IdentityChanges
    BY <1>1 DEF IdentityChanges, socketVars, listVars, OldIsDead, StaleIsKnown
  <1>2. CASE ListChanges
    <2>1. /\ clients' \in [Slots -> Client]
          /\ \A c \in Slots : clients'[c] = IF clients[c].st = "open" /\ clients[c].sync
                                           THEN [clients[c] EXCEPT !.timer = TRUE] ELSE clients[c]
      <3> DEFINE Hearing == {c \in Slots : clients[c].st = "open" /\ clients[c].sync}
      <3>1. clients' = [c \in Slots |-> IF c \in Hearing
                                        THEN [clients[c] EXCEPT !.timer = TRUE] ELSE clients[c]]
        BY <1>2 DEF ListChanges
      <3>2. clients \in [Slots -> Client] /\ TRUE \in BOOLEAN
        OBVIOUS
      <3>3. clients' \in [Slots -> Client]
        BY ONLY <3>1, <3>2, FieldOfAll
      <3> QED BY <1>2, <3>3 DEF ListChanges
    <2>2. UNCHANGED <<listShown, dirty, current, pageOpen>> /\ stale' /\ astray' \in BOOLEAN
          /\ (~astray' => current # 0 /\ clients[current].before /\ clients[current].sync)
          /\ fetches' \subseteq {"asked", "fresh", "old"}
      BY <1>2 DEF ListChanges, Loses
    <2>3. OldIsDead'
      BY <2>1, <2>2 DEF OldIsDead, Client
    <2>4. StaleIsKnown'
      BY <2>1, <2>2 DEF StaleIsKnown, Client
    <2>5. stale' \in BOOLEAN
      BY <1>2 DEF ListChanges
    <2> QED BY <2>1, <2>2, <2>3, <2>4, <2>5
  <1>3. CASE ListAnswers
    BY <1>3 DEF ListAnswers, socketVars, OldIsDead, StaleIsKnown
  <1>4. CASE ListLands
    BY <1>4 DEF ListLands, Loses, socketVars, OldIsDead, StaleIsKnown
  <1>5. CASE ListFails
    BY <1>5 DEF ListFails, Loses, socketVars, OldIsDead, StaleIsKnown
  <1> QED BY <1>1, <1>2, <1>3, <1>4, <1>5

LEMMA RealtimeStep == RealtimeInv /\ [RealtimeNext]_realtimeVars => RealtimeInv'
  <1>1. ASSUME RealtimeInv, UNCHANGED realtimeVars PROVE RealtimeInv'
    BY <1>1 DEF realtimeVars, socketVars, listVars, RealtimeInv, RealtimeTypeOK, OldIsDead, StaleIsKnown
  <1> QED BY <1>1, RenderStep, ClientStep, ListStep DEF RealtimeNext

-----------------------------------------------------------------------------
(* Theorems *)

\* The inductive invariant: types, old clients are dead, stale lists are known.
THEOREM RealtimeInvariant == RealtimeSpec => []RealtimeInv
  BY RealtimeStart, RealtimeStep, PTL DEF RealtimeSpec

\* The provider and WSClient: across sign-ins, switches, reconnect timers and
\* late closes one socket at most lives, and it is that of the identity shown.
THEOREM RealtimeOneSocket == RealtimeSpec => []OneSocket
  <1>1. RealtimeInv => OneSocket
    BY DEF RealtimeInv, OldIsDead, OneSocket, Living
  <1> QED BY <1>1, RealtimeInvariant, PTL

\* useRealtimeSync: what a client misses while its socket is down is fetched
\* again, but for the four ways to lose it that Loses names.
THEOREM RealtimeRecovers == RealtimeSpec => []RecoversMissed
  <1>1. RealtimeInv => RecoversMissed
    BY DEF RealtimeInv, StaleIsKnown, RecoversMissed
  <1> QED BY <1>1, RealtimeInvariant, PTL

-------------------------------------------------------------------------------
(***************************************************************************)
(* The session: what is asked is for the workspace shown.                   *)
(***************************************************************************)

SessionInv == SessionTypeOK /\ RequestsAreOfShown

LEMMA AskForTyped == \A op \in Op, w \in MaybeWs : AskFor(op, w) \in SessionRequest
  <1>1. NoList \in (SUBSET Ws) \cup {NoList}
    OBVIOUS
  <1>2. ASSUME NEW op \in Op, NEW w \in MaybeWs, NEW l \in (SUBSET Ws) \cup {NoList}
        PROVE  [op |-> op, at |-> w, list |-> l] \in SessionRequest
    BY DEF SessionRequest
  <1> QED BY <1>1, <1>2 DEF AskFor

LEMMA OpsAre == /\ \A op \in {"init", "refresh", "loginList", "leftList", "hydrate", "people", "items",
                              "login", "leave"} : op \in Op
                /\ NoWs \in MaybeWs /\ \A w \in Ws : w \in MaybeWs /\ w # NoWs
  BY SessionAssumption DEF Op, ListOps, DataOps, MaybeWs

LEMMA BootTyped ==
  ASSUME NEW s \in [token : BOOLEAN, ws : MaybeWs]
  PROVE  LET b == Boot(s) IN
         /\ b.user \in BOOLEAN /\ b.loading \in BOOLEAN /\ b.stored = s /\ b.header = s
         /\ b.pending \subseteq SessionRequest
  <1>1. s.token \in BOOLEAN /\ s.ws \in MaybeWs
    OBVIOUS
  <1>2. AskFor("init", s.ws) \in SessionRequest
    BY <1>1, AskForTyped, OpsAre
  <1> QED BY <1>1, <1>2 DEF Boot

LEMMA SessionStart == SessionInit => SessionInv
  <1> SUFFICES ASSUME SessionInit PROVE SessionInv
    OBVIOUS
  <1>1. PICK t \in BOOLEAN, w \in MaybeWs :
       LET b == Boot([token |-> t, ws |-> w]) IN
       /\ user = b.user /\ loading = b.loading
       /\ stored = b.stored /\ header = b.header /\ pending = b.pending
    BY DEF SessionInit
  <1> PICK s : s = [token |-> t, ws |-> w]
    OBVIOUS
  <1>2. s \in [token : BOOLEAN, ws : MaybeWs]
    OBVIOUS
  <1>3. /\ user \in BOOLEAN /\ loading \in BOOLEAN /\ stored = s /\ header = s
        /\ pending \subseteq SessionRequest
    BY <1>1, <1>2, BootTyped
  <1>4. /\ shown = NoWs /\ listed = {} /\ memberOf \subseteq Ws
        /\ data \in [people : MaybeWs, items : MaybeWs]
    BY OpsAre DEF SessionInit
  <1> QED BY <1>2, <1>3, <1>4, OpsAre DEF SessionInv, SessionTypeOK, RequestsAreOfShown

\* The token and the workspace are kept in both places at once.
LEMMA Keeps ==
  ASSUME SessionInv, NEW w \in MaybeWs, KeepToken(w)
  PROVE  /\ stored' \in [token : BOOLEAN, ws : MaybeWs] /\ stored' = header' /\ header'.ws = w
  BY DEF SessionInv, SessionTypeOK, RequestsAreOfShown, KeepToken

LEMMA SetsIdentity ==
  ASSUME SetIdentity(FALSE, NoWs)
  PROVE  /\ stored' \in [token : BOOLEAN, ws : MaybeWs] /\ stored' = header' /\ header'.ws = NoWs
  BY OpsAre DEF SetIdentity

LEMMA Hydrates ==
  ASSUME SessionInv, NEW r \in pending, r.list # NoList, NEW p \in MaybeWs,
         HydrateWorkspace(r, r.list, p)
  PROVE  /\ stored' \in [token : BOOLEAN, ws : MaybeWs] /\ stored' = header'
         /\ shown' # NoWs => header'.ws = shown'
         /\ shown' \in MaybeWs /\ listed' \subseteq Ws
         /\ data' \in [people : MaybeWs, items : MaybeWs]
         /\ pending' \subseteq SessionRequest
  <1>1. r \in SessionRequest /\ r.list \subseteq Ws
    <2>1. r \in SessionRequest
      BY DEF SessionInv, SessionTypeOK
    <2>2. r.list \in (SUBSET Ws) \cup {NoList}
      BY <2>1 DEF SessionRequest
    <2>3. r.list \in SUBSET Ws
      BY <2>2
    <2> QED BY <2>1, <2>3
  <1>2. CASE r.list = {}
    <2>1. KeepToken(NoWs) /\ shown' = NoWs /\ data' = [data EXCEPT !.people = NoWs] /\ pending' = pending \ {r}
      BY <1>2 DEF HydrateWorkspace, Resumes
    <2>2. listed' = r.list
      BY DEF HydrateWorkspace
    <2> QED BY <1>1, <2>1, <2>2, Keeps, OpsAre DEF SessionInv, SessionTypeOK
  <1>3. CASE r.list # {}
    <2>1. PICK w \in IF p \in r.list THEN {p} ELSE r.list :
          /\ KeepToken(w) /\ shown' = w
          /\ pending' = (pending \ {r}) \cup {AskFor("hydrate", w)}
          /\ UNCHANGED data
      BY <1>3 DEF HydrateWorkspace, Resumes
    <2>2. w \in Ws /\ w \in MaybeWs
      BY <1>1, <2>1 DEF MaybeWs
    <2>3. AskFor("hydrate", w) \in SessionRequest
      BY <2>2, AskForTyped, OpsAre
    <2>4. listed' = r.list
      BY DEF HydrateWorkspace
    <2>5. data' \in [people : MaybeWs, items : MaybeWs] /\ pending' \subseteq SessionRequest
      BY <2>1, <2>3 DEF SessionInv, SessionTypeOK
    <2> QED BY <1>1, <2>1, <2>2, <2>4, <2>5, Keeps
  <1> QED BY <1>2, <1>3

\* A step that leaves the identity, and what is shown of it, alone.
LEMMA SameIdentity ==
  ASSUME SessionInv, UNCHANGED <<stored, header, shown>>, user' \in BOOLEAN, loading' \in BOOLEAN,
         listed' \subseteq Ws, memberOf' \subseteq Ws, data' \in [people : MaybeWs, items : MaybeWs],
         pending' \subseteq SessionRequest
  PROVE  SessionInv'
  BY DEF SessionInv, SessionTypeOK, RequestsAreOfShown

LEMMA NewIdentity ==
  ASSUME SessionInv, user' \in BOOLEAN, loading' \in BOOLEAN,
         stored' \in [token : BOOLEAN, ws : MaybeWs], stored' = header',
         shown' # NoWs => header'.ws \in {NoWs, shown'},
         shown' \in MaybeWs, listed' \subseteq Ws, memberOf' \subseteq Ws,
         data' \in [people : MaybeWs, items : MaybeWs],
         pending' \subseteq SessionRequest
  PROVE  SessionInv'
  BY DEF SessionInv, SessionTypeOK, RequestsAreOfShown

LEMMA HydratingSteps ==
  ASSUME SessionInv, InitSucceeds \/ LoginHydrates \/ RefreshHydrates \/ LeftHydrates
  PROVE  SessionInv'
  <1>1. PICK r \in pending, p \in MaybeWs : r.list # NoList /\ HydrateWorkspace(r, r.list, p)
    <2>1. \A r \in pending : r.at \in MaybeWs
      BY DEF SessionInv, SessionTypeOK, SessionRequest
    <2> QED BY <2>1, OpsAre DEF InitSucceeds, LoginHydrates, RefreshHydrates, LeftHydrates, SessionAnswered
  <1>2. user' \in BOOLEAN /\ loading' \in BOOLEAN /\ memberOf' \subseteq Ws
    BY DEF InitSucceeds, LoginHydrates, RefreshHydrates, LeftHydrates, SessionInv, SessionTypeOK
  <1> QED BY <1>1, <1>2, Hydrates, NewIdentity

\* The sign-in ends: a failed start, a logout, an answer 401.
LEMMA LeavingSteps ==
  ASSUME SessionInv, InitFails \/ Logout \/ Unauthorized
  PROVE  SessionInv'
  <1>1. CASE InitFails
    <2>1. SetIdentity(FALSE, NoWs) /\ user' \in BOOLEAN /\ loading' \in BOOLEAN /\ pending' \subseteq pending
          /\ UNCHANGED <<shown, listed, data, memberOf>>
      BY <1>1 DEF InitFails, Resumes, storeVars
    <2> QED BY <2>1, SetsIdentity, NewIdentity DEF SessionInv, SessionTypeOK
  <1>2. CASE Logout
    <2>1. SetIdentity(FALSE, NoWs) /\ user' \in BOOLEAN /\ shown' = NoWs /\ listed' = {}
          /\ data' = [data EXCEPT !.people = NoWs] /\ UNCHANGED <<loading, pending, memberOf>>
      BY <1>2 DEF Logout
    <2>2. data' \in [people : MaybeWs, items : MaybeWs] /\ loading' \in BOOLEAN
          /\ pending' \subseteq SessionRequest /\ memberOf' \subseteq Ws
      BY <2>1, OpsAre DEF SessionInv, SessionTypeOK
    <2> QED BY <2>1, <2>2, SetsIdentity, NewIdentity, OpsAre
  <1>3. CASE Unauthorized
    <2> PICK t \in BOOLEAN : t = FALSE
      OBVIOUS
    <2> PICK s : s = [token |-> t, ws |-> NoWs]
      OBVIOUS
    <2>1. s \in [token : BOOLEAN, ws : MaybeWs] /\ s.ws = NoWs
      BY OpsAre
    <2>2. /\ user' = Boot(s).user /\ loading' = Boot(s).loading
          /\ stored' = Boot(s).stored /\ header' = Boot(s).header /\ pending' = Boot(s).pending
          /\ shown' = NoWs /\ listed' = {} /\ data' = [people |-> NoWs, items |-> NoWs]
          /\ memberOf' = memberOf
      BY <1>3 DEF Unauthorized
    <2>3. /\ user' \in BOOLEAN /\ loading' \in BOOLEAN /\ stored' = s /\ header' = s
          /\ pending' \subseteq SessionRequest
      BY <2>1, <2>2, BootTyped
    <2>4. data' \in [people : MaybeWs, items : MaybeWs] /\ memberOf' \subseteq Ws
      BY <2>2, OpsAre DEF SessionInv, SessionTypeOK
    <2> QED BY <2>1, <2>2, <2>3, <2>4, NewIdentity, OpsAre
  <1> QED BY <1>1, <1>2, <1>3

LEMMA SwitchingSteps ==
  ASSUME SessionInv, SwitchWorkspace \/ CreateWorkspace
  PROVE  SessionInv'
  <1>1. PICK w \in Ws : /\ SwitchTo(w) /\ pending' = pending \cup {AskFor("hydrate", w)}
                        /\ UNCHANGED <<user, loading>>
                        /\ listed' \subseteq listed \cup {w} /\ memberOf' \subseteq memberOf \cup {w}
    BY DEF SwitchWorkspace, CreateWorkspace, Sent, SessionInv, SessionTypeOK
  <1>2. AskFor("hydrate", w) \in SessionRequest /\ w \in MaybeWs
    BY AskForTyped, OpsAre
  <1>3. KeepToken(w) /\ shown' = w /\ data' = [people |-> NoWs, items |-> NoWs]
    BY <1>1 DEF SwitchTo
  <1>4. /\ data' \in [people : MaybeWs, items : MaybeWs] /\ pending' \subseteq SessionRequest
        /\ listed' \subseteq Ws /\ memberOf' \subseteq Ws /\ user' \in BOOLEAN /\ loading' \in BOOLEAN
    BY <1>1, <1>2, <1>3, OpsAre DEF SessionInv, SessionTypeOK
  <1> QED BY <1>2, <1>3, <1>4, Keeps, NewIdentity

\* Requests go out, are answered, and land without a change of the workspace.
LEMMA QuietSteps ==
  ASSUME SessionInv, \/ WorkspacesAnswered \/ VerifyCode \/ MembershipChanges \/ LeaveWorkspace
                     \/ Left \/ Refresh \/ DataLands \/ RequestFails
  PROVE  SessionInv'
  <1>1. /\ \A r \in pending : r \in SessionRequest /\ r.at \in MaybeWs
        /\ shown \in MaybeWs /\ stored.ws \in MaybeWs /\ header.ws \in MaybeWs
    BY DEF SessionInv, SessionTypeOK, SessionRequest
  <1>2. UNCHANGED <<user, loading, stored, header, shown, listed>>
    BY DEF WorkspacesAnswered, VerifyCode, MembershipChanges, LeaveWorkspace, Left, Refresh, DataLands,
           RequestFails, authVars, storeVars
  <1>3. pending' \subseteq SessionRequest
    <2>1. CASE WorkspacesAnswered
      <3>1. PICK r \in pending : pending' = (pending \ {r}) \cup {[r EXCEPT !.list = memberOf]}
        BY <2>1 DEF WorkspacesAnswered
      <3>2. [r EXCEPT !.list = memberOf] \in SessionRequest
        BY <1>1 DEF SessionInv, SessionTypeOK, SessionRequest
      <3> QED BY <1>1, <3>1, <3>2
    <2>2. CASE ~WorkspacesAnswered
      <3>1. \E op \in Op, w \in MaybeWs : pending' \subseteq pending \cup {AskFor(op, w)}
        BY <1>1, <2>2, OpsAre DEF VerifyCode, MembershipChanges, LeaveWorkspace, Left, Refresh, DataLands,
           RequestFails, Sent, Resumes
      <3> QED BY <1>1, <3>1, AskForTyped
    <2> QED BY <2>1, <2>2
  <1>4. memberOf' \subseteq Ws
    BY DEF WorkspacesAnswered, VerifyCode, MembershipChanges, LeaveWorkspace, Left, Refresh, DataLands,
           RequestFails, SessionInv, SessionTypeOK
  <1>5. data' \in [people : MaybeWs, items : MaybeWs]
    BY <1>1 DEF WorkspacesAnswered, VerifyCode, MembershipChanges, LeaveWorkspace, Left, Refresh, DataLands,
           RequestFails, storeVars, SessionInv, SessionTypeOK
  <1>6. user' \in BOOLEAN /\ loading' \in BOOLEAN /\ listed' \subseteq Ws
    BY <1>2 DEF SessionInv, SessionTypeOK
  <1> QED BY <1>2, <1>3, <1>4, <1>5, <1>6, SameIdentity

LEMMA VerifiedStep == ASSUME SessionInv, CodeVerified PROVE SessionInv'
  <1>1. PICK r \in pending :
    /\ stored' = [stored EXCEPT !.token = TRUE]
    /\ header' = [header EXCEPT !.token = TRUE]
    /\ user' = TRUE
    /\ pending' = (pending \ {r}) \cup {AskFor("loginList", NoWs)}
    /\ UNCHANGED <<loading, shown, listed, data, memberOf>>
    BY DEF CodeVerified, Resumes, storeVars
  <1>2. AskFor("loginList", NoWs) \in SessionRequest
    BY AskForTyped, OpsAre
  <1>3. stored' \in [token : BOOLEAN, ws : MaybeWs] /\ stored' = header' /\ header'.ws = header.ws
    BY <1>1 DEF SessionInv, SessionTypeOK, RequestsAreOfShown
  <1>4. pending' \subseteq SessionRequest /\ user' \in BOOLEAN
    BY <1>1, <1>2 DEF SessionInv, SessionTypeOK
  <1> QED BY <1>1, <1>3, <1>4, NewIdentity DEF SessionInv, SessionTypeOK, RequestsAreOfShown

LEMMA SessionStep == SessionInv /\ [SessionNext]_sessionVars => SessionInv'
  <1> SUFFICES ASSUME SessionInv, [SessionNext]_sessionVars PROVE SessionInv'
    OBVIOUS
  <1>1. CASE UNCHANGED sessionVars
    BY <1>1 DEF sessionVars, authVars, storeVars, SessionInv, SessionTypeOK, RequestsAreOfShown
  <1> QED BY <1>1, HydratingSteps, LeavingSteps, SwitchingSteps, QuietSteps, VerifiedStep DEF SessionNext

\* The auth and workspace stores: across sign-ins, hydration, switches, deletions
\* and late answers, no request goes out for a workspace other than the shown one.
THEOREM SessionOfShown == SessionSpec => [](SessionTypeOK /\ RequestsAreOfShown)
  <1>1. SessionInv => SessionTypeOK /\ RequestsAreOfShown
    BY DEF SessionInv
  <1> QED BY <1>1, SessionStart, SessionStep, PTL DEF SessionSpec



-------------------------------------------------------------------------------
(***************************************************************************)
(* The card follows the task that runs.                                     *)
(***************************************************************************)

CardEvent   == {e \in [kind : {"dispatch", "message", "ended"}, task : 1..MaxTasks, seq : 0..MaxSeq] :
                  e.kind # "message" => e.seq = 0}
CardRequest == [op : {"mount", "dispatch", "list", "history", "cancel"}, task : 0..MaxTasks,
                st : {"sent", "done", "failed"}, got : 0..MaxTasks, list : SUBSET Msg]
CardTyped ==
    /\ task \in 0..MaxTasks /\ written \subseteq Msg
    /\ cardWire \in Seq(CardEvent) /\ cardCalls \subseteq CardRequest
    /\ activeTask \in 0..MaxTasks /\ cardRows \in Seq(Msg) /\ seenSeqs \subseteq Msg
    /\ history \in 0..MaxTasks
    /\ running \in BOOLEAN /\ cancelling \in BOOLEAN /\ cardHears \in BOOLEAN /\ cardStrayed \in BOOLEAN
    /\ running => task # 0

OnCard == {cardRows[k] : k \in DOMAIN cardRows}
\* The number of a message.
NumberOf(m) == m[2]
InOrder(s) == \A j, k \in DOMAIN s : j < k => s[j] # s[k] /\ NumberOf(s[j]) <= NumberOf(s[k])

\* An event on its way.
OnWire(kind, t) == \E k \in DOMAIN cardWire : cardWire[k].kind = kind /\ cardWire[k].task = t
MessageOnWire(m) == \E k \in DOMAIN cardWire : <<cardWire[k].task, cardWire[k].seq>> = m

\* The start of the task that runs is behind every end on its way; a message
\* on its way is stored.
WireTrue ==
    /\ \A k \in DOMAIN cardWire : cardWire[k].kind = "ended" /\ running =>
         \E l \in DOMAIN cardWire : k < l /\ cardWire[l].kind = "dispatch" /\ cardWire[l].task = task
    /\ \A k \in DOMAIN cardWire : cardWire[k].kind = "message" => <<cardWire[k].task, cardWire[k].seq>> \in written
    /\ cardHears \/ (cardWire = <<>> /\ cardStrayed)

\* A request whose answer will show the task that runs, or whose failure strays.
Brings(c) == c.op \in {"mount", "dispatch"} /\ (c.st # "done" \/ c.got = task)
\* A request whose answer will list the ended tasks.
Tells(c) == c.op = "history" /\ (c.st # "done" \/ c.got = EndedTasks)
Lists1(c) == c.op = "list" /\ c.task = activeTask

RowsTrue ==
    /\ OnCard \subseteq OfTask(written, activeTask)
    /\ \A m \in OfTask(written, activeTask) : m \in OnCard \/ MessageOnWire(m)

ActiveTrue ==
    /\ activeTask # 0 => EndComes(activeTask)
    /\ running /\ activeTask # task => OnWire("dispatch", task) \/ \E c \in cardCalls : Brings(c)
HistoryTrue == history = EndedTasks \/ (\E t \in 1..MaxTasks : OnWire("ended", t)) \/ \E c \in cardCalls : Tells(c)
ShownTrue ==
    /\ seenSeqs = OnCard
    /\ activeTask # 0 => RowsTrue \/ \E c \in cardCalls : Lists1(c)
    /\ \A c \in cardCalls : c.op = "list" /\ c.st = "done" => c.list \subseteq OfTask(written, c.task)
    /\ activeTask # 0 => \A c \in cardCalls : Lists1(c) /\ c.st = "done" =>
         \A m \in OfTask(written, activeTask) : m \in c.list \/ m \in seenSeqs \/ MessageOnWire(m)
    /\ \A c, d \in cardCalls : c.op \in {"mount", "list"} /\ d.op \in {"mount", "list"} => c = d

CardInv ==
    /\ CardTyped /\ InOrder(cardRows) /\ OnCard \subseteq seenSeqs /\ WireTrue
    /\ ~cardStrayed => ActiveTrue /\ HistoryTrue /\ ShownTrue

-----------------------------------------------------------------------------
(* The items in their order.                                                *)

LEMMA MsgFields ==
  /\ IsFiniteSet(Msg)
  /\ \A m \in Msg : /\ m[1] \in 1..MaxTasks /\ m[2] \in 1..MaxSeq /\ m = <<m[1], m[2]>>
                    /\ m[1] \in Int /\ m[2] \in Int /\ NumberOf(m) = m[2] /\ NumberOf(m) \in Int
  /\ \A t \in 1..MaxTasks, n \in 1..MaxSeq : <<t, n>> \in Msg
  /\ MaxTasks \in Nat /\ MaxSeq \in Nat /\ 0 \in 0..MaxTasks /\ 0 \in 0..MaxSeq
  <1>1. MaxTasks \in Nat /\ MaxSeq \in Nat
    BY CardAssumption
  <1>2. IsFiniteSet(1..MaxTasks) /\ IsFiniteSet(1..MaxSeq)
    BY <1>1, FS_Interval
  <1>3. IsFiniteSet(Msg)
    BY <1>2, FS_Product DEF Msg
  <1> QED BY <1>1, <1>3 DEF Msg, NumberOf

\* What filter gives of a row.
FilteredBy(q, s, T) ==
    /\ q \in Seq(Msg) /\ InOrder(q)
    /\ \A x : (\E k \in DOMAIN q : q[k] = x) <=> (x \in T /\ \E k \in DOMAIN s : s[k] = x)

LEMMA OrderKept ==
  ASSUME NEW s \in Seq(Msg), InOrder(s), NEW T
  PROVE  FilteredBy(Only(s, T), s, T)
  <1>1. /\ Only(s, T) \in Seq(Msg)
        /\ \A x : (\E k \in DOMAIN Only(s, T) : Only(s, T)[k] = x) <=> (x \in T /\ \E k \in DOMAIN s : s[k] = x)
    BY OnlyFacts
  <1>2. \E n \in Nat : \E f : TakenAt(Only(s, T), s, T, n, f)
    BY OnlyPlaces
  <1> PICK q : q = Only(s, T)
    OBVIOUS
  <1> PICK n \in Nat : \E f : TakenAt(q, s, T, n, f)
    BY <1>2
  <1> PICK f : TakenAt(q, s, T, n, f)
    OBVIOUS
  <1>3. /\ f \in [1..n -> 1..Len(s)] /\ Len(q) = n /\ q \in Seq(Msg)
        /\ \A j, k \in 1..n : j < k => f[j] < f[k]
        /\ \A k \in 1..n : q[k] = s[f[k]]
    BY <1>1 DEF TakenAt
  <1>4. /\ DOMAIN q = 1..n /\ \A k \in 1..n : f[k] \in DOMAIN s /\ q[k] = s[f[k]]
        /\ \A j, k \in 1..n : j < k => f[j] < f[k]
    BY <1>3
  <1>5. InOrder(q)
    BY <1>4 DEF InOrder
  <1> QED BY <1>1, <1>5 DEF FilteredBy

LEMMA Spliced ==
  ASSUME NEW b \in Seq(Msg), NEW a \in Seq(Msg), InOrder(b), InOrder(a), NEW m \in Msg,
         \A k \in DOMAIN b : NumberOf(b[k]) <= NumberOf(m) /\ b[k] # m,
         \A k \in DOMAIN a : NumberOf(a[k]) > NumberOf(m)
  PROVE  /\ b \o <<m>> \o a \in Seq(Msg) /\ InOrder(b \o <<m>> \o a)
         /\ \A x : (\E k \in DOMAIN (b \o <<m>> \o a) : (b \o <<m>> \o a)[k] = x)
              <=> (x = m \/ (\E k \in DOMAIN b : b[k] = x) \/ \E k \in DOMAIN a : a[k] = x)
  <1> PICK c : c = b \o <<m>>
    OBVIOUS
  <1> PICK r : r = c \o a
    OBVIOUS
  <1> PICK n : n = Len(b)
    OBVIOUS
  <1> PICK o : o = Len(a)
    OBVIOUS
  <1>1. n \in Nat /\ o \in Nat /\ DOMAIN b = 1..n /\ DOMAIN a = 1..o
    OBVIOUS
  <1>2. c \in Seq(Msg) /\ Len(c) = n + 1 /\ DOMAIN c = 1..(n + 1)
    OBVIOUS
  <1>3. (\A k \in 1..n : c[k] = b[k]) /\ c[n + 1] = m
    BY <1>1
  <1>4. r \in Seq(Msg) /\ Len(r) = n + 1 + o /\ DOMAIN r = 1..(n + 1 + o)
    BY <1>2
  <1>5. (\A k \in 1..(n + 1) : r[k] = c[k]) /\ (\A k \in 1..o : r[n + 1 + k] = a[k])
    BY <1>1, <1>2
  <1>6. (\A k \in 1..n : r[k] = b[k]) /\ r[n + 1] = m
    BY <1>1, <1>3, <1>5
  <1>7. ASSUME NEW k \in 1..(n + 1 + o)
        PROVE  k \in 1..n \/ k = n + 1 \/ (k > n + 1 /\ k - n - 1 \in 1..o /\ r[k] = a[k - n - 1])
    <2>1. ASSUME k > n + 1 PROVE k - n - 1 \in 1..o /\ r[k] = a[k - n - 1]
      <3>1. k - n - 1 \in 1..o /\ n + 1 + (k - n - 1) = k
        BY <1>1, <2>1
      <3> QED BY <1>5, <3>1
    <2>2. k \in 1..n \/ k = n + 1 \/ k > n + 1
      BY <1>1
    <2> QED BY <2>1, <2>2
  <1>8. /\ NumberOf(m) \in Int /\ (\A i \in 1..n : NumberOf(b[i]) \in Int)
        /\ \A i \in 1..o : NumberOf(a[i]) \in Int
    BY <1>1, MsgFields
  <1>9. ASSUME NEW j \in 1..(n + 1 + o), NEW k \in 1..(n + 1 + o), j < k
        PROVE  r[j] # r[k] /\ NumberOf(r[j]) <= NumberOf(r[k])
    <2>1. CASE k \in 1..n
      <3>1. j \in 1..n
        BY <1>1, <1>9, <2>1
      <3>2. r[j] = b[j] /\ r[k] = b[k] /\ j \in DOMAIN b /\ k \in DOMAIN b
        BY <1>1, <1>6, <2>1, <3>1
      <3> QED BY <1>9, <3>2 DEF InOrder
    <2>2. CASE k = n + 1
      <3>1. j \in 1..n
        BY <1>1, <1>9, <2>2
      <3>2. r[j] = b[j] /\ r[k] = m /\ j \in DOMAIN b
        BY <1>1, <1>6, <2>2, <3>1
      <3> QED BY <3>2
    <2>3. CASE k > n + 1 /\ k - n - 1 \in 1..o /\ r[k] = a[k - n - 1]
      <3>1. r[k] = a[k - n - 1] /\ k - n - 1 \in DOMAIN a /\ NumberOf(r[k]) > NumberOf(m) /\ NumberOf(r[k]) \in Int
        BY <1>1, <1>8, <2>3
      <3>2. CASE j \in 1..n
        <4>1. r[j] = b[j] /\ NumberOf(r[j]) <= NumberOf(m) /\ NumberOf(r[j]) \in Int
          BY <1>1, <1>6, <1>8, <3>2
        <4>2. NumberOf(r[j]) < NumberOf(r[k])
          BY <1>8, <3>1, <4>1
        <4> QED BY <3>1, <4>1, <4>2
      <3>3. CASE j = n + 1
        <4>1. r[j] = m
          BY <1>6, <3>3
        <4> QED BY <1>8, <3>1, <4>1
      <3>4. CASE j > n + 1 /\ j - n - 1 \in 1..o /\ r[j] = a[j - n - 1]
        <4>1. j - n - 1 < k - n - 1
          BY <1>1, <1>9
        <4>2. j - n - 1 \in DOMAIN a
          BY <1>1, <3>4
        <4> QED BY <3>1, <3>4, <4>1, <4>2 DEF InOrder
      <3> QED BY <1>7, <3>2, <3>3, <3>4
    <2> QED BY <1>7, <2>1, <2>2, <2>3
  <1>10. InOrder(r)
    BY <1>4, <1>9 DEF InOrder
  <1>11. ASSUME NEW x
         PROVE  (\E k \in DOMAIN r : r[k] = x) <=> (x = m \/ (\E k \in DOMAIN b : b[k] = x) \/ \E k \in DOMAIN a : a[k] = x)
    <2>1. ASSUME NEW k \in DOMAIN r, r[k] = x
          PROVE  x = m \/ (\E i \in DOMAIN b : b[i] = x) \/ \E i \in DOMAIN a : a[i] = x
      BY <1>1, <1>4, <1>6, <1>7, <2>1
    <2>2. ASSUME NEW k \in DOMAIN b, b[k] = x PROVE \E j \in DOMAIN r : r[j] = x
      <3>1. k \in DOMAIN r /\ r[k] = x
        BY <1>1, <1>4, <1>6, <2>2
      <3> QED BY <3>1
    <2>3. ASSUME NEW k \in DOMAIN a, a[k] = x PROVE \E j \in DOMAIN r : r[j] = x
      <3>1. n + 1 + k \in DOMAIN r
        BY <1>1, <1>4
      <3>2. r[n + 1 + k] = x
        BY <1>1, <1>5, <2>3
      <3> QED BY <3>1, <3>2
    <2>4. n + 1 \in DOMAIN r /\ r[n + 1] = m
      BY <1>1, <1>4, <1>6
    <2> QED BY <2>1, <2>2, <2>3, <2>4
  <1> QED BY <1>4, <1>10, <1>11

LEMMA InsertedPlace ==
  ASSUME NEW s \in Seq(Msg), InOrder(s), NEW m \in Msg, \A k \in DOMAIN s : s[k] # m
  PROVE  /\ Inserted(s, m) \in Seq(Msg) /\ InOrder(Inserted(s, m))
         /\ \A x : (\E k \in DOMAIN Inserted(s, m) : Inserted(s, m)[k] = x) <=> (x = m \/ \E k \in DOMAIN s : s[k] = x)
  <1> DEFINE T == {x \in Msg : NumberOf(x) <= NumberOf(m)}
             U == {x \in Msg : NumberOf(x) > NumberOf(m)}
  <1>1. \A x \in Msg : (x \in T <=> NumberOf(x) <= NumberOf(m)) /\ (x \in U <=> NumberOf(x) > NumberOf(m))
    OBVIOUS
  <1>2. \A x \in Msg : x \in T \/ x \in U
    BY <1>1, MsgFields
  <1>3. \A x : x \in T \/ x \in U => x \in Msg
    OBVIOUS
  <1>4. Inserted(s, m) = Only(s, T) \o <<m>> \o Only(s, U)
    BY DEF Inserted, NumberOf
  <1> HIDE DEF T, U
  <1>5. FilteredBy(Only(s, T), s, T) /\ FilteredBy(Only(s, U), s, U)
    BY OrderKept
  <1> PICK b : b = Only(s, T)
    OBVIOUS
  <1> PICK a : a = Only(s, U)
    OBVIOUS
  <1>6. /\ b \in Seq(Msg) /\ InOrder(b)
        /\ \A x : (\E k \in DOMAIN b : b[k] = x) <=> (x \in T /\ \E k \in DOMAIN s : s[k] = x)
    BY <1>5 DEF FilteredBy
  <1>7. /\ a \in Seq(Msg) /\ InOrder(a)
        /\ \A x : (\E k \in DOMAIN a : a[k] = x) <=> (x \in U /\ \E k \in DOMAIN s : s[k] = x)
    BY <1>5 DEF FilteredBy
  <1>8. \A k \in DOMAIN b : NumberOf(b[k]) <= NumberOf(m) /\ b[k] # m
    <2>1. ASSUME NEW k \in DOMAIN b PROVE b[k] \in T /\ (\E j \in DOMAIN s : s[j] = b[k]) /\ b[k] \in Msg
      BY <1>3, <1>6
    <2>2. \A k \in DOMAIN b : b[k] # m
      BY <2>1
    <2> QED BY <1>1, <2>1, <2>2
  <1>9. \A k \in DOMAIN a : NumberOf(a[k]) > NumberOf(m)
    <2>1. ASSUME NEW k \in DOMAIN a PROVE a[k] \in U /\ a[k] \in Msg
      BY <1>3, <1>7
    <2> QED BY <1>1, <2>1
  <1> PICK r : r = b \o <<m>> \o a
    OBVIOUS
  <1>10. /\ r \in Seq(Msg)
         /\ \A x : (\E k \in DOMAIN r : r[k] = x)
              <=> (x = m \/ (\E k \in DOMAIN b : b[k] = x) \/ \E k \in DOMAIN a : a[k] = x)
    <2>1. b \in Seq(Msg) /\ a \in Seq(Msg)
      BY <1>6, <1>7
    <2>2. InOrder(b) /\ InOrder(a)
      BY <1>6, <1>7
    <2>3. /\ b \o <<m>> \o a \in Seq(Msg)
          /\ \A x : (\E k \in DOMAIN (b \o <<m>> \o a) : (b \o <<m>> \o a)[k] = x)
              <=> (x = m \/ (\E k \in DOMAIN b : b[k] = x) \/ \E k \in DOMAIN a : a[k] = x)
      BY <1>8, <1>9, <2>1, <2>2, Spliced
    <2> QED BY <2>3
  <1>11. InOrder(r)
    BY <1>6, <1>7, <1>8, <1>9, Spliced
  <1>12. ASSUME NEW x PROVE (\E k \in DOMAIN r : r[k] = x) <=> (x = m \/ \E k \in DOMAIN s : s[k] = x)
    <2>1. (\E k \in DOMAIN s : s[k] = x) => x \in Msg
      OBVIOUS
    <2> QED BY <1>2, <1>6, <1>7, <1>10, <2>1
  <1>13. r = Inserted(s, m)
    BY <1>4
  <1> QED BY <1>10, <1>11, <1>12, <1>13

LEMMA ListedBySeq ==
  ASSUME NEW S \in SUBSET Msg
  PROVE  /\ BySeq(S) \in Seq(Msg) /\ InOrder(BySeq(S))
         /\ \A x : (\E k \in DOMAIN BySeq(S) : BySeq(S)[k] = x) <=> x \in S
  <1>1. IsFiniteSet(S)
    BY MsgFields, FS_Subset
  <1> PICK n : n = Cardinality(S)
    OBVIOUS
  <1>2. n \in Nat
    BY <1>1, FS_CardinalityType
  <1> DEFINE R == {p \in S \X S : Earlier(p[1], p[2])}
  <1>3. \A x, y \in S : <<x, y>> \in R <=> Earlier(x, y)
    OBVIOUS
  <1>4. \A x \in S : x[1] \in Int /\ x[2] \in Int /\ x = <<x[1], x[2]>> /\ NumberOf(x) = x[2]
    BY MsgFields
  <1>5. TotalOn(R, S)
    <2>1. \A x, y \in S : x # y => Earlier(x, y) \/ Earlier(y, x)
      BY <1>4 DEF Earlier
    <2>2. \A x, y, z \in S : Earlier(x, y) /\ Earlier(y, z) => Earlier(x, z)
      BY <1>4 DEF Earlier
    <2> HIDE DEF R
    <2> QED BY <1>3, <2>1, <2>2 DEF TotalOn
  <1> HIDE DEF R
  <1>6. PICK s : Lists(s, S, R)
    BY <1>1, <1>5, ListExists
  <1> DEFINE Up(f) == \A j, k \in DOMAIN f : j < k => Earlier(f[j], f[k])
  <1>7. s \in [1..n -> S] /\ Up(s)
    BY <1>3, <1>6 DEF Lists
  <1> PICK q : q = BySeq(S)
    OBVIOUS
  <1>8. q = CHOOSE f \in [1..n -> S] : Up(f)
    BY DEF BySeq
  <1> HIDE DEF Up
  <1>9. q \in [1..n -> S] /\ Up(q)
    BY <1>7, <1>8
  <1>10. \A j, k \in 1..n : j < k => q[j] # q[k] /\ NumberOf(q[j]) <= NumberOf(q[k])
    <2>1. \A j, k \in 1..n : j < k => Earlier(q[j], q[k]) /\ q[j] \in S /\ q[k] \in S
      BY <1>9 DEF Up
    <2> QED BY <1>4, <2>1 DEF Earlier
  <1>11. \A x \in S : \E k \in 1..n : q[k] = x
    <2>1. q \in [1..Cardinality(S) -> S] /\ \A j, k \in 1..Cardinality(S) : j < k => q[j] # q[k]
      BY <1>9, <1>10
    <2>2. \A x \in S : \E k \in 1..Cardinality(S) : q[k] = x
      BY <1>1, <2>1, NoneLeftOut
    <2> QED BY <2>2
  <1>12. q \in Seq(Msg) /\ DOMAIN q = 1..n
    BY <1>2, <1>9
  <1> QED BY <1>9, <1>10, <1>11, <1>12 DEF InOrder

-----------------------------------------------------------------------------
(* Events on their way.                                                     *)

LEMMA CardSent ==
  ASSUME CardTyped, WireTrue, NEW ev \in CardEvent, CardSends(ev)
  PROVE  /\ cardWire' \in Seq(CardEvent)
         /\ ~cardHears => cardWire = <<>> /\ cardWire' = <<>>
         /\ cardHears => /\ DOMAIN cardWire' = 1..(Len(cardWire) + 1) /\ cardWire'[Len(cardWire) + 1] = ev
         /\ \A k \in DOMAIN cardWire : k \in DOMAIN cardWire' /\ cardWire'[k] = cardWire[k]
         /\ DOMAIN cardWire = 1..Len(cardWire) /\ Len(cardWire) \in Nat
         /\ \A kind, t : OnWire(kind, t) => OnWire(kind, t)'
         /\ \A m : MessageOnWire(m) => MessageOnWire(m)'
         /\ cardHears => OnWire(ev.kind, ev.task)' /\ MessageOnWire(<<ev.task, ev.seq>>)'
  <1>1. cardWire \in Seq(CardEvent) /\ (cardHears \/ cardWire = <<>>)
        /\ cardWire' = (IF cardHears THEN Append(cardWire, ev) ELSE cardWire)
    BY DEF CardTyped, WireTrue, CardSends
  <1>2. cardHears \in BOOLEAN
    BY DEF CardTyped
  <1>3. /\ cardWire' \in Seq(CardEvent)
        /\ ~cardHears => cardWire = <<>> /\ cardWire' = <<>>
        /\ cardHears => /\ DOMAIN cardWire' = 1..(Len(cardWire) + 1) /\ cardWire'[Len(cardWire) + 1] = ev
        /\ \A k \in DOMAIN cardWire : k \in DOMAIN cardWire' /\ cardWire'[k] = cardWire[k]
        /\ DOMAIN cardWire = 1..Len(cardWire) /\ Len(cardWire) \in Nat
    <2>1. CASE cardHears
      BY <1>1, <2>1
    <2>2. CASE ~cardHears
      BY <1>1, <2>2
    <2> QED BY <1>2, <2>1, <2>2
  <1>4. cardHears => \E k \in DOMAIN cardWire' : cardWire'[k] = ev
    BY <1>3
  <1>5. \A kind, t : OnWire(kind, t) => OnWire(kind, t)'
    BY <1>3 DEF OnWire
  <1>6. \A m : MessageOnWire(m) => MessageOnWire(m)'
    BY <1>3 DEF MessageOnWire
  <1>7. cardHears => OnWire(ev.kind, ev.task)'
    BY <1>4 DEF OnWire
  <1>8. cardHears => MessageOnWire(<<ev.task, ev.seq>>)'
    BY <1>4 DEF MessageOnWire
  <1> QED BY <1>3, <1>5, <1>6, <1>7, <1>8

\* What stays on its way when the head is heard.
LEMMA CardHeard ==
  ASSUME CardTyped, cardWire # <<>>, cardWire' = Tail(cardWire)
  PROVE  /\ Head(cardWire) \in CardEvent /\ cardWire' \in Seq(CardEvent) /\ Head(cardWire) = cardWire[1] /\ 1 \in DOMAIN cardWire
         /\ \A k \in DOMAIN cardWire' : k \in Nat /\ k + 1 \in DOMAIN cardWire /\ cardWire'[k] = cardWire[k + 1]
         /\ \A k \in DOMAIN cardWire : k \in Nat /\ (k > 1 => k - 1 \in DOMAIN cardWire' /\ cardWire'[k - 1] = cardWire[k])
         /\ \A k \in DOMAIN cardWire : k = 1 \/ k > 1
         /\ \A kind, t : OnWire(kind, t) => OnWire(kind, t)' \/ (Head(cardWire).kind = kind /\ Head(cardWire).task = t)
         /\ \A m : MessageOnWire(m) => MessageOnWire(m)' \/ m = <<Head(cardWire).task, Head(cardWire).seq>>
  <1>1. cardWire \in Seq(CardEvent)
    BY DEF CardTyped
  <1> PICK n : n = Len(cardWire)
    OBVIOUS
  <1>2. n \in Nat /\ n > 0 /\ DOMAIN cardWire = 1..n /\ Head(cardWire) = cardWire[1] /\ cardWire' \in Seq(CardEvent)
        /\ DOMAIN cardWire' = 1..(n - 1) /\ \A k \in 1..(n - 1) : cardWire'[k] = cardWire[k + 1]
    BY <1>1
  <1>3. Head(cardWire) \in CardEvent /\ 1 \in DOMAIN cardWire
    BY <1>1, <1>2
  <1>4. \A k \in DOMAIN cardWire' : k \in Nat /\ k + 1 \in DOMAIN cardWire /\ cardWire'[k] = cardWire[k + 1]
    BY <1>2
  <1>5. ASSUME NEW k \in DOMAIN cardWire, k > 1 PROVE k - 1 \in DOMAIN cardWire' /\ cardWire'[k - 1] = cardWire[k]
    <2>1. k - 1 \in 1..(n - 1) /\ (k - 1) + 1 = k
      BY <1>2, <1>5
    <2> QED BY <1>2, <2>1
  <1>6. \A k \in DOMAIN cardWire : k \in Nat /\ (k = 1 \/ k > 1)
    BY <1>2
  <1>7. ASSUME NEW kind, NEW t, OnWire(kind, t)
        PROVE  OnWire(kind, t)' \/ (Head(cardWire).kind = kind /\ Head(cardWire).task = t)
    <2>1. PICK k \in DOMAIN cardWire : cardWire[k].kind = kind /\ cardWire[k].task = t
      BY <1>7 DEF OnWire
    <2>2. CASE k = 1
      BY <1>2, <2>1, <2>2
    <2>3. CASE k > 1
      BY <1>5, <2>1, <2>3 DEF OnWire
    <2> QED BY <1>6, <2>2, <2>3
  <1>8. ASSUME NEW m, MessageOnWire(m) PROVE MessageOnWire(m)' \/ m = <<Head(cardWire).task, Head(cardWire).seq>>
    <2>1. PICK k \in DOMAIN cardWire : <<cardWire[k].task, cardWire[k].seq>> = m
      BY <1>8 DEF MessageOnWire
    <2>2. CASE k = 1
      BY <1>2, <2>1, <2>2
    <2>3. CASE k > 1
      BY <1>5, <2>1, <2>3 DEF MessageOnWire
    <2> QED BY <1>6, <2>2, <2>3
  <1> QED BY <1>2, <1>3, <1>4, <1>5, <1>6, <1>7, <1>8

-----------------------------------------------------------------------------
(* The server's steps.                                                      *)

LEMMA EndIs == \A t : EndComes(t) <=> (running /\ t = task) \/ OnWire("ended", t)
  BY DEF EndComes, OnWire

\* The requests that decide what the card shows.
Shows == {c \in cardCalls : c.op \in {"mount", "list"}}

LEMMA ShownStays ==
  ASSUME ShownTrue, UNCHANGED <<activeTask, cardRows, seenSeqs>>, Shows' = Shows, written \subseteq written',
         \A m \in written' : m \in written \/ MessageOnWire(m)',
         \A m \in written : MessageOnWire(m) => MessageOnWire(m)'
  PROVE  ShownTrue'
  <1>1. OnCard' = OnCard
    BY DEF OnCard
  <1>2. \A t : /\ OfTask(written, t) \subseteq OfTask(written', t)
               /\ \A m \in OfTask(written', t) : m \in OfTask(written, t) \/ MessageOnWire(m)'
               /\ \A m \in OfTask(written, t) : MessageOnWire(m) => MessageOnWire(m)'
    BY DEF OfTask
  <1>3. RowsTrue => RowsTrue'
    BY <1>1, <1>2 DEF RowsTrue
  <1>4. \A c : (c \in cardCalls /\ c.op \in {"mount", "list"}) <=> (c \in cardCalls' /\ c.op \in {"mount", "list"})
    BY DEF Shows
  <1>5. \A c : Lists1(c) => c.op \in {"mount", "list"}
    BY DEF Lists1
  <1>6. \A c : Lists1(c) <=> Lists1(c)'
    BY DEF Lists1
  <1>7. activeTask' # 0 => RowsTrue' \/ \E c \in cardCalls' : Lists1(c)'
    BY <1>3, <1>4, <1>5, <1>6 DEF ShownTrue
  <1>8. \A c, d \in cardCalls' : c.op \in {"mount", "list"} /\ d.op \in {"mount", "list"} => c = d
    BY <1>4 DEF ShownTrue
  <1>9. ASSUME NEW c \in cardCalls', c.op = "list", c.st = "done"
        PROVE  c.list \subseteq OfTask(written', c.task)
    <2>1. c \in cardCalls
      BY <1>4, <1>9
    <2>2. c.list \subseteq OfTask(written, c.task)
      BY <1>9, <2>1 DEF ShownTrue
    <2> QED BY <1>2, <2>2
  <1>10. ASSUME activeTask' # 0, NEW c \in cardCalls', Lists1(c), c.st = "done"
         PROVE  \A m \in OfTask(written', activeTask) : m \in c.list \/ m \in seenSeqs \/ MessageOnWire(m)'
    <2>1. c \in cardCalls
      BY <1>4, <1>5, <1>10
    <2>2. \A m \in OfTask(written, activeTask) : m \in c.list \/ m \in seenSeqs \/ MessageOnWire(m)
      BY <1>10, <2>1 DEF ShownTrue
    <2> QED BY <1>2, <2>2
  <1> QED BY <1>1, <1>6, <1>7, <1>8, <1>9, <1>10 DEF ShownTrue

LEMMA DispatchStep ==
  ASSUME CardInv, Dispatch
  PROVE  CardInv'
  <1> DEFINE ev == [kind |-> "dispatch", task |-> task + 1, seq |-> 0]
  <1>1. /\ ~running /\ task < MaxTasks /\ task' = task + 1 /\ running' = TRUE /\ CardSends(ev)
        /\ UNCHANGED <<written, cardHears, activeTask, cardRows, seenSeqs, cancelling, history, cardCalls, cardStrayed>>
    BY DEF Dispatch
  <1>2. CardTyped /\ WireTrue /\ task \in Nat
    BY MsgFields DEF CardInv, CardTyped
  <1> PICK u : u = task + 1
    OBVIOUS
  <1>3. ev \in CardEvent
    BY <1>1, <1>2, MsgFields DEF CardEvent
  <1>4. /\ cardWire' \in Seq(CardEvent)
        /\ ~cardHears => cardWire = <<>> /\ cardWire' = <<>>
        /\ cardHears => /\ DOMAIN cardWire' = 1..(Len(cardWire) + 1) /\ cardWire'[Len(cardWire) + 1] = ev
        /\ \A k \in DOMAIN cardWire : k \in DOMAIN cardWire' /\ cardWire'[k] = cardWire[k]
        /\ DOMAIN cardWire = 1..Len(cardWire) /\ Len(cardWire) \in Nat
        /\ \A kind, t : OnWire(kind, t) => OnWire(kind, t)'
        /\ \A m : MessageOnWire(m) => MessageOnWire(m)'
        /\ cardHears => OnWire("dispatch", u)'
    <2>1. CardSends(ev) /\ ev.kind = "dispatch" /\ ev.task = u
      BY <1>1
    <2> HIDE DEF ev
    <2> QED BY <1>2, <1>3, <2>1, CardSent
  <1>5. CardTyped'
    <2>1. task' \in 0..MaxTasks /\ task' # 0
      BY <1>1, <1>2, MsgFields
    <2>2. running' \in BOOLEAN
      BY <1>1
    <2> QED BY <1>1, <1>2, <1>4, <2>1, <2>2 DEF CardTyped
  <1>6. WireTrue'
    <2>1. cardHears => \A k \in DOMAIN cardWire' : k \in DOMAIN cardWire \/ k = Len(cardWire) + 1
      BY <1>4
    <2>2. ASSUME NEW k \in DOMAIN cardWire', cardWire'[k].kind = "ended"
          PROVE  \E l \in DOMAIN cardWire' : k < l /\ cardWire'[l].kind = "dispatch" /\ cardWire'[l].task = task'
      <3>1. cardHears
        BY <1>2, <1>4, <2>2 DEF CardTyped
      <3>2. ev.kind = "dispatch" /\ ev.task = task'
        BY <1>1
      <3>3. k \in DOMAIN cardWire /\ k < Len(cardWire) + 1
        BY <1>4, <2>1, <2>2, <3>1, <3>2
      <3>4. Len(cardWire) + 1 \in DOMAIN cardWire' /\ cardWire'[Len(cardWire) + 1] = ev
        BY <1>4, <3>1
      <3> QED BY <3>2, <3>3, <3>4
    <2>3. ASSUME NEW k \in DOMAIN cardWire', cardWire'[k].kind = "message"
          PROVE  <<cardWire'[k].task, cardWire'[k].seq>> \in written'
      <3>1. cardHears
        BY <1>2, <1>4, <2>3 DEF CardTyped
      <3>2. k \in DOMAIN cardWire /\ cardWire'[k] = cardWire[k]
        BY <1>4, <2>1, <2>3, <3>1
      <3> QED BY <1>1, <1>2, <2>3, <3>2 DEF WireTrue
    <2>4. cardHears' \/ (cardWire' = <<>> /\ cardStrayed')
      BY <1>1, <1>2, <1>4 DEF WireTrue
    <2> QED BY <2>2, <2>3, <2>4 DEF WireTrue
  <1>7. ASSUME ~cardStrayed' PROVE ActiveTrue' /\ HistoryTrue' /\ ShownTrue'
    <2>1. ActiveTrue /\ HistoryTrue /\ ShownTrue /\ cardHears
      BY <1>1, <1>2, <1>7 DEF CardInv, WireTrue
    <2>2. ActiveTrue'
      <3>1. activeTask # 0 => OnWire("ended", activeTask)
        BY <1>1, <2>1, EndIs DEF ActiveTrue
      <3>2. activeTask' # 0 => EndComes(activeTask)'
        BY <1>1, <1>4, <3>1 DEF EndComes, OnWire
      <3>3. OnWire("dispatch", task)'
        <4>1. task' = u /\ OnWire("dispatch", u)'
          BY <1>1, <1>4, <2>1
        <4> QED BY <4>1 DEF OnWire
      <3> QED BY <3>2, <3>3 DEF ActiveTrue
    <2>3. HistoryTrue'
      <3>1. EndedTasks' = EndedTasks
        BY <1>1, <1>2 DEF EndedTasks
      <3>2. \A c \in cardCalls : Tells(c) => Tells(c)'
        BY <3>1 DEF Tells
      <3> QED BY <1>1, <1>4, <2>1, <3>1, <3>2 DEF HistoryTrue
    <2>4. ShownTrue'
      <3>1. Shows' = Shows
        BY <1>1 DEF Shows
      <3>2. \A m \in written : MessageOnWire(m) => MessageOnWire(m)'
        BY <1>4
      <3> QED BY <1>1, <2>1, <3>1, <3>2, ShownStays
    <2> QED BY <2>2, <2>3, <2>4
  <1>8. InOrder(cardRows') /\ OnCard' \subseteq seenSeqs'
    BY <1>1 DEF CardInv, OnCard
  <1> QED BY <1>5, <1>6, <1>7, <1>8 DEF CardInv

LEMMA CardWriteStep ==
  ASSUME CardInv, Write
  PROVE  CardInv'
  <1>1. PICK t \in 1..task, n \in 1..MaxSeq :
          written' = written \cup {<<t, n>>} /\ CardSends([kind |-> "message", task |-> t, seq |-> n])
    BY DEF Write
  <1> DEFINE ev == [kind |-> "message", task |-> t, seq |-> n]
  <1> PICK m : m = <<t, n>>
    OBVIOUS
  <1>2. UNCHANGED <<task, running, cardHears, activeTask, cardRows, seenSeqs, cancelling, history, cardCalls, cardStrayed>>
    BY DEF Write
  <1>3. CardTyped /\ WireTrue
    BY DEF CardInv
  <1>4. t \in 1..MaxTasks /\ m \in Msg /\ written' = written \cup {m} /\ written \subseteq written'
    BY <1>1, <1>3, MsgFields DEF CardTyped
  <1>5. ev \in CardEvent
    BY <1>4, MsgFields DEF CardEvent
  <1>6. /\ cardWire' \in Seq(CardEvent)
        /\ ~cardHears => cardWire = <<>> /\ cardWire' = <<>>
        /\ cardHears => /\ DOMAIN cardWire' = 1..(Len(cardWire) + 1) /\ cardWire'[Len(cardWire) + 1] = ev
        /\ \A k \in DOMAIN cardWire : k \in DOMAIN cardWire' /\ cardWire'[k] = cardWire[k]
        /\ DOMAIN cardWire = 1..Len(cardWire) /\ Len(cardWire) \in Nat
        /\ \A kind, u : OnWire(kind, u) => OnWire(kind, u)'
        /\ \A x : MessageOnWire(x) => MessageOnWire(x)'
        /\ cardHears => MessageOnWire(m)'
    <2>1. CardSends(ev) /\ m = <<ev.task, ev.seq>>
      BY <1>1
    <2> HIDE DEF ev
    <2> QED BY <1>3, <1>5, <2>1, CardSent
  <1>7. CardTyped'
    BY <1>2, <1>3, <1>4, <1>6 DEF CardTyped
  <1>8. WireTrue'
    <2>1. cardHears => \A k \in DOMAIN cardWire' : k \in DOMAIN cardWire \/ (k = Len(cardWire) + 1 /\ cardWire'[k] = ev)
      BY <1>6
    <2>2. ASSUME NEW k \in DOMAIN cardWire', cardWire'[k].kind = "ended", running
          PROVE  \E l \in DOMAIN cardWire' : k < l /\ cardWire'[l].kind = "dispatch" /\ cardWire'[l].task = task
      <3>1. cardHears
        BY <1>3, <1>6, <2>2 DEF CardTyped
      <3>2. k \in DOMAIN cardWire /\ cardWire'[k] = cardWire[k]
        BY <1>6, <2>1, <2>2, <3>1
      <3>3. PICK l \in DOMAIN cardWire : k < l /\ cardWire[l].kind = "dispatch" /\ cardWire[l].task = task
        BY <1>3, <2>2, <3>2 DEF WireTrue
      <3> QED BY <1>6, <3>3
    <2>3. ASSUME NEW k \in DOMAIN cardWire', cardWire'[k].kind = "message"
          PROVE  <<cardWire'[k].task, cardWire'[k].seq>> \in written'
      <3>1. cardHears
        BY <1>3, <1>6, <2>3 DEF CardTyped
      <3>2. CASE k \in DOMAIN cardWire
        BY <1>3, <1>4, <1>6, <2>3, <3>2 DEF WireTrue
      <3>3. CASE cardWire'[k] = ev
        BY <1>1, <3>3
      <3> QED BY <2>1, <2>3, <3>1, <3>2, <3>3
    <2>4. cardHears' \/ (cardWire' = <<>> /\ cardStrayed')
      BY <1>2, <1>3, <1>6 DEF WireTrue
    <2> QED BY <1>2, <2>2, <2>3, <2>4 DEF WireTrue
  <1>9. ASSUME ~cardStrayed' PROVE ActiveTrue' /\ HistoryTrue' /\ ShownTrue'
    <2>1. ActiveTrue /\ HistoryTrue /\ ShownTrue /\ cardHears
      BY <1>2, <1>3, <1>9 DEF CardInv, WireTrue
    <2>2. ActiveTrue'
      <3>1. EndComes(activeTask) => EndComes(activeTask)'
        BY <1>2, <1>6 DEF EndComes, OnWire
      <3>2. \A c : Brings(c) <=> Brings(c)'
        BY <1>2 DEF Brings
      <3>3. OnWire("dispatch", task) => OnWire("dispatch", task)'
        BY <1>2, <1>6 DEF OnWire
      <3> QED BY <1>2, <2>1, <3>1, <3>2, <3>3 DEF ActiveTrue
    <2>3. HistoryTrue'
      <3>1. EndedTasks' = EndedTasks
        BY <1>2 DEF EndedTasks
      <3>2. \A c \in cardCalls : Tells(c) => Tells(c)'
        BY <3>1 DEF Tells
      <3> QED BY <1>2, <1>6, <2>1, <3>1, <3>2 DEF HistoryTrue
    <2>4. ShownTrue'
      <3>1. Shows' = Shows
        BY <1>2 DEF Shows
      <3>2. \A x \in written : MessageOnWire(x) => MessageOnWire(x)'
        BY <1>6
      <3>3. \A x \in written' : x \in written \/ MessageOnWire(x)'
        BY <1>4, <1>6, <2>1
      <3> QED BY <1>2, <1>4, <2>1, <3>1, <3>2, <3>3, ShownStays
    <2> QED BY <2>2, <2>3, <2>4
  <1>10. InOrder(cardRows') /\ OnCard' \subseteq seenSeqs'
    BY <1>2 DEF CardInv, OnCard
  <1> QED BY <1>7, <1>8, <1>9, <1>10 DEF CardInv

\* A task ends, by itself or stopped.
LEMMA EndKeeps ==
  ASSUME CardInv, running, TaskEnds,
         UNCHANGED <<task, written, cardHears, activeTask, cardRows, seenSeqs, cancelling, history, cardStrayed>>,
         cardCalls' \subseteq CardRequest,
         {c \in cardCalls' : c.op # "cancel"} = {c \in cardCalls : c.op # "cancel"}
  PROVE  CardInv'
  <1> DEFINE ev == [kind |-> "ended", task |-> task, seq |-> 0]
  <1>1. running' = FALSE /\ CardSends(ev)
    BY DEF TaskEnds
  <1>2. CardTyped /\ WireTrue /\ task \in 1..MaxTasks
    BY MsgFields DEF CardInv, CardTyped
  <1>3. ev \in CardEvent
    BY <1>2, MsgFields DEF CardEvent
  <1>4. /\ cardWire' \in Seq(CardEvent)
        /\ ~cardHears => cardWire = <<>> /\ cardWire' = <<>>
        /\ cardHears => /\ DOMAIN cardWire' = 1..(Len(cardWire) + 1) /\ cardWire'[Len(cardWire) + 1] = ev
        /\ \A k \in DOMAIN cardWire : k \in DOMAIN cardWire' /\ cardWire'[k] = cardWire[k]
        /\ DOMAIN cardWire = 1..Len(cardWire) /\ Len(cardWire) \in Nat
        /\ \A kind, t : OnWire(kind, t) => OnWire(kind, t)'
        /\ \A m : MessageOnWire(m) => MessageOnWire(m)'
        /\ cardHears => OnWire("ended", task)'
    <2>1. CardSends(ev) /\ ev.kind = "ended" /\ ev.task = task
      BY <1>1
    <2> HIDE DEF ev
    <2> QED BY <1>2, <1>3, <2>1, CardSent
  <1>5. CardTyped'
    <2>1. running' \in BOOLEAN /\ ~running'
      BY <1>1
    <2> QED BY <1>2, <1>4, <2>1 DEF CardTyped
  <1>6. WireTrue'
    <2>1. cardHears => \A k \in DOMAIN cardWire' : k \in DOMAIN cardWire \/ (k = Len(cardWire) + 1 /\ cardWire'[k] = ev)
      BY <1>4
    <2>2. ASSUME NEW k \in DOMAIN cardWire', cardWire'[k].kind = "message"
          PROVE  <<cardWire'[k].task, cardWire'[k].seq>> \in written'
      <3>1. cardHears
        BY <1>2, <1>4, <2>2 DEF CardTyped
      <3>2. k \in DOMAIN cardWire /\ cardWire'[k] = cardWire[k]
        BY <1>4, <2>1, <2>2, <3>1
      <3> QED BY <1>2, <2>2, <3>2 DEF WireTrue
    <2>3. cardHears' \/ (cardWire' = <<>> /\ cardStrayed')
      BY <1>2, <1>4 DEF WireTrue
    <2> QED BY <1>1, <2>2, <2>3 DEF WireTrue
  <1>7. ASSUME ~cardStrayed' PROVE ActiveTrue' /\ HistoryTrue' /\ ShownTrue'
    <2>1. ActiveTrue /\ HistoryTrue /\ ShownTrue /\ cardHears
      BY <1>2, <1>7 DEF CardInv, WireTrue
    <2>2. ActiveTrue'
      <3>1. activeTask # 0 => activeTask = task \/ OnWire("ended", activeTask)
        BY <2>1, EndIs DEF ActiveTrue
      <3>2. activeTask # 0 => OnWire("ended", activeTask)'
        BY <1>4, <2>1, <3>1
      <3>3. activeTask' # 0 => EndComes(activeTask)'
        BY <3>2 DEF EndComes, OnWire
      <3> QED BY <1>1, <3>3 DEF ActiveTrue
    <2>3. HistoryTrue'
      BY <1>2, <1>4, <2>1 DEF HistoryTrue, OnWire
    <2>4. ShownTrue'
      <3>1. Shows' = Shows
        <4>1. \A c : (c \in cardCalls' /\ c.op # "cancel") <=> (c \in cardCalls /\ c.op # "cancel")
          OBVIOUS
        <4> QED BY <4>1 DEF Shows
      <3>2. \A x \in written : MessageOnWire(x) => MessageOnWire(x)'
        BY <1>4
      <3> QED BY <2>1, <3>1, <3>2, ShownStays
    <2> QED BY <2>2, <2>3, <2>4
  <1>8. InOrder(cardRows') /\ OnCard' \subseteq seenSeqs'
    BY DEF CardInv, OnCard
  <1> QED BY <1>5, <1>6, <1>7, <1>8 DEF CardInv

LEMMA EndStep ==
  ASSUME CardInv, End
  PROVE  CardInv'
  <1>1. /\ running /\ TaskEnds
        /\ UNCHANGED <<task, written, cardHears, activeTask, cardRows, seenSeqs, cancelling, history, cardCalls, cardStrayed>>
    BY DEF End
  <1>2. cardCalls' \subseteq CardRequest
    BY <1>1 DEF CardInv, CardTyped
  <1> QED BY <1>1, <1>2, EndKeeps

-----------------------------------------------------------------------------
(* The card hears an event.                                                 *)

LEMMA WireHeard ==
  ASSUME CardInv, HearCard
  PROVE  WireTrue' /\ cardHears
  <1>1. cardWire # <<>> /\ cardWire' = Tail(cardWire) /\ UNCHANGED <<cardServerVars, cardHears, history>>
    BY DEF HearCard
  <1>2. CardTyped /\ WireTrue
    BY DEF CardInv
  <1>3. cardHears
    BY <1>1, <1>2 DEF WireTrue
  <1>4. UNCHANGED <<task, running, written>>
    BY <1>1 DEF cardServerVars
  <1>5. ASSUME NEW k \in DOMAIN cardWire', cardWire'[k].kind = "ended", running
        PROVE  \E l \in DOMAIN cardWire' : k < l /\ cardWire'[l].kind = "dispatch" /\ cardWire'[l].task = task
    <2>1. k \in Nat /\ k + 1 \in DOMAIN cardWire /\ cardWire'[k] = cardWire[k + 1]
      BY <1>1, <1>2, CardHeard
    <2>2. PICK l \in DOMAIN cardWire : k + 1 < l /\ cardWire[l].kind = "dispatch" /\ cardWire[l].task = task
      BY <1>2, <1>5, <2>1 DEF WireTrue
    <2>3. l \in Nat /\ l > 1
      BY <1>1, <1>2, <2>1, <2>2, CardHeard
    <2>4. l - 1 \in DOMAIN cardWire' /\ cardWire'[l - 1] = cardWire[l] /\ k < l - 1
      BY <1>1, <1>2, <2>1, <2>2, <2>3, CardHeard
    <2> QED BY <2>2, <2>4
  <1>6. ASSUME NEW k \in DOMAIN cardWire', cardWire'[k].kind = "message"
        PROVE  <<cardWire'[k].task, cardWire'[k].seq>> \in written
    <2>1. k + 1 \in DOMAIN cardWire /\ cardWire'[k] = cardWire[k + 1]
      BY <1>1, <1>2, CardHeard
    <2> QED BY <1>2, <1>6, <2>1 DEF WireTrue
  <1> QED BY <1>1, <1>3, <1>4, <1>5, <1>6 DEF WireTrue

LEMMA MessageStep ==
  ASSUME CardInv, HearCard, NEW ev, ev = Head(cardWire), ev.kind = "message"
  PROVE  CardInv'
  <1>1. /\ cardWire # <<>> /\ cardWire' = Tail(cardWire) /\ OnMessage(ev)
        /\ UNCHANGED <<task, running, written, cardHears, history, activeTask, cancelling, cardCalls>>
    BY DEF HearCard, OnMessage, cardServerVars
  <1>2. CardTyped /\ WireTrue /\ InOrder(cardRows) /\ OnCard \subseteq seenSeqs
    BY DEF CardInv
  <1> PICK m : m = <<ev.task, ev.seq>>
    OBVIOUS
  <1>3. ev \in CardEvent /\ ev = cardWire[1] /\ 1 \in DOMAIN cardWire /\ cardWire' \in Seq(CardEvent)
    BY <1>1, <1>2, CardHeard
  <1>4. m \in written /\ m \in Msg
    BY <1>2, <1>3 DEF WireTrue, CardTyped
  <1>5. /\ m \in seenSeqs => UNCHANGED <<cardRows, seenSeqs>>
        /\ m \notin seenSeqs => cardRows' = Inserted(cardRows, m) /\ seenSeqs' = seenSeqs \cup {m}
        /\ cardStrayed' = (cardStrayed \/ activeTask \notin {0, ev.task})
    BY <1>1 DEF OnMessage
  <1>6. /\ cardRows' \in Seq(Msg) /\ InOrder(cardRows')
        /\ m \in seenSeqs => OnCard' = OnCard
        /\ m \notin seenSeqs => \A x : x \in OnCard' <=> x = m \/ x \in OnCard
    <2>1. CASE m \in seenSeqs
      BY <1>2, <1>5, <2>1 DEF OnCard, CardTyped
    <2>2. CASE m \notin seenSeqs
      <3> PICK s : s = cardRows
        OBVIOUS
      <3>1. s \in Seq(Msg) /\ InOrder(s) /\ \A k \in DOMAIN s : s[k] # m
        BY <1>2, <2>2 DEF OnCard, CardTyped
      <3>2. /\ Inserted(s, m) \in Seq(Msg) /\ InOrder(Inserted(s, m))
            /\ \A x : (\E k \in DOMAIN Inserted(s, m) : Inserted(s, m)[k] = x) <=> (x = m \/ \E k \in DOMAIN s : s[k] = x)
        BY <1>4, <3>1, InsertedPlace
      <3>3. cardRows' = Inserted(s, m)
        BY <1>5, <2>2
      <3>4. cardRows' \in Seq(Msg)
        BY <3>2, <3>3
      <3>5. InOrder(cardRows')
        BY <3>2, <3>3
      <3>6. \A x : (\E k \in DOMAIN cardRows' : cardRows'[k] = x) <=> (x = m \/ \E k \in DOMAIN cardRows : cardRows[k] = x)
        BY <3>2, <3>3
      <3>7. \A x : x \in OnCard' <=> x = m \/ x \in OnCard
        BY <3>6 DEF OnCard
      <3> QED BY <2>2, <3>4, <3>5, <3>7
    <2> QED BY <2>1, <2>2
  <1>7. seenSeqs' = seenSeqs \cup {m}
    BY <1>5
  <1>8. CardTyped'
    <2>1. cardStrayed' \in BOOLEAN
      BY <1>5
    <2> QED BY <1>1, <1>2, <1>3, <1>4, <1>6, <1>7, <2>1 DEF CardTyped
  <1>9. OnCard' \subseteq seenSeqs'
    BY <1>2, <1>5, <1>6
  <1>10. /\ \A kind, t : kind # "message" /\ OnWire(kind, t) => OnWire(kind, t)'
         /\ \A x : MessageOnWire(x) => MessageOnWire(x)' \/ x = m
    BY <1>1, <1>2, CardHeard
  <1>11. ASSUME ~cardStrayed' PROVE ActiveTrue' /\ HistoryTrue' /\ ShownTrue'
    <2>1. ActiveTrue /\ HistoryTrue /\ ShownTrue /\ activeTask \in {0, ev.task}
      BY <1>5, <1>11 DEF CardInv
    <2>2. ActiveTrue'
      <3>1. ASSUME NEW t, EndComes(t) PROVE EndComes(t)'
        <4>1. (running /\ t = task) \/ OnWire("ended", t)'
          BY <1>10, <3>1, EndIs
        <4> QED BY <1>1, <4>1 DEF EndComes, OnWire
      <3>2. \A c : Brings(c) <=> Brings(c)'
        BY <1>1 DEF Brings
      <3>3. OnWire("dispatch", task) => OnWire("dispatch", task)'
        <4> PICK u : u = task
          OBVIOUS
        <4>1. OnWire("dispatch", u) => OnWire("dispatch", u)'
          BY <1>10
        <4> QED BY <1>1, <4>1 DEF OnWire
      <3> QED BY <1>1, <2>1, <3>1, <3>2, <3>3 DEF ActiveTrue
    <2>3. HistoryTrue'
      <3>1. EndedTasks' = EndedTasks /\ \A c : Tells(c) <=> Tells(c)'
        BY <1>1 DEF EndedTasks, Tells
      <3> QED BY <1>1, <1>10, <2>1, <3>1 DEF HistoryTrue
    <2>4. ShownTrue'
      <3>1. seenSeqs = OnCard
        BY <2>1 DEF ShownTrue
      <3>2. seenSeqs' = OnCard'
        BY <1>5, <1>6, <3>1
      <3>3. m \in OnCard' /\ \A x \in OnCard : x \in OnCard'
        BY <1>7, <3>1, <3>2
      <3>4. activeTask # 0 => m \in OfTask(written, activeTask)
        BY <1>4, <2>1 DEF OfTask
      <3>5. activeTask # 0 /\ RowsTrue => RowsTrue'
        BY <1>1, <1>7, <1>10, <3>1, <3>2, <3>3, <3>4 DEF RowsTrue
      <3>6. \A c : Lists1(c) <=> Lists1(c)'
        BY <1>1 DEF Lists1
      <3>7. activeTask' # 0 => RowsTrue' \/ \E c \in cardCalls' : Lists1(c)'
        BY <1>1, <2>1, <3>5, <3>6 DEF ShownTrue
      <3>8. /\ \A c \in cardCalls' : c.op = "list" /\ c.st = "done" => c.list \subseteq OfTask(written', c.task)
            /\ \A c, d \in cardCalls' : c.op \in {"mount", "list"} /\ d.op \in {"mount", "list"} => c = d
        BY <1>1, <2>1 DEF ShownTrue
      <3>9. ASSUME activeTask' # 0, NEW c \in cardCalls', Lists1(c), c.st = "done"
            PROVE  \A x \in OfTask(written', activeTask) : x \in c.list \/ x \in seenSeqs' \/ MessageOnWire(x)'
        <4>1. \A x \in OfTask(written, activeTask) : x \in c.list \/ x \in seenSeqs \/ MessageOnWire(x)
          BY <1>1, <2>1, <3>9 DEF ShownTrue
        <4> QED BY <1>1, <1>7, <1>10, <4>1
      <3> QED BY <1>1, <3>2, <3>6, <3>7, <3>8, <3>9 DEF ShownTrue
    <2> QED BY <2>2, <2>3, <2>4
  <1> QED BY <1>6, <1>8, <1>9, <1>11, WireHeard DEF CardInv

LEMMA CallsOf ==
  ASSUME NEW op \in {"mount", "dispatch", "list", "history", "cancel"}, NEW t \in 0..MaxTasks
  PROVE  /\ CardCall(op, t) \in CardRequest /\ CardCall(op, t).op = op /\ CardCall(op, t).st = "sent"
         /\ CardCall(op, t).task = t
  BY MsgFields DEF CardCall, CardRequest

LEMMA EndedHeard ==
  ASSUME CardInv, HearCard, NEW ev, ev = Head(cardWire), ev.kind = "ended"
  PROVE  CardInv'
  <1>1. /\ cardWire # <<>> /\ cardWire' = Tail(cardWire) /\ OnEnded
        /\ UNCHANGED <<task, running, written, cardHears, history>>
    BY DEF HearCard, cardServerVars
  <1>2. CardTyped /\ WireTrue
    BY DEF CardInv
  <1> PICK a : a = CardCall("history", 0)
    OBVIOUS
  <1>3. /\ activeTask' = 0 /\ cardRows' = <<>> /\ seenSeqs' = {} /\ cancelling' = FALSE
        /\ cardStrayed' = (cardStrayed /\ ~Recovered)
        /\ cardCalls' = cardCalls \cup {a}
    BY <1>1 DEF OnEnded, CardAsks
  <1>4. a \in CardRequest /\ a.op = "history" /\ a.st = "sent"
    BY CallsOf, MsgFields
  <1>5. ev = cardWire[1] /\ 1 \in DOMAIN cardWire /\ cardWire' \in Seq(CardEvent)
    BY <1>1, <1>2, CardHeard
  <1>6. CardTyped'
    <2>1. cardStrayed' \in BOOLEAN /\ cancelling' \in BOOLEAN
      BY <1>3
    <2>2. cardCalls' \subseteq CardRequest
      BY <1>2, <1>3, <1>4 DEF CardTyped
    <2>3. activeTask' \in 0..MaxTasks /\ cardRows' \in Seq(Msg) /\ seenSeqs' \subseteq Msg
      BY <1>3, MsgFields
    <2> QED BY <1>1, <1>2, <1>5, <2>1, <2>2, <2>3 DEF CardTyped
  <1>7. OnCard' = {} /\ InOrder(cardRows')
    BY <1>3 DEF OnCard, InOrder
  <1>8. ActiveTrue'
    <2>1. ASSUME running PROVE OnWire("dispatch", task)'
      <3>1. PICK l \in DOMAIN cardWire : 1 < l /\ cardWire[l].kind = "dispatch" /\ cardWire[l].task = task
        BY <1>2, <1>5, <2>1 DEF WireTrue
      <3>2. l \in Nat /\ l - 1 \in DOMAIN cardWire' /\ cardWire'[l - 1] = cardWire[l]
        BY <1>1, <1>2, <3>1, CardHeard
      <3> QED BY <1>1, <3>1, <3>2 DEF OnWire
    <2> QED BY <1>1, <1>3, <2>1 DEF ActiveTrue
  <1>9. HistoryTrue'
    <2>1. Tells(a)' /\ a \in cardCalls'
      BY <1>3, <1>4 DEF Tells
    <2> QED BY <2>1 DEF HistoryTrue
  <1>10. ASSUME ~cardStrayed' PROVE ShownTrue'
    <2>1. ShownTrue \/ cardCalls = {}
      BY <1>3, <1>10 DEF CardInv, Recovered
    <2>2. \A c \in cardCalls' : c.op # "history" => c \in cardCalls
      BY <1>3, <1>4
    <2>3. \A c, d \in cardCalls' : c.op \in {"mount", "list"} /\ d.op \in {"mount", "list"} => c = d
      BY <2>1, <2>2 DEF ShownTrue
    <2>4. \A c \in cardCalls' : c.op = "list" /\ c.st = "done" => c.list \subseteq OfTask(written', c.task)
      BY <1>1, <2>1, <2>2 DEF ShownTrue
    <2> QED BY <1>3, <1>7, <2>3, <2>4 DEF ShownTrue
  <1> QED BY <1>3, <1>6, <1>7, <1>8, <1>9, <1>10, WireHeard DEF CardInv

LEMMA DispatchHeard ==
  ASSUME CardInv, HearCard, NEW ev, ev = Head(cardWire), ev.kind = "dispatch"
  PROVE  CardInv'
  <1>1. /\ cardWire # <<>> /\ cardWire' = Tail(cardWire) /\ OnDispatch
        /\ UNCHANGED <<task, running, written, cardHears, history, activeTask, cardRows, seenSeqs, cancelling, cardStrayed>>
    BY DEF HearCard, OnDispatch, cardServerVars
  <1>2. CardTyped /\ WireTrue
    BY DEF CardInv
  <1> PICK a : a = CardCall("dispatch", 0)
    OBVIOUS
  <1>3. /\ activeTask # 0 => cardCalls' = cardCalls
        /\ activeTask = 0 => cardCalls' = cardCalls \cup {a}
    BY <1>1 DEF OnDispatch, CardAsks
  <1>4. a \in CardRequest /\ a.op = "dispatch" /\ a.st = "sent"
    BY CallsOf, MsgFields
  <1>5. ev \in CardEvent /\ ev = cardWire[1] /\ 1 \in DOMAIN cardWire /\ cardWire' \in Seq(CardEvent)
    BY <1>1, <1>2, CardHeard
  <1>6. CardTyped'
    <2>1. cardCalls' \subseteq CardRequest
      BY <1>2, <1>3, <1>4 DEF CardTyped
    <2> QED BY <1>1, <1>2, <1>5, <2>1 DEF CardTyped
  <1>7. InOrder(cardRows') /\ OnCard' \subseteq seenSeqs'
    BY <1>1 DEF CardInv, OnCard
  <1>8. /\ \A t : OnWire("ended", t) => OnWire("ended", t)'
        /\ \A x : MessageOnWire(x) => MessageOnWire(x)' \/ x = <<ev.task, ev.seq>>
    BY <1>1, <1>2, CardHeard
  <1>9. ASSUME ~cardStrayed' PROVE ActiveTrue' /\ HistoryTrue' /\ ShownTrue'
    <2>1. ActiveTrue /\ HistoryTrue /\ ShownTrue
      BY <1>1, <1>9 DEF CardInv
    <2>2. ActiveTrue'
      <3>1. ASSUME NEW t, EndComes(t) PROVE EndComes(t)'
        <4>1. (running /\ t = task) \/ OnWire("ended", t)'
          BY <1>8, <3>1, EndIs
        <4> QED BY <1>1, <4>1 DEF EndComes, OnWire
      <3>2. CASE activeTask = 0
        <4>1. Brings(a)' /\ a \in cardCalls'
          BY <1>3, <1>4, <3>2 DEF Brings
        <4> QED BY <1>1, <3>2, <4>1 DEF ActiveTrue
      <3>3. CASE activeTask # 0
        <4>1. ASSUME running, activeTask # task PROVE OnWire("dispatch", task)'
          <5>1. OnWire("ended", activeTask)
            BY <2>1, <3>3, <4>1, EndIs DEF ActiveTrue
          <5>2. PICK k \in DOMAIN cardWire : cardWire[k].kind = "ended"
            BY <5>1 DEF OnWire
          <5>3. PICK l \in DOMAIN cardWire : k < l /\ cardWire[l].kind = "dispatch" /\ cardWire[l].task = task
            BY <1>2, <4>1, <5>2 DEF WireTrue
          <5>4. k \in Nat /\ l \in Nat /\ (k = 1 \/ k > 1)
            BY <1>1, <1>2, CardHeard
          <5>5. l > 1
            BY <5>3, <5>4
          <5>6. l - 1 \in DOMAIN cardWire' /\ cardWire'[l - 1] = cardWire[l]
            BY <1>1, <1>2, <5>5, CardHeard
          <5> QED BY <1>1, <5>3, <5>6 DEF OnWire
        <4> QED BY <1>1, <2>1, <3>1, <3>3, <4>1 DEF ActiveTrue
      <3> QED BY <3>2, <3>3
    <2>3. HistoryTrue'
      <3>1. EndedTasks' = EndedTasks /\ \A c : Tells(c) <=> Tells(c)'
        BY <1>1 DEF EndedTasks, Tells
      <3>2. cardCalls \subseteq cardCalls'
        BY <1>3
      <3> QED BY <1>1, <1>8, <2>1, <3>1, <3>2 DEF HistoryTrue
    <2>4. ShownTrue'
      <3>1. Shows' = Shows
        <4>1. \A c : (c \in cardCalls' /\ c.op \in {"mount", "list"}) <=> (c \in cardCalls /\ c.op \in {"mount", "list"})
          BY <1>3, <1>4
        <4> QED BY <4>1 DEF Shows
      <3>2. ev.seq = 0 /\ written \subseteq Msg
        BY <1>2, <1>5 DEF CardEvent, CardTyped
      <3>3. <<ev.task, ev.seq>> \notin written
        <4>1. \A x \in written : x[2] \in 1..MaxSeq
          BY <3>2, MsgFields
        <4>2. 0 \notin 1..MaxSeq
          BY MsgFields
        <4> QED BY <3>2, <4>1, <4>2
      <3>4. \A x \in written : MessageOnWire(x) => MessageOnWire(x)'
        BY <1>8, <3>3
      <3> QED BY <1>1, <2>1, <3>1, <3>4, ShownStays
    <2> QED BY <2>2, <2>3, <2>4
  <1> QED BY <1>6, <1>7, <1>9, WireHeard DEF CardInv

LEMMA CardHearStep ==
  ASSUME CardInv, HearCard
  PROVE  CardInv'
  <1> PICK ev : ev = Head(cardWire)
    OBVIOUS
  <1>1. cardWire # <<>> /\ cardWire' = Tail(cardWire) /\ CardTyped
    BY DEF HearCard, CardInv
  <1>2. ev \in CardEvent
    BY <1>1, CardHeard
  <1>3. ev.kind \in {"dispatch", "message", "ended"}
    BY <1>2 DEF CardEvent
  <1> QED BY <1>3, MessageStep, EndedHeard, DispatchHeard

-----------------------------------------------------------------------------
(* The link, Stop, and the answers.                                         *)

LEMMA CardLinkSteps ==
  ASSUME CardInv, CardLinkDrops \/ CardReconnects
  PROVE  CardInv'
  <1>1. /\ UNCHANGED <<task, running, written, activeTask, cardRows, seenSeqs, cancelling, history, cardCalls>>
        /\ \/ cardHears' = FALSE /\ cardWire' = <<>> /\ cardStrayed' = TRUE
           \/ ~cardHears /\ cardHears' = TRUE /\ UNCHANGED <<cardWire, cardStrayed>>
    BY DEF CardLinkDrops, CardReconnects, cardServerVars
  <1>2. CardTyped /\ WireTrue
    BY DEF CardInv
  <1>3. cardWire' \in Seq(CardEvent) /\ cardWire' = <<>> /\ cardStrayed'
    <2>1. ~cardHears => cardWire = <<>> /\ cardStrayed
      BY <1>2 DEF WireTrue
    <2>2. cardWire' = <<>>
      BY <1>1, <2>1
    <2>3. cardStrayed'
      BY <1>1, <2>1
    <2>4. <<>> \in Seq(CardEvent)
      OBVIOUS
    <2> QED BY <2>2, <2>3, <2>4
  <1>4. cardHears' \in BOOLEAN /\ cardStrayed' \in BOOLEAN
    BY <1>1, <1>2 DEF CardTyped
  <1>5. CardTyped'
    BY <1>1, <1>2, <1>3, <1>4 DEF CardTyped
  <1>6. WireTrue'
    BY <1>3 DEF WireTrue
  <1>7. InOrder(cardRows') /\ OnCard' \subseteq seenSeqs'
    BY <1>1 DEF CardInv, OnCard
  <1> QED BY <1>3, <1>5, <1>6, <1>7 DEF CardInv

\* Nothing changes but the calls: those that went are replaced by those that
\* came, which promise as much.
LEMMA CallsStep ==
  ASSUME CardInv, UNCHANGED <<task, running, written, cardWire, cardHears, activeTask, cardRows, seenSeqs, history, cardStrayed>>,
         cancelling' \in BOOLEAN, cardCalls' \subseteq CardRequest,
         ~cardStrayed => /\ running /\ (\E c \in cardCalls : Brings(c)) => \E c \in cardCalls' : Brings(c)
                         /\ (\E c \in cardCalls : Tells(c)) => \E c \in cardCalls' : Tells(c)
                         /\ ShownTrue'
  PROVE  CardInv'
  <1>1. CardTyped /\ WireTrue
    BY DEF CardInv
  <1>2. CardTyped'
    BY <1>1 DEF CardTyped
  <1>3. WireTrue'
    BY <1>1 DEF WireTrue
  <1>4. InOrder(cardRows') /\ OnCard' \subseteq seenSeqs'
    BY DEF CardInv, OnCard
  <1>5. ASSUME ~cardStrayed' PROVE ActiveTrue' /\ HistoryTrue' /\ ShownTrue'
    <2>1. ActiveTrue /\ HistoryTrue
      BY <1>5 DEF CardInv
    <2>2. /\ \A t : EndComes(t) <=> EndComes(t)'
          /\ \A kind, t : OnWire(kind, t) <=> OnWire(kind, t)'
      BY DEF EndComes, OnWire
    <2>3. OnWire("dispatch", task)' <=> OnWire("dispatch", task)
      BY DEF OnWire
    <2>4. \A c : (Brings(c) <=> Brings(c)') /\ (Tells(c) <=> Tells(c)')
      BY DEF Brings, Tells, EndedTasks
    <2>5. ActiveTrue'
      <3>1. activeTask # 0 => EndComes(activeTask)'
        BY <2>1 DEF ActiveTrue, EndComes
      <3>2. ASSUME running, activeTask # task, ~OnWire("dispatch", task) PROVE \E c \in cardCalls' : Brings(c)'
        BY <1>5, <2>1, <2>4, <3>2 DEF ActiveTrue
      <3> QED BY <2>3, <3>1, <3>2 DEF ActiveTrue
    <2>6. HistoryTrue'
      <3>1. EndedTasks' = EndedTasks
        BY DEF EndedTasks
      <3> QED BY <1>5, <2>1, <2>2, <2>4, <3>1 DEF HistoryTrue
    <2> QED BY <1>5, <2>5, <2>6
  <1> QED BY <1>2, <1>3, <1>4, <1>5 DEF CardInv

\* A request to stop comes or goes.
LEMMA StopStays ==
  ASSUME CardInv, UNCHANGED <<task, running, written, cardWire, cardHears, activeTask, cardRows, seenSeqs, history, cardStrayed>>,
         cancelling' \in BOOLEAN, cardCalls' \subseteq CardRequest,
         \A c : c \in cardCalls' /\ c.op # "cancel" <=> c \in cardCalls /\ c.op # "cancel"
  PROVE  CardInv'
  <1>1. \A c : Brings(c) \/ Tells(c) => c.op # "cancel"
    BY DEF Brings, Tells
  <1>2. Shows' = Shows
    BY DEF Shows
  <1>3. \A x \in written : MessageOnWire(x) => MessageOnWire(x)'
    BY DEF MessageOnWire
  <1>4. ~cardStrayed => ShownTrue'
    <2>1. ASSUME ~cardStrayed PROVE ShownTrue
      BY <2>1 DEF CardInv
    <2> QED BY <1>2, <1>3, <2>1, ShownStays
  <1>5. (\E c \in cardCalls : Brings(c)) => \E c \in cardCalls' : Brings(c)
    BY <1>1
  <1>6. (\E c \in cardCalls : Tells(c)) => \E c \in cardCalls' : Tells(c)
    BY <1>1
  <1> QED BY <1>4, <1>5, <1>6, CallsStep

LEMMA StopStep ==
  ASSUME CardInv, PressStop
  PROVE  CardInv'
  <1> PICK a : a = CardCall("cancel", activeTask)
    OBVIOUS
  <1>1. /\ cardCalls' = cardCalls \cup {a} /\ cancelling' = TRUE
        /\ UNCHANGED <<task, running, written, cardWire, cardHears, activeTask, cardRows, seenSeqs, history, cardStrayed>>
    BY DEF PressStop, CardAsks, cardServerVars
  <1>2. activeTask \in 0..MaxTasks /\ cardCalls \subseteq CardRequest
    BY DEF CardInv, CardTyped
  <1>3. a \in CardRequest /\ a.op = "cancel"
    BY <1>2, CallsOf
  <1>4. cardCalls' \subseteq CardRequest /\ cancelling' \in BOOLEAN
    BY <1>1, <1>2, <1>3
  <1>5. \A c : c \in cardCalls' /\ c.op # "cancel" <=> c \in cardCalls /\ c.op # "cancel"
    BY <1>1, <1>3
  <1> QED BY <1>1, <1>4, <1>5, StopStays

\* The server has answered c with d.
LEMMA QueryServed ==
  ASSUME CardInv, NEW c \in cardCalls, NEW d, c.st = "sent", c.op \in {"mount", "dispatch", "list", "history"},
         UNCHANGED <<task, running, written, cardWire, cardHears, activeTask, cardRows, seenSeqs, cancelling, history, cardStrayed>>,
         cardCalls' = (cardCalls \ {c}) \cup {d}, d \in CardRequest, d.op = c.op, d.task = c.task, d.st \in {"done", "failed"},
         d.st = "done" /\ c.op = "history" => d.got = EndedTasks,
         d.st = "done" /\ c.op \in {"mount", "dispatch"} => d.got = IF running THEN task ELSE 0,
         d.st = "done" /\ c.op = "list" => d.list = OfTask(written, c.task)
  PROVE  CardInv'
  <1>1. CardTyped
    BY DEF CardInv
  <1>2. cardCalls' \subseteq CardRequest /\ cancelling' \in BOOLEAN
    BY <1>1 DEF CardTyped
  <1>3. /\ running /\ Brings(c) => Brings(d)
        /\ Tells(c) => Tells(d)
        /\ Lists1(c) <=> Lists1(d)
    BY DEF Brings, Tells, Lists1
  <1>4. running /\ (\E e \in cardCalls : Brings(e)) => \E e \in cardCalls' : Brings(e)
    BY <1>3
  <1>5. (\E e \in cardCalls : Tells(e)) => \E e \in cardCalls' : Tells(e)
    BY <1>3
  <1>6. ASSUME ~cardStrayed PROVE ShownTrue'
    <2>1. ShownTrue
      BY <1>6 DEF CardInv
    <2>2. OnCard' = OnCard /\ (RowsTrue <=> RowsTrue') /\ \A e : Lists1(e) <=> Lists1(e)'
      BY DEF OnCard, RowsTrue, MessageOnWire, Lists1
    <2>3. activeTask' # 0 => RowsTrue' \/ \E e \in cardCalls' : Lists1(e)'
      BY <1>3, <2>1, <2>2 DEF ShownTrue
    <2>4. \A e \in cardCalls' : e.op = "list" /\ e.st = "done" => e.list \subseteq OfTask(written', e.task)
      BY <2>1 DEF ShownTrue
    <2>5. ASSUME activeTask' # 0, NEW e \in cardCalls', Lists1(e), e.st = "done"
          PROVE  \A m \in OfTask(written', activeTask) : m \in e.list \/ m \in seenSeqs \/ MessageOnWire(m)'
      <3>1. CASE e = d
        <4>1. d.list = OfTask(written, c.task) /\ c.task = activeTask
          BY <2>5, <3>1 DEF Lists1
        <4> QED BY <3>1, <4>1
      <3>2. CASE e \in cardCalls
        <4>1. \A m \in OfTask(written, activeTask) : m \in e.list \/ m \in seenSeqs \/ MessageOnWire(m)
          BY <2>1, <2>5, <3>2 DEF ShownTrue
        <4> QED BY <4>1 DEF MessageOnWire
      <3> QED BY <3>1, <3>2
    <2>6. \A e, f \in cardCalls' : e.op \in {"mount", "list"} /\ f.op \in {"mount", "list"} => e = f
      <3>1. \A e \in cardCalls : e.op \in {"mount", "list"} /\ c.op \in {"mount", "list"} => e = c
        BY <2>1 DEF ShownTrue
      <3>2. \A e, f \in cardCalls : e.op \in {"mount", "list"} /\ f.op \in {"mount", "list"} => e = f
        BY <2>1 DEF ShownTrue
      <3>3. \A e \in cardCalls' : e = d \/ (e \in cardCalls /\ e # c)
        OBVIOUS
      <3> QED BY <3>1, <3>2, <3>3
    <2> QED BY <2>1, <2>2, <2>3, <2>4, <2>5, <2>6 DEF ShownTrue
  <1> QED BY <1>2, <1>4, <1>5, <1>6, CallsStep

LEMMA CardServeStep ==
  ASSUME CardInv, ServeCard
  PROVE  CardInv'
  <1>1. PICK c \in cardCalls, st \in {"done", "failed"} :
    /\ c.st = "sent"
    /\ \/ /\ c.op \in {"mount", "dispatch", "list", "history"}
          /\ cardCalls' = (cardCalls \ {c}) \cup
               {[c EXCEPT !.st = st,
                          !.got = CASE st = "failed" \/ c.op = "list" -> 0
                                    [] c.op = "history" -> EndedTasks
                                    [] OTHER -> IF running THEN task ELSE 0,
                          !.list = IF c.op = "list" /\ st = "done" THEN OfTask(written, c.task) ELSE {}]}
          /\ UNCHANGED <<cardServerVars, cardWire>>
       \/ /\ c.op = "cancel" /\ running /\ c.task = task
          /\ TaskEnds /\ UNCHANGED <<task, written>>
          /\ cardCalls' = (cardCalls \ {c}) \cup {[c EXCEPT !.st = st]}
       \/ /\ c.op = "cancel"
          /\ cardCalls' = (cardCalls \ {c}) \cup {[c EXCEPT !.st = "failed"]}
          /\ UNCHANGED <<cardServerVars, cardWire>>
    /\ UNCHANGED <<cardHears, activeTask, cardRows, seenSeqs, cancelling, history, cardStrayed>>
    BY DEF ServeCard
  <1>2. CardTyped /\ c \in CardRequest /\ cardCalls \subseteq CardRequest /\ cancelling \in BOOLEAN
    BY DEF CardInv, CardTyped
  <1>3. CASE c.op \in {"mount", "dispatch", "list", "history"}
    <2> PICK got : got = CASE st = "failed" \/ c.op = "list" -> 0
                           [] c.op = "history" -> EndedTasks
                           [] OTHER -> IF running THEN task ELSE 0
      OBVIOUS
    <2> PICK list : list = IF c.op = "list" /\ st = "done" THEN OfTask(written, c.task) ELSE {}
      OBVIOUS
    <2>1. got \in 0..MaxTasks /\ list \in SUBSET Msg
      <3>1. task \in 0..MaxTasks /\ written \subseteq Msg /\ running \in BOOLEAN /\ (running => task # 0)
        BY <1>2 DEF CardTyped
      <3>2. EndedTasks \in 0..MaxTasks
        BY <3>1, MsgFields DEF EndedTasks
      <3>3. got \in {0, EndedTasks, task}
        OBVIOUS
      <3>4. list \subseteq written
        BY DEF OfTask
      <3> QED BY <3>1, <3>2, <3>3, <3>4, MsgFields
    <2> PICK d : d = [c EXCEPT !.st = st, !.got = got, !.list = list]
      OBVIOUS
    <2>2. d \in CardRequest /\ d.op = c.op /\ d.task = c.task /\ d.st = st /\ d.got = got /\ d.list = list
      BY <1>2, <2>1 DEF CardRequest
    <2>3. /\ cardCalls' = (cardCalls \ {c}) \cup {d}
          /\ UNCHANGED <<task, running, written, cardWire, cardHears, activeTask, cardRows, seenSeqs, cancelling, history, cardStrayed>>
      BY <1>1, <1>3 DEF cardServerVars
    <2>4. /\ st = "done" /\ c.op = "history" => got = EndedTasks
          /\ st = "done" /\ c.op \in {"mount", "dispatch"} => got = IF running THEN task ELSE 0
          /\ st = "done" /\ c.op = "list" => list = OfTask(written, c.task)
      BY <1>3
    <2>5. /\ d.st \in {"done", "failed"}
          /\ d.st = "done" /\ c.op = "history" => d.got = EndedTasks
          /\ d.st = "done" /\ c.op \in {"mount", "dispatch"} => d.got = IF running THEN task ELSE 0
          /\ d.st = "done" /\ c.op = "list" => d.list = OfTask(written, c.task)
      BY <2>2, <2>4
    <2> QED BY <1>1, <1>3, <2>2, <2>3, <2>5, QueryServed
  <1>4. CASE c.op = "cancel" /\ running /\ TaskEnds /\ UNCHANGED <<task, written>>
             /\ cardCalls' = (cardCalls \ {c}) \cup {[c EXCEPT !.st = st]}
    <2> PICK d : d = [c EXCEPT !.st = st]
      OBVIOUS
    <2>1. d \in CardRequest /\ d.op = "cancel"
      BY <1>2, <1>4 DEF CardRequest
    <2>2. cardCalls' = (cardCalls \ {c}) \cup {d}
      BY <1>4
    <2>3. cardCalls' \subseteq CardRequest
      BY <1>2, <2>1, <2>2
    <2>4. {e \in cardCalls' : e.op # "cancel"} = {e \in cardCalls : e.op # "cancel"}
      BY <1>4, <2>1, <2>2
    <2> QED BY <1>1, <1>4, <2>3, <2>4, EndKeeps
  <1>5. CASE c.op = "cancel" /\ cardCalls' = (cardCalls \ {c}) \cup {[c EXCEPT !.st = "failed"]}
             /\ UNCHANGED <<cardServerVars, cardWire>>
    <2> PICK d : d = [c EXCEPT !.st = "failed"]
      OBVIOUS
    <2>1. d \in CardRequest /\ d.op = "cancel"
      BY <1>2, <1>5 DEF CardRequest
    <2>2. cardCalls' = (cardCalls \ {c}) \cup {d}
      BY <1>5
    <2>3. cardCalls' \subseteq CardRequest
      BY <1>2, <2>1, <2>2
    <2>4. \A e : e \in cardCalls' /\ e.op # "cancel" <=> e \in cardCalls /\ e.op # "cancel"
      BY <1>5, <2>1, <2>2
    <2>5. cancelling' \in BOOLEAN
      BY <1>1, <1>2
    <2>6. UNCHANGED <<task, running, written, cardWire, cardHears, activeTask, cardRows, seenSeqs, history, cardStrayed>>
      BY <1>1, <1>5 DEF cardServerVars
    <2> QED BY <2>3, <2>4, <2>5, <2>6, StopStays
  <1> QED BY <1>1, <1>3, <1>4, <1>5

\* What an answer leaves as it is.
LEMMA LandFrame ==
  ASSUME CardInv, UNCHANGED <<task, running, written, cardWire, cardHears>>, cardCalls' \subseteq CardRequest,
         activeTask' \in 0..MaxTasks, cardRows' \in Seq(Msg), seenSeqs' \subseteq Msg, history' \in 0..MaxTasks,
         cancelling' \in BOOLEAN, cardStrayed' \in BOOLEAN, cardStrayed => cardStrayed'
  PROVE  /\ CardTyped' /\ WireTrue' /\ EndedTasks' = EndedTasks
         /\ \A t : EndComes(t) <=> EndComes(t)'
         /\ \A kind, t : OnWire(kind, t) <=> OnWire(kind, t)'
         /\ OnWire("dispatch", task)' <=> OnWire("dispatch", task)
         /\ \A m : MessageOnWire(m) <=> MessageOnWire(m)'
         /\ \A c : (Brings(c) <=> Brings(c)') /\ (Tells(c) <=> Tells(c)')
  <1>1. CardTyped /\ WireTrue
    BY DEF CardInv
  <1>2. CardTyped'
    BY <1>1 DEF CardTyped
  <1>3. WireTrue'
    BY <1>1 DEF WireTrue
  <1>4. \A t : EndComes(t) <=> EndComes(t)'
    BY DEF EndComes
  <1>5. /\ \A kind, t : OnWire(kind, t) <=> OnWire(kind, t)'
        /\ OnWire("dispatch", task)' <=> OnWire("dispatch", task)
    BY DEF OnWire
  <1>6. \A m : MessageOnWire(m) <=> MessageOnWire(m)'
    BY DEF MessageOnWire
  <1>7. EndedTasks' = EndedTasks
    BY DEF EndedTasks
  <1>8. \A c : (Brings(c) <=> Brings(c)') /\ (Tells(c) <=> Tells(c)')
    BY <1>7 DEF Brings, Tells
  <1> QED BY <1>2, <1>3, <1>4, <1>5, <1>6, <1>7, <1>8

LEMMA HistoryKept ==
  ASSUME HistoryTrue, history' = history, EndedTasks' = EndedTasks,
         \A kind, t : OnWire(kind, t) <=> OnWire(kind, t)', \A c : Tells(c) <=> Tells(c)',
         \A c \in cardCalls : c.op = "history" => c \in cardCalls'
  PROVE  HistoryTrue'
  <1>1. \A c : Tells(c) => c.op = "history"
    BY DEF Tells
  <1> QED BY <1>1 DEF HistoryTrue

LEMMA MountStep ==
  ASSUME CardInv, NEW c \in cardCalls, c.st = "done", c.op = "mount", MountLands(c),
         UNCHANGED <<task, running, written, cardWire, cardHears, cancelling>>
  PROVE  CardInv'
  <1>1. CardTyped /\ c \in CardRequest
    BY DEF CardInv, CardTyped
  <1>2. c.got \in 0..MaxTasks
    BY <1>1 DEF CardRequest
  <1> PICK a : a = CardCall("list", c.got)
    OBVIOUS
  <1>3. a \in CardRequest /\ a.op = "list" /\ a.st = "sent" /\ a.task = c.got
    BY <1>2, CallsOf
  <1>4. /\ activeTask' = c.got /\ UNCHANGED <<cardRows, seenSeqs, history>>
        /\ cardCalls' = (cardCalls \ {c}) \cup (IF c.got = 0 THEN {} ELSE {a})
        /\ ~cardStrayed' => /\ ~cardStrayed /\ (c.got # 0 => EndComes(c.got))
                            /\ (running => c.got = task)
        /\ cardStrayed => cardStrayed'
        /\ cardStrayed' \in BOOLEAN
    BY DEF MountLands
  <1>5. cardCalls' \subseteq CardRequest /\ cancelling' \in BOOLEAN /\ cardRows' \in Seq(Msg) /\ seenSeqs' \subseteq Msg
        /\ history' \in 0..MaxTasks /\ activeTask' \in 0..MaxTasks
    <2>1. cardCalls' \subseteq cardCalls \cup {a}
      BY <1>4
    <2> QED BY <1>1, <1>2, <1>3, <1>4, <2>1 DEF CardTyped
  <1>6. /\ CardTyped' /\ WireTrue' /\ EndedTasks' = EndedTasks
        /\ \A t : EndComes(t) <=> EndComes(t)'
        /\ \A kind, t : OnWire(kind, t) <=> OnWire(kind, t)'
        /\ \A d : (Brings(d) <=> Brings(d)') /\ (Tells(d) <=> Tells(d)')
    BY <1>4, <1>5, LandFrame
  <1>7. InOrder(cardRows') /\ OnCard' = OnCard /\ OnCard' \subseteq seenSeqs'
    BY <1>4 DEF CardInv, OnCard
  <1>8. ASSUME ~cardStrayed' PROVE ActiveTrue' /\ HistoryTrue' /\ ShownTrue'
    <2>1. ActiveTrue /\ HistoryTrue /\ ShownTrue
      BY <1>4, <1>8 DEF CardInv
    <2>2. ActiveTrue'
      <3>1. activeTask' # 0 => EndComes(c.got)'
        BY <1>4, <1>6, <1>8
      <3>2. activeTask' # 0 => EndComes(activeTask)'
        BY <1>4, <3>1 DEF EndComes
      <3> QED BY <1>4, <1>8, <3>2 DEF ActiveTrue
    <2>3. HistoryTrue'
      <3>1. \A d \in cardCalls : d.op = "history" => d \in cardCalls'
        BY <1>4
      <3> QED BY <1>4, <1>6, <2>1, <3>1, HistoryKept
    <2>4. ShownTrue'
      <3>1. \A d \in cardCalls' : d.op \in {"mount", "list"} => c.got # 0 /\ d = a
        <4>1. \A d \in cardCalls : d.op \in {"mount", "list"} => d = c
          BY <2>1 DEF ShownTrue
        <4>2. \A d \in cardCalls' : (d \in cardCalls /\ d # c) \/ (c.got # 0 /\ d = a)
          BY <1>4
        <4> QED BY <4>1, <4>2
      <3>2. activeTask' # 0 => \E d \in cardCalls' : Lists1(d)'
        BY <1>3, <1>4 DEF Lists1
      <3>3. \A d : Lists1(d)' => d.op = "list"
        BY DEF Lists1
      <3>4. \A d \in cardCalls' : d.op = "list" => d.st = "sent"
        BY <1>3, <3>1
      <3>5. seenSeqs' = OnCard'
        BY <1>4, <1>7, <2>1 DEF ShownTrue
      <3> QED BY <3>1, <3>2, <3>3, <3>4, <3>5 DEF ShownTrue
    <2> QED BY <2>2, <2>3, <2>4
  <1> QED BY <1>6, <1>7, <1>8 DEF CardInv

LEMMA DispatchLandStep ==
  ASSUME CardInv, NEW c \in cardCalls, c.st = "done", c.op = "dispatch", DispatchLands(c),
         UNCHANGED <<task, running, written, cardWire, cardHears, cancelling>>
  PROVE  CardInv'
  <1>1. CardTyped /\ c \in CardRequest
    BY DEF CardInv, CardTyped
  <1>2. c.got \in 0..MaxTasks
    BY <1>1 DEF CardRequest
  <1>3. /\ c.got = 0 => UNCHANGED <<activeTask, cardRows, seenSeqs>>
        /\ c.got # 0 => activeTask' = c.got /\ cardRows' = <<>> /\ seenSeqs' = {}
        /\ cardCalls' = cardCalls \ {c} /\ history' = history
        /\ ~cardStrayed' => /\ ~cardStrayed /\ (c.got # 0 => EndComes(c.got) /\ c.got = task)
                            /\ \A m \in OfTask(written, c.got) : MessageOnWire(m)
        /\ cardStrayed => cardStrayed'
        /\ cardStrayed' \in BOOLEAN
    BY DEF DispatchLands, MessageOnWire
  <1>4. cardCalls' \subseteq CardRequest /\ cancelling' \in BOOLEAN /\ cardRows' \in Seq(Msg) /\ seenSeqs' \subseteq Msg
        /\ history' \in 0..MaxTasks /\ activeTask' \in 0..MaxTasks
    <2>1. <<>> \in Seq(Msg)
      OBVIOUS
    <2> QED BY <1>1, <1>2, <1>3, <2>1 DEF CardTyped
  <1>5. /\ CardTyped' /\ WireTrue' /\ EndedTasks' = EndedTasks
        /\ \A t : EndComes(t) <=> EndComes(t)'
        /\ \A kind, t : OnWire(kind, t) <=> OnWire(kind, t)'
        /\ OnWire("dispatch", task)' <=> OnWire("dispatch", task)
        /\ \A m : MessageOnWire(m) <=> MessageOnWire(m)'
        /\ \A d : (Brings(d) <=> Brings(d)') /\ (Tells(d) <=> Tells(d)')
    BY <1>3, <1>4, LandFrame
  <1>6. InOrder(cardRows') /\ OnCard' \subseteq seenSeqs'
    <2>1. CASE c.got = 0
      BY <1>3, <2>1 DEF CardInv, OnCard
    <2>2. CASE c.got # 0
      BY <1>3, <2>2 DEF InOrder, OnCard
    <2> QED BY <2>1, <2>2
  <1>7. ASSUME ~cardStrayed' PROVE ActiveTrue' /\ HistoryTrue' /\ ShownTrue'
    <2>1. ActiveTrue /\ HistoryTrue /\ ShownTrue
      BY <1>3, <1>7 DEF CardInv
    <2>2. ActiveTrue'
      <3>1. CASE c.got = 0
        <4>1. activeTask' # 0 => EndComes(activeTask)'
          <5>1. activeTask # 0 => EndComes(activeTask)
            BY <2>1 DEF ActiveTrue
          <5> QED BY <1>3, <3>1, <5>1 DEF EndComes
        <4>2. running => ~Brings(c)
          BY <1>1, <3>1 DEF Brings, CardTyped
        <4>3. ASSUME running, activeTask # task, ~OnWire("dispatch", task) PROVE \E d \in cardCalls' : Brings(d)'
          <5>1. PICK d \in cardCalls : Brings(d)
            BY <2>1, <4>3 DEF ActiveTrue
          <5> QED BY <1>3, <1>5, <4>2, <4>3, <5>1
        <4> QED BY <1>3, <1>5, <3>1, <4>1, <4>3 DEF ActiveTrue
      <3>2. CASE c.got # 0
        <4>1. EndComes(activeTask)' /\ activeTask' = task
          BY <1>3, <1>7, <3>2 DEF EndComes
        <4> QED BY <4>1 DEF ActiveTrue
      <3> QED BY <3>1, <3>2
    <2>3. HistoryTrue'
      <3>1. \A d \in cardCalls : d.op = "history" => d \in cardCalls'
        BY <1>3
      <3> QED BY <1>3, <1>5, <2>1, <3>1, HistoryKept
    <2>4. ShownTrue'
      <3>1. CASE c.got = 0
        <4>1. Shows' = Shows
          BY <1>3 DEF Shows
        <4> QED BY <1>3, <1>5, <2>1, <3>1, <4>1, ShownStays
      <3>2. CASE c.got # 0
        <4>1. seenSeqs' = OnCard' /\ OnCard' = {}
          BY <1>3, <3>2 DEF OnCard
        <4>2. \A m \in OfTask(written', activeTask') : MessageOnWire(m)'
          BY <1>3, <1>5, <1>7, <3>2
        <4>3. RowsTrue'
          BY <4>1, <4>2 DEF RowsTrue
        <4>4. /\ \A d \in cardCalls' : d.op = "list" /\ d.st = "done" => d.list \subseteq OfTask(written', d.task)
              /\ \A d, e \in cardCalls' : d.op \in {"mount", "list"} /\ e.op \in {"mount", "list"} => d = e
          BY <1>3, <2>1 DEF ShownTrue
        <4> QED BY <4>1, <4>2, <4>3, <4>4 DEF ShownTrue
      <3> QED BY <3>1, <3>2
    <2> QED BY <2>2, <2>3, <2>4
  <1> QED BY <1>5, <1>6, <1>7 DEF CardInv

LEMMA ListLandStep ==
  ASSUME CardInv, NEW c \in cardCalls, c.st = "done", c.op = "list", CardListLands(c),
         UNCHANGED <<task, running, written, cardWire, cardHears, cancelling>>
  PROVE  CardInv'
  <1>1. CardTyped /\ c \in CardRequest
    BY DEF CardInv, CardTyped
  <1>2. c.list \in SUBSET Msg
    BY <1>1 DEF CardRequest
  <1> PICK q : q = BySeq(c.list)
    OBVIOUS
  <1>3. q \in Seq(Msg) /\ InOrder(q) /\ \A x : (\E k \in DOMAIN q : q[k] = x) <=> x \in c.list
    <2> PICK S \in SUBSET Msg : S = c.list
      BY <1>2
    <2>1. /\ BySeq(S) \in Seq(Msg) /\ InOrder(BySeq(S))
          /\ \A x : (\E k \in DOMAIN BySeq(S) : BySeq(S)[k] = x) <=> x \in S
      BY ListedBySeq
    <2> QED BY <2>1
  <1>4. /\ cardRows' = q /\ seenSeqs' = seenSeqs \cup c.list
        /\ cardCalls' = cardCalls \ {c} /\ UNCHANGED <<activeTask, history>>
        /\ ~cardStrayed' => ~cardStrayed /\ c.task = activeTask /\ seenSeqs \subseteq c.list
        /\ cardStrayed => cardStrayed'
        /\ cardStrayed' \in BOOLEAN
    BY DEF CardListLands
  <1>5. cardRows' \in Seq(Msg) /\ InOrder(cardRows')
    BY <1>3, <1>4
  <1>6. cardCalls' \subseteq CardRequest /\ cancelling' \in BOOLEAN /\ seenSeqs' \subseteq Msg
        /\ history' \in 0..MaxTasks /\ activeTask' \in 0..MaxTasks
    BY <1>1, <1>2, <1>4 DEF CardTyped
  <1>7. /\ CardTyped' /\ WireTrue' /\ EndedTasks' = EndedTasks
        /\ \A kind, t : OnWire(kind, t) <=> OnWire(kind, t)'
        /\ OnWire("dispatch", task)' <=> OnWire("dispatch", task)
        /\ \A m : MessageOnWire(m) <=> MessageOnWire(m)'
        /\ \A d : (Brings(d) <=> Brings(d)') /\ (Tells(d) <=> Tells(d)')
    BY <1>4, <1>5, <1>6, LandFrame
  <1>8. OnCard' = c.list /\ OnCard' \subseteq seenSeqs'
    <2>1. \A x : (\E k \in DOMAIN cardRows' : cardRows'[k] = x) <=> x \in c.list
      BY <1>3, <1>4
    <2> QED BY <1>4, <2>1 DEF OnCard
  <1>9. ASSUME ~cardStrayed' PROVE ActiveTrue' /\ HistoryTrue' /\ ShownTrue'
    <2>1. ActiveTrue /\ HistoryTrue /\ ShownTrue
      BY <1>4, <1>9 DEF CardInv
    <2>2. ActiveTrue'
      <3>1. ~Brings(c)
        BY DEF Brings
      <3>2. activeTask' # 0 => EndComes(activeTask)'
        BY <1>4, <2>1 DEF ActiveTrue, EndComes
      <3>3. ASSUME running, activeTask # task, ~OnWire("dispatch", task) PROVE \E d \in cardCalls' : Brings(d)'
        <4>1. PICK d \in cardCalls : Brings(d)
          BY <2>1, <3>3 DEF ActiveTrue
        <4> QED BY <1>4, <1>7, <3>1, <4>1
      <3> QED BY <1>4, <1>7, <3>2, <3>3 DEF ActiveTrue
    <2>3. HistoryTrue'
      <3>1. \A d \in cardCalls : d.op = "history" => d \in cardCalls'
        BY <1>4
      <3> QED BY <1>4, <1>7, <2>1, <3>1, HistoryKept
    <2>4. ShownTrue'
      <3>1. \A d \in cardCalls' : d.op \notin {"mount", "list"}
        BY <1>4, <2>1 DEF ShownTrue
      <3>2. seenSeqs' = OnCard'
        BY <1>4, <1>8, <1>9
      <3>3. \A d : Lists1(d)' => d.op = "list"
        BY DEF Lists1
      <3>4. ASSUME activeTask # 0 PROVE RowsTrue'
        <4>1. Lists1(c)
          BY <1>4, <1>9 DEF Lists1
        <4>2. c.list \subseteq OfTask(written, activeTask)
          BY <1>4, <1>9, <2>1 DEF ShownTrue
        <4>3. \A m \in OfTask(written, activeTask) : m \in c.list \/ m \in seenSeqs \/ MessageOnWire(m)
          BY <2>1, <3>4, <4>1 DEF ShownTrue
        <4>4. \A m \in OfTask(written', activeTask') : m \in OnCard' \/ MessageOnWire(m)'
          BY <1>4, <1>7, <1>8, <1>9, <4>3
        <4> QED BY <1>4, <1>8, <4>2, <4>4 DEF RowsTrue
      <3> QED BY <1>4, <3>1, <3>2, <3>3, <3>4 DEF ShownTrue
    <2> QED BY <2>2, <2>3, <2>4
  <1> QED BY <1>5, <1>7, <1>8, <1>9 DEF CardInv

LEMMA HistoryLandStep ==
  ASSUME CardInv, NEW c \in cardCalls, c.st = "done", c.op = "history", HistoryLands(c),
         UNCHANGED <<task, running, written, cardWire, cardHears, cancelling>>
  PROVE  CardInv'
  <1>1. CardTyped /\ c \in CardRequest
    BY DEF CardInv, CardTyped
  <1>2. c.got \in 0..MaxTasks
    BY <1>1 DEF CardRequest
  <1>3. /\ history' = c.got /\ cardCalls' = cardCalls \ {c} /\ UNCHANGED <<activeTask, cardRows, seenSeqs>>
        /\ ~cardStrayed' => /\ ~cardStrayed
                            /\ \/ c.got = EndedTasks
                               \/ \E d \in cardCalls : d.op = "history" /\ (d.st = "sent" \/ d.got = EndedTasks)
                               \/ \E k \in DOMAIN cardWire : cardWire[k].kind = "ended"
        /\ cardStrayed => cardStrayed'
        /\ cardStrayed' \in BOOLEAN
    BY DEF HistoryLands
  <1>4. cardCalls' \subseteq CardRequest /\ cancelling' \in BOOLEAN /\ cardRows' \in Seq(Msg) /\ seenSeqs' \subseteq Msg
        /\ history' \in 0..MaxTasks /\ activeTask' \in 0..MaxTasks
    BY <1>1, <1>2, <1>3 DEF CardTyped
  <1>5. /\ CardTyped' /\ WireTrue' /\ EndedTasks' = EndedTasks
        /\ \A kind, t : OnWire(kind, t) <=> OnWire(kind, t)'
        /\ OnWire("dispatch", task)' <=> OnWire("dispatch", task)
        /\ \A m : MessageOnWire(m) <=> MessageOnWire(m)'
        /\ \A d : (Brings(d) <=> Brings(d)') /\ (Tells(d) <=> Tells(d)')
    BY <1>3, <1>4, LandFrame
  <1>6. InOrder(cardRows') /\ OnCard' \subseteq seenSeqs'
    BY <1>3 DEF CardInv, OnCard
  <1>7. ASSUME ~cardStrayed' PROVE ActiveTrue' /\ HistoryTrue' /\ ShownTrue'
    <2>1. ActiveTrue /\ ShownTrue
      BY <1>3, <1>7 DEF CardInv
    <2>2. ActiveTrue'
      <3>1. ~Brings(c)
        BY DEF Brings
      <3>2. activeTask' # 0 => EndComes(activeTask)'
        BY <1>3, <2>1 DEF ActiveTrue, EndComes
      <3>3. ASSUME running, activeTask # task, ~OnWire("dispatch", task) PROVE \E d \in cardCalls' : Brings(d)'
        <4>1. PICK d \in cardCalls : Brings(d)
          BY <2>1, <3>3 DEF ActiveTrue
        <4> QED BY <1>3, <1>5, <3>1, <4>1
      <3> QED BY <1>3, <1>5, <3>2, <3>3 DEF ActiveTrue
    <2>3. HistoryTrue'
      <3>1. CASE c.got = EndedTasks
        BY <1>3, <1>5, <3>1 DEF HistoryTrue
      <3>2. CASE c.got # EndedTasks /\ \E d \in cardCalls : d.op = "history" /\ (d.st = "sent" \/ d.got = EndedTasks)
        <4>1. PICK d \in cardCalls : d.op = "history" /\ (d.st = "sent" \/ d.got = EndedTasks)
          BY <3>2
        <4>2. d # c /\ Tells(d)
          BY <3>2, <4>1 DEF Tells
        <4> QED BY <1>3, <1>5, <4>2 DEF HistoryTrue
      <3>3. CASE \E k \in DOMAIN cardWire : cardWire[k].kind = "ended"
        <4>1. PICK k \in DOMAIN cardWire : cardWire[k].kind = "ended"
          BY <3>3
        <4>2. cardWire[k].task \in 1..MaxTasks
          BY <1>1, <4>1 DEF CardTyped, CardEvent
        <4>3. OnWire("ended", cardWire[k].task)
          BY <4>1 DEF OnWire
        <4> PICK t \in 1..MaxTasks : t = cardWire[k].task
          BY <4>2
        <4>4. OnWire("ended", t)'
          BY <1>5, <4>3
        <4> QED BY <4>4 DEF HistoryTrue
      <3> QED BY <1>3, <1>7, <3>1, <3>2, <3>3
    <2>4. ShownTrue'
      <3>1. Shows' = Shows
        BY <1>3 DEF Shows
      <3> QED BY <1>3, <1>5, <2>1, <3>1, ShownStays
    <2> QED BY <2>2, <2>3, <2>4
  <1> QED BY <1>5, <1>6, <1>7 DEF CardInv

LEMMA CardAnswerStep ==
  ASSUME CardInv, CardAnswers
  PROVE  CardInv'
  <1>1. PICK c \in cardCalls :
    /\ c.st = "done"
    /\ \/ c.op = "mount" /\ MountLands(c)
       \/ c.op = "dispatch" /\ DispatchLands(c)
       \/ c.op = "list" /\ CardListLands(c)
       \/ c.op = "history" /\ HistoryLands(c)
       \/ /\ c.op = "cancel" /\ cardCalls' = cardCalls \ {c}
          /\ UNCHANGED <<activeTask, cardRows, seenSeqs, history, cardStrayed>>
    /\ UNCHANGED <<cardServerVars, cardWire, cardHears, cancelling>>
    BY DEF CardAnswers
  <1>2. UNCHANGED <<task, running, written, cardWire, cardHears, cancelling>>
    BY <1>1 DEF cardServerVars
  <1>3. CASE c.op = "cancel" /\ cardCalls' = cardCalls \ {c}
             /\ UNCHANGED <<activeTask, cardRows, seenSeqs, history, cardStrayed>>
    <2>1. cardCalls' \subseteq CardRequest /\ cancelling' \in BOOLEAN
      BY <1>2, <1>3 DEF CardInv, CardTyped
    <2>2. \A d : d \in cardCalls' /\ d.op # "cancel" <=> d \in cardCalls /\ d.op # "cancel"
      BY <1>3
    <2> QED BY <1>2, <1>3, <2>1, <2>2, StopStays
  <1> QED BY <1>1, <1>2, <1>3, MountStep, DispatchLandStep, ListLandStep, HistoryLandStep

LEMMA CardFailStep ==
  ASSUME CardInv, CardFails
  PROVE  CardInv'
  <1>1. PICK c \in cardCalls :
    /\ c.st = "failed"
    /\ cardCalls' = cardCalls \ {c}
    /\ cancelling' = (cancelling /\ c.op # "cancel")
    /\ cardStrayed' = (cardStrayed \/ c.op # "cancel")
    /\ UNCHANGED <<cardServerVars, cardWire, cardHears, activeTask, cardRows, seenSeqs, history>>
    BY DEF CardFails
  <1>2. /\ UNCHANGED <<task, running, written, cardWire, cardHears, activeTask, cardRows, seenSeqs, history>>
        /\ cancelling' \in BOOLEAN /\ cardStrayed' \in BOOLEAN
    BY <1>1 DEF cardServerVars
  <1>3. CardTyped
    BY DEF CardInv
  <1>4. cardCalls' \subseteq CardRequest
    BY <1>1, <1>3 DEF CardTyped
  <1>5. CASE c.op = "cancel"
    <2>1. cardStrayed' = cardStrayed
      BY <1>1, <1>3, <1>5 DEF CardTyped
    <2>2. \A d : d \in cardCalls' /\ d.op # "cancel" <=> d \in cardCalls /\ d.op # "cancel"
      BY <1>1, <1>5
    <2> QED BY <1>2, <1>4, <2>1, <2>2, StopStays
  <1>6. CASE c.op # "cancel"
    <2>1. cardStrayed'
      BY <1>1, <1>6
    <2>2. CardTyped' /\ WireTrue'
      BY <1>2, <1>3, <1>4, <2>1, LandFrame DEF CardTyped
    <2>3. InOrder(cardRows') /\ OnCard' \subseteq seenSeqs'
      BY <1>2 DEF CardInv, OnCard
    <2> QED BY <2>1, <2>2, <2>3 DEF CardInv
  <1> QED BY <1>5, <1>6

-----------------------------------------------------------------------------
(* The start, and what follows.                                             *)

LEMMA CardStart == CardInit => CardInv
  <1> SUFFICES ASSUME CardInit PROVE CardInv
    OBVIOUS
  <1> PICK a : a = CardCall("mount", 0)
    OBVIOUS
  <1> PICK b : b = CardCall("history", 0)
    OBVIOUS
  <1>1. /\ task \in 0..1 /\ running = (task = 1)
        /\ cardWire = <<>> /\ cardHears = TRUE /\ activeTask = 0 /\ cardRows = <<>> /\ seenSeqs = {}
        /\ cancelling = FALSE /\ history = 0 /\ cardCalls = {a, b} /\ cardStrayed = FALSE
    BY DEF CardInit
  <1>2. /\ a \in CardRequest /\ a.op = "mount" /\ a.st = "sent"
        /\ b \in CardRequest /\ b.op = "history" /\ b.st = "sent"
    BY CallsOf, MsgFields
  <1>3. written \subseteq Msg
    <2>1. 1 \in 1..MaxTasks /\ 1 \in 1..MaxSeq
      BY CardAssumption
    <2>2. written \subseteq {<<1, 1>>}
      BY DEF CardInit, OfTask
    <2> QED BY <2>1, <2>2, MsgFields
  <1>4. task \in 0..MaxTasks /\ 0 \in 0..MaxTasks
    BY <1>1, CardAssumption
  <1>5. running \in BOOLEAN /\ (running => task # 0)
    <2>1. CASE task = 1
      <3>1. (task = 1) = TRUE
        BY <2>1
      <3>2. running = TRUE
        BY <1>1, <3>1, Zenon
      <3> QED BY <2>1, <3>2
    <2>2. CASE task # 1
      <3>1. (task = 1) = FALSE
        BY <2>2
      <3>2. running = FALSE
        BY <1>1, <3>1, Zenon
      <3> QED BY <3>2
    <2> QED BY <2>1, <2>2
  <1>6. <<>> \in Seq(CardEvent) /\ <<>> \in Seq(Msg)
    OBVIOUS
  <1>7. cancelling \in BOOLEAN /\ cardHears \in BOOLEAN /\ cardStrayed \in BOOLEAN
    BY <1>1
  <1>8. CardTyped
    BY <1>1, <1>2, <1>3, <1>4, <1>5, <1>6, <1>7 DEF CardTyped
  <1>9. OnCard = {} /\ InOrder(cardRows) /\ seenSeqs = OnCard
    BY <1>1 DEF OnCard, InOrder
  <1>10. WireTrue
    BY <1>1 DEF WireTrue
  <1>11. ActiveTrue
    <2>1. Brings(a)
      BY <1>2 DEF Brings
    <2> QED BY <1>1, <2>1 DEF ActiveTrue
  <1>12. HistoryTrue
    <2>1. Tells(b)
      BY <1>2 DEF Tells
    <2> QED BY <1>1, <2>1 DEF HistoryTrue
  <1>13. ShownTrue
    <2>1. \A c \in cardCalls : c.op \in {"mount", "list"} => c = a
      BY <1>1, <1>2
    <2>2. \A c \in cardCalls : c.st = "sent"
      BY <1>1, <1>2
    <2> QED BY <1>1, <1>9, <2>1, <2>2 DEF ShownTrue
  <1> QED BY <1>8, <1>9, <1>10, <1>11, <1>12, <1>13 DEF CardInv

LEMMA CardStep == CardInv /\ [CardNext]_cardVars => CardInv'
  <1> SUFFICES ASSUME CardInv, [CardNext]_cardVars PROVE CardInv'
    OBVIOUS
  <1>1. CASE UNCHANGED cardVars
    <2>1. UNCHANGED <<task, running, written, cardWire, cardHears, activeTask, cardRows, seenSeqs, cancelling, history, cardCalls, cardStrayed>>
      BY <1>1 DEF cardVars, cardServerVars
    <2>2. cardCalls' \subseteq CardRequest /\ cancelling' \in BOOLEAN
      BY <2>1 DEF CardInv, CardTyped
    <2> QED BY <2>1, <2>2, StopStays
  <1> QED BY <1>1, DispatchStep, CardWriteStep, EndStep, CardHearStep, CardLinkSteps, StopStep, CardServeStep, CardAnswerStep, CardFailStep DEF CardNext

(* Theorem (the invariant behind the two below). The start of the task that *)
(* runs is behind every end on its way; and until something is missed, the  *)
(* end of the task shown is to come, the task that runs is shown or brought *)
(* by a request or an event, each message it wrote is on the card, on its   *)
(* way or in a list asked for, and at most one list is.                     *)
THEOREM CardInvariant == CardSpec => []CardInv
  BY CardStart, CardStep, PTL DEF CardSpec

(* Theorem (the type of the card). What the card keeps are tasks of the     *)
(* issue and their messages.                                                *)
THEOREM CardTypeCorrect == CardSpec => []CardTypeOK
  <1>1. CardInv => CardTypeOK
    BY DEF CardInv, CardTyped, CardTypeOK
  <1> QED BY <1>1, CardInvariant, PTL

(* Theorem (the card follows its task). For every number of tasks, messages,*)
(* events and requests in flight: each message is on the card once and in   *)
(* the order of its number, and once all is heard and answered and nothing  *)
(* was missed, the card shows the running task with all it wrote, or none.  *)
THEOREM CardFollowsServer == CardSpec => []CardFollows
  <1>1. CardInv => CardFollows
    <2> SUFFICES ASSUME CardInv PROVE CardFollows
      OBVIOUS
    <2>1. \A j, k \in DOMAIN cardRows : j < k => cardRows[j] # cardRows[k] /\ cardRows[j][2] <= cardRows[k][2]
      BY DEF CardInv, InOrder, NumberOf
    <2>2. ASSUME cardHears, cardWire = <<>>, cardCalls = {}, ~cardStrayed
          PROVE  /\ activeTask = IF running THEN task ELSE 0
                 /\ history = EndedTasks
                 /\ activeTask # 0 => {cardRows[k] : k \in DOMAIN cardRows} = OfTask(written, activeTask)
      <3>1. ActiveTrue /\ HistoryTrue /\ ShownTrue /\ CardTyped
        BY <2>2 DEF CardInv
      <3>2. (\A kind, t : ~OnWire(kind, t)) /\ \A m : ~MessageOnWire(m)
        BY <2>2 DEF OnWire, MessageOnWire
      <3>3. activeTask # 0 => running /\ activeTask = task
        BY <3>1, <3>2, EndIs DEF ActiveTrue
      <3>4. running => activeTask = task
        BY <2>2, <3>1, <3>2 DEF ActiveTrue
      <3>5. activeTask = IF running THEN task ELSE 0
        BY <3>1, <3>3, <3>4 DEF CardTyped
      <3>6. history = EndedTasks
        BY <2>2, <3>1, <3>2 DEF HistoryTrue
      <3>7. activeTask # 0 => RowsTrue
        BY <2>2, <3>1 DEF ShownTrue
      <3>8. activeTask # 0 => OnCard = OfTask(written, activeTask)
        BY <3>2, <3>7 DEF RowsTrue
      <3> QED BY <3>5, <3>6, <3>8 DEF OnCard
    <2> QED BY <2>1, <2>2 DEF CardFollows
  <1> QED BY <1>1, CardInvariant, PTL

-------------------------------------------------------------------------------
(***************************************************************************)
(* The issue pages and the board.                                           *)
(***************************************************************************)

-----------------------------------------------------------------------------
(* The issue pages *)

ViewFilters == [status : SUBSET AllStatuses, picks : [Dims -> SUBSET PickValues]]
ViewRecord  == [filters : ViewFilters, scope : IssuesScopes \cup MyScopes, mode : {"board", "list"},
                sortBy : {"position", "title"}, direction : {"asc", "desc"}]
PageRows    == [IssueIds -> [status : AllStatuses, position : Int]]

\* What the subscription knows: once it has seen a workspace, it is the one shown.
Primed == primed => subscribed /\ prevId = shownWs /\ shownWs # 0

ViewTyped ==
    /\ view \in [Pages -> ViewRecord] /\ \A p \in Pages : view[p].scope \in Scopes(p)
    /\ chosenIn \in [Pages -> 0..2]

ViewInv == IssueViewTypeOK /\ ViewTyped /\ Primed /\ FiltersStayHome /\ SelectionOfView

-----------------------------------------------------------------------------
(* Sorting by position, said of any rows. *)

Above(r, i, j) == \/ r[i].position < r[j].position
                  \/ r[i].position = r[j].position /\ i < j
Order(r, S)    == CHOOSE s \in [1..Cardinality(S) -> S] : \A j, k \in DOMAIN s : j < k => Above(r, s[j], s[k])
AboveIn(r, S)  == {p \in S \X S : Above(r, p[1], p[2])}

LEMMA OrderIs == \A S : ByPosition(S) = Order(row, S)
  BY DEF ByPosition, Higher, Order, Above

LEMMA AboveIsTotal ==
  ASSUME NEW r \in PageRows, NEW S \in SUBSET IssueIds
  PROVE  /\ \A x, y \in S : <<x, y>> \in AboveIn(r, S) <=> Above(r, x, y)
         /\ TotalOn(AboveIn(r, S), S) /\ IsFiniteSet(S)
         /\ \A x, y \in S : ~(Above(r, x, y) /\ Above(r, y, x))
  <1>0. S \subseteq Nat /\ \A i \in S : r[i].position \in Int
    BY IssueViewAssumption DEF IssueIds, PageRows
  <1>1. \A x, y \in S : <<x, y>> \in AboveIn(r, S) <=> Above(r, x, y)
    BY DEF AboveIn
  <1>2. \A i, j \in S : i # j => Above(r, i, j) \/ Above(r, j, i)
    BY <1>0 DEF Above
  <1>3. \A i, j, k \in S : Above(r, i, j) /\ Above(r, j, k) => Above(r, i, k)
    BY <1>0 DEF Above
  <1>4. ASSUME NEW x \in S, NEW y \in S PROVE ~(Above(r, x, y) /\ Above(r, y, x))
    <2>1. x \in Int /\ y \in Int /\ r[x].position \in Int /\ r[y].position \in Int
      BY <1>0
    <2> QED BY <2>1 DEF Above
  <1>5. IsFiniteSet(S)
    <2>1. IsFiniteSet(IssueIds)
      BY IssueViewAssumption, FS_Interval DEF IssueIds
    <2> QED BY <2>1, FS_Subset
  <1> QED BY <1>1, <1>2, <1>3, <1>4, <1>5 DEF TotalOn

\* What lists the set in the order is the order.
LEMMA OrderOnly ==
  ASSUME NEW r \in PageRows, NEW S \in SUBSET IssueIds
  PROVE  /\ Cardinality(S) \in Nat
         /\ Lists(Order(r, S), S, AboveIn(r, S))
         /\ \A s : Lists(s, S, AboveIn(r, S)) => s = Order(r, S)
  <1> PICK n : n = Cardinality(S)
    OBVIOUS
  <1>0. n \in Nat /\ IsFiniteSet(S)
    BY AboveIsTotal, FS_CardinalityType
  <1> DEFINE Sorted(s) == \A j, k \in DOMAIN s : j < k => Above(r, s[j], s[k])
  <1>1. PICK s : Lists(s, S, AboveIn(r, S))
    BY AboveIsTotal, ListExists
  <1>2. s \in [1..n -> S] /\ \A j, k \in 1..n : j < k => <<s[j], s[k]>> \in AboveIn(r, S)
    BY <1>1 DEF Lists
  <1>3. Sorted(s)
    <2>1. \A j \in 1..n : s[j] \in S
      BY <1>2
    <2> QED BY <1>2, <2>1, AboveIsTotal
  <1> PICK f : f = Order(r, S)
    OBVIOUS
  <1>4. f = CHOOSE t \in [1..n -> S] : Sorted(t)
    BY DEF Order
  <1>5. f \in [1..n -> S] /\ Sorted(f)
    <2> HIDE DEF Sorted
    <2> QED BY <1>2, <1>3, <1>4
  <1>6. \A j \in 1..n : f[j] \in S
    BY <1>5
  <1>7. \A j, k \in 1..n : j < k => <<f[j], f[k]>> \in AboveIn(r, S)
    BY <1>5, <1>6, AboveIsTotal
  <1>8. \A j, k \in 1..n : j < k => f[j] # f[k]
    <2>1. ASSUME NEW x \in S PROVE ~Above(r, x, x)
      <3>1. ~(Above(r, x, x) /\ Above(r, x, x))
        BY AboveIsTotal
      <3> QED BY <3>1
    <2>2. ASSUME NEW j \in 1..n, NEW k \in 1..n, j < k PROVE f[j] # f[k]
      <3>1. Above(r, f[j], f[k]) /\ f[j] \in S
        BY <1>5, <1>6, <2>2
      <3> QED BY <2>1, <3>1
    <2> QED BY <2>2
  <1>9. \A x \in S : \E k \in 1..n : f[k] = x
    BY <1>0, <1>5, <1>8, NoneLeftOut
  <1>10. Lists(f, S, AboveIn(r, S))
    BY <1>5, <1>7, <1>9 DEF Lists
  <1>11. \A x, y \in S : ~(<<x, y>> \in AboveIn(r, S) /\ <<y, x>> \in AboveIn(r, S))
    <2> TAKE x, y \in S
    <2>1. ~(Above(r, x, y) /\ Above(r, y, x))
      BY AboveIsTotal
    <2> QED BY <2>1 DEF AboveIn
  <1>12. ASSUME NEW t, Lists(t, S, AboveIn(r, S)) PROVE t = f
    BY <1>0, <1>10, <1>11, <1>12, ListUnique
  <1> QED BY <1>0, <1>10, <1>12

\* The same, without the relation.
LEMMA OrderLists ==
  ASSUME NEW r \in PageRows, NEW S \in SUBSET IssueIds, NEW n, n = Cardinality(S)
  PROVE  /\ n \in Nat /\ Order(r, S) \in [1..n -> S]
         /\ \A x \in S : \E k \in 1..n : Order(r, S)[k] = x
         /\ \A j, k \in 1..n : j < k => Above(r, Order(r, S)[j], Order(r, S)[k])
  <1> PICK f : f = Order(r, S)
    OBVIOUS
  <1>1. /\ n \in Nat /\ f \in [1..n -> S] /\ \A x \in S : \E k \in 1..n : f[k] = x
        /\ \A j, k \in 1..n : j < k => <<f[j], f[k]>> \in AboveIn(r, S)
    BY OrderOnly DEF Lists
  <1>2. \A j \in 1..n : f[j] \in S
    BY <1>1
  <1>3. \A j, k \in 1..n : j < k => Above(r, f[j], f[k])
    BY <1>1, <1>2, AboveIsTotal
  <1> QED BY <1>1, <1>3

LEMMA OrderKnown ==
  ASSUME NEW r \in PageRows, NEW S \in SUBSET IssueIds, NEW n, n = Cardinality(S), NEW s \in [1..n -> S],
         \A x \in S : \E k \in 1..n : s[k] = x,
         \A j, k \in 1..n : j < k => Above(r, s[j], s[k])
  PROVE  s = Order(r, S)
  <1>1. \A j \in 1..n : s[j] \in S
    OBVIOUS
  <1>2. \A j, k \in 1..n : j < k => <<s[j], s[k]>> \in AboveIn(r, S)
    BY <1>1, AboveIsTotal
  <1>3. Lists(s, S, AboveIn(r, S))
    BY <1>2 DEF Lists
  <1> QED BY <1>3, OrderOnly

\* The powers of two that the model computes.
LEMMA PowersAre ==
  /\ \A n \in 0..MaxDrops : Powers[n] \in Nat \ {0}
  /\ \A n \in 0..MaxDrops : n # 0 => Powers[n] = 2 * Powers[n - 1]
  <1> DEFINE Is(f, m) == f = [n \in 0..m |-> IF n = 0 THEN 1 ELSE 2 * f[n - 1]]
             Bad == {m \in Nat : ~\E f : Is(f, m)}
  <1>0. MaxDrops \in Nat
    BY IssueViewAssumption
  <1>1. Bad = {}
    <2> SUFFICES ASSUME Bad # {} PROVE FALSE
      OBVIOUS
    <2>1. PICK m \in Bad : \A k \in Bad : m <= k
      <3>1. Bad \in SUBSET Nat
        OBVIOUS
      <3> HIDE DEF Bad
      <3> QED BY <3>1, LeastOfNaturals
    <2>2. m # 0
      <3>1. Is([n \in 0..0 |-> 1], 0)
        OBVIOUS
      <3> HIDE DEF Is
      <3> QED BY <3>1
    <2>3. m \in Nat /\ m - 1 \in Nat /\ m - 1 \notin Bad
      <3>1. m \in Nat
        OBVIOUS
      <3> HIDE DEF Bad
      <3> QED BY <2>1, <2>2, <3>1
    <2>4. PICK f : Is(f, m - 1)
      BY <2>3
    <2> DEFINE g == [n \in 0..m |-> IF n = m THEN 2 * f[m - 1] ELSE f[n]]
    <2>5. \A n \in 0..(m - 1) : f[n] = IF n = 0 THEN 1 ELSE 2 * f[n - 1]
      BY <2>4
    <2>6. Is(g, m)
      <3>1. ASSUME NEW n \in 0..m PROVE g[n] = IF n = 0 THEN 1 ELSE 2 * g[n - 1]
        <4>1. CASE n = m
          <5>1. g[n] = 2 * f[m - 1] /\ n - 1 \in 0..m /\ n - 1 # m
            BY <2>3, <4>1
          <5> QED BY <2>2, <4>1, <5>1
        <4>2. CASE n # m
          <5>1. n \in 0..(m - 1)
            BY <2>3, <4>2
          <5>2. g[n] = f[n]
            BY <4>2
          <5>3. n # 0 => n - 1 \in 0..m /\ n - 1 # m
            BY <2>3, <5>1
          <5>4. n # 0 => g[n - 1] = f[n - 1]
            BY <5>3
          <5> QED BY <2>5, <5>1, <5>2, <5>4
        <4> QED BY <4>1, <4>2
      <3> QED BY <3>1
    <2> HIDE DEF Is
    <2> QED BY <2>1, <2>6
  <1>2. PICK f : Is(f, MaxDrops)
    BY <1>0, <1>1
  <1>3. Is(Powers, MaxDrops)
    <2>1. Powers = CHOOSE h : Is(h, MaxDrops)
      BY DEF Powers
    <2> HIDE DEF Is
    <2> QED BY <1>2, <2>1
  <1>4. \A n \in 0..MaxDrops : Powers[n] = IF n = 0 THEN 1 ELSE 2 * Powers[n - 1]
    BY <1>3
  <1> DEFINE Odd == {n \in 0..MaxDrops : Powers[n] \notin Nat \ {0}}
  <1>5. Odd = {}
    <2> SUFFICES ASSUME Odd # {} PROVE FALSE
      OBVIOUS
    <2>1. PICK m \in Odd : \A k \in Odd : m <= k
      <3>1. Odd \in SUBSET Nat
        BY <1>0
      <3> HIDE DEF Odd
      <3> QED BY <3>1, LeastOfNaturals
    <2>2. m \in 0..MaxDrops /\ m # 0
      BY <1>0, <1>4, <2>1
    <2>3. m - 1 \in 0..MaxDrops /\ m - 1 \notin Odd
      BY <1>0, <2>1, <2>2
    <2>4. Powers[m - 1] \in Nat \ {0}
      BY <2>3
    <2>5. Powers[m] = 2 * Powers[m - 1]
      BY <1>4, <2>2
    <2> QED BY <2>1, <2>4, <2>5
  <1> QED BY <1>4, <1>5


-----------------------------------------------------------------------------
(* A card is put into the order. *)

\* The order with a card put into it.
LEMMA PutIs ==
  ASSUME NEW r \in PageRows, NEW S \in SUBSET IssueIds, NEW m, m = Cardinality(S), NEW k \in 0..m, NEW x
  PROVE  /\ InsertAt(Order(r, S), k + 1, x) \in [1..(m + 1) -> S \cup {x}]
         /\ \A j \in 1..k : InsertAt(Order(r, S), k + 1, x)[j] = Order(r, S)[j]
         /\ InsertAt(Order(r, S), k + 1, x)[k + 1] = x
         /\ \A j \in (k + 1)..m : InsertAt(Order(r, S), k + 1, x)[j + 1] = Order(r, S)[j]
  <1> PICK q : q = Order(r, S)
    OBVIOUS
  <1>m. m \in Nat
    BY OrderLists
  <1> PICK n \in Nat : n = m
    BY <1>m
  <1>n. k \in 0..n
    OBVIOUS
  <1>q. q \in [1..n -> S]
    BY OrderLists
  <1> PICK T : T = S \cup {x}
    OBVIOUS
  <1>1. q \in [1..n -> T] /\ x \in T
    BY <1>q
  <1> PICK a : a = SubSeq(q, 1, k)
    OBVIOUS
  <1> PICK b : b = SubSeq(q, k + 1, n)
    OBVIOUS
  <1>0. q \in Seq(T) /\ Len(q) = n
    BY <1>n, <1>1
  <1>2. a \in Seq(T) /\ Len(a) = k /\ \A j \in 1..k : a[j] = q[j]
    BY <1>n, <1>0
  <1>3. b \in Seq(T) /\ Len(b) = n - k /\ \A j \in 1..(n - k) : b[j] = q[k + j]
    BY <1>n, <1>0
  <1>4. <<x>> \in Seq(T)
    BY <1>1
  <1> PICK c : c = a \o <<x>>
    OBVIOUS
  <1>5. c \in Seq(T) /\ Len(c) = k + 1 /\ (\A j \in 1..k : c[j] = q[j]) /\ c[k + 1] = x
    BY <1>n, <1>2, <1>4
  <1> PICK d : d = c \o b
    OBVIOUS
  <1>6. /\ d \in Seq(T) /\ Len(d) = n + 1
        /\ \A j \in 1..(k + 1) : d[j] = c[j]
        /\ \A j \in 1..(n + 1) : j > k + 1 => d[j] = b[j - (k + 1)]
    <2> PICK l \in Nat : l = k + 1
      BY <1>n
    <2>7. c \in Seq(T) /\ Len(c) = l
      BY <1>5
    <2>8. b \in Seq(T) /\ Len(b) = n - k
      BY <1>3
    <2>9. n - k \in Nat
      BY <1>n
    <2>1. c \in Seq(T) /\ Len(c) = l /\ b \in Seq(T) /\ Len(b) = n - k /\ n - k \in Nat
      BY <2>7, <2>8, <2>9
    <2>2. /\ d \in Seq(T) /\ Len(d) = l + (n - k)
      BY <2>1
    <2>6. d = c \o b
      OBVIOUS
    <2>4. \A j \in 1..l : d[j] = c[j]
      BY ONLY <2>1, <2>6, ConcatProperties
    <2>5. ASSUME NEW j \in 1..(l + (n - k)), j > l PROVE d[j] = b[j - l]
      BY ONLY <2>1, <2>5, <2>6, ConcatProperties
    <2>3. l + (n - k) = n + 1
      BY <1>n
    <2> QED BY <2>2, <2>3, <2>4, <2>5
  <1>7. /\ \A j \in 1..k : d[j] = q[j]
        /\ d[k + 1] = x
    <2>1. ASSUME NEW j \in 1..k PROVE d[j] = q[j]
      <3>1. j \in 1..(k + 1)
        BY <1>n
      <3> QED BY <1>5, <1>6, <3>1
    <2>2. k + 1 \in 1..(k + 1)
      BY <1>n
    <2> QED BY <1>5, <1>6, <2>1, <2>2
  <1>10. ASSUME NEW j \in (k + 1)..n PROVE d[j + 1] = q[j]
    <2> PICK i : i = j - k
      OBVIOUS
    <2>1. i \in 1..(n - k) /\ k + i = j /\ (j + 1) - (k + 1) = i /\ j + 1 \in 1..(n + 1) /\ j + 1 > k + 1
      BY <1>n
    <2>2. d[j + 1] = b[i]
      BY <1>6, <2>1
    <2>3. b[i] = q[k + i]
      BY <1>3, <2>1
    <2> QED BY <2>1, <2>2, <2>3
  <1>8. d \in [1..(n + 1) -> T]
    <2>1. d \in Seq(T) /\ Len(d) = n + 1
      BY <1>6
    <2>2. d \in [1..Len(d) -> T]
      BY <2>1, LenProperties
    <2> QED BY <2>1, <2>2
  <1>9. InsertAt(q, k + 1, x) = d
    <2>1. (k + 1) - 1 = k
      BY <1>n
    <2> QED BY <1>n, <1>0, <2>1 DEF InsertAt
  <1>11. \A j \in (k + 1)..n : d[j + 1] = q[j]
    BY <1>10
  <1> QED BY <1>7, <1>8, <1>9, <1>11

\* A card put at a position between two neighbours of the order is where
\* putting it into the order between them has it.
LEMMA PutInOrder ==
  ASSUME NEW r \in PageRows, NEW r2 \in PageRows, NEW T \in SUBSET IssueIds, NEW card \in IssueIds \ T,
         \A i \in T : r2[i].position = r[i].position,
         NEW n, n = Cardinality(T), NEW k \in 0..n,
         \A j \in 1..k : r[Order(r, T)[j]].position < r2[card].position,
         \A j \in (k + 1)..n : r2[card].position < r[Order(r, T)[j]].position
  PROVE  Order(r2, T \cup {card}) = InsertAt(Order(r, T), k + 1, card)
  <1> PICK f : f = Order(r, T)
    OBVIOUS
  <1> PICK S : S = T \cup {card}
    OBVIOUS
  <1>1. /\ n \in Nat /\ f \in [1..n -> T] /\ \A x \in T : \E j \in 1..n : f[j] = x
        /\ \A i, j \in 1..n : i < j => Above(r, f[i], f[j])
    BY OrderLists
  <1> PICK g : g = InsertAt(f, k + 1, card)
    OBVIOUS
  <1>2. /\ g \in [1..(n + 1) -> S]
        /\ \A j \in 1..k : g[j] = f[j]
        /\ g[k + 1] = card
        /\ \A j \in (k + 1)..n : g[j + 1] = f[j]
    BY PutIs
  <1>3. Cardinality(S) = n + 1 /\ S \in SUBSET IssueIds
    BY AboveIsTotal, FS_AddElement
  <1>4. g \in [1..(n + 1) -> S]
    BY <1>2
  <1>5. ASSUME NEW x \in S PROVE \E j \in 1..(n + 1) : g[j] = x
    <2>1. CASE x = card
      <3>1. k + 1 \in 1..(n + 1) /\ g[k + 1] = card
        BY <1>1, <1>2
      <3> QED BY <2>1, <3>1
    <2>2. CASE x \in T
      <3>1. PICK i \in 1..n : f[i] = x
        BY <1>1, <2>2
      <3>2. n \in Nat /\ k \in 0..n
        BY <1>1
      <3>3. CASE i <= k
        <4>1. i \in 1..(n + 1) /\ i \in 1..k
          BY <3>2, <3>3
        <4> QED BY <1>2, <3>1, <4>1
      <3>4. CASE i > k
        <4>1. i + 1 \in 1..(n + 1) /\ i \in (k + 1)..n
          BY <3>2, <3>4
        <4>2. g[i + 1] = x
          BY <1>2, <3>1, <4>1
        <4> QED BY <4>1, <4>2
      <3> QED BY <3>2, <3>3, <3>4
    <2> QED BY <2>1, <2>2
  <1>6. \A i, j \in 1..n : i < j => Above(r2, f[i], f[j])
    <2>1. \A j \in 1..n : f[j] \in T /\ r2[f[j]].position = r[f[j]].position
      BY <1>1
    <2> QED BY <1>1, <2>1 DEF Above
  <1>7. \A j \in 1..k : Above(r2, f[j], card)
    <2>1. \A j \in 1..k : f[j] \in T /\ r2[f[j]].position = r[f[j]].position
      BY <1>1
    <2> QED BY <2>1 DEF Above
  <1>8. \A j \in (k + 1)..n : Above(r2, card, f[j])
    <2>1. \A j \in (k + 1)..n : f[j] \in T /\ r2[f[j]].position = r[f[j]].position
      BY <1>1
    <2> QED BY <2>1 DEF Above
  <1>9. ASSUME NEW i \in 1..(n + 1), NEW j \in 1..(n + 1), i < j PROVE Above(r2, g[i], g[j])
    <2>0. n \in Nat /\ k \in 0..n
      BY <1>1
    <2>a. ASSUME i > k + 1 PROVE i - 1 \in (k + 1)..n /\ g[i] = f[i - 1]
      <3> PICK a : a = i - 1
        OBVIOUS
      <3>1. a \in (k + 1)..n /\ a + 1 = i
        BY <2>0, <2>a
      <3> QED BY <1>2, <3>1
    <2>b. ASSUME j > k + 1 PROVE j - 1 \in (k + 1)..n /\ g[j] = f[j - 1]
      <3> PICK b : b = j - 1
        OBVIOUS
      <3>1. b \in (k + 1)..n /\ b + 1 = j
        BY <2>0, <2>b
      <3> QED BY <1>2, <3>1
    <2>1. CASE j <= k
      <3>1. i \in 1..k /\ j \in 1..k /\ i \in 1..n /\ j \in 1..n
        BY <1>9, <2>0, <2>1
      <3> QED BY <1>2, <1>6, <1>9, <3>1
    <2>2. CASE j = k + 1
      <3>1. i \in 1..k
        BY <1>9, <2>0, <2>2
      <3> QED BY <1>2, <1>7, <2>2, <3>1
    <2>3. CASE j > k + 1 /\ i <= k
      <3>1. i \in 1..k /\ i \in 1..n /\ j - 1 \in 1..n /\ i < j - 1
        BY <1>9, <2>0, <2>3
      <3> QED BY <1>2, <1>6, <2>3, <2>b, <3>1
    <2>4. CASE j > k + 1 /\ i = k + 1
      BY <1>2, <1>8, <2>4, <2>b
    <2>5. CASE j > k + 1 /\ i > k + 1
      <3>1. i - 1 \in 1..n /\ j - 1 \in 1..n /\ i - 1 < j - 1
        BY <1>9, <2>0, <2>5
      <3> QED BY <1>6, <2>5, <2>a, <2>b, <3>1
    <2> QED BY <1>9, <2>0, <2>1, <2>2, <2>3, <2>4, <2>5
  <1> PICK m : m = n + 1
    OBVIOUS
  <1>10. /\ g \in [1..m -> S] /\ m = Cardinality(S) /\ \A x \in S : \E j \in 1..m : g[j] = x
         /\ \A i, j \in 1..m : i < j => Above(r2, g[i], g[j])
    BY <1>3, <1>4, <1>5, <1>9
  <1>11. g = Order(r2, S)
    BY <1>3, <1>10, OrderKnown
  <1> QED BY <1>11

\* A card taken out of the order leaves the order of the others.
LEMMA TakenOut ==
  ASSUME NEW r \in PageRows, NEW S \in SUBSET IssueIds, NEW card \in IssueIds
  PROVE  Only(Order(r, S), IssueIds \ {card}) = Order(r, S \ {card})
  <1> PICK T : T = S \ {card}
    OBVIOUS
  <1> PICK m : m = Cardinality(S)
    OBVIOUS
  <1> PICK f : f = Order(r, S)
    OBVIOUS
  <1>1. /\ m \in Nat /\ f \in [1..m -> S] /\ \A x \in S : \E j \in 1..m : f[j] = x
        /\ \A i, j \in 1..m : i < j => Above(r, f[i], f[j])
    BY OrderLists
  <1>2. f \in Seq(S) /\ Len(f) = m
    BY <1>1
  <1> PICK q : q = Only(f, IssueIds \ {card})
    OBVIOUS
  <1>3. PICK n \in Nat : \E h : TakenAt(q, f, IssueIds \ {card}, n, h)
    BY <1>2, OnlyPlaces
  <1>4. PICK h : TakenAt(q, f, IssueIds \ {card}, n, h)
    BY <1>3
  <1>5. /\ h \in [1..n -> 1..m] /\ Len(q) = n
        /\ \A j, k \in 1..n : j < k => h[j] < h[k]
        /\ \A k \in 1..n : q[k] = f[h[k]] /\ f[h[k]] # card
        /\ \A k \in 1..m : f[k] # card /\ f[k] \in IssueIds => \E j \in 1..n : h[j] = k
    BY <1>2, <1>4 DEF TakenAt
  <1>6. q \in Seq(S)
    BY <1>2, OnlyPlaces
  <1>7. q \in [1..n -> T]
    <2>1. \A k \in 1..n : q[k] \in T
      BY <1>1, <1>5
    <2>2. q \in [1..Len(q) -> S] /\ Len(q) = n
      BY <1>5, <1>6, LenProperties
    <2> QED BY <2>1, <2>2
  <1>8. ASSUME NEW j \in 1..n, NEW k \in 1..n, j < k PROVE Above(r, q[j], q[k])
    <2>1. h[j] \in 1..m /\ h[k] \in 1..m /\ h[j] < h[k] /\ q[j] = f[h[j]] /\ q[k] = f[h[k]]
      BY <1>5, <1>8
    <2>2. Above(r, f[h[j]], f[h[k]])
      BY <1>1, <2>1
    <2> QED BY <2>1, <2>2
  <1>9. ASSUME NEW x \in T PROVE \E k \in 1..n : q[k] = x
    <2>1. PICK i \in 1..m : f[i] = x
      BY <1>1
    <2>2. PICK j \in 1..n : h[j] = i
      BY <1>5, <2>1
    <2> QED BY <1>5, <2>1, <2>2
  <1>10. n = Cardinality(T)
    <2>1. T \in SUBSET IssueIds
      OBVIOUS
    <2>2. \A x \in T : ~Above(r, x, x)
      <3> TAKE x \in T
      <3>1. ~(Above(r, x, x) /\ Above(r, x, x))
        BY <2>1, AboveIsTotal
      <3> QED BY <3>1
    <2>3. \A j, k \in 1..n : q[j] = q[k] => j = k
      <3>1. \A j, k \in 1..n : j < k => q[j] # q[k]
        BY <1>7, <1>8, <2>2
      <3> QED BY <3>1
    <2>4. q \in Bijection(1..n, T)
      <3>1. q \in Injection(1..n, T)
        BY <1>7, <2>3 DEF Injection, IsInjective
      <3>2. q \in Surjection(1..n, T)
        BY <1>7, <1>9 DEF Surjection
      <3> QED BY <3>1, <3>2 DEF Bijection
    <2> QED BY <2>4, FS_CountingElements DEF ExistsBijection
  <1>11. T \in SUBSET IssueIds
    OBVIOUS
  <1>12. q = Order(r, T)
    <2>1. \A i \in 1..n : q[i] \in T
      BY <1>7
    <2>2. \A i, j \in 1..n : i < j => <<q[i], q[j]>> \in AboveIn(r, T)
      BY <1>8, <2>1, <1>11, AboveIsTotal
    <2>3. \A x \in T : \E k \in 1..n : q[k] = x
      BY <1>9
    <2>4. Lists(q, T, AboveIn(r, T))
      BY <1>7, <1>10, <2>2, <2>3 DEF Lists
    <2> QED BY <1>11, <2>4, OrderOnly
  <1> QED BY <1>12

Multiple(x, P) == \E m \in Int : x = m * P

LEMMA MultiplesSum ==
  ASSUME NEW P \in Nat, NEW x, NEW y, Multiple(x, P), Multiple(y, P)
  PROVE  Multiple(x + y, P) /\ Multiple(x - y, P)
  <1>1. PICK m \in Int : x = m * P
    BY DEF Multiple
  <1>2. PICK n \in Int : y = n * P
    BY DEF Multiple
  <1>3. x + y = (m + n) * P
    BY <1>1, <1>2
  <1>4. x - y = (m - n) * P
    BY <1>1, <1>2
  <1>5. m + n \in Int /\ m - n \in Int
    OBVIOUS
  <1> QED BY <1>3, <1>4, <1>5 DEF Multiple

\* Between two multiples of an even number there is a multiple of its half.
LEMMA MultiplesHalf ==
  ASSUME NEW P \in Nat \ {0}, NEW x, NEW y, Multiple(x, 2 * P), Multiple(y, 2 * P)
  PROVE  /\ Multiple(x, P) /\ Multiple((x + y) \div 2, P)
         /\ x < y => x < (x + y) \div 2 /\ (x + y) \div 2 < y
  <1>1. PICK m \in Int : x = m * (2 * P)
    BY DEF Multiple
  <1>2. PICK n \in Int : y = n * (2 * P)
    BY DEF Multiple
  <1> PICK a \in Int : a = m * P
    OBVIOUS
  <1> PICK b \in Int : b = n * P
    OBVIOUS
  <1>3. x = 2 * a /\ y = 2 * b
    BY <1>1, <1>2
  <1>4. (x + y) \div 2 = a + b
    <2>1. x + y = 2 * (a + b) /\ a + b \in Int
      BY <1>3
    <2> QED BY <2>1
  <1>5. a + b = (m + n) * P /\ x = (2 * m) * P
    BY <1>3
  <1>6. m + n \in Int /\ 2 * m \in Int
    OBVIOUS
  <1>7. x < y => x < a + b /\ a + b < y
    BY <1>3
  <1> QED BY <1>4, <1>5, <1>6, <1>7 DEF Multiple

\* A position of 1 can be halved as often as there are drops.
LEMMA UnitIs == Unit \in Nat \ {0} /\ \A n \in 0..MaxDrops : Multiple(Unit, Powers[n])
  <1>0. MaxDrops \in Nat /\ Unit \in Nat \ {0}
    BY IssueViewAssumption, PowersAre DEF Unit
  <1> DEFINE Bad == {d \in 0..MaxDrops : ~Multiple(Unit, Powers[MaxDrops - d])}
  <1>1. Bad = {}
    <2> SUFFICES ASSUME Bad # {} PROVE FALSE
      OBVIOUS
    <2>1. PICK d \in Bad : \A e \in Bad : d <= e
      <3>1. Bad \in SUBSET Nat
        BY <1>0
      <3> HIDE DEF Bad
      <3> QED BY <3>1, LeastOfNaturals
    <2>2. d \in 0..MaxDrops /\ ~Multiple(Unit, Powers[MaxDrops - d])
      BY <2>1
    <2>3. d # 0
      <3>1. Unit = 1 * Powers[MaxDrops]
        BY <1>0 DEF Unit
      <3>2. Multiple(Unit, Powers[MaxDrops])
        BY <3>1 DEF Multiple
      <3> QED BY <1>0, <2>2, <3>2
    <2>4. d - 1 \in 0..MaxDrops /\ d - 1 \notin Bad
      <3>1. d \in Nat /\ d - 1 \in Nat
        BY <1>0, <2>2, <2>3
      <3> HIDE DEF Bad
      <3> QED BY <1>0, <2>1, <2>2, <2>3, <3>1
    <2> PICK n \in Nat : n = MaxDrops - d
      BY <1>0, <2>2
    <2>5. n + 1 \in 0..MaxDrops /\ n \in 0..MaxDrops /\ n + 1 # 0 /\ (n + 1) - 1 = n /\ MaxDrops - (d - 1) = n + 1
      BY <1>0, <2>2, <2>3
    <2>6. Powers[n + 1] = 2 * Powers[n] /\ Powers[n] \in Nat \ {0}
      BY <2>5, PowersAre
    <2>7. Multiple(Unit, 2 * Powers[n])
      BY <2>4, <2>5, <2>6
    <2>8. Multiple(Unit, Powers[n])
      BY <2>6, <2>7, MultiplesHalf
    <2> QED BY <2>2, <2>8
  <1>2. ASSUME NEW n \in 0..MaxDrops PROVE Multiple(Unit, Powers[n])
    <2> PICK d : d = MaxDrops - n
      OBVIOUS
    <2>1. d \in 0..MaxDrops /\ MaxDrops - d = n
      BY <1>0
    <2> QED BY <1>1, <2>1
  <1> QED BY <1>0, <1>2

\* The position computed for a card among the others: a multiple of half of
\* what all theirs are multiples of, and, where theirs differ, strictly
\* between those of its neighbours.
LEMMA PositionAmong ==
  ASSUME row \in PageRows, NEW S \in SUBSET IssueIds, NEW card \in IssueIds,
         NEW over \in IssueIds \cup {0}, over = 0 \/ over \in S,
         NEW P \in Nat \ {0}, \A i \in S : Multiple(row[i].position, 2 * P), Multiple(Unit, 2 * P),
         NEW n, n = Cardinality(S), NEW f, f = Order(row, S), NEW k, k = IndexAt(f, card, over),
         NEW q, q = ComputePosition(f, k)
  PROVE  /\ k \in 0..n /\ Multiple(q, P)
         /\ (\A i, j \in S : i # j => row[i].position # row[j].position) =>
               /\ \A j \in 1..k : row[f[j]].position < q
               /\ \A j \in (k + 1)..n : q < row[f[j]].position
  <1>1. /\ n \in Nat /\ f \in [1..n -> S] /\ \A x \in S : \E j \in 1..n : f[j] = x
        /\ \A i, j \in 1..n : i < j => Above(row, f[i], f[j])
    BY OrderLists
  <1>2. Len(f) = n /\ (f = <<>> <=> n = 0)
    BY <1>1
  <1>3. k \in 0..n
    <2>1. CASE over = 0
      BY <1>1, <1>2, <2>1 DEF IndexAt
    <2>2. CASE over # 0
      <3> PICK m : m = Place(f, over)
        OBVIOUS
      <3>1. m \in 1..n
        BY <1>1, <1>2, <2>2 DEF Place
      <3>2. k \in {m, m - 1}
        BY <2>2 DEF IndexAt
      <3>3. n \in Nat /\ m \in Nat /\ 1 <= m /\ m <= n
        BY <1>1, <3>1
      <3>4. m \in 0..n /\ m - 1 \in 0..n
        BY <3>3
      <3> QED BY <3>2, <3>4
    <2> QED BY <2>1, <2>2
  <1>4. \A j \in 1..n : f[j] \in S /\ row[f[j]].position \in Int /\ Multiple(row[f[j]].position, 2 * P)
    BY <1>1 DEF PageRows
  <1>5. Unit \in Int /\ Unit > 0 /\ Multiple(Unit, P)
    BY UnitIs, MultiplesHalf
  <1>6. \A j \in 1..n : Multiple(row[f[j]].position, P)
    BY <1>4, MultiplesHalf
  <1> DEFINE At(j) == row[f[j]].position
             Differ == \A i, j \in S : i # j => row[i].position # row[j].position
  <1>7. ASSUME Differ, NEW i \in 1..n, NEW j \in 1..n, i < j PROVE At(i) < At(j)
    <2>1. Above(row, f[i], f[j]) /\ f[i] \in S /\ f[j] \in S
      BY <1>1, <1>7
    <2>2. f[i] # f[j]
      <3>1. f[i] \in Int /\ f[j] \in Int
        <4>1. S \subseteq Int
          BY IssueViewAssumption DEF IssueIds
        <4> QED BY <2>1, <4>1
      <3>2. ~Above(row, f[i], f[i])
        BY <1>1, <1>4, <3>1 DEF Above
      <3> QED BY <2>1, <3>2
    <2>3. At(i) # At(j)
      BY <1>7, <2>1, <2>2
    <2> QED BY <2>1, <2>3 DEF Above
  <1>8. CASE n = 0
    <2>1. q = 0
      BY <1>2, <1>8 DEF ComputePosition
    <2>2. 0 = 0 * P
      OBVIOUS
    <2>3. Multiple(q, P)
      BY <2>1, <2>2 DEF Multiple
    <2> QED BY <1>3, <1>8, <2>3
  <1>9. CASE n # 0 /\ k = 0
    <2>1. q = At(1) - Unit /\ 1 \in 1..n
      BY <1>1, <1>2, <1>9 DEF ComputePosition
    <2>2. Multiple(q, P)
      BY <1>5, <1>6, <2>1, MultiplesSum
    <2>3. At(1) \in Int /\ q < At(1) /\ q \in Int
      BY <1>4, <1>5, <2>1
    <2>4. ASSUME Differ, NEW j \in 1..n PROVE q < At(j)
      <3>1. j = 1 \/ At(1) < At(j)
        BY <1>7, <2>1, <2>4
      <3>2. At(j) \in Int
        BY <1>4
      <3> HIDE DEF At
      <3> QED BY <2>3, <3>1, <3>2
    <2>5. \A j \in 1..k : FALSE
      BY <1>9
    <2>6. k + 1 = 1
      BY <1>9
    <2> QED BY <1>3, <2>2, <2>4, <2>5, <2>6
  <1>10. CASE n # 0 /\ k # 0 /\ k = n
    <2>1. q = At(n) + Unit /\ n \in 1..n
      BY <1>1, <1>2, <1>3, <1>10 DEF ComputePosition
    <2>2. Multiple(q, P)
      BY <1>5, <1>6, <2>1, MultiplesSum
    <2>3. At(n) \in Int /\ At(n) < q /\ q \in Int
      BY <1>4, <1>5, <2>1
    <2>4. ASSUME Differ, NEW j \in 1..n PROVE At(j) < q
      <3>1. j = n \/ At(j) < At(n)
        BY <1>1, <1>7, <2>1, <2>4
      <3>2. At(j) \in Int
        BY <1>4
      <3> HIDE DEF At
      <3> QED BY <2>3, <3>1, <3>2
    <2>5. \A j \in (k + 1)..n : FALSE
      BY <1>1, <1>10
    <2> QED BY <1>3, <1>10, <2>2, <2>4, <2>5
  <1>11. CASE k # 0 /\ k < n
    <2>1. k \in 1..n /\ k + 1 \in 1..n
      BY <1>1, <1>3, <1>11
    <2>2. q = (At(k) + At(k + 1)) \div 2
      BY <1>1, <1>2, <1>3, <1>11 DEF ComputePosition
    <2>3. /\ Multiple(q, P)
          /\ At(k) < At(k + 1) => At(k) < q /\ q < At(k + 1)
      BY <1>4, <2>1, <2>2, MultiplesHalf
    <2>4. At(k) \in Int /\ At(k + 1) \in Int /\ q \in Int
      BY <1>4, <2>1, <2>2
    <2>5. ASSUME Differ
          PROVE  (\A j \in 1..k : At(j) < q) /\ (\A j \in (k + 1)..n : q < At(j))
      <3>1. At(k) < q /\ q < At(k + 1)
        <4>1. At(k) < At(k + 1)
          BY <1>3, <1>7, <2>1, <2>5
        <4> QED BY <2>3, <4>1
      <3>2. ASSUME NEW j \in 1..k PROVE At(j) < q
        <4>1. j \in 1..n /\ (j = k \/ j < k)
          BY <1>1, <1>3
        <4>2. At(j) \in Int /\ (j = k \/ At(j) < At(k))
          BY <1>4, <1>7, <2>1, <2>5, <4>1
        <4> HIDE DEF At
        <4> QED BY <2>4, <3>1, <4>2
      <3>3. ASSUME NEW j \in (k + 1)..n PROVE q < At(j)
        <4>1. j \in 1..n /\ (j = k + 1 \/ k + 1 < j)
          BY <1>1, <1>3
        <4>2. At(j) \in Int /\ (j = k + 1 \/ At(k + 1) < At(j))
          BY <1>4, <1>7, <2>1, <2>5, <4>1
        <4> HIDE DEF At
        <4> QED BY <2>4, <3>1, <4>2
      <3> QED BY <3>2, <3>3
    <2> QED BY <1>3, <2>3, <2>5
  <1> QED BY <1>1, <1>3, <1>8, <1>9, <1>10, <1>11

\* Where a position is computed for is where the user lets the card fall.
LEMMA IndexPlace ==
  ASSUME row \in PageRows, NEW C \in SUBSET IssueIds, NEW card \in IssueIds,
         NEW over \in IssueIds \cup {0}, over = 0 \/ over \in C \ {card},
         over # 0 /\ row[card].status = row[over].status => card \in C,
         \A i, j \in C : i # j => row[i].position # row[j].position,
         NEW f, f = Order(row, C \ {card}), NEW g, g = Order(row, C)
  PROVE  IndexAt(f, card, over) =
           IF over = 0 THEN Len(f)
           ELSE IF row[card].status = row[over].status /\ Place(g, card) < Place(g, over)
                THEN Place(f, over) ELSE Place(f, over) - 1
  <1>1. CASE over = 0
    BY <1>1 DEF IndexAt
  <1>2. CASE over # 0 /\ row[card].status # row[over].status
    BY <1>2 DEF IndexAt
  <1>3. CASE over # 0 /\ row[card].status = row[over].status
    <2> PICK n : n = Cardinality(C)
      OBVIOUS
    <2>1. /\ n \in Nat /\ g \in [1..n -> C] /\ \A x \in C : \E j \in 1..n : g[j] = x
          /\ \A i, j \in 1..n : i < j => Above(row, g[i], g[j])
      BY OrderLists
    <2>2. Len(g) = n
      BY <2>1
    <2>3. card \in C /\ over \in C /\ card # over
      BY <1>3
    <2>4. \A x \in C : Place(g, x) \in 1..n /\ g[Place(g, x)] = x
      BY <2>1, <2>2 DEF Place
    <2> PICK a : a = Place(g, card)
      OBVIOUS
    <2> PICK b : b = Place(g, over)
      OBVIOUS
    <2>5. a \in 1..n /\ b \in 1..n /\ g[a] = card /\ g[b] = over /\ a # b
      BY <2>3, <2>4
    <2>6. row[card].position \in Int /\ row[over].position \in Int /\ row[card].position # row[over].position
      BY <2>3 DEF PageRows
    <2>7. a < b <=> row[card].position < row[over].position
      <3>1. a < b => Above(row, card, over)
        BY <2>1, <2>5
      <3>2. b < a => Above(row, over, card)
        BY <2>1, <2>5
      <3>3. a < b \/ b < a
        BY <2>5
      <3> QED BY <2>5, <2>6, <3>1, <3>2, <3>3 DEF Above
    <2>8. IndexAt(f, card, over) = IF row[card].position < row[over].position
                                   THEN Place(f, over) ELSE Place(f, over) - 1
      BY <1>3 DEF IndexAt
    <2> QED BY <1>3, <2>7, <2>8
  <1> QED BY <1>1, <1>2, <1>3

\* What was asked, where the order shown is the manual one.
LEMMA AskedIs ==
  ASSUME row \in PageRows, NEW p \in Pages, NEW card \in IssueIds, NEW s \in Columns,
         NEW over \in IssueIds \cup {0}, Target(s, over) = s,
         view[p].sortBy = "position", view[p].direction = "asc",
         NEW C \in SUBSET IssueIds, C = Column(p, s), over = 0 \/ over \in C \ {card},
         over # 0 /\ row[card].status = row[over].status => card \in C,
         \A i, j \in C : i # j => row[i].position # row[j].position,
         NEW f, f = Order(row, C \ {card})
  PROVE  Asked(p, card, s, over) = InsertAt(f, IndexAt(f, card, over) + 1, card)
  <1> PICK g : g = Order(row, C)
    OBVIOUS
  <1>1. sortIssues(Column(p, Target(s, over)), view[p]) = g
    BY OrderIs DEF sortIssues
  <1>2. Only(g, IssueIds \ {card}) = f
    BY TakenOut
  <1> PICK k : k = IF over = 0 THEN Len(f)
           ELSE IF row[card].status = row[over].status /\ Place(g, card) < Place(g, over)
                THEN Place(f, over) ELSE Place(f, over) - 1
    OBVIOUS
  <1>3. IndexAt(f, card, over) = k
    BY IndexPlace
  <1>4. Asked(p, card, s, over) = InsertAt(f, k + 1, card)
    BY <1>1, <1>2 DEF Asked
  <1> QED BY <1>3, <1>4

-----------------------------------------------------------------------------
(* The steps of the issue pages. *)

\* The order of a column lists it whole.
LEMMA PositionsListed ==
  ASSUME NEW S \in SUBSET IssueIds, row \in PageRows
  PROVE  \E n \in Nat : /\ ByPosition(S) \in [1..n -> S] /\ n = Cardinality(S)
                        /\ \A i \in S : \E k \in 1..n : ByPosition(S)[k] = i
                        /\ \A j, k \in 1..n : j < k => Higher(ByPosition(S)[j], ByPosition(S)[k])
  <1>1. PICK n : n = Cardinality(S)
    OBVIOUS
  <1>2. ByPosition(S) = Order(row, S) /\ \A i, j : Higher(i, j) <=> Above(row, i, j)
    BY OrderIs DEF Higher, Above
  <1> QED BY <1>1, <1>2, OrderLists

\* A card is put at an integer position.
LEMMA PositionTyped ==
  ASSUME row \in PageRows, NEW S \in SUBSET IssueIds, NEW card \in IssueIds,
         NEW over \in IssueIds \cup {0}, over = 0 \/ over \in S
  PROVE  ComputePosition(ByPosition(S), IndexAt(ByPosition(S), card, over)) \in Int
  <1> PICK f : f = ByPosition(S)
    OBVIOUS
  <1>1. PICK n \in Nat : f \in [1..n -> S] /\ \A i \in S : \E k \in 1..n : f[k] = i
    BY PositionsListed
  <1>2. f \in Seq(S) /\ Len(f) = n /\ (f = <<>> <=> n = 0)
    BY <1>1
  <1> PICK k : k = IndexAt(f, card, over)
    OBVIOUS
  <1>3. k \in Int
    <2>1. CASE over = 0
      BY <1>2, <2>1 DEF IndexAt
    <2>2. CASE over # 0
      <3> PICK m : m = Place(f, over)
        OBVIOUS
      <3>1. m \in 1..n
        BY <1>1, <1>2, <2>2 DEF Place
      <3>2. k \in {m, m - 1}
        BY <2>2 DEF IndexAt
      <3> QED BY <3>1, <3>2
    <2> QED BY <2>1, <2>2
  <1>4. \A j \in 1..n : row[f[j]].position \in Int
    BY <1>1 DEF PageRows
  <1>5. Unit \in Int
    BY UnitIs
  <1>6. CASE n = 0
    BY <1>2, <1>6 DEF ComputePosition
  <1>7. CASE n # 0 /\ k <= 0
    <2>1. ComputePosition(f, k) = row[f[1]].position - Unit
      BY <1>2, <1>3, <1>7 DEF ComputePosition
    <2> QED BY <1>1, <1>4, <1>5, <1>7, <2>1
  <1>8. CASE n # 0 /\ ~(k <= 0) /\ k >= n
    <2>1. ComputePosition(f, k) = row[f[n]].position + Unit
      BY <1>2, <1>3, <1>8 DEF ComputePosition
    <2> QED BY <1>1, <1>4, <1>5, <1>8, <2>1
  <1>9. CASE n # 0 /\ ~(k <= 0) /\ ~(k >= n)
    <2>1. ComputePosition(f, k) = (row[f[k]].position + row[f[k + 1]].position) \div 2
      BY <1>2, <1>3, <1>9 DEF ComputePosition
    <2>2. row[f[k]].position \in Int /\ row[f[k + 1]].position \in Int
      BY <1>3, <1>4, <1>9
    <2> QED BY <2>1, <2>2
  <1> QED BY <1>6, <1>7, <1>8, <1>9

LEMMA ScopesAre == \A p \in Pages : Scopes(p) \subseteq IssuesScopes \cup MyScopes
  BY DEF Scopes

LEMMA ViewStart == IssueViewInit => ViewInv
  <1> SUFFICES ASSUME IssueViewInit PROVE ViewInv
    OBVIOUS
  <1>1. \A p \in Pages : FirstView(p) \in ViewRecord /\ FirstView(p).scope \in Scopes(p)
    <2>1. Unfiltered \in ViewFilters
      BY DEF Unfiltered, ViewFilters
    <2>2. ASSUME NEW p \in Pages PROVE FirstView(p).scope \in Scopes(p)
      BY DEF Pages, FirstView, Scopes, IssuesScopes, MyScopes
    <2>3. ASSUME NEW s \in IssuesScopes \cup MyScopes
          PROVE  [filters |-> Unfiltered, scope |-> s, mode |-> "board", sortBy |-> "position",
                  direction |-> "asc"] \in ViewRecord
      BY <2>1 DEF ViewRecord
    <2>4. ASSUME NEW p \in Pages PROVE FirstView(p) \in ViewRecord
      <3> PICK s : s = IF p = "issues" THEN "all" ELSE "assigned"
        OBVIOUS
      <3>1. s \in IssuesScopes \cup MyScopes
        BY DEF IssuesScopes, MyScopes
      <3>2. FirstView(p) = [filters |-> Unfiltered, scope |-> s, mode |-> "board", sortBy |-> "position",
                            direction |-> "asc"]
        BY DEF FirstView
      <3> QED BY <2>3, <3>1, <3>2
    <2> QED BY <2>2, <2>4
  <1>2. view \in [Pages -> ViewRecord] /\ \A p \in Pages : view[p].scope \in Scopes(p)
    BY <1>1 DEF IssueViewInit
  <1>3. chosenIn \in [Pages -> 0..2] /\ \A p \in Pages : chosenIn[p] = 0
    BY DEF IssueViewInit
  <1>4. row \in PageRows
    <2>1. PICK s \in Columns, gap \in {0, Unit} :
            row = [i \in IssueIds |-> [status |-> s, position |-> i * gap]]
      BY DEF IssueViewInit
    <2>2. gap \in Int
      BY UnitIs
    <2>3. ASSUME NEW i \in IssueIds
          PROVE  [status |-> s, position |-> i * gap] \in [status : AllStatuses, position : Int]
      <3>1. i \in Int /\ s \in AllStatuses
        BY IssueViewAssumption DEF IssueIds, AllStatuses
      <3>2. i * gap \in Int
        BY <2>2, <3>1
      <3> QED BY <3>1, <3>2
    <2> QED BY <2>1, <2>3 DEF PageRows
  <1>5. IssueViewTypeOK
    <2>1. \A p \in Pages : view[p].filters.status \subseteq AllStatuses
      BY <1>2 DEF ViewRecord, ViewFilters
    <2>2. drops \in 0..MaxDrops /\ viewEdits \in 0..MaxViewEdits
      BY IssueViewAssumption DEF IssueViewInit
    <2>3. page \in Pages \cup {"elsewhere"} /\ shownWs \in 0..2 /\ prevId \in 0..2
          /\ registered \subseteq Pages /\ unheard \subseteq Pages /\ selectedIds \subseteq IssueIds
      BY DEF IssueViewInit
    <2> QED BY <1>2, <1>4, <2>1, <2>2, <2>3 DEF IssueViewTypeOK, PageRows
  <1>6. Primed /\ FiltersStayHome /\ SelectionOfView
    BY <1>3 DEF IssueViewInit, Primed, FiltersStayHome, SelectionOfView
  <1> QED BY <1>2, <1>3, <1>5, <1>6 DEF ViewInv, ViewTyped

LEMMA ViewTypes ==
  ASSUME ViewInv
  PROVE  /\ page \in Pages \cup {"elsewhere"} /\ shownWs \in 0..2 /\ prevId \in 0..2
         /\ registered \subseteq Pages /\ unheard \subseteq Pages /\ selectedIds \subseteq IssueIds
         /\ row \in PageRows /\ drops \in 0..MaxDrops /\ viewEdits \in 0..MaxViewEdits
         /\ \A p \in Pages : /\ view[p] \in ViewRecord /\ view[p].scope \in Scopes(p)
                             /\ view[p].filters \in ViewFilters
  BY DEF ViewInv, IssueViewTypeOK, ViewTyped, ViewRecord, PageRows

\* Each variable's share in the invariant.
LEMMA ViewTypesSuffice ==
  ASSUME page' \in Pages \cup {"elsewhere"}, shownWs' \in 0..2, prevId' \in 0..2,
         registered' \subseteq Pages, unheard' \subseteq Pages, selectedIds' \subseteq IssueIds,
         row' \in PageRows, drops' \in 0..MaxDrops, viewEdits' \in 0..MaxViewEdits,
         view' \in [Pages -> ViewRecord], \A p \in Pages : view'[p].scope \in Scopes(p),
         chosenIn' \in [Pages -> 0..2]
  PROVE  IssueViewTypeOK' /\ ViewTyped'
  <1>1. \A p \in Pages : view'[p].filters.status \subseteq AllStatuses
    BY DEF ViewRecord, ViewFilters
  <1> QED BY <1>1 DEF IssueViewTypeOK, ViewTyped, PageRows

LEMMA MountSteps == ASSUME ViewInv, OpenPage \/ FirstMount \/ Subscribes PROVE ViewInv'
  <1>1. /\ UNCHANGED <<shownWs, prevId, view, row, drops, viewEdits, chosenIn, unheard, primed>>
        /\ page' \in Pages \cup {"elsewhere"} /\ registered' \subseteq Pages
        /\ selectedIds' \in {{}, selectedIds}
    BY ViewTypes DEF OpenPage, FirstMount, Subscribes
  <1>2. \/ page' \in Pages => tickedIn' = {}
        \/ page' = page /\ tickedIn' = tickedIn
    BY DEF OpenPage, FirstMount, Subscribes
  <1>3. IssueViewTypeOK' /\ ViewTyped'
    <2>1. view \in [Pages -> ViewRecord] /\ chosenIn \in [Pages -> 0..2]
      BY DEF ViewInv, ViewTyped
    <2>0. selectedIds \subseteq IssueIds
      BY ViewTypes
    <2>2. selectedIds' \subseteq IssueIds
      BY <1>1, <2>0
    <2> QED BY <1>1, <2>1, <2>2, ViewTypes, ViewTypesSuffice
  <1>4. FiltersStayHome'
    BY <1>1 DEF ViewInv, FiltersStayHome
  <1>6. Primed'
    <2>1. prevId' = prevId /\ shownWs' = shownWs
      BY <1>1
    <2>2. primed' => primed
      BY <1>1
    <2>3. subscribed => subscribed'
      BY DEF OpenPage, FirstMount, Subscribes
    <2> QED BY <2>1, <2>2, <2>3 DEF ViewInv, Primed
  <1>5. SelectionOfView'
    BY <1>1, <1>2 DEF ViewInv, SelectionOfView
  <1> QED BY <1>3, <1>4, <1>5, <1>6 DEF ViewInv

LEMMA StoreStep == ASSUME ViewInv, StoreChanges PROVE ViewInv'
  <1>1. PICK w \in 0..2 :
    /\ (w # shownWs => viewEdits < MaxViewEdits) /\ shownWs' = w
    /\ viewEdits' = IF w # shownWs THEN viewEdits + 1 ELSE viewEdits
    /\ page' = IF w = 0 THEN "elsewhere" ELSE page
    /\ prevId' = IF subscribed THEN w ELSE prevId
    /\ primed' = (subscribed /\ w # 0)
    /\ LET cleared == IF subscribed THEN Clears(w) ELSE {} IN
       /\ view' = [p \in Pages |-> IF p \in cleared THEN [view[p] EXCEPT !.filters = Unfiltered] ELSE view[p]]
       /\ chosenIn' = [p \in Pages |-> IF p \in cleared THEN 0 ELSE chosenIn[p]]
    /\ unheard' = unheard \cup (IF w = shownWs THEN {} ELSE IF primed THEN Pages \ registered ELSE Pages)
    /\ UNCHANGED <<registered, subscribed, selectedIds, row, drops, tickedIn>>
    BY DEF StoreChanges
  <1> PICK cleared : cleared = IF subscribed THEN Clears(w) ELSE {}
    OBVIOUS
  <1>2. /\ view' = [p \in Pages |-> IF p \in cleared THEN [view[p] EXCEPT !.filters = Unfiltered] ELSE view[p]]
        /\ chosenIn' = [p \in Pages |-> IF p \in cleared THEN 0 ELSE chosenIn[p]]
    BY <1>1
  <1>3. \A p \in Pages : /\ view'[p] \in ViewRecord /\ view'[p].scope = view[p].scope
                         /\ view'[p].mode = view[p].mode
    <2>1. Unfiltered \in ViewFilters
      BY DEF Unfiltered, ViewFilters
    <2> QED BY <1>2, <2>1, ViewTypes DEF ViewRecord
  <1>4. IssueViewTypeOK' /\ ViewTyped'
    <2>1. view' \in [Pages -> ViewRecord] /\ \A p \in Pages : view'[p].scope \in Scopes(p)
      BY <1>2, <1>3, ViewTypes
    <2>2. chosenIn' \in [Pages -> 0..2]
      BY <1>2 DEF ViewInv, ViewTyped
    <2>3. viewEdits' \in 0..MaxViewEdits
      BY <1>1, ViewTypes, IssueViewAssumption
    <2>4. page' \in Pages \cup {"elsewhere"} /\ shownWs' \in 0..2 /\ prevId' \in 0..2 /\ unheard' \subseteq Pages
      BY <1>1, ViewTypes
    <2> QED BY <1>1, <2>1, <2>2, <2>3, <2>4, ViewTypes, ViewTypesSuffice
  <1>5. Primed'
    BY <1>1 DEF Primed
  <1>6. FiltersStayHome'
    <2> SUFFICES ASSUME NEW p \in Pages \ unheard', w # 0
                 PROVE  chosenIn'[p] \in {0, w}
      BY <1>1 DEF FiltersStayHome
    <2>1. CASE w = shownWs
      <3>1. chosenIn[p] \in {0, shownWs}
        BY <1>1, <2>1 DEF ViewInv, FiltersStayHome
      <3> QED BY <1>2, <2>1, <3>1
    <2>2. CASE w # shownWs
      <3>1. primed /\ p \in registered
        BY <1>1, <2>2
      <3>2. subscribed /\ prevId = shownWs /\ shownWs # 0
        BY <3>1 DEF ViewInv, Primed
      <3>3. p \in cleared
        BY <2>2, <3>1, <3>2 DEF Clears
      <3> QED BY <1>2, <3>3
    <2> QED BY <2>1, <2>2
  <1>7. SelectionOfView'
    <2> SUFFICES ASSUME page' \in Pages PROVE tickedIn' \subseteq {<<page', view'[page'].mode, view'[page'].scope>>}
      BY DEF SelectionOfView
    <2>1. page' = page
      BY <1>1 DEF Pages
    <2> QED BY <1>1, <1>3, <2>1 DEF ViewInv, SelectionOfView
  <1> QED BY <1>4, <1>5, <1>6, <1>7 DEF ViewInv

\* A setting of a page: its record keeps the mode and the scope, or the
\* selection is cleared.
LEMMA SetsStep ==
  ASSUME ViewInv, NEW p \in Pages, NEW v \in ViewRecord, v.scope \in Scopes(p), Sets(p, v),
         NEW c \in {0, shownWs, chosenIn[p]}, chosenIn' = [chosenIn EXCEPT ![p] = c],
         \/ selectedIds' = {} /\ tickedIn' = {}
         \/ /\ UNCHANGED <<selectedIds, tickedIn>>
            /\ v.mode = view[p].mode /\ v.scope = view[p].scope
  PROVE  ViewInv'
  <1>1. /\ page = p /\ viewEdits < MaxViewEdits /\ viewEdits' = viewEdits + 1
        /\ view' = [view EXCEPT ![p] = v]
        /\ UNCHANGED <<page, shownWs, registered, subscribed, prevId, unheard, primed, row, drops>>
    BY DEF Sets, pageVars
  <1>2. view \in [Pages -> ViewRecord] /\ chosenIn \in [Pages -> 0..2]
    BY DEF ViewInv, ViewTyped
  <1>3. view' \in [Pages -> ViewRecord] /\ chosenIn' \in [Pages -> 0..2]
    BY <1>1, <1>2, ViewTypes
  <1>4. \A q \in Pages : view'[q].scope \in Scopes(q)
    BY <1>1, <1>2, ViewTypes
  <1>5. viewEdits' \in 0..MaxViewEdits /\ selectedIds' \subseteq IssueIds
    BY <1>1, ViewTypes, IssueViewAssumption
  <1>6. IssueViewTypeOK' /\ ViewTyped'
    BY <1>1, <1>3, <1>4, <1>5, ViewTypes, ViewTypesSuffice
  <1>7. Primed'
    BY <1>1 DEF ViewInv, Primed
  <1>8. FiltersStayHome'
    BY <1>1, <1>2 DEF ViewInv, FiltersStayHome
  <1>9. SelectionOfView'
    BY <1>1, <1>2 DEF ViewInv, SelectionOfView
  <1> QED BY <1>6, <1>7, <1>8, <1>9 DEF ViewInv

LEMMA FilterSteps ==
  ASSUME ViewInv, NEW p \in Pages, NEW f \in ViewFilters, SetsFilters(p, f)
  PROVE  ViewInv'
  <1> PICK v : v = [view[p] EXCEPT !.filters = f]
    OBVIOUS
  <1>1. v \in ViewRecord /\ v.scope = view[p].scope /\ v.mode = view[p].mode
    BY ViewTypes DEF ViewRecord
  <1>2. v.scope \in Scopes(p)
    BY <1>1, ViewTypes
  <1>3. Sets(p, v) /\ UNCHANGED <<selectedIds, tickedIn>>
    BY DEF SetsFilters
  <1>4. PICK c \in {0, shownWs, chosenIn[p]} : chosenIn' = [chosenIn EXCEPT ![p] = c]
    BY DEF SetsFilters, ViewInv, ViewTyped
  <1> QED BY <1>1, <1>2, <1>3, <1>4, SetsStep

LEMMA HeaderSteps ==
  ASSUME ViewInv, NEW p \in Pages,
         \/ ToggleStatusFilter(p) \/ (\E D \in SUBSET Dims : TogglePick(p, D)) \/ ClearFilters(p)
         \/ HideStatus(p) \/ ShowStatus(p)
  PROVE  ViewInv'
  <1> PICK g : g = view[p].filters
    OBVIOUS
  <1>1. g \in ViewFilters /\ g.status \subseteq AllStatuses
    BY ViewTypes DEF ViewFilters
  <1>2. ASSUME NEW S \in SUBSET AllStatuses
        PROVE  [g EXCEPT !.status = S] \in ViewFilters
    BY <1>1 DEF ViewFilters
  <1>3. CASE ToggleStatusFilter(p)
    <2>1. PICK s \in AllStatuses : SetsFilters(p, [g EXCEPT !.status = Flipped(g.status, s)])
      BY <1>3 DEF ToggleStatusFilter
    <2>2. Flipped(g.status, s) \in SUBSET AllStatuses
      BY <1>1 DEF Flipped
    <2> QED BY <1>2, <2>1, <2>2, FilterSteps
  <1>4. CASE \E D \in SUBSET Dims : TogglePick(p, D)
    <2>1. PICK d \in Dims, x \in PickValues : SetsFilters(p, [g EXCEPT !.picks[d] = Flipped(g.picks[d], x)])
      BY <1>4 DEF TogglePick
    <2>2. g.picks \in [Dims -> SUBSET PickValues]
      BY <1>1 DEF ViewFilters
    <2>3. Flipped(g.picks[d], x) \in SUBSET PickValues
      BY <2>2 DEF Flipped
    <2>4. [g.picks EXCEPT ![d] = Flipped(g.picks[d], x)] \in [Dims -> SUBSET PickValues]
      BY <2>2, <2>3
    <2>5. [g EXCEPT !.picks[d] = Flipped(g.picks[d], x)] \in ViewFilters
      BY <1>1, <2>4 DEF ViewFilters
    <2> QED BY <2>1, <2>5, FilterSteps
  <1>5. CASE ClearFilters(p)
    <2>1. Unfiltered \in ViewFilters
      BY DEF Unfiltered, ViewFilters
    <2> QED BY <1>5, <2>1, FilterSteps DEF ClearFilters
  <1>6. CASE HideStatus(p)
    <2>1. PICK s : SetsFilters(p, [g EXCEPT !.status = Hidden(g.status, s)])
      BY <1>6 DEF HideStatus
    <2>2. Hidden(g.status, s) \in SUBSET AllStatuses
      BY <1>1 DEF Hidden
    <2> QED BY <1>2, <2>1, <2>2, FilterSteps
  <1>7. CASE ShowStatus(p)
    <2>1. PICK s \in Columns : SetsFilters(p, [g EXCEPT !.status = Unhidden(g.status, s)])
      BY <1>7 DEF ShowStatus, HiddenStatuses
    <2>2. Unhidden(g.status, s) \in SUBSET AllStatuses
      BY <1>1 DEF Unhidden, AllStatuses
    <2> QED BY <1>2, <2>1, <2>2, FilterSteps
  <1> QED BY <1>3, <1>4, <1>5, <1>6, <1>7

LEMMA ModeSteps ==
  ASSUME ViewInv, NEW p \in Pages, SetViewMode(p) \/ SetScope(p) \/ SetSort(p)
  PROVE  ViewInv'
  <1>1. view[p] \in ViewRecord /\ view[p].scope \in Scopes(p) /\ chosenIn \in [Pages -> 0..2]
    BY ViewTypes DEF ViewInv, ViewTyped
  <1>2. PICK v \in ViewRecord :
          /\ Sets(p, v) /\ chosenIn' = chosenIn /\ v.scope \in Scopes(p)
          /\ \/ selectedIds' = {} /\ tickedIn' = {}
             \/ /\ UNCHANGED <<selectedIds, tickedIn>>
                /\ v.mode = view[p].mode /\ v.scope = view[p].scope
    <2>1. CASE SetViewMode(p)
      <3>1. PICK m \in {"board", "list"} : Sets(p, [view[p] EXCEPT !.mode = m])
        BY <2>1 DEF SetViewMode
      <3>2. [view[p] EXCEPT !.mode = m] \in ViewRecord /\ [view[p] EXCEPT !.mode = m].scope \in Scopes(p)
        BY <1>1 DEF ViewRecord
      <3> QED BY <2>1, <3>1, <3>2 DEF SetViewMode
    <2>2. CASE SetScope(p)
      <3>1. PICK s \in Scopes(p) : Sets(p, [view[p] EXCEPT !.scope = s])
        BY <2>2 DEF SetScope
      <3>2. s \in IssuesScopes \cup MyScopes
        BY ScopesAre
      <3>3. [view[p] EXCEPT !.scope = s] \in ViewRecord /\ [view[p] EXCEPT !.scope = s].scope \in Scopes(p)
        BY <1>1, <3>2 DEF ViewRecord
      <3> QED BY <2>2, <3>1, <3>3 DEF SetScope
    <2>3. CASE SetSort(p)
      <3>1. \/ \E by \in {"position", "title"} : Sets(p, [view[p] EXCEPT !.sortBy = by])
            \/ \E dir \in {"asc", "desc"} : Sets(p, [view[p] EXCEPT !.direction = dir])
        BY <2>3 DEF SetSort
      <3>2. \A by \in {"position", "title"} :
              LET v == [view[p] EXCEPT !.sortBy = by] IN
              v \in ViewRecord /\ v.scope = view[p].scope /\ v.mode = view[p].mode
        BY <1>1 DEF ViewRecord
      <3>3. \A dir \in {"asc", "desc"} :
              LET v == [view[p] EXCEPT !.direction = dir] IN
              v \in ViewRecord /\ v.scope = view[p].scope /\ v.mode = view[p].mode
        BY <1>1 DEF ViewRecord
      <3> QED BY <1>1, <2>3, <3>1, <3>2, <3>3 DEF SetSort
    <2> QED BY <2>1, <2>2, <2>3
  <1>3. chosenIn' = [chosenIn EXCEPT ![p] = chosenIn[p]]
    BY <1>1, <1>2
  <1>4. chosenIn[p] \in {0, shownWs, chosenIn[p]}
    OBVIOUS
  <1> QED BY <1>2, <1>3, <1>4, SetsStep

\* A box is ticked on a list of issues.
LEMMA TickSteps ==
  ASSUME ViewInv, ToggleIssue \/ ToggleColumn \/ ClearSelection
  PROVE  ViewInv'
  <1>1. PICK S : S \subseteq IssueIds /\ Ticks(S)
    <2>0. selectedIds \subseteq IssueIds
      BY ViewTypes
    <2>1. CASE ToggleIssue
      <3>1. PICK i \in IssuesOf(page) : Ticks(Flipped(selectedIds, i))
        BY <2>1 DEF ToggleIssue
      <3>2. i \in IssueIds
        BY DEF IssuesOf, filterIssues
      <3>3. Flipped(selectedIds, i) \subseteq IssueIds
        BY <2>0, <3>2 DEF Flipped
      <3> QED BY <3>1, <3>3
    <2>2. CASE ToggleColumn
      <3>1. PICK s : Ticks(IF Column(page, s) \subseteq selectedIds THEN selectedIds \ Column(page, s)
                           ELSE selectedIds \cup Column(page, s))
        BY <2>2 DEF ToggleColumn
      <3>2. Column(page, s) \subseteq IssueIds
        BY DEF Column, IssuesOf, filterIssues
      <3> QED BY <2>0, <3>1, <3>2
    <2>3. CASE ClearSelection
      BY <2>3 DEF ClearSelection
    <2> QED BY <2>1, <2>2, <2>3
  <1>2. /\ viewEdits < MaxViewEdits /\ viewEdits' = viewEdits + 1 /\ selectedIds' = S
        /\ tickedIn' = IF S = {} THEN {} ELSE tickedIn \cup {<<page, view[page].mode, view[page].scope>>}
        /\ UNCHANGED <<page, shownWs, registered, subscribed, prevId, unheard, primed, view, row, drops, chosenIn>>
    BY <1>1 DEF Ticks, pageVars
  <1>3. viewEdits' \in 0..MaxViewEdits
    BY <1>2, ViewTypes, IssueViewAssumption
  <1>4. view \in [Pages -> ViewRecord] /\ chosenIn \in [Pages -> 0..2]
    BY DEF ViewInv, ViewTyped
  <1>5. IssueViewTypeOK' /\ ViewTyped'
    BY <1>1, <1>2, <1>3, <1>4, ViewTypes, ViewTypesSuffice
  <1>6. Primed' /\ FiltersStayHome'
    BY <1>2 DEF ViewInv, Primed, FiltersStayHome
  <1>7. SelectionOfView'
    BY <1>2 DEF ViewInv, SelectionOfView
  <1> QED BY <1>5, <1>6, <1>7 DEF ViewInv

\* A change of the rows alone, or with the sorting of a page.
LEMMA RowsChange ==
  ASSUME ViewInv, UNCHANGED <<pageVars, selectedIds, viewEdits, chosenIn, tickedIn>>,
         drops < MaxDrops, drops' = drops + 1, row' \in PageRows,
         view' \in [Pages -> ViewRecord],
         \A p \in Pages : view'[p].scope = view[p].scope /\ view'[p].mode = view[p].mode
  PROVE  ViewInv'
  <1>1. UNCHANGED <<page, shownWs, registered, subscribed, prevId, unheard, primed>>
    BY DEF pageVars
  <1>2. drops' \in 0..MaxDrops
    BY ViewTypes, IssueViewAssumption
  <1>3. chosenIn \in [Pages -> 0..2]
    BY DEF ViewInv, ViewTyped
  <1>4. IssueViewTypeOK' /\ ViewTyped'
    BY <1>1, <1>2, <1>3, ViewTypes, ViewTypesSuffice
  <1>5. Primed' /\ FiltersStayHome'
    BY <1>1 DEF ViewInv, Primed, FiltersStayHome
  <1>6. SelectionOfView'
    BY <1>1 DEF ViewInv, SelectionOfView
  <1> QED BY <1>4, <1>5, <1>6 DEF ViewInv

LEMMA CardPut ==
  ASSUME row \in PageRows, NEW card \in IssueIds, NEW s \in AllStatuses, NEW k \in Int
  PROVE  [row EXCEPT ![card] = [status |-> s, position |-> k]] \in PageRows
  <1>1. [status |-> s, position |-> k] \in [status : AllStatuses, position : Int]
    OBVIOUS
  <1> QED BY <1>1 DEF PageRows

LEMMA ViewDropStep ==
  ASSUME ViewInv, DropCard
  PROVE  ViewInv'
  <1>1. PICK p \in Pages \cap {page}, card \in IssueIds, s \in Columns, over \in IssueIds \cup {0} :
          /\ drops < MaxDrops /\ s \in VisibleStatuses(p)
          /\ over # 0 => OnItsCard(p, over) /\ over # card /\ row[over].status = s
          /\ drops' = drops + 1 /\ row' = Moved(p, card, s, over)
          /\ view' = IF row' = row THEN view ELSE [view EXCEPT ![p] = Manual(@)]
          /\ UNCHANGED <<pageVars, selectedIds, viewEdits, chosenIn, tickedIn>>
    BY ZenonT(60) DEF DropCard
  <1>2. row \in PageRows /\ view \in [Pages -> ViewRecord]
    BY ViewTypes DEF ViewInv, ViewTyped
  <1>3. row' \in PageRows
    <2>1. Target(s, over) = s
      BY <1>1 DEF Target
    <2> PICK S : S = Column(p, s) \ {card}
      OBVIOUS
    <2>2. S \in SUBSET IssueIds
      BY DEF Column, IssuesOf, filterIssues
    <2>3. over = 0 \/ over \in S
      BY <1>1 DEF Column, OnItsCard
    <2> PICK k : k = ComputePosition(ByPosition(S), IndexAt(ByPosition(S), card, over))
      OBVIOUS
    <2>4. k \in Int
      BY <1>2, <2>2, <2>3, PositionTyped
    <2>5. row' = [row EXCEPT ![card] = [status |-> s, position |-> k]]
      BY <1>1, <2>1 DEF Moved, Siblings
    <2>6. s \in AllStatuses
      BY DEF AllStatuses
    <2> QED BY <1>2, <2>4, <2>5, <2>6, CardPut
  <1>4. /\ view' \in [Pages -> ViewRecord]
        /\ \A q \in Pages : view'[q].scope = view[q].scope /\ view'[q].mode = view[q].mode
    <2>1. /\ Manual(view[p]) \in ViewRecord
          /\ Manual(view[p]).scope = view[p].scope /\ Manual(view[p]).mode = view[p].mode
      BY <1>2 DEF Manual, ViewRecord
    <2>2. view' \in {view, [view EXCEPT ![p] = Manual(view[p])]}
      BY <1>1
    <2> QED BY <1>2, <2>1, <2>2
  <1> QED BY <1>1, <1>3, <1>4, RowsChange

LEMMA OthersSteps ==
  ASSUME ViewInv, OthersDrop \/ OthersSetStatus
  PROVE  ViewInv'
  <1>1. row \in PageRows /\ view \in [Pages -> ViewRecord]
    BY ViewTypes DEF ViewInv, ViewTyped
  <1>2. /\ UNCHANGED <<pageVars, view, selectedIds, viewEdits, chosenIn, tickedIn>>
        /\ drops < MaxDrops /\ drops' = drops + 1
    BY DEF OthersDrop, OthersSetStatus
  <1>3. row' \in PageRows
    <2>1. CASE OthersDrop
      <3>1. PICK card \in IssueIds, over \in IssueIds :
              /\ card # over /\ HomeOf(card) = HomeOf(over)
              /\ LET S == {i \in IssueIds \ {card} : HomeOf(i) = HomeOf(over) /\ row[i].status = row[over].status}
                     sib == ByPosition(S) IN
                 row' = [row EXCEPT ![card] = [status |-> row[over].status,
                                     position |-> ComputePosition(sib, IndexAt(sib, card, over))]]
        BY <2>1 DEF OthersDrop
      <3> PICK S : S = {i \in IssueIds \ {card} : HomeOf(i) = HomeOf(over) /\ row[i].status = row[over].status}
        OBVIOUS
      <3>2. S \in SUBSET IssueIds /\ over \in S
        BY <3>1
      <3> PICK k : k = ComputePosition(ByPosition(S), IndexAt(ByPosition(S), card, over))
        OBVIOUS
      <3>3. k \in Int
        BY <1>1, <3>2, PositionTyped
      <3>4. row' = [row EXCEPT ![card] = [status |-> row[over].status, position |-> k]]
        BY <3>1
      <3>5. row[over].status \in AllStatuses
        BY <1>1 DEF PageRows
      <3> QED BY <1>1, <3>3, <3>4, <3>5, CardPut
    <2>2. CASE OthersSetStatus
      BY <1>1, <2>2 DEF OthersSetStatus, PageRows
    <2> QED BY <2>1, <2>2
  <1> QED BY <1>1, <1>2, <1>3, RowsChange

LEMMA ViewStep == ASSUME ViewInv, [ViewSteps \/ BoardSteps]_viewVars PROVE ViewInv'
  <1>0. \A p \in Pages : Dims \in SUBSET Dims /\ Dims \cap {"priority"} \in SUBSET Dims
    OBVIOUS
  <1>1. CASE OpenPage \/ FirstMount \/ Subscribes
    BY <1>1, MountSteps
  <1>2. CASE StoreChanges
    BY <1>2, StoreStep
  <1>3. CASE IssuesFilterMenu \/ MyFilterMenu \/ ColumnMenus
    <2>1. PICK p \in Pages : \/ ToggleStatusFilter(p) \/ (\E D \in SUBSET Dims : TogglePick(p, D))
                             \/ ClearFilters(p) \/ HideStatus(p) \/ ShowStatus(p)
      BY <1>0, <1>3 DEF IssuesFilterMenu, MyFilterMenu, ColumnMenus, Pages
    <2> QED BY <2>1, HeaderSteps
  <1>4. CASE \/ IssuesScopeTabs \/ IssuesViewToggle \/ IssuesDisplay
             \/ MyScopeTabs \/ MyViewToggle \/ MyDisplay
    <2>1. PICK p \in Pages : SetViewMode(p) \/ SetScope(p) \/ SetSort(p)
      BY <1>4 DEF IssuesScopeTabs, IssuesViewToggle, IssuesDisplay, MyScopeTabs, MyViewToggle, MyDisplay, Pages
    <2> QED BY <2>1, ModeSteps
  <1>5. CASE ToggleIssue \/ ToggleColumn \/ ClearSelection
    BY <1>5, TickSteps
  <1>6. CASE DropCard
    BY <1>6, ViewDropStep
  <1>7. CASE OthersDrop \/ OthersSetStatus
    BY <1>7, OthersSteps
  <1>8. CASE UNCHANGED viewVars
    <2>1. UNCHANGED <<page, shownWs, registered, subscribed, prevId, view, selectedIds, row, drops,
                      viewEdits, chosenIn, unheard, primed, tickedIn>>
      BY <1>8 DEF viewVars
    <2>2. view \in [Pages -> ViewRecord] /\ chosenIn \in [Pages -> 0..2]
      BY DEF ViewInv, ViewTyped
    <2>3. IssueViewTypeOK' /\ ViewTyped'
      BY <2>1, <2>2, ViewTypes, ViewTypesSuffice
    <2>4. Primed' /\ FiltersStayHome' /\ SelectionOfView'
      BY <2>1 DEF ViewInv, Primed, FiltersStayHome, SelectionOfView
    <2> QED BY <2>3, <2>4 DEF ViewInv
  <1> QED BY <1>1, <1>2, <1>3, <1>4, <1>5, <1>6, <1>7, <1>8 DEF ViewSteps, BoardSteps

\* The issue pages ask for nothing, filter nothing and select nothing of
\* another workspace or view: the filters of a page are those chosen in the
\* workspace shown, the selection is of the page, the mode and the scope
\* shown, and every card is in a column at a position.
THEOREM ViewsAtHome == IssueViewSpec => [](IssueViewTypeOK /\ FiltersStayHome /\ SelectionOfView)
  <1>1. ViewInv /\ [ViewSteps \/ BoardSteps]_viewVars => ViewInv'
    BY ViewStep
  <1>2. ViewInv => IssueViewTypeOK /\ FiltersStayHome /\ SelectionOfView
    BY DEF ViewInv
  <1> QED BY ViewStart, <1>1, <1>2, PTL DEF IssueViewSpec

-----------------------------------------------------------------------------
(* A card lands where it is dropped. *)

\* Every position is a multiple of what the drops to come may still halve.
PositionsHalve == \A i \in IssueIds : Multiple(row[i].position, Powers[MaxDrops - drops])

LEMMA HalvesLeft ==
  ASSUME ViewInv
  PROVE  /\ MaxDrops - drops \in 0..MaxDrops
         /\ drops < MaxDrops => /\ Powers[MaxDrops - drops] = 2 * Powers[MaxDrops - (drops + 1)]
                                /\ Powers[MaxDrops - (drops + 1)] \in Nat \ {0}
                                /\ Multiple(Unit, 2 * Powers[MaxDrops - (drops + 1)])
  <1>1. drops \in 0..MaxDrops /\ MaxDrops \in Nat
    BY ViewTypes, IssueViewAssumption
  <1>2. MaxDrops - drops \in 0..MaxDrops
    BY <1>1
  <1>3. ASSUME drops < MaxDrops
        PROVE  /\ Powers[MaxDrops - drops] = 2 * Powers[MaxDrops - (drops + 1)]
               /\ Powers[MaxDrops - (drops + 1)] \in Nat \ {0}
               /\ Multiple(Unit, 2 * Powers[MaxDrops - (drops + 1)])
    <2> PICK n : n = MaxDrops - drops
      OBVIOUS
    <2>1. n \in 0..MaxDrops /\ n # 0 /\ n - 1 = MaxDrops - (drops + 1) /\ n - 1 \in 0..MaxDrops
      BY <1>1, <1>3
    <2>2. Powers[n] = 2 * Powers[n - 1] /\ Powers[n - 1] \in Nat \ {0} /\ Multiple(Unit, Powers[n])
      BY <2>1, PowersAre, UnitIs
    <2> QED BY <2>1, <2>2
  <1> QED BY <1>2, <1>3

LEMMA HalveStart == IssueViewInit => PositionsHalve
  <1> SUFFICES ASSUME IssueViewInit, NEW i \in IssueIds
               PROVE  Multiple(row[i].position, Powers[MaxDrops - drops])
    BY DEF PositionsHalve
  <1>1. PICK s \in Columns, gap \in {0, Unit} :
          row = [j \in IssueIds |-> [status |-> s, position |-> j * gap]]
    BY DEF IssueViewInit
  <1>2. row[i].position = i * gap
    BY <1>1
  <1>3. i \in Int /\ MaxDrops \in Nat
    BY IssueViewAssumption DEF IssueIds
  <1>4. MaxDrops - drops = MaxDrops
    BY <1>3 DEF IssueViewInit
  <1>5. Powers[MaxDrops] \in Nat
    BY <1>3, PowersAre
  <1>6. CASE gap = 0
    <2>1. row[i].position = 0 * Powers[MaxDrops]
      BY <1>2, <1>3, <1>5, <1>6
    <2> QED BY <1>4, <2>1 DEF Multiple
  <1>7. CASE gap = Unit
    BY <1>2, <1>3, <1>4, <1>7 DEF Multiple, Unit
  <1> QED BY <1>6, <1>7

\* What one more drop may halve.
LEMMA HalvesStay ==
  ASSUME ViewInv, PositionsHalve, drops < MaxDrops, NEW i \in IssueIds
  PROVE  Multiple(row[i].position, Powers[MaxDrops - (drops + 1)])
  <1> PICK P : P = Powers[MaxDrops - (drops + 1)]
    OBVIOUS
  <1>1. P \in Nat \ {0} /\ Multiple(row[i].position, 2 * P)
    BY HalvesLeft DEF PositionsHalve
  <1> QED BY <1>1, MultiplesHalf

LEMMA HalvePut ==
  ASSUME ViewInv, PositionsHalve, drops < MaxDrops, drops' = drops + 1,
         NEW S \in SUBSET IssueIds, NEW card \in IssueIds, NEW over \in IssueIds \cup {0}, over = 0 \/ over \in S,
         NEW s, row' = [row EXCEPT ![card] = [status |-> s,
                          position |-> ComputePosition(ByPosition(S), IndexAt(ByPosition(S), card, over))]]
  PROVE  PositionsHalve'
  <1> PICK P : P = Powers[MaxDrops - (drops + 1)]
    OBVIOUS
  <1> PICK f : f = Order(row, S)
    OBVIOUS
  <1> PICK k : k = IndexAt(f, card, over)
    OBVIOUS
  <1> PICK q : q = ComputePosition(f, k)
    OBVIOUS
  <1>1. P \in Nat \ {0} /\ Multiple(Unit, 2 * P) /\ \A i \in IssueIds : Multiple(row[i].position, 2 * P)
    BY HalvesLeft DEF PositionsHalve
  <1>2. row \in PageRows
    BY ViewTypes
  <1>3. Multiple(q, P)
    <2>1. \A i \in S : Multiple(row[i].position, 2 * P)
      BY <1>1
    <2> QED BY <1>1, <1>2, <2>1, PositionAmong
  <1>4. row' = [row EXCEPT ![card] = [status |-> s, position |-> q]]
    BY OrderIs
  <1>5. ASSUME NEW i \in IssueIds PROVE Multiple(row'[i].position, P)
    <2>1. CASE i = card
      BY <1>2, <1>3, <1>4, <2>1 DEF PageRows
    <2>2. CASE i # card
      <3>1. row'[i] = row[i]
        BY <1>2, <1>4, <2>2 DEF PageRows
      <3> QED BY <3>1, HalvesStay
    <2> QED BY <2>1, <2>2
  <1> QED BY <1>5 DEF PositionsHalve

LEMMA HalveStep ==
  ASSUME ViewInv, PositionsHalve, [ViewSteps \/ BoardSteps]_viewVars
  PROVE  PositionsHalve'
  <1>1. CASE DropCard
    <2>1. PICK p \in Pages \cap {page}, card \in IssueIds, s \in Columns, over \in IssueIds \cup {0} :
          /\ drops < MaxDrops
          /\ over # 0 => OnItsCard(p, over) /\ over # card /\ row[over].status = s
          /\ drops' = drops + 1 /\ row' = Moved(p, card, s, over)
      BY <1>1, ZenonT(60) DEF DropCard
    <2> PICK S : S = Column(p, s) \ {card}
      OBVIOUS
    <2>2. Target(s, over) = s
      BY <2>1 DEF Target
    <2>3. S \in SUBSET IssueIds
      BY DEF Column, IssuesOf, filterIssues
    <2>4. over = 0 \/ over \in S
      BY <2>1 DEF Column, OnItsCard
    <2>5. row' = [row EXCEPT ![card] = [status |-> s,
                    position |-> ComputePosition(ByPosition(S), IndexAt(ByPosition(S), card, over))]]
      BY <2>1, <2>2 DEF Moved, Siblings
    <2>6. drops < MaxDrops /\ drops' = drops + 1
      BY <2>1
    <2> QED BY <2>3, <2>4, <2>5, <2>6, HalvePut
  <1>2. CASE OthersDrop
    <2>1. PICK card \in IssueIds, over \in IssueIds :
            /\ card # over /\ HomeOf(card) = HomeOf(over) /\ drops < MaxDrops /\ drops' = drops + 1
            /\ LET S == {i \in IssueIds \ {card} : HomeOf(i) = HomeOf(over) /\ row[i].status = row[over].status}
                   sib == ByPosition(S) IN
               row' = [row EXCEPT ![card] = [status |-> row[over].status,
                                   position |-> ComputePosition(sib, IndexAt(sib, card, over))]]
      BY <1>2 DEF OthersDrop
    <2> PICK S : S = {i \in IssueIds \ {card} : HomeOf(i) = HomeOf(over) /\ row[i].status = row[over].status}
      OBVIOUS
    <2>2. S \in SUBSET IssueIds /\ over \in S /\ over \in IssueIds \cup {0}
      BY <2>1
    <2>3. row' = [row EXCEPT ![card] = [status |-> row[over].status,
                    position |-> ComputePosition(ByPosition(S), IndexAt(ByPosition(S), card, over))]]
      BY <2>1
    <2> QED BY <2>1, <2>2, <2>3, HalvePut
  <1>3. CASE OthersSetStatus
    <2>1. PICK i \in IssueIds : \E s \in AllStatuses : row' = [row EXCEPT ![i].status = s]
      BY <1>3 DEF OthersSetStatus
    <2>2. drops < MaxDrops /\ drops' = drops + 1
      BY <1>3 DEF OthersSetStatus
    <2>3. ASSUME NEW j \in IssueIds PROVE row'[j].position = row[j].position
      <3>1. row \in PageRows
        BY ViewTypes
      <3> QED BY <2>1, <3>1 DEF PageRows
    <2>4. \A j \in IssueIds : Multiple(row[j].position, Powers[MaxDrops - (drops + 1)])
      BY <2>2, HalvesStay
    <2> QED BY <2>2, <2>3, <2>4 DEF PositionsHalve
  <1>4. CASE UNCHANGED <<row, drops>>
    BY <1>4 DEF PositionsHalve
  <1>5. \/ DropCard \/ OthersDrop \/ OthersSetStatus \/ UNCHANGED <<row, drops>>
    BY DEF ViewSteps, BoardSteps, viewVars, OpenPage, FirstMount, Subscribes, StoreChanges,
           IssuesScopeTabs, IssuesFilterMenu, IssuesViewToggle, IssuesDisplay,
           MyScopeTabs, MyFilterMenu, MyViewToggle, MyDisplay, ColumnMenus,
           ToggleIssue, ToggleColumn, ClearSelection, Ticks, SetViewMode, SetScope, SetSort, Sets,
           ToggleStatusFilter, TogglePick, ClearFilters, HideStatus, ShowStatus, SetsFilters
  <1> QED BY <1>1, <1>2, <1>3, <1>4, <1>5

\* What a page shows of a column, said of any rows, workspace and view.
ColumnOf(r, w, v, p, s) ==
  {i \in IssueIds : /\ HomeOf(i) = w /\ r[i].status = s
                    /\ IF p = "issues" THEN InIssuesScope(i, v.scope) ELSE InMyScope(i, v.scope)
                    /\ v.filters.status = {} \/ r[i].status \in v.filters.status
                    /\ \A d \in Dims : v.filters.picks[d] = {} \/ ValueOf(i, d) \in v.filters.picks[d]}
OrderShown(r, C, v) ==
  LET sorted == IF v.sortBy = "position" THEN Order(r, C) ELSE ByTitle(C) IN
  IF v.direction = "desc" THEN Reverse(sorted) ELSE sorted
Shown == sortIssues(Column(page, dropped.column), view[page])

LEMMA ColumnIs == \A p, s : Column(p, s) = ColumnOf(row, shownWs, view[p], p, s)
  BY DEF Column, ColumnOf, IssuesOf, filterIssues, InScope

LEMMA ShownIs == Shown = OrderShown(row, ColumnOf(row, shownWs, view[page], page, dropped.column), view[page])
  <1>1. Column(page, dropped.column) = ColumnOf(row, shownWs, view[page], page, dropped.column)
    BY ColumnIs
  <1> QED BY <1>1, OrderIs DEF Shown, sortIssues, OrderShown

LEMMA ShownNext ==
  Shown' = OrderShown(row', ColumnOf(row', shownWs', view'[page'], page', dropped'.column), view'[page'])
  <1>1. Column(page, dropped.column)' = ColumnOf(row', shownWs', view'[page'], page', dropped'.column)
    BY DEF Column, ColumnOf, IssuesOf, filterIssues, InScope
  <1>2. \A S : ByPosition(S)' = Order(row', S)
    BY DEF ByPosition, Higher, Order, Above
  <1> QED BY <1>1, <1>2 DEF Shown, sortIssues, OrderShown

LEMMA LandIs == DropsLand <=> (dropped # NoDrop => Shown = dropped.order)
  BY DEF DropsLand, Shown

LEMMA LandNext == DropsLand' <=> (dropped' # NoDrop => Shown' = dropped'.order)
  BY DEF DropsLand, Shown

\* The card lands where it was dropped.
LEMMA DropStepLands ==
  ASSUME ViewInv, PositionsHalve, DropCard
  PROVE  DropsLand'
  <1>1. PICK p \in Pages \cap {page}, card \in IssueIds, s \in Columns, over \in IssueIds \cup {0} :
          /\ OnBoard(p) /\ drops < MaxDrops /\ OnItsCard(p, card) /\ s \in VisibleStatuses(p)
          /\ over # 0 => OnItsCard(p, over) /\ over # card /\ row[over].status = s
          /\ drops' = drops + 1 /\ row' = Moved(p, card, s, over)
          /\ view' = IF row' = row THEN view ELSE [view EXCEPT ![p] = Manual(@)]
          /\ dropped' = IF view[p].sortBy = "position" /\ view[p].direction = "asc" /\ Distinct(p, s, card)
                        THEN [column |-> s, order |-> Asked(p, card, s, over)] ELSE NoDrop
          /\ UNCHANGED <<pageVars, selectedIds, viewEdits, chosenIn, tickedIn>>
    BY ZenonT(60) DEF DropCard
  <1>2. CASE dropped' = NoDrop
    BY <1>2, LandNext
  <1>3. CASE view[p].sortBy = "position" /\ view[p].direction = "asc" /\ Distinct(p, s, card)
    <2> PICK C : C = Column(p, s)
      OBVIOUS
    <2> PICK T : T = C \ {card}
      OBVIOUS
    <2> PICK f : f = Order(row, T)
      OBVIOUS
    <2> PICK k : k = IndexAt(f, card, over)
      OBVIOUS
    <2> PICK q : q = ComputePosition(f, k)
      OBVIOUS
    <2> PICK n : n = Cardinality(T)
      OBVIOUS
    <2> PICK P : P = Powers[MaxDrops - (drops + 1)]
      OBVIOUS
    <2>1. row \in PageRows /\ view \in [Pages -> ViewRecord] /\ C \in SUBSET IssueIds /\ T \in SUBSET IssueIds
      BY ViewTypes DEF ViewInv, ViewTyped, Column, IssuesOf, filterIssues
    <2>2. Target(s, over) = s
      BY <1>1 DEF Target
    <2>3. over = 0 \/ over \in T
      BY <1>1 DEF Column, OnItsCard
    <2>4. over # 0 /\ row[card].status = row[over].status => card \in C
      BY <1>1 DEF Column, OnItsCard
    <2>5. \A i, j \in C : i # j => row[i].position # row[j].position
      BY <1>3 DEF Distinct
    <2>6. Asked(p, card, s, over) = InsertAt(f, k + 1, card)
      BY <1>1, <1>3, <2>1, <2>2, <2>3, <2>4, <2>5, AskedIs
    <2>7. row' = [row EXCEPT ![card] = [status |-> s, position |-> q]]
      BY <1>1, <2>2, OrderIs DEF Moved, Siblings
    <2>8. P \in Nat \ {0} /\ Multiple(Unit, 2 * P) /\ \A i \in T : Multiple(row[i].position, 2 * P)
      BY <1>1, <2>1, HalvesLeft DEF PositionsHalve
    <2>9. \A i, j \in T : i # j => row[i].position # row[j].position
      BY <2>5
    <2>10. /\ k \in 0..n
           /\ \A j \in 1..k : row[f[j]].position < q
           /\ \A j \in (k + 1)..n : q < row[f[j]].position
      BY <2>1, <2>3, <2>8, <2>9, PositionAmong
    <2>11. row' \in PageRows
      <3>1. ViewInv'
        BY ViewDropStep
      <3> QED BY <3>1 DEF ViewInv, IssueViewTypeOK, PageRows
    <2>12. row'[card] = [status |-> s, position |-> q] /\ \A i \in IssueIds : i # card => row'[i] = row[i]
      BY <2>1, <2>7 DEF PageRows
    <2>13. row'[card].position = q /\ \A i \in T : row'[i].position = row[i].position
      BY <2>1, <2>12
    <2>14. Order(row', T \cup {card}) = InsertAt(f, k + 1, card)
      <3>1. card \in IssueIds \ T
        OBVIOUS
      <3>2. /\ \A j \in 1..k : row[Order(row, T)[j]].position < row'[card].position
            /\ \A j \in (k + 1)..n : row'[card].position < row[Order(row, T)[j]].position
        <4>1. f = Order(row, T) /\ q = row'[card].position
          BY <2>13
        <4>2. ASSUME NEW j \in 1..k PROVE row[Order(row, T)[j]].position < row'[card].position
          <5>1. row[f[j]].position < q
            BY <2>10
          <5> QED BY <4>1, <5>1, Zenon
        <4>3. ASSUME NEW j \in (k + 1)..n PROVE row'[card].position < row[Order(row, T)[j]].position
          <5>1. q < row[f[j]].position
            BY <2>10
          <5> QED BY <4>1, <5>1, Zenon
        <4> QED BY <4>2, <4>3
      <3>3. PICK r2 : r2 = row'
        OBVIOUS
      <3>4. r2 \in PageRows /\ \A i \in T : r2[i].position = row[i].position
        BY <2>11, <2>13, <3>3
      <3>5. /\ k \in 0..n /\ n = Cardinality(T)
            /\ \A j \in 1..k : row[Order(row, T)[j]].position < r2[card].position
            /\ \A j \in (k + 1)..n : r2[card].position < row[Order(row, T)[j]].position
        BY <2>10, <3>2, <3>3
      <3>6. row \in PageRows /\ T \in SUBSET IssueIds
        BY <2>1
      <3>7. Order(r2, T \cup {card}) = InsertAt(Order(row, T), k + 1, card)
        BY ONLY <3>1, <3>4, <3>5, <3>6, PutInOrder
      <3> QED BY <3>3, <3>7
    <2>15. page' = p /\ page = p /\ shownWs' = shownWs
      BY <1>1 DEF pageVars
    <2>16. view'[p] = view[p]
      <3>1. Manual(view[p]) = view[p]
        BY <1>3 DEF Manual
      <3> QED BY <1>1, <2>1, <3>1
    <2>17. dropped' = [column |-> s, order |-> Asked(p, card, s, over)]
      BY <1>1, <1>3
    <2>18. ColumnOf(row', shownWs, view[p], p, s) = T \cup {card}
      <3>1. \A i \in IssueIds \ {card} : i \in ColumnOf(row', shownWs, view[p], p, s) <=> i \in C
        <4>1. C = ColumnOf(row, shownWs, view[p], p, s)
          BY ColumnIs
        <4> QED BY <2>12, <4>1 DEF ColumnOf
      <3>2. card \in ColumnOf(row', shownWs, view[p], p, s)
        <4>1. card \in IssuesOf(p) /\ row'[card].status = s
          BY <1>1, <2>12 DEF OnItsCard
        <4>2. view[p].filters.status = {} \/ s \in view[p].filters.status
          BY <1>1 DEF VisibleStatuses
        <4> QED BY <4>1, <4>2 DEF ColumnOf, IssuesOf, filterIssues, InScope
      <3>3. ColumnOf(row', shownWs, view[p], p, s) \subseteq IssueIds
        BY DEF ColumnOf
      <3> QED BY <2>1, <3>1, <3>2, <3>3
    <2>19. Shown' = Order(row', T \cup {card})
      <3>1. OrderShown(row', T \cup {card}, view[p]) = Order(row', T \cup {card})
        BY <1>3 DEF OrderShown
      <3>2. dropped'.column = s
        BY <2>17
      <3> QED BY <2>15, <2>16, <2>18, <3>1, <3>2, ShownNext
    <2>20. Shown' = dropped'.order
      BY <2>6, <2>14, <2>17, <2>19
    <2> QED BY <2>20, LandNext
  <1> QED BY <1>1, <1>2, <1>3

LEMMA DropsLandStep ==
  ASSUME ViewInv, PositionsHalve, DropsLand, [ViewSteps \/ BoardSteps]_viewVars
  PROVE  DropsLand'
  <1>1. CASE DropCard
    BY <1>1, DropStepLands
  <1>2. CASE dropped' = NoDrop
    BY <1>2, LandNext
  <1>3. CASE UNCHANGED <<page, shownWs, view, row, dropped>>
    BY <1>3, LandIs, LandNext, ShownIs, ShownNext
  <1>4. DropCard \/ dropped' = NoDrop \/ UNCHANGED <<page, shownWs, view, row, dropped>>
    BY DEF ViewSteps, BoardSteps, viewVars, pageVars, OpenPage, FirstMount, Subscribes, StoreChanges,
           IssuesScopeTabs, IssuesFilterMenu, IssuesViewToggle, IssuesDisplay,
           MyScopeTabs, MyFilterMenu, MyViewToggle, MyDisplay, ColumnMenus,
           ToggleIssue, ToggleColumn, ClearSelection, Ticks, SetViewMode, SetScope, SetSort, Sets,
           ToggleStatusFilter, TogglePick, ClearFilters, HideStatus, ShowStatus, SetsFilters,
           OthersDrop, OthersSetStatus
  <1> QED BY <1>1, <1>2, <1>3, <1>4

\* Whatever drops came before, of whom ever, and however often positions were
\* halved: a card dropped on a manually sorted board is shown where it was
\* dropped.
THEOREM DropsAlwaysLand == IssueViewSpec => []DropsLand
  <1> DEFINE Inv == ViewInv /\ PositionsHalve /\ DropsLand
  <1>1. IssueViewInit => Inv
    <2>1. IssueViewInit => DropsLand
      BY DEF IssueViewInit, DropsLand
    <2> QED BY <2>1, ViewStart, HalveStart
  <1>2. Inv /\ [ViewSteps \/ BoardSteps]_viewVars => Inv'
    BY ViewStep, HalveStep, DropsLandStep
  <1> QED BY <1>1, <1>2, PTL DEF IssueViewSpec

-------------------------------------------------------------------------------
(***************************************************************************)
(* All of them together.                                                    *)
(***************************************************************************)

LEMMA WebIsEach ==
  WebSpec => /\ SessionSpec /\ RealtimeSpec /\ IssueSpec /\ TimelineSpec
             /\ MarkSpec /\ InboxSpec /\ CardSpec /\ IssueViewSpec
  <1>1. WebInit => /\ SessionInit /\ RealtimeInit /\ IssueInit /\ TimelineInit
                   /\ MarkInit /\ InboxInit /\ CardInit /\ IssueViewInit
    BY DEF WebInit
  <1>2. [WebNext]_webVars => /\ [SessionNext]_sessionVars /\ [RealtimeNext]_realtimeVars
                             /\ [IssueNext]_issueVars /\ [TimelineNext]_timelineVars
                             /\ [MarkNext]_markVars /\ [InboxNext]_inboxVars
                             /\ [CardNext]_cardVars /\ [ViewSteps \/ BoardSteps]_viewVars
    BY DEF WebNext, MovesSession, MovesSocket, MovesIssues, MovesTimeline, MovesMarks,
           MovesInbox, MovesCard, MovesViews, MovesBoard, webVars
  <1> QED BY <1>1, <1>2, PTL DEF WebSpec, SessionSpec, RealtimeSpec, IssueSpec, TimelineSpec,
                                 MarkSpec, InboxSpec, CardSpec, IssueViewSpec

\* Whichever part of the client moves: nothing of a workspace or a view is asked
\* for, filtered or selected in another, and every part keeps its type.
THEOREM WebNothingFromElsewhere == WebSpec => []NothingFromElsewhere
  <1>1. ASSUME SessionTypeOK, RealtimeTypeOK, IssueTypeOK, TimelineTypeOK,
               MarkTypeOK, InboxTypeOK, CardTypeOK, IssueViewTypeOK
        PROVE  WebTypeOK
    BY <1>1, Zenon DEF WebTypeOK
  <1>2. WebTypeOK /\ RequestsAreOfShown /\ FiltersStayHome /\ SelectionOfView => NothingFromElsewhere
    BY DEF NothingFromElsewhere
  <1>3. RealtimeInv => RealtimeTypeOK
    BY DEF RealtimeInv
  <1>4. IssueInv => IssueTypeOK
    BY DEF IssueInv
  <1> QED BY <1>1, <1>2, <1>3, <1>4, WebIsEach, SessionOfShown, RealtimeInvariant, IssueInvariant,
             TimelineTypeCorrect, MarkTypeCorrect, InboxTypeCorrect, CardTypeCorrect, ViewsAtHome, PTL

\* Whichever part of the client moves: a card dropped on a manually sorted
\* board is shown where it was dropped.
THEOREM WebDropsLand == WebSpec => []DropsLand
  BY WebIsEach, DropsAlwaysLand, PTL

\* Whichever part of the client moves: a thread at rest shows the server's
\* comments, each once.
THEOREM WebThreadsConverge == WebSpec => []ThreadsConverge
  BY WebIsEach, ThreadFollowsServer, PTL
===============================================================================

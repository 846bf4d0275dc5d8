------------------------------ MODULE Realtime ------------------------------
(***************************************************************************)
(* The web client's websocket: WSClient, the provider that replaces it     *)
(* when the user or the workspace changes, useRealtimeSync, which refetches *)
(* lists when events say they changed, and a page that listens with         *)
(* useWSEvent.  WebSession says when the identity changes; here it just does.*)
(* The list stands for the agents, members or skills of the workspace.      *)
(***************************************************************************)
EXTENDS Naturals, FiniteSets

CONSTANTS Id,           \* a signed-in user in a workspace
          NoId,         \* nobody, or no workspace
          Slots         \* clients that may exist at a time, old ones closing

ASSUME RealtimeAssumption == /\ NoId \notin Id /\ IsFiniteSet(Slots)
                              /\ Slots = 1..Cardinality(Slots)

VARIABLES listShown,    \* the identity in the stores
          dirty,        \* React has not rendered it yet
          clients,      \* WSClient objects by slot
          current,      \* slot of wsRef.current, 0 for null
          pageOpen,     \* a page is mounted
          stale,        \* the cached list is not the server's
          fetches,      \* list requests: asked, or answered fresh or outdated
          astray        \* history: the list was left stale knowingly, see Loses

socketVars   == <<clients, current, pageOpen>>
listVars     == <<stale, fetches, astray>>
realtimeVars == <<listShown, dirty, socketVars, listVars>>

NoClient == [st |-> "gone", onclose |-> FALSE, id |-> NoId, before |-> FALSE,
             sync |-> FALSE, page |-> FALSE, timer |-> FALSE]
NewClient(i) == [NoClient EXCEPT !.st = "connecting", !.onclose = TRUE, !.id = i]
Client   == [st : {"connecting", "open", "closing", "waiting", "gone"},
             onclose : BOOLEAN, id : Id \cup {NoId}, before : BOOLEAN,
             sync : BOOLEAN, page : BOOLEAN, timer : BOOLEAN]

RealtimeInit ==
  /\ listShown = NoId /\ dirty = FALSE /\ pageOpen = FALSE
  /\ clients = [c \in Slots |-> NoClient] /\ current = 0
  /\ stale = FALSE /\ fetches = {} /\ astray = FALSE

(* Ways the list goes stale that the code does nothing about: a change      *)
(* before a client's first opening, a refresh dropped with its timer, a     *)
(* refetch that fails, an outdated answer that lands last.                  *)
Loses(cond) == astray' = (astray \/ cond)

\* mutant of Disconnected: onclose stays set.
DisconnectedKeptOnclose(c) ==
  [c EXCEPT !.st = IF @ \in {"connecting", "open"} THEN "closing" ELSE "gone",
            !.before = FALSE, !.sync = FALSE, !.page = FALSE, !.timer = FALSE]

(* disconnect: no timer, no onclose, all handlers cleared.                  *)
Disconnected(c) ==
  [c EXCEPT !.st = IF @ \in {"connecting", "open"} THEN "closing" ELSE "gone",
            !.onclose = FALSE, !.before = FALSE, !.sync = FALSE,
            !.page = FALSE, !.timer = FALSE]
TornDown == IF current = 0 THEN clients
            ELSE [clients EXCEPT ![current] = Disconnected(@)]

----------------------------------------------------------------------------
(* The stores change: sign-in, sign-out, another workspace, or a new object *)
(* for the same one (updateWorkspace, hydrateWorkspace).                    *)
IdentityChanges ==
  \E i \in Id \cup {NoId} :
    /\ i # NoId \/ listShown # NoId
    /\ listShown' = i /\ dirty' = TRUE
    /\ UNCHANGED <<socketVars, listVars>>

(* The render: React runs every cleanup, then the effects, children before  *)
(* the provider.  A page mounted by this render subscribes while wsRef is   *)
(* null; a page mounted before does not run its effect again.               *)
Render ==
  /\ dirty /\ dirty' = FALSE
  /\ pageOpen' \in IF listShown = NoId THEN {FALSE} ELSE {pageOpen, TRUE}
  /\ IF listShown = NoId
     THEN clients' = TornDown /\ current' = 0
     ELSE \E c \in Slots :
            /\ TornDown[c].st = "gone"
            /\ \A d \in Slots : d < c => TornDown[d].st # "gone"
            /\ current' = c
            /\ clients' = [TornDown EXCEPT ![c] = NewClient(listShown)]
  /\ Loses(stale \/ (current # 0 /\ clients[current].timer))
  /\ UNCHANGED <<listShown, stale, fetches>>

(* setWsClient renders again: useRealtimeSync subscribes to the new client. *)
SyncAttaches ==
  /\ current # 0 /\ ~clients[current].sync
  /\ clients' = [clients EXCEPT ![current].sync = TRUE]
  /\ UNCHANGED <<listShown, dirty, current, pageOpen, listVars>>

(* Navigation mounts a page, or gives it a new handler; it subscribes to    *)
(* wsRef.current, if there is one.                                          *)
PageSubscribes ==
  /\ ~dirty /\ listShown # NoId /\ pageOpen' = TRUE
  /\ clients' = IF current = 0 THEN clients
                ELSE [clients EXCEPT ![current].page = TRUE]
  /\ UNCHANGED <<listShown, dirty, current, listVars>>

PageUnmounts ==
  /\ pageOpen /\ pageOpen' = FALSE
  /\ clients' = [c \in Slots |-> [clients[c] EXCEPT !.page = FALSE]]
  /\ UNCHANGED <<listShown, dirty, current, listVars>>

----------------------------------------------------------------------------
(* onopen: the reconnect callbacks run on every opening but the first.      *)
RefetchNever(c) == {}  \* mutant of Refetch
Refetch(c) == IF clients[c].before /\ clients[c].sync THEN {"asked"} ELSE {}
SocketOpens ==
  \E c \in Slots :
    /\ clients[c].st = "connecting"
    /\ clients' = [clients EXCEPT ![c].st = "open", ![c].before = TRUE]
    /\ fetches' = fetches \cup Refetch(c)
    /\ UNCHANGED <<listShown, dirty, current, pageOpen, stale, astray>>

(* onclose waits three seconds and connects again, unless it was removed.   *)
SocketCloses ==
  \E c \in Slots :
    /\ clients[c].st \in {"connecting", "open", "closing"}
    /\ clients' = [clients EXCEPT
         ![c].st = IF clients[c].onclose THEN "waiting" ELSE "gone"]
    /\ UNCHANGED <<listShown, dirty, current, pageOpen, listVars>>

ReconnectTimer ==
  \E c \in Slots :
    /\ clients[c].st = "waiting"
    /\ clients' = [clients EXCEPT ![c].st = "connecting"]
    /\ UNCHANGED <<listShown, dirty, current, pageOpen, listVars>>

(* Somebody changes the list on the server; onAny hears of it if the socket *)
(* is open, and starts the debounce timer again.                            *)
ListChanges ==
  /\ listShown # NoId
  /\ stale' = TRUE
  /\ fetches' = {IF f = "fresh" THEN "old" ELSE f : f \in fetches}
  /\ clients' = [c \in Slots |->
       IF clients[c].st = "open" /\ clients[c].sync
       THEN [clients[c] EXCEPT !.timer = TRUE] ELSE clients[c]]
  /\ Loses(current = 0 \/ dirty \/ ~clients[current].before \/ ~clients[current].sync)
  /\ UNCHANGED <<listShown, dirty, current, pageOpen>>

RefreshTimer ==
  \E c \in Slots :
    /\ clients[c].timer
    /\ clients' = [clients EXCEPT ![c].timer = FALSE]
    /\ fetches' = fetches \cup {"asked"}
    /\ UNCHANGED <<listShown, dirty, current, pageOpen, stale, astray>>

ListAnswers ==
  /\ "asked" \in fetches
  /\ fetches' = (fetches \ {"asked"}) \cup {"fresh"}
  /\ UNCHANGED <<listShown, dirty, socketVars, stale, astray>>

ListLands ==
  \E f \in fetches \ {"asked"} :
    /\ fetches' = fetches \ {f}
    /\ stale' = (f = "old")
    /\ Loses(f = "old" /\ ~stale)
    /\ UNCHANGED <<listShown, dirty, socketVars>>

(* refreshAgents and the others show a toast and keep the list.             *)
ListFails ==
  \E f \in fetches :
    /\ fetches' = fetches \ {f}
    /\ Loses(TRUE)
    /\ UNCHANGED <<listShown, dirty, socketVars, stale>>

RealtimeNext ==
  \/ IdentityChanges \/ Render \/ SyncAttaches \/ PageSubscribes \/ PageUnmounts
  \/ SocketOpens \/ SocketCloses \/ ReconnectTimer
  \/ ListChanges \/ RefreshTimer \/ ListAnswers \/ ListLands \/ ListFails

RealtimeSpec == RealtimeInit /\ [][RealtimeNext]_realtimeVars

----------------------------------------------------------------------------
(* Type correctness of the provider, its clients and the list.              *)
RealtimeTypeOK ==
  /\ listShown \in Id \cup {NoId} /\ dirty \in BOOLEAN /\ pageOpen \in BOOLEAN
  /\ clients \in [Slots -> Client] /\ current \in Slots \cup {0}
  /\ stale \in BOOLEAN /\ astray \in BOOLEAN
  /\ fetches \subseteq {"asked", "fresh", "old"}

(* Across replacements, reconnect timers and late closes there is one live  *)
(* socket at most, and it is the one of the identity shown: a disconnected  *)
(* client neither comes back nor handles what still arrives.                *)
OneSocket ==
  \A c \in Slots :
    /\ clients[c].st \in {"connecting", "open", "waiting"} => c = current
    /\ clients[c].sync \/ clients[c].page \/ clients[c].timer => c = current
    /\ ~dirty /\ c = current => clients[c].id = listShown /\ clients[c].st # "gone"

(* "Reconnect: refetch all data to recover missed events": once a client    *)
(* has been open, a list that is stale will be fetched, by a timer, by a     *)
(* request on its way or by the client's next opening, but for what Loses    *)
(* names.                                                                    *)
RecoversMissed ==
  stale /\ ~astray =>
    /\ current # 0
    /\ \/ clients[current].timer
       \/ "asked" \in fetches \/ "fresh" \in fetches
       \/ clients[current].before /\ clients[current].st # "open"
=============================================================================

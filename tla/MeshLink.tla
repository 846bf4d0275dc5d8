------------------------------ MODULE MeshLink -------------------------------
(***************************************************************************)
(* The MCP server's link to the mesh hub: registering an agent, the token   *)
(* that requests carry, its refresh intervals, the websocket of HubClient   *)
(* with its reconnect timer.  The agent may be registered again, under      *)
(* another id, while the server runs.                                       *)
(***************************************************************************)
EXTENDS Naturals, FiniteSets

CONSTANTS Agents,           \* ids the hub hands out
          NoAgent,          \* undefined; as a token, the owner's API key
          MaxDrops          \* bound on the times a socket closes

ASSUME LinkAssumption == NoAgent \notin Agents /\ MaxDrops \in Nat

VARIABLES agentId,          \* state.agentId
          token, expired,   \* whose token requests carry; it ran out
          registered,       \* agents with a refresh interval and a callback
          ws, wsAs,         \* the socket, and the agent it says hello for
          accepted,         \* the hub will acknowledge its hello
          wsConnected,
          timerAs,          \* the agent the reconnect timer is set for
          delay,            \* wsReconnectDelay in units of 5 s
          linkCalls,        \* requests in flight: registrations and refreshes
          drops

linkVars == <<agentId, token, expired, registered, ws, wsAs, accepted, wsConnected,
              timerAs, delay, linkCalls, drops>>
linkTokenVars  == <<agentId, token, expired, registered>>
linkSocketVars == <<ws, wsAs, accepted, wsConnected>>

MaybeAgent == Agents \cup {NoAgent}

LinkInit ==
  /\ agentId = NoAgent /\ token = NoAgent /\ expired = FALSE /\ registered = {}
  /\ ws = "none" /\ wsAs = NoAgent /\ accepted = FALSE /\ wsConnected = FALSE
  /\ timerAs = NoAgent /\ delay = 1 /\ linkCalls = {} /\ drops = 0

(* connectWebSocket does nothing while there is a socket.                   *)
ConnectWebSocket(a) ==
  IF ws = "none" THEN ws' = "connecting" /\ wsAs' = a ELSE UNCHANGED <<ws, wsAs>>

----------------------------------------------------------------------------
(* The register tool.  Each answer brings a new id.                         *)
AskRegister ==
  \E a \in Agents \ registered :
    /\ linkCalls' = linkCalls \cup {[op |-> "register", as |-> a]}
    /\ UNCHANGED <<linkTokenVars, linkSocketVars, timerAs, delay, drops>>

(* The token, the id, and onRegistered: a socket, an interval, a callback.  *)
Registered ==
  \E r \in linkCalls :
    /\ r.op = "register"
    /\ linkCalls' = linkCalls \ {r}
    /\ token' = r.as /\ expired' = FALSE /\ agentId' = r.as
    /\ registered' = registered \cup {r.as}
    /\ ConnectWebSocket(r.as)
    /\ UNCHANGED <<accepted, wsConnected, timerAs, delay, drops>>

(* Every 50 minutes, for every registration ever made.                      *)
RefreshTick ==
  \E a \in registered :
    /\ linkCalls' = linkCalls \cup {[op |-> "refresh", as |-> a]}
    /\ UNCHANGED <<linkTokenVars, linkSocketVars, timerAs, delay, drops>>

(* The request carries the token of that moment, which the hub refuses once *)
(* it has run out.                                                          *)
TokenRefreshed ==
  \E r \in linkCalls :
    /\ r.op = "refresh" /\ ~expired
    /\ linkCalls' = linkCalls \ {r}
    /\ token' = r.as
    /\ UNCHANGED <<agentId, expired, registered, linkSocketVars, timerAs, delay, drops>>

(* A refused or failed registration leaves all as it was; a failed refresh  *)
(* is logged, and before the next one the token's hour is over.             *)
LinkCallFails ==
  \E r \in linkCalls :
    /\ linkCalls' = linkCalls \ {r}
    /\ expired' = (expired \/ (r.op = "refresh" /\ r.as = token))
    /\ UNCHANGED <<agentId, token, registered, linkSocketVars, timerAs, delay, drops>>

----------------------------------------------------------------------------
(* "open" sends the hello with the agent of the socket and today's token.   *)
LinkSocketOpens ==
  /\ ws = "connecting" /\ ws' = "open"
  /\ accepted' = (token = wsAs /\ ~expired)
  /\ UNCHANGED <<linkTokenVars, wsAs, wsConnected, timerAs, delay, linkCalls, drops>>

(* "ack" resets the backoff.  Interactions go to every callback, pings are  *)
(* answered and errors logged: none of these changes the link.              *)
Acknowledged ==
  /\ ws = "open" /\ accepted /\ ~wsConnected
  /\ wsConnected' = TRUE /\ delay' = 1
  /\ UNCHANGED <<linkTokenVars, ws, wsAs, accepted, timerAs, linkCalls, drops>>

(* scheduleReconnect leaves a timer that is set alone.                      *)
Scheduled(a)   == IF timerAs # NoAgent THEN timerAs ELSE a
AfterCloseKept == "closed"  \* mutant of AfterClose: this.ws is not reset
AfterClose == "none"

LinkSocketCloses ==
  /\ ws \in {"connecting", "open"} /\ drops < MaxDrops
  /\ drops' = drops + 1
  /\ ws' = AfterClose /\ wsConnected' = FALSE /\ accepted' = FALSE
  /\ timerAs' = Scheduled(wsAs)
  /\ UNCHANGED <<linkTokenVars, wsAs, delay, linkCalls>>

Doubled(d) == IF 2 * d < 6 THEN 2 * d ELSE 6
ReconnectFires ==
  /\ timerAs # NoAgent
  /\ timerAs' = NoAgent
  /\ ConnectWebSocket(timerAs)
  /\ delay' = Doubled(delay)
  /\ UNCHANGED <<linkTokenVars, accepted, wsConnected, linkCalls, drops>>

LinkNext ==
  \/ AskRegister \/ Registered \/ RefreshTick \/ TokenRefreshed \/ LinkCallFails
  \/ LinkSocketOpens \/ Acknowledged \/ LinkSocketCloses \/ ReconnectFires

(* Timers fire, sockets open and the hub acknowledges what it accepts.      *)
LinkFairness ==
  /\ WF_linkVars(LinkSocketOpens) /\ WF_linkVars(Acknowledged) /\ WF_linkVars(ReconnectFires)

LinkSpec == LinkInit /\ [][LinkNext]_linkVars /\ LinkFairness

----------------------------------------------------------------------------
(* Type correctness of the link.                                            *)
LinkTypeOK ==
  /\ agentId \in MaybeAgent /\ token \in MaybeAgent /\ expired \in BOOLEAN
  /\ registered \subseteq Agents /\ (agentId = NoAgent <=> registered = {})
  /\ ws \in {"none", "connecting", "open"} /\ wsAs \in MaybeAgent /\ timerAs \in MaybeAgent
  /\ accepted \in BOOLEAN /\ wsConnected \in BOOLEAN /\ (wsConnected => ws = "open")
  /\ delay \in {1, 2, 4, 6} /\ drops \in 0..MaxDrops

(* A registered agent is reachable again after any number of lost sockets:  *)
(* the link comes back by itself, as long as there was one registration and *)
(* its token was refreshed in time.                                         *)
LinkComesUp ==
  <>[](Cardinality(registered) = 1 /\ ~expired => wsConnected)
=============================================================================

----------------------------- MODULE RuntimeList -----------------------------
(***************************************************************************)
(* The list on the runtimes page: the server's rows, which registrations,   *)
(* farewells, heartbeats and sweeps write, some of them with a word to the  *)
(* clients; and the store that fetches all of a workspace's rows again      *)
(* whenever the page opens, the workspace changes or such a word arrives.   *)
(***************************************************************************)
EXTENDS Naturals, FiniteSets

CONSTANTS NRuntimes,        \* runtimes of a workspace, in the order they are made
          MaxFetches,       \* bound on the lists in flight
          MaxRuntimeWrites  \* bound on what the server writes

ASSUME RuntimeListAssumption == /\ {NRuntimes, MaxFetches} \subseteq Nat \ {0}
                                /\ MaxRuntimeWrites \in Nat

VARIABLES rowStatus,        \* agent_runtime
          enrolled,         \* per workspace: rows its registration under way has written
          unsaid,           \* workspaces with rows written, the word not yet given
          runtimesOf,       \* the workspace shown
          mounted, fetching, runtimes, selectedRuntime, \* the page is open; its store
          fetches,          \* lists in flight
          daemonEvent,      \* a daemon:register of this workspace is on the socket
          behind,           \* the list may be old for good
          runtimeWrites

listVars == <<rowStatus, enrolled, unsaid, runtimesOf, mounted, fetching, runtimes, selectedRuntime,
              fetches, daemonEvent, behind, runtimeWrites>>
runtimeServer == <<rowStatus, enrolled, unsaid, runtimeWrites>>
runtimeStore  == <<fetching, runtimes, selectedRuntime>>

Shops     == 1..2
RuntimeNo == 1..NRuntimes
NoRuntime == <<0, 0>>
Row       == [id : Shops \X RuntimeNo, status : {"online", "offline"}]
ListAgentRuntimes(w) ==
  {[id |-> r, status |-> rowStatus[r]] : r \in {x \in {w} \X RuntimeNo : rowStatus[x] # "none"}}
Fetch(w) == [of |-> w, served |-> FALSE, rows |-> {}]

\* A fetch begins: with none before it, what it brings is as young as can be.
Fetches(w, old) ==
  /\ Cardinality(old) < MaxFetches /\ Fetch(w) \notin old /\ fetches' = old \cup {Fetch(w)}
  /\ behind' = (old # {})

RuntimeListInit ==
  /\ rowStatus = [r \in Shops \X RuntimeNo |-> "none"] /\ enrolled = [w \in Shops |-> 0] /\ unsaid = {}
  /\ runtimesOf = 1 /\ mounted = FALSE /\ fetching = TRUE /\ runtimes = {} /\ selectedRuntime = NoRuntime
  /\ fetches = {} /\ daemonEvent = FALSE /\ behind = FALSE /\ runtimeWrites = 0

----------------------------------------------------------------------------
(* The server.  A registration writes row after row; one that fails midway  *)
(* leaves the rows written and says nothing.                                *)
RuntimeWrite == runtimeWrites < MaxRuntimeWrites /\ runtimeWrites' = runtimeWrites + 1
UpsertAgentRuntime(w) ==
  /\ enrolled[w] < NRuntimes /\ RuntimeWrite
  /\ enrolled' = [enrolled EXCEPT ![w] = @ + 1]
  /\ rowStatus' = [rowStatus EXCEPT ![<<w, enrolled[w] + 1>>] = "online"]
  /\ UNCHANGED <<unsaid, runtimesOf, mounted, runtimeStore, fetches, daemonEvent, behind>>
EndsEnrolment(w) ==
  /\ enrolled[w] > 0 /\ enrolled' = [enrolled EXCEPT ![w] = 0]
  /\ \/ unsaid' = unsaid \cup {w} /\ UNCHANGED behind
     \/ behind' = (behind \/ w = runtimesOf) /\ UNCHANGED unsaid
  /\ UNCHANGED <<rowStatus, runtimeWrites, runtimesOf, mounted, runtimeStore, fetches, daemonEvent>>

(* DaemonDeregister names some runtimes, the sweeper takes the silent ones. *)
GoOffline(w) ==
  \E R \in SUBSET {r \in {w} \X RuntimeNo : rowStatus[r] # "none"} :
    /\ R # {} /\ RuntimeWrite
    /\ rowStatus' = [r \in DOMAIN rowStatus |-> IF r \in R THEN "offline" ELSE rowStatus[r]]
    /\ unsaid' = unsaid \cup {w}
    /\ UNCHANGED <<enrolled, runtimesOf, mounted, runtimeStore, fetches, daemonEvent, behind>>

(* A heartbeat brings a runtime back without a word.                        *)
HeartbeatRevives(r) ==
  /\ rowStatus[r] = "offline" /\ RuntimeWrite /\ rowStatus' = [rowStatus EXCEPT ![r] = "online"]
  /\ behind' = (behind \/ r[1] = runtimesOf)
  /\ UNCHANGED <<enrolled, unsaid, runtimesOf, mounted, runtimeStore, fetches, daemonEvent>>

(* The word, to the clients of the workspace; an open page hears it, or its *)
(* socket is down, and nothing makes up for it.                             *)
Announce(w) ==
  /\ w \in unsaid /\ unsaid' = unsaid \ {w}
  /\ IF mounted /\ w = runtimesOf
     THEN \/ daemonEvent' = TRUE /\ UNCHANGED behind
          \/ behind' = TRUE /\ UNCHANGED daemonEvent
     ELSE UNCHANGED <<daemonEvent, behind>>
  /\ UNCHANGED <<rowStatus, enrolled, runtimeWrites, runtimesOf, mounted, runtimeStore, fetches>>

FetchServed ==
  \E c \in fetches :
    /\ ~c.served
    /\ fetches' = (fetches \ {c}) \cup {[c EXCEPT !.served = TRUE, !.rows = ListAgentRuntimes(c.of)]}
    /\ UNCHANGED <<runtimeServer, runtimesOf, mounted, runtimeStore, daemonEvent, behind>>

----------------------------------------------------------------------------
(* The page.                                                                *)
OpenRuntimesPage ==
  /\ ~mounted /\ mounted' = TRUE /\ Fetches(runtimesOf, fetches)
  /\ UNCHANGED <<runtimeServer, runtimesOf, runtimeStore, daemonEvent>>
LeaveRuntimesPage ==
  /\ mounted /\ mounted' = FALSE /\ daemonEvent' = FALSE
  /\ UNCHANGED <<runtimeServer, runtimesOf, runtimeStore, fetches, behind>>

(* switchWorkspace empties the list, whatever is on its way to it.          *)
SwitchRuntimes ==
  /\ runtimesOf' \in Shops \ {runtimesOf} /\ runtimes' = {} /\ selectedRuntime' = NoRuntime
  /\ daemonEvent' = FALSE
  /\ IF mounted THEN Fetches(runtimesOf', fetches) ELSE UNCHANGED <<fetches, behind>>
  /\ UNCHANGED <<runtimeServer, mounted, fetching>>

HandleDaemonEvent ==
  /\ mounted /\ daemonEvent /\ daemonEvent' = FALSE
  /\ Fetches(runtimesOf, fetches)
  /\ UNCHANGED <<runtimeServer, runtimesOf, mounted, runtimeStore>>

(* What was selected stays so if it is still listed; else the first is.     *)
FirstRow(rows) == IF rows = {} THEN NoRuntime
                 ELSE (CHOOSE x \in rows : \A y \in rows : x.id[2] <= y.id[2]).id
RowKept(rows) == IF selectedRuntime # NoRuntime THEN selectedRuntime ELSE FirstRow(rows)  \* mutant of RowSelected
RowSelected(rows) ==
  IF \E x \in rows : x.id = selectedRuntime THEN selectedRuntime ELSE FirstRow(rows)

FetchRuntimes ==
  \E c \in fetches :
    /\ c.served /\ fetches' = fetches \ {c}
    /\ runtimes' = c.rows /\ fetching' = FALSE /\ selectedRuntime' = RowSelected(c.rows)
    /\ behind' = (behind \/ fetches' # {} \/ c.of # runtimesOf)
    /\ UNCHANGED <<runtimeServer, runtimesOf, mounted, daemonEvent>>
FetchFails ==
  \E c \in fetches :
    /\ fetches' = fetches \ {c} /\ fetching' = FALSE /\ behind' = TRUE
    /\ UNCHANGED <<runtimeServer, runtimesOf, mounted, runtimes, selectedRuntime, daemonEvent>>

SetSelectedId(r) ==
  /\ mounted /\ ~fetching /\ (\E x \in runtimes : x.id = r) /\ selectedRuntime' = r
  /\ UNCHANGED <<runtimeServer, runtimesOf, mounted, fetching, runtimes, fetches, daemonEvent, behind>>

RuntimeListNext ==
  \/ FetchServed \/ OpenRuntimesPage \/ LeaveRuntimesPage \/ SwitchRuntimes \/ HandleDaemonEvent
  \/ FetchRuntimes \/ FetchFails
  \/ \E w \in Shops : UpsertAgentRuntime(w) \/ EndsEnrolment(w) \/ GoOffline(w) \/ Announce(w)
  \/ \E r \in Shops \X RuntimeNo : HeartbeatRevives(r) \/ SetSelectedId(r)

RuntimeListSpec == RuntimeListInit /\ [][RuntimeListNext]_listVars

----------------------------------------------------------------------------
(* Type correctness of the rows and the store.                              *)
RuntimeListTypeOK ==
  /\ rowStatus \in [Shops \X RuntimeNo -> {"none", "online", "offline"}]
  /\ enrolled \in [Shops -> 0..NRuntimes] /\ unsaid \subseteq Shops /\ runtimesOf \in Shops
  /\ {mounted, fetching, daemonEvent, behind} \subseteq BOOLEAN /\ runtimes \subseteq Row
  /\ selectedRuntime \in (Shops \X RuntimeNo) \cup {NoRuntime}
  /\ Cardinality(fetches) <= MaxFetches /\ runtimeWrites \in 0..MaxRuntimeWrites

(* When nothing is on its way, an open page lists what the server has --    *)
(* unless lists crossed or failed, a word was not given or not heard --, and*)
(* the runtime whose details and probes show is one of those listed.        *)
RuntimesConverge ==
  /\ mounted /\ fetches = {} /\ ~daemonEvent /\ runtimesOf \notin unsaid /\ enrolled[runtimesOf] = 0
        /\ ~behind
       => runtimes = ListAgentRuntimes(runtimesOf)
  /\ (runtimes = {} /\ selectedRuntime = NoRuntime) \/ (\E x \in runtimes : x.id = selectedRuntime)
=============================================================================

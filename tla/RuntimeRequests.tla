-------------------------- MODULE RuntimeRequests --------------------------
(***************************************************************************)
(* Pings and CLI updates: requests that a user makes of a runtime, that    *)
(* the server keeps in memory (PingStore, UpdateStore), hands to the       *)
(* daemon in the answer to a heartbeat, and that the daemon reports on.    *)
(*                                                                         *)
(* A store's methods hold its mutex, so each is a step.  What a ping found *)
(* out (its output, error and duration) is left out.                       *)
(***************************************************************************)
EXTENDS Integers, Sequences, FiniteSets

CONSTANTS OwnRuntime,  \* the runtimes of one daemon
          MaxPings,    \* bound on the pings ever created
          MaxUpdates   \* bound on the updates ever created

ASSUME RequestConstants == MaxPings \in Nat /\ MaxUpdates \in Nat

VARIABLES
    pings,     \* PingStore.pings, in order of creation
    updates,   \* UpdateStore.requests, in order of creation
    pinging,   \* handlePing goroutines of the daemon
    install,   \* handleUpdate goroutines that go on after the swap
    updating,  \* Daemon.updating
    sent       \* ids handed to the daemon, pings and updates apart

pingVars   == <<pings, pinging>>
updateVars == <<updates, install, updating>>
requestVars == <<pingVars, updateVars, sent>>

Waiting  == {"pending", "running"}
Ending   == {"completed", "failed", "timeout"}
RequestStatus == Waiting \union Ending \union {"gone"}

\* age: younger than the timeout of Get, older than it, older than what Create
\* cleans up (pings: 60 s and 2 min, updates: 120 s and 5 min).
Request == [runtime: OwnRuntime, status: RequestStatus, age: 0..2]

PingIds   == DOMAIN pings
UpdateIds == DOMAIN updates

NewRequest(r) == [runtime |-> r, status |-> "pending", age |-> 0]

RequestTypeOK ==
    /\ pings \in Seq(Request) /\ Len(pings) <= MaxPings
    /\ updates \in Seq(Request) /\ Len(updates) <= MaxUpdates
    /\ pinging \subseteq PingIds
    /\ install \subseteq UpdateIds
    /\ updating \in BOOLEAN
    /\ sent \in [ping: SUBSET PingIds, update: SUBSET UpdateIds]

RequestInit ==
    /\ pings = <<>> /\ updates = <<>>
    /\ pinging = {} /\ install = {} /\ updating = FALSE
    /\ sent = [ping |-> {}, update |-> {}]

-----------------------------------------------------------------------------
(* PingStore *)

\* Requests that are old enough are deleted, whatever their status.
Cleaned(reqs) == [x \in DOMAIN reqs |->
    IF reqs[x].age = 2 THEN [reqs[x] EXCEPT !.status = "gone"] ELSE reqs[x]]

CreatePing(r) ==
    /\ Len(pings) < MaxPings
    /\ pings' = Append(Cleaned(pings), NewRequest(r))
    /\ UNCHANGED <<pinging, updateVars, sent>>

\* Mutant of PingTimesOut: the condition of the updates.
PingTimesOutWaiting(x) == pings[x].status \in Waiting /\ pings[x].age > 0

PingTimesOut(x) == pings[x].status = "pending" /\ pings[x].age > 0

GetPing(x) ==
    /\ PingTimesOut(x)
    /\ pings' = [pings EXCEPT ![x].status = "timeout"]
    /\ UNCHANGED <<pinging, updateVars, sent>>

PendingPings(r) ==
    {x \in PingIds : pings[x].runtime = r /\ pings[x].status = "pending"}

\* Mutant of ReportPing: a status the store does not have.
ReportPingErrored(x, st) == pings' = [pings EXCEPT ![x].status = "error"]

\* Complete and Fail do nothing when the ping has been deleted.
ReportPing(x, st) ==
    pings' = IF pings[x].status = "gone" THEN pings ELSE [pings EXCEPT ![x].status = st]

-----------------------------------------------------------------------------
(* UpdateStore *)

\* Mutant of UpdateInProgress: an update that the daemon has taken is forgotten.
UpdatePendingOnly(r) == \E x \in UpdateIds :
    updates[x].runtime = r /\ updates[x].age < 2 /\ updates[x].status = "pending"

\* Evaluated after the clean-up.
UpdateInProgress(r) == \E x \in UpdateIds :
    updates[x].runtime = r /\ updates[x].age < 2 /\ updates[x].status \in Waiting

CreateUpdate(r) ==
    /\ Len(updates) < MaxUpdates
    /\ updates' = IF UpdateInProgress(r) THEN Cleaned(updates)
                  ELSE Append(Cleaned(updates), NewRequest(r))
    /\ UNCHANGED <<pingVars, install, updating, sent>>

\* Mutant of UpdateTimesOut: the condition of the pings.
UpdateTimesOutPending(x) == updates[x].status = "pending" /\ updates[x].age > 0

UpdateTimesOut(x) == updates[x].status \in Waiting /\ updates[x].age > 0

GetUpdate(x) ==
    /\ UpdateTimesOut(x)
    /\ updates' = [updates EXCEPT ![x].status = "timeout"]
    /\ UNCHANGED <<pingVars, install, updating, sent>>

PendingUpdates(r) ==
    {x \in UpdateIds : updates[x].runtime = r /\ updates[x].status = "pending"}

ReportUpdate(x, st) ==
    updates' = IF updates[x].status = "gone" THEN updates
               ELSE [updates EXCEPT ![x].status = st]

-----------------------------------------------------------------------------
(* The heartbeat and the daemon *)

Oldest(S) == {x \in S : \A y \in S : x <= y}

\* Mutant of Popped: the request is handed out and stays pending.
PoppedStaysPending(reqs, X) == reqs

Popped(reqs, X) == [x \in DOMAIN reqs |->
    IF x \in X THEN [reqs[x] EXCEPT !.status = "running"] ELSE reqs[x]]

\* handleUpdate gives up when the swap of updating fails.
Installs(U) == IF updating THEN install ELSE install \union U

\* DaemonHeartbeat pops a ping and an update; the answer may be lost.
Heartbeat(r) ==
    /\ \E P \in {Oldest(PendingPings(r))},
          U \in IF PendingUpdates(r) = {} THEN {{}}
                ELSE {{x} : x \in PendingUpdates(r)} :
          /\ P \union U # {}
          /\ pings' = Popped(pings, P)
          /\ updates' = Popped(updates, U)
          /\ \/ /\ pinging' = pinging \union P
                /\ install' = Installs(U)
                /\ updating' = (updating \/ U # {})
                /\ sent' = [ping |-> sent.ping \union P, update |-> sent.update \union U]
             \/ UNCHANGED <<pinging, install, updating, sent>>

\* handlePing ends with one report, which may be lost.
PingDone(x) ==
    /\ x \in pinging
    /\ pinging' = pinging \ {x}
    /\ \/ \E st \in {"completed", "failed"} : ReportPing(x, st)
       \/ UNCHANGED pings
    /\ UNCHANGED <<updateVars, sent>>

\* The installation fails: updating is reset by the deferred Store.
UpdateFails(x) ==
    /\ x \in install
    /\ ReportUpdate(x, "failed") \/ UNCHANGED updates
    /\ install' = install \ {x} /\ updating' = FALSE
    /\ UNCHANGED <<pingVars, sent>>

\* It succeeds: report, then triggerRestart ends the process.
UpdateSucceeds(x) ==
    /\ x \in install
    /\ ReportUpdate(x, "completed") \/ UNCHANGED updates
    /\ install' = {} /\ updating' = FALSE /\ pinging' = {}
    /\ UNCHANGED <<pings, sent>>

DaemonRestarts ==
    /\ pinging # {} \/ install # {}
    /\ install' = {} /\ updating' = FALSE /\ pinging' = {}
    /\ UNCHANGED <<pings, updates, sent>>

\* Both stores are in memory.
ServerRestarts ==
    /\ pings' = [x \in PingIds |-> [pings[x] EXCEPT !.status = "gone"]]
    /\ updates' = [x \in UpdateIds |-> [updates[x] EXCEPT !.status = "gone"]]
    /\ UNCHANGED <<pinging, install, updating, sent>>

PingAges(x) ==
    /\ pings[x].age < 2
    /\ pings' = [pings EXCEPT ![x].age = @ + 1]
    /\ UNCHANGED <<pinging, updateVars, sent>>

UpdateAges(x) ==
    /\ updates[x].age < 2
    /\ updates' = [updates EXCEPT ![x].age = @ + 1]
    /\ UNCHANGED <<pingVars, install, updating, sent>>

RequestNext ==
    \/ \E r \in OwnRuntime : CreatePing(r) \/ CreateUpdate(r) \/ Heartbeat(r)
    \/ \E x \in PingIds : GetPing(x) \/ PingDone(x) \/ PingAges(x)
    \/ \E x \in UpdateIds :
          GetUpdate(x) \/ UpdateFails(x) \/ UpdateSucceeds(x) \/ UpdateAges(x)
    \/ DaemonRestarts \/ ServerRestarts

RequestSpec == RequestInit /\ [][RequestNext]_requestVars

\* Clients poll for their answer, and time passes.
RequestFairness == \A x \in 1..MaxUpdates :
    /\ WF_requestVars(x \in UpdateIds /\ UpdateAges(x))
    /\ WF_requestVars(x \in UpdateIds /\ GetUpdate(x))

FairRequests == RequestSpec /\ RequestFairness

-----------------------------------------------------------------------------
(* Properties *)

\* A runtime has at most one update that is pending or running and young
\* enough to count, however creations, timeouts and late reports interleave.
OneUpdatePerRuntime == \A x, y \in UpdateIds :
    /\ x # y /\ updates[x].runtime = updates[y].runtime
    => ~(updates[x].status \in Waiting /\ updates[y].status \in Waiting)

\* The daemon installs one update at a time, also for different runtimes, and
\* updating says whether it does.
InstallsOneAtATime ==
    Cardinality(install) <= 1 /\ (updating <=> install # {})

\* Updates happen one by one: on the server, on the daemon, and so that a runtime
\* gets no second one while the first is waited for.
UpdatesOneByOne == OneUpdatePerRuntime /\ InstallsOneAtATime

\* A request that is handed to the daemon is never pending again, so that no
\* later heartbeat hands it out a second time.
HandedOutOnce ==
    /\ \A x \in sent.ping : pings[x].status # "pending"
    /\ \A x \in sent.update : updates[x].status # "pending"

\* What a client was told stands: a ping that ended stays as it is, and an
\* update that completed or failed too (a timeout may still be corrected).
VerdictStands == [][
    /\ \A x \in PingIds : pings[x].status \in Ending
           => pings'[x].status \in {pings[x].status, "gone"}
    /\ \A x \in UpdateIds : updates[x].status \in {"completed", "failed"}
           => updates'[x].status \in {updates[x].status, "gone"}]_requestVars

\* An update that a client polls for ends, whatever was lost.
UpdateSettles == \A x \in 1..MaxUpdates :
    (x \in UpdateIds /\ updates[x].status \in Waiting)
        ~> (x \in UpdateIds /\ updates[x].status \notin Waiting)
=============================================================================

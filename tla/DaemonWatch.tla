----------------------------- MODULE DaemonWatch -----------------------------
(***************************************************************************)
(* Which workspaces a daemon serves: the list in the config file, which the *)
(* user's commands and the daemon's own sync edit by reading and writing    *)
(* it; the loop that follows the file's changes; and the server, which     *)
(* takes a daemon's word, by registration and heartbeat, until it is stale. *)
(* A workspace's runtimes are registered, beaten for and swept together.    *)
(***************************************************************************)
EXTENDS Naturals, FiniteSets

CONSTANTS Spaces,           \* workspaces
          NoSpace,
          MaxConfigEdits,   \* bound on the user's commands and new memberships
          MaxLosses,        \* bound on the registrations that fail
          MaxStarts         \* bound on the daemon's starts

ASSUME WatchAssumption == /\ NoSpace \notin Spaces
                          /\ {MaxConfigEdits, MaxLosses, MaxStarts} \subseteq Nat

VARIABLES belongs,          \* workspaces the user is a member of
          config,           \* the watched ones, in the file
          changed,          \* the file is younger than configWatchLoop knows
          edit,             \* per editor of the file: what it is about to write
          daemon,           \* "down", "loading", "starting", "up"
          following,        \* d.workspaces
          load,             \* the load under way: the list read, what it has yet to register
          registering, answered, \* its call in flight; has the server answered
          beats,            \* the heartbeat on the way, if any
          farewell,         \* what a deregistration on the way names
          presence,         \* the runtimes' status; "silent": online, but not heard of lately
          skipped,          \* what the last load gave up, or changed before the first Stat
          configEdits, losses, starts

watchVars == <<belongs, config, changed, edit, daemon, following, load, registering, answered,
               beats, farewell, presence, skipped, configEdits, losses, starts>>
fileVars   == <<belongs, config, changed, edit>>
machineSide == <<daemon, following, load, registering, answered, skipped>>
rowVars    == <<beats, farewell, presence>>
boundVars  == <<configEdits, losses, starts>>

Editors  == {"user", "sync"}
NoEdit   == [pc |-> "none", add |-> {}, drop |-> {}, read |-> {}]
Edit     == [pc : {"none", "listed", "read"}, add : SUBSET Spaces, drop : SUBSET Spaces, read : SUBSET Spaces]
NoLoad   == [on |-> FALSE, ids |-> {}, todo |-> {}]
LoadOf(ids, todo) == [on |-> TRUE, ids |-> ids, todo |-> todo]
Serving(w) == daemon \in {"starting", "up"} /\ w \in following

WatchInit ==
  /\ belongs \in SUBSET Spaces /\ config \in SUBSET belongs
  /\ changed = FALSE /\ edit = [e \in Editors |-> NoEdit]
  /\ daemon = "down" /\ following = {} /\ load = NoLoad /\ registering = NoSpace /\ answered = FALSE
  /\ beats = {} /\ farewell = {} /\ presence = [w \in Spaces |-> "none"] /\ skipped = {}
  /\ configEdits = 0 /\ losses = 0 /\ starts = 0

----------------------------------------------------------------------------
(* The file.  Every editor reads all of it and writes all of it.            *)
(* workspace watch, once the server shows the workspace; unwatch.           *)
RunWatch(w) ==
  /\ edit["user"].pc = "none" /\ w \in belongs /\ configEdits < MaxConfigEdits
  /\ edit' = [edit EXCEPT !["user"] = [NoEdit EXCEPT !.pc = "listed", !.add = {w}]]
  /\ configEdits' = configEdits + 1
  /\ UNCHANGED <<belongs, config, changed, machineSide, rowVars, losses, starts>>
RunUnwatch(w) ==
  /\ edit["user"].pc = "none" /\ w \in config /\ configEdits < MaxConfigEdits
  /\ edit' = [edit EXCEPT !["user"] = [NoEdit EXCEPT !.pc = "listed", !.drop = {w}]]
  /\ configEdits' = configEdits + 1
  /\ UNCHANGED <<belongs, config, changed, machineSide, rowVars, losses, starts>>

(* syncWorkspacesFromAPI: the list comes first, the file is read after it.  *)
SyncWorkspacesFromAPI ==
  /\ daemon \in {"starting", "up"} /\ edit["sync"].pc = "none" /\ ~belongs \subseteq config
  /\ edit' = [edit EXCEPT !["sync"] = [NoEdit EXCEPT !.pc = "listed", !.add = belongs]]
  /\ UNCHANGED <<belongs, config, changed, machineSide, rowVars, boundVars>>

LoadConfig(e) ==
  /\ edit[e].pc = "listed"
  /\ edit' = [edit EXCEPT ![e].pc = "read", ![e].read = config]
  /\ UNCHANGED <<belongs, config, changed, machineSide, rowVars, boundVars>>

(* Nothing is written when nothing was added or removed.                    *)
Edited(e) == (edit[e].read \cup edit[e].add) \ edit[e].drop
SaveConfig(e) ==
  /\ edit[e].pc = "read" /\ edit' = [edit EXCEPT ![e] = NoEdit]
  /\ IF Edited(e) = edit[e].read
     THEN UNCHANGED <<config, changed, skipped>>
     ELSE /\ config' = Edited(e) /\ changed' = TRUE
          /\ skipped' = IF daemon \in {"loading", "starting"} THEN skipped \cup Spaces ELSE skipped
  /\ UNCHANGED <<belongs, daemon, following, load, registering, answered, rowVars, boundVars>>

(* The user joins a workspace or is taken out of one.                       *)
MembershipChanges(w) ==
  /\ configEdits < MaxConfigEdits /\ configEdits' = configEdits + 1
  /\ belongs' = IF w \in belongs THEN belongs \ {w} ELSE belongs \cup {w}
  /\ UNCHANGED <<config, changed, edit, machineSide, rowVars, losses, starts>>

----------------------------------------------------------------------------
(* The daemon.  Run: what the file lists is registered, one after the other *)
(* -- those that fail are skipped --, then the loops start.                 *)
Run ==
  /\ daemon = "down" /\ config # {} /\ starts < MaxStarts /\ starts' = starts + 1
  /\ daemon' = "loading" /\ load' = LoadOf(config, config) /\ skipped' = {}
  /\ UNCHANGED <<fileVars, following, registering, answered, rowVars, configEdits, losses>>

RegisterRuntimes(w) ==
  /\ load.on /\ registering = NoSpace /\ w \in load.todo
  /\ registering' = w /\ answered' = FALSE
  /\ UNCHANGED <<fileVars, daemon, following, load, skipped, rowVars, boundVars>>
RegisterLands ==
  /\ registering # NoSpace /\ answered
  /\ following' = following \cup {registering}
  /\ load' = [load EXCEPT !.todo = @ \ {registering}] /\ registering' = NoSpace /\ answered' = FALSE
  /\ UNCHANGED <<fileVars, daemon, skipped, rowVars, boundVars>>
(* Refused to one who is no member, or lost on either way.                  *)
RegisterFails ==
  /\ registering # NoSpace /\ losses < MaxLosses /\ losses' = losses + 1
  /\ load' = [load EXCEPT !.todo = @ \ {registering}] /\ skipped' = skipped \cup {registering}
  /\ registering' = NoSpace /\ answered' = FALSE
  /\ UNCHANGED <<fileVars, daemon, following, rowVars, configEdits, starts>>
RegisterRefused ==
  /\ registering # NoSpace /\ ~answered /\ registering \notin belongs
  /\ load' = [load EXCEPT !.todo = @ \ {registering}] /\ skipped' = skipped \cup {registering}
  /\ registering' = NoSpace
  /\ UNCHANGED <<fileVars, daemon, following, answered, rowVars, boundVars>>

Loaded == load.on /\ load.todo = {} /\ registering = NoSpace
LoadWatchedWorkspaces ==
  /\ daemon = "loading" /\ Loaded /\ load' = NoLoad
  /\ daemon' = IF following = {} THEN "down" ELSE "starting"
  /\ UNCHANGED <<fileVars, following, registering, answered, skipped, rowVars, boundVars>>
(* configWatchLoop takes the time of the file when it starts.               *)
FirstStat ==
  /\ daemon = "starting" /\ daemon' = "up" /\ changed' = FALSE
  /\ UNCHANGED <<belongs, config, edit, following, load, registering, answered, skipped, rowVars, boundVars>>

(* reloadWorkspaces: what is new is registered, what is no longer listed is *)
(* dropped without a word to the server.  The time was noted before.        *)
KnownAfter(e) == FALSE      \* mutant of StillChanged: noted when the reload ends
NeverKnown(e) == TRUE       \* mutant of StillChanged: not noted at all
StillChanged(e) == e        \* what was written meanwhile is still to be seen
ReloadWorkspaces ==
  /\ daemon = "up" /\ changed /\ ~load.on /\ changed' = FALSE
  /\ load' = LoadOf(config, config \ following) /\ skipped' = {}
  /\ UNCHANGED <<belongs, config, edit, daemon, following, registering, answered, rowVars, boundVars>>
StillWatched(ids) == following \cap ids
ReloadEnds ==
  /\ daemon = "up" /\ Loaded /\ load' = NoLoad /\ following' = StillWatched(load.ids)
  /\ changed' = StillChanged(changed)
  /\ UNCHANGED <<belongs, config, edit, daemon, registering, answered, skipped, rowVars, boundVars>>

(* The context ends, and the daemon says farewell for what it serves, or    *)
(* the process dies; the calls in flight are given up.                      *)
Stop ==
  /\ daemon # "down" /\ daemon' = "down" /\ following' = {} /\ load' = NoLoad
  /\ registering' = NoSpace /\ answered' = FALSE /\ edit' = [edit EXCEPT !["sync"] = NoEdit]
  /\ \E f \in {{}, following} : farewell' = farewell \cup f
  /\ skipped' = {}
  /\ UNCHANGED <<belongs, config, changed, beats, presence, boundVars>>

(* heartbeatLoop: one after the other; one may arrive when its workspace was *)
(* dropped meanwhile, or its daemon is gone.                                *)
SendHeartbeat(w) ==
  /\ Serving(w) /\ beats = {} /\ beats' = {w}
  /\ UNCHANGED <<fileVars, machineSide, farewell, presence, boundVars>>

----------------------------------------------------------------------------
(* The server.                                                              *)
DaemonRegister ==
  /\ registering \in belongs /\ ~answered /\ answered' = TRUE
  /\ presence' = [presence EXCEPT ![registering] = "online"]
  /\ UNCHANGED <<fileVars, daemon, following, load, registering, skipped, beats, farewell, boundVars>>
HeartbeatArrives(w) ==
  /\ w \in beats /\ beats' = beats \ {w}
  /\ presence' = [presence EXCEPT ![w] = "online"]
  /\ UNCHANGED <<fileVars, machineSide, farewell, boundVars>>
HeartbeatLost(w) ==
  /\ w \in beats /\ beats' = beats \ {w}
  /\ UNCHANGED <<fileVars, machineSide, farewell, presence, boundVars>>
FarewellArrives ==
  /\ farewell # {} /\ farewell' = {}
  /\ presence' = [w \in Spaces |-> IF w \in farewell THEN "offline" ELSE presence[w]]
  /\ UNCHANGED <<fileVars, machineSide, beats, boundVars>>
FarewellLost ==
  /\ farewell # {} /\ farewell' = {}
  /\ UNCHANGED <<fileVars, machineSide, beats, presence, boundVars>>
GrowsStale(w) ==
  /\ presence[w] = "online" /\ presence' = [presence EXCEPT ![w] = "silent"]
  /\ UNCHANGED <<fileVars, machineSide, beats, farewell, boundVars>>
SweepsSilent(w) ==
  /\ presence[w] = "silent" /\ presence' = [presence EXCEPT ![w] = "offline"]
  /\ UNCHANGED <<fileVars, machineSide, beats, farewell, boundVars>>

WatchNext ==
  \/ Run \/ RegisterLands \/ RegisterFails \/ RegisterRefused \/ LoadWatchedWorkspaces \/ FirstStat
  \/ ReloadWorkspaces \/ ReloadEnds \/ Stop \/ DaemonRegister \/ FarewellArrives \/ FarewellLost
  \/ SyncWorkspacesFromAPI \/ \E e \in Editors : LoadConfig(e) \/ SaveConfig(e)
  \/ \E w \in Spaces :
       \/ RunWatch(w) \/ RunUnwatch(w) \/ MembershipChanges(w) \/ RegisterRuntimes(w)
       \/ SendHeartbeat(w) \/ HeartbeatArrives(w) \/ HeartbeatLost(w)
       \/ GrowsStale(w) \/ SweepsSilent(w)

(* Tickers and calls go on; what no daemon serves any more grows stale.     *)
WatchFairness ==
  /\ WF_watchVars(RegisterLands) /\ WF_watchVars(RegisterRefused) /\ WF_watchVars(DaemonRegister)
  /\ WF_watchVars(LoadWatchedWorkspaces) /\ WF_watchVars(FirstStat)
  /\ WF_watchVars(ReloadWorkspaces) /\ WF_watchVars(ReloadEnds)
  /\ \A w \in Spaces :
       /\ WF_watchVars(RegisterRuntimes(w))
       /\ WF_watchVars(~Serving(w) /\ GrowsStale(w)) /\ WF_watchVars(SweepsSilent(w))

WatchSpec == WatchInit /\ [][WatchNext]_watchVars /\ WatchFairness

----------------------------------------------------------------------------
(* Type correctness of the daemon's view and the server's.                  *)
WatchTypeOK ==
  /\ belongs \subseteq Spaces /\ config \subseteq Spaces /\ changed \in BOOLEAN
  /\ edit \in [Editors -> Edit] /\ daemon \in {"down", "loading", "starting", "up"}
  /\ following \subseteq Spaces /\ load \in [on : BOOLEAN, ids : SUBSET Spaces, todo : SUBSET Spaces]
  /\ registering \in Spaces \cup {NoSpace} /\ answered \in BOOLEAN
  /\ beats \subseteq Spaces /\ farewell \subseteq Spaces /\ skipped \subseteq Spaces
  /\ presence \in [Spaces -> {"none", "online", "silent", "offline"}]
  /\ configEdits \in 0..MaxConfigEdits /\ losses \in 0..MaxLosses /\ starts \in 0..MaxStarts

(* Whenever the loop has seen the file's last change and no reload is under *)
(* way, the daemon serves what the file lists -- the file is read, written  *)
(* and read again while registrations are in flight --, except workspaces   *)
(* whose registration failed, which no one tries again.                     *)
FollowsConfig ==
  daemon = "up" /\ ~changed /\ ~load.on => following \ skipped = config \ skipped

(* A change of the file is taken up, unless the daemon ends; the runtimes of *)
(* a workspace that no daemon serves -- dropped, its farewell lost, or its   *)
(* registration answered to nobody -- go offline, whatever arrives late.     *)
WatchSettles ==
  /\ (daemon = "up" /\ changed) ~> (daemon # "up" \/ (~changed /\ ~load.on))
  /\ \A w \in Spaces : (presence[w] \in {"online", "silent"} /\ ~Serving(w)) ~> (presence[w] = "offline" \/ Serving(w))
=============================================================================

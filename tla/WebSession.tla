----------------------------- MODULE WebSession -----------------------------
(***************************************************************************)
(* One browser tab of the web client: the sign-in state, the workspace     *)
(* shown, what localStorage and the API client say of both, the requests   *)
(* in flight and the workspace the cached lists belong to.                 *)
(*                                                                         *)
(* A request is a record of pending: the operation, the workspace it       *)
(* captured before its await, and the list the server answered with.  The  *)
(* code after the await is the action that removes the record.             *)
(***************************************************************************)
EXTENDS Naturals, FiniteSets

CONSTANTS Ws,           \* workspaces
          NoWs,         \* null
          MaxPending    \* bound on the requests in flight

ASSUME SessionAssumption == NoWs \notin Ws /\ MaxPending \in Nat

VARIABLES user, loading,    \* auth store
          stored, header,   \* localStorage; the API client's token and workspace
          shown, listed,    \* workspace store: workspace and workspaces
          data,             \* which workspace the cached people and items are of
          pending,          \* requests in flight
          memberOf          \* server: the workspaces of the user

authVars   == <<user, loading, stored, header>>
storeVars  == <<shown, listed, data>>
sessionVars == <<authVars, storeVars, pending, memberOf>>

MaybeWs == Ws \cup {NoWs}
NoList  == {NoWs}       \* a list request not answered yet

ListOps == {"init", "refresh", "loginList", "leftList"}
DataOps == {"hydrate", "people", "items"}
Op      == ListOps \cup DataOps \cup {"login", "leave"}
SessionRequest == [op : Op, at : MaybeWs, list : (SUBSET Ws) \cup {NoList}]

AskFor(op, w) == [op |-> op, at |-> w, list |-> NoList]
Sent(S)    == /\ Cardinality(pending \cup S) <= MaxPending
              /\ pending' = pending \cup S
Resumes(r, S) == pending' = (pending \ {r}) \cup S

SetIdentity(t, w) == /\ stored' = [token |-> t, ws |-> w]
                     /\ header' = [token |-> t, ws |-> w]
\* mutant of KeepToken: the API client keeps its old header.
KeepTokenStored(w) == stored' = [stored EXCEPT !.ws = w] /\ header' = header
KeepToken(w)      == /\ stored' = [stored EXCEPT !.ws = w]
                     /\ header' = [header EXCEPT !.ws = w]

----------------------------------------------------------------------------
(* Loading the page: the API client reads localStorage, AuthInitializer     *)
(* asks for the user and the workspaces when a token is stored.             *)
Boot(s) ==
  [user |-> FALSE, loading |-> s.token, stored |-> s, header |-> s,
   pending |-> IF s.token THEN {AskFor("init", s.ws)} ELSE {}]

SessionInit ==
  /\ memberOf \in SUBSET Ws
  /\ \E t \in BOOLEAN, w \in MaybeWs :
       LET b == Boot([token |-> t, ws |-> w]) IN
       /\ user = b.user /\ loading = b.loading
       /\ stored = b.stored /\ header = b.header /\ pending = b.pending
  /\ shown = NoWs /\ listed = {} /\ data = [people |-> NoWs, items |-> NoWs]

(* hydrateWorkspace up to its await: the preferred workspace when listed,   *)
(* else the first one, else none.                                           *)
HydrateWorkspace(r, l, preferred) ==
  /\ listed' = l
  /\ IF l = {}
     THEN /\ KeepToken(NoWs) /\ shown' = NoWs
          /\ data' = [data EXCEPT !.people = NoWs]
          /\ Resumes(r, {})
     ELSE \E w \in IF preferred \in l THEN {preferred} ELSE l :
          /\ KeepToken(w) /\ shown' = w
          /\ Resumes(r, {AskFor("hydrate", w)})
          /\ UNCHANGED data

(* The server answers a list request with the memberships of that moment.   *)
WorkspacesAnswered ==
  \E r \in pending :
    /\ r.op \in ListOps /\ r.list = NoList
    /\ pending' = (pending \ {r}) \cup {[r EXCEPT !.list = memberOf]}
    /\ UNCHANGED <<authVars, storeVars, memberOf>>

SessionAnswered(r, op) == r \in pending /\ r.op = op /\ r.list # NoList

(* AuthInitializer's then-branch.                                           *)
InitSucceeds ==
  \E r \in pending :
    /\ SessionAnswered(r, "init")
    /\ user' = TRUE /\ loading' = FALSE
    /\ HydrateWorkspace(r, r.list, r.at)
    /\ UNCHANGED <<memberOf>>

(* AuthInitializer's catch: the token is dropped, whoever stored it.        *)
InitFails ==
  \E r \in pending :
    /\ r.op = "init"
    /\ SetIdentity(FALSE, NoWs)
    /\ user' = FALSE /\ loading' = FALSE
    /\ Resumes(r, {})
    /\ UNCHANGED <<storeVars, memberOf>>

(* The sign-in page: verifyCode, listWorkspaces, hydrateWorkspace.          *)
VerifyCode ==
  /\ ~user
  /\ \A r \in pending : r.op \notin {"login", "loginList"}
  /\ Sent({AskFor("login", NoWs)})
  /\ UNCHANGED <<authVars, storeVars, memberOf>>

CodeVerified ==
  \E r \in pending :
    /\ r.op = "login"
    /\ stored' = [stored EXCEPT !.token = TRUE]
    /\ header' = [header EXCEPT !.token = TRUE]
    /\ user' = TRUE
    /\ Resumes(r, {AskFor("loginList", NoWs)})
    /\ UNCHANGED <<loading, storeVars, memberOf>>

LoginHydrates ==
  \E r \in pending :
    /\ SessionAnswered(r, "loginList")
    /\ HydrateWorkspace(r, r.list, NoWs)
    /\ UNCHANGED <<user, loading, memberOf>>

(* The sidebar's logout: authLogout, then clearWorkspace.  The issue and    *)
(* inbox stores keep their items.                                           *)
Logout ==
  /\ user
  /\ SetIdentity(FALSE, NoWs)
  /\ user' = FALSE
  /\ shown' = NoWs /\ listed' = {} /\ data' = [data EXCEPT !.people = NoWs]
  /\ UNCHANGED <<loading, pending, memberOf>>

(* handleUnauthorized: any answer may be a 401; the tab is sent to "/",     *)
(* which loads the page anew.                                               *)
Unauthorized ==
  /\ pending # {}
  /\ LET b == Boot([token |-> FALSE, ws |-> NoWs]) IN
     /\ user' = b.user /\ loading' = b.loading
     /\ stored' = b.stored /\ header' = b.header /\ pending' = b.pending
  /\ shown' = NoWs /\ listed' = {} /\ data' = [people |-> NoWs, items |-> NoWs]
  /\ UNCHANGED memberOf

----------------------------------------------------------------------------
(* The workspace store.                                                     *)
SwitchTo(w) ==
  /\ KeepToken(w) /\ shown' = w
  /\ data' = [people |-> NoWs, items |-> NoWs]

SwitchWorkspace ==
  \E w \in listed :
    /\ user
    /\ SwitchTo(w)
    /\ Sent({AskFor("hydrate", w)})
    /\ UNCHANGED <<user, loading, listed, memberOf>>

(* createWorkspace and the switch to it, as the dialog runs them.           *)
CreateWorkspace ==
  \E w \in Ws \ (memberOf \cup listed) :
    /\ user
    /\ memberOf' = memberOf \cup {w}
    /\ listed' = listed \cup {w}
    /\ SwitchTo(w)
    /\ Sent({AskFor("hydrate", w)})
    /\ UNCHANGED <<user, loading>>

(* A realtime event about the user's own membership or the workspace shown  *)
(* (member:added, member:removed, workspace:deleted) makes the sync handler *)
(* call refreshWorkspaces, which captures the workspace before its await.   *)
(* Events are heard while a user is signed in and a workspace is shown.     *)
Heard == user /\ shown # NoWs

MembershipChanges ==
  \E w \in Ws :
    /\ memberOf' = IF w \in memberOf THEN memberOf \ {w} ELSE memberOf \cup {w}
    /\ \/ Heard /\ Sent({AskFor("refresh", IF shown # NoWs THEN shown ELSE stored.ws)})
       \/ UNCHANGED pending
    /\ UNCHANGED <<authVars, storeVars>>

RefreshHydrates ==
  \E r \in pending :
    /\ SessionAnswered(r, "refresh")
    /\ HydrateWorkspace(r, r.list, r.at)
    /\ UNCHANGED <<user, loading, memberOf>>

(* leaveWorkspace and deleteWorkspace: the request, then the list, with the *)
(* preference read between the two awaits.                                  *)
LeaveWorkspace ==
  /\ user /\ shown # NoWs
  /\ Sent({AskFor("leave", shown)})
  /\ UNCHANGED <<authVars, storeVars, memberOf>>

Left ==
  \E r \in pending :
    /\ r.op = "leave"
    /\ memberOf' = memberOf \ {r.at}
    /\ Resumes(r, {AskFor("leftList", IF shown = r.at THEN NoWs ELSE shown)})
    /\ UNCHANGED <<authVars, storeVars>>

LeftHydrates ==
  \E r \in pending :
    /\ SessionAnswered(r, "leftList")
    /\ HydrateWorkspace(r, r.list, r.at)
    /\ UNCHANGED <<user, loading, memberOf>>

(* refreshMembers, refreshAgents and refreshSkills; the captured workspace  *)
(* is the one shown.  The issue and inbox stores' fetch goes by the header. *)
Refresh ==
  /\ Heard
  /\ \/ Sent({AskFor("people", shown)})
     \/ Sent({AskFor("items", header.ws)})
  /\ UNCHANGED <<authVars, storeVars, memberOf>>

(* Cached data lands, whatever is shown by now.  hydrateWorkspace sets the  *)
(* people only when the items it asked for have landed or failed.           *)
DataLands ==
  \E r \in pending :
    /\ r.op \in DataOps
    /\ \/ /\ r.op \in {"people", "items"}
          /\ data' = [data EXCEPT ![r.op] = r.at]
          /\ Resumes(r, {})
       \/ /\ r.op = "hydrate"
          /\ data' = [data EXCEPT !.items = r.at]
          /\ Resumes(r, {AskFor("people", r.at)})
    /\ UNCHANGED <<authVars, listed, shown, memberOf>>

(* A request fails: a toast.  A hydration shows empty lists of people.      *)
RequestFails ==
  \E r \in pending :
    /\ r.op # "init"
    /\ \/ r.op # "hydrate" /\ Resumes(r, {})
       \/ r.op = "hydrate" /\ Resumes(r, {AskFor("people", r.at)})
    /\ UNCHANGED <<authVars, storeVars, memberOf>>

----------------------------------------------------------------------------
SessionNext ==
  \/ WorkspacesAnswered \/ InitSucceeds \/ InitFails
  \/ VerifyCode \/ CodeVerified \/ LoginHydrates \/ Logout \/ Unauthorized
  \/ SwitchWorkspace \/ CreateWorkspace \/ MembershipChanges \/ RefreshHydrates
  \/ LeaveWorkspace \/ Left \/ LeftHydrates
  \/ Refresh \/ DataLands \/ RequestFails

SessionSpec == SessionInit /\ [][SessionNext]_sessionVars

----------------------------------------------------------------------------
(* Type correctness of the tab's state.                                     *)
SessionTypeOK ==
  /\ user \in BOOLEAN /\ loading \in BOOLEAN
  /\ stored \in [token : BOOLEAN, ws : MaybeWs]
  /\ header \in [token : BOOLEAN, ws : MaybeWs]
  /\ shown \in MaybeWs /\ listed \subseteq Ws /\ memberOf \subseteq Ws
  /\ data \in [people : MaybeWs, items : MaybeWs]
  /\ pending \subseteq SessionRequest

(* Whatever fails or lands late, the token and workspace sent with requests *)
(* are those a reload of the tab would start from, and no request is made   *)
(* for another workspace than the one shown.                                *)
RequestsAreOfShown ==
  /\ stored = header
  /\ shown # NoWs => header.ws \in {NoWs, shown}
=============================================================================

----------------------------- MODULE IssueCache -----------------------------
(***************************************************************************)
(* The issue store of a browser tab against the server: list and single     *)
(* fetches, events from the websocket (Realtime), and what the board, the   *)
(* list, the detail page and the dialogs write.  One client's channel is a  *)
(* queue; answers to requests come on their own and in any order.           *)
(***************************************************************************)
EXTENDS Naturals, FiniteSets, Sequences

CONSTANTS Issues,           \* issues
          FieldNames, Values, \* fields of an issue and their values
          MaxIssueEvents,   \* bound on the events on their way
          MaxIssueCalls     \* bound on the requests in flight

ASSUME CacheAssumption ==
  /\ MaxIssueEvents \in Nat /\ MaxIssueCalls \in Nat
  /\ Issues # {} /\ FieldNames # {} /\ Values # {}

VARIABLES issueServer, cache, \* what each has of every issue
          linked,           \* the tab's socket is open and useRealtimeSync listens
          issueChannel,     \* events sent and not yet handled
          requests,         \* requests in flight
          issueStrayed      \* history: the cache was left wrong, see IssueStrays

issueVars == <<issueServer, cache, linked, issueChannel, requests, issueStrayed>>

Gone   == [there |-> FALSE]
Fields == [FieldNames -> Values]
Here(f) == [there |-> TRUE, f |-> f]
IssueRow  == {Gone} \cup {Here(f) : f \in Fields}
IssueRows == [Issues -> IssueRow]

(* Partial<UpdateIssueRequest>: a set of (field, value) pairs to merge.     *)
Patches == {[field |-> n, value |-> v] : n \in FieldNames, v \in Values}
NoPatch == CHOOSE p \in Patches : TRUE
IssuePatched(row, p) == IF row.there THEN Here([row.f EXCEPT ![p.field] = p.value]) ELSE row

(* A request: what was asked, of which issue, with which patch; what the    *)
(* page remembers of the row (prev); the list or row the server sent back.  *)
Ops == {"list", "get", "field", "move", "batch", "remove", "batchRemove", "create"}
IssueRequest == [op : Ops, id : Issues, patch : Patches, prev : IssueRow,
                 st : {"sent", "done", "failed"}, rows : IssueRows, old : BOOLEAN]
AskIssue(op, i, p) ==
  [op |-> op, id |-> i, patch |-> p, prev |-> IF op = "field" THEN cache[i] ELSE Gone,
   st |-> "sent", rows |-> [j \in Issues |-> Gone], old |-> FALSE]
AskList == AskIssue("list", CHOOSE i \in Issues : TRUE, NoPatch)
SendIssue(r) == Cardinality(requests) < MaxIssueCalls /\ requests' = requests \cup {r}

IssueInit ==
  /\ issueServer \in [Issues -> {Gone, Here(CHOOSE f \in Fields : TRUE)}]
  /\ cache = [i \in Issues |-> Gone] /\ linked = TRUE
  /\ issueChannel = <<>> /\ issueStrayed = FALSE
  /\ requests = {AskList}

(* What the code leaves wrong until the next fetch.                         *)
IssueStrays(cond) == issueStrayed' = (issueStrayed \/ cond)

----------------------------------------------------------------------------
(* Store operations.                                                        *)
AddIssue(c, i, row)    == IF c[i].there THEN c ELSE [c EXCEPT ![i] = row]
UpdateIssue(c, i, row) == IF c[i].there THEN [c EXCEPT ![i] = row] ELSE c
RemoveIssue(c, i)      == [c EXCEPT ![i] = Gone]

(* The server changes an issue and sends the event to every open socket;    *)
(* lists answered before are outdated by it.                                *)
IssueOutdated(R) == {IF r.st = "done" /\ r.op \in {"list", "get", "create"}
                     THEN [r EXCEPT !.old = TRUE] ELSE r : r \in R}
Publish(kind, i, row) ==
  /\ Len(issueChannel) < MaxIssueEvents
  /\ issueServer' = [issueServer EXCEPT ![i] = row]
  /\ issueChannel' = IF linked THEN Append(issueChannel, [kind |-> kind, id |-> i, row |-> row])
                     ELSE issueChannel

OthersWrite ==
  \E i \in Issues :
    /\ \/ /\ ~issueServer[i].there
          /\ \E f \in Fields : Publish("created", i, Here(f))
       \/ /\ issueServer[i].there
          /\ \/ \E p \in Patches : Publish("updated", i, IssuePatched(issueServer[i], p))
             \/ Publish("deleted", i, Gone)
    /\ requests' = IssueOutdated(requests)
    /\ UNCHANGED <<cache, linked, issueStrayed>>

(* The specific handlers of useRealtimeSync; they do not skip own events.   *)
HandleIssueEvent ==
  /\ issueChannel # <<>>
  /\ LET e == Head(issueChannel) IN
     cache' = CASE e.kind = "updated" -> UpdateIssue(cache, e.id, e.row)
                [] e.kind = "created" -> AddIssue(cache, e.id, e.row)
                [] e.kind = "deleted" -> RemoveIssue(cache, e.id)
  /\ issueChannel' = Tail(issueChannel)
  /\ UNCHANGED <<issueServer, linked, requests, issueStrayed>>

IssueLinkDrops ==
  /\ linked /\ linked' = FALSE /\ issueChannel' = <<>>
  /\ UNCHANGED <<issueServer, cache, requests, issueStrayed>>

(* A reconnect refetches the list.                                          *)
IssueReconnects ==
  /\ ~linked /\ linked' = TRUE
  /\ SendIssue(AskList)
  /\ UNCHANGED <<issueServer, cache, issueChannel, issueStrayed>>

----------------------------------------------------------------------------
(* The pages.                                                               *)

(* IssueDetail fetches an issue that is not in the store.                   *)
OpenDetail ==
  \E i \in Issues :
    /\ ~cache[i].there
    /\ SendIssue(AskIssue("get", i, NoPatch))
    /\ UNCHANGED <<issueServer, cache, linked, issueChannel, issueStrayed>>

(* handleUpdateField, a card's handleUpdate and handleMoveIssue write the    *)
(* store first.                                                             *)
WriteThrough(op, i, p) ==
  /\ cache[i].there
  /\ SendIssue(AskIssue(op, i, p))
  /\ cache' = UpdateIssue(cache, i, IssuePatched(cache[i], p))
  /\ UNCHANGED <<issueServer, linked, issueChannel, issueStrayed>>
UpdateField == \E i \in Issues, p \in Patches : WriteThrough("field", i, p)
UpdateCard  == \E i \in Issues, p \in Patches : WriteThrough("field", i, p)
MoveIssue   == \E i \in Issues, p \in Patches : WriteThrough("move", i, p)

(* The toolbar and the delete dialogs write the store when the answer comes. *)
WriteLater(op, i, p) ==
  /\ cache[i].there
  /\ SendIssue(AskIssue(op, i, p))
  /\ UNCHANGED <<issueServer, cache, linked, issueChannel, issueStrayed>>
BatchUpdate == \E i \in Issues, p \in Patches : WriteLater("batch", i, p)
BatchDelete == \E i \in Issues : WriteLater("batchRemove", i, NoPatch)
DeleteIssue == \E i \in Issues : WriteLater("remove", i, NoPatch)

CreateIssue ==
  \E i \in Issues :
    /\ ~issueServer[i].there /\ ~cache[i].there
    /\ \A r \in requests : ~(r.op = "create" /\ r.id = i)
    /\ SendIssue(AskIssue("create", i, NoPatch))
    /\ UNCHANGED <<issueServer, cache, linked, issueChannel, issueStrayed>>

----------------------------------------------------------------------------
(* The server handles a request.  It may carry it out and fail to answer;   *)
(* a batch passes over an issue it cannot update and still answers 200.     *)
IssueAnswer(r, st) == IssueOutdated(requests \ {r}) \cup {[r EXCEPT !.st = st]}
ServeIssue ==
  \E r \in requests, st \in {"done", "failed"} :
    /\ r.st = "sent"
    /\ \/ /\ r.op \in {"list", "get"}
          /\ requests' = (requests \ {r}) \cup
               {[r EXCEPT !.st = IF r.op = "get" /\ ~issueServer[r.id].there THEN "failed" ELSE st,
                          !.rows = issueServer]}
          /\ UNCHANGED <<issueServer, issueChannel>>
       \/ /\ r.op \in {"field", "move", "batch"} /\ issueServer[r.id].there
          /\ Publish("updated", r.id, IssuePatched(issueServer[r.id], r.patch))
          /\ requests' = IssueAnswer(r, st)
       \/ /\ r.op \in {"remove", "batchRemove"} /\ issueServer[r.id].there
          /\ Publish("deleted", r.id, Gone)
          /\ requests' = IssueAnswer(r, st)
       \/ /\ r.op = "create" /\ ~issueServer[r.id].there
          /\ \E f \in Fields :
               /\ Publish("created", r.id, Here(f))
               /\ requests' = IssueOutdated(requests \ {r}) \cup
                    {[r EXCEPT !.st = st, !.rows = [@ EXCEPT ![r.id] = Here(f)]]}
       \/ /\ r.op \notin {"list", "get"}
          /\ requests' = (requests \ {r}) \cup
               {[r EXCEPT !.st = IF r.op \in {"batch", "batchRemove"} THEN st ELSE "failed"]}
          /\ UNCHANGED <<issueServer, issueChannel>>
    /\ UNCHANGED <<cache, linked, issueStrayed>>

(* fetch, setIssues and addIssue with an answer.                            *)
IssuesLand ==
  \E r \in requests :
    /\ r.st = "done" /\ r.op \in {"list", "get", "create"}
    /\ cache' = IF r.op = "list" THEN r.rows ELSE AddIssue(cache, r.id, r.rows[r.id])
    /\ requests' = requests \ {r}
    /\ IssueStrays(r.old)
    /\ UNCHANGED <<issueServer, linked, issueChannel>>

(* fetch keeps the list and the dialogs say so; nothing is tried again.     *)
FetchFails ==
  \E r \in requests :
    /\ r.st = "failed" /\ r.op \in {"list", "get", "create", "remove"}
    /\ requests' = requests \ {r}
    /\ IssueStrays(r.op = "list")
    /\ UNCHANGED <<issueServer, cache, linked, issueChannel>>

WriteSucceeds ==
  \E r \in requests :
    /\ r.st = "done" /\ r.op \in {"field", "move", "batch", "remove", "batchRemove"}
    /\ cache' = CASE r.op \in {"field", "move"} -> cache
                  [] r.op = "batch" -> UpdateIssue(cache, r.id, IssuePatched(cache[r.id], r.patch))
                  [] OTHER -> RemoveIssue(cache, r.id)
    /\ requests' = requests \ {r}
    /\ IssueStrays(/\ r.op \in {"batch", "remove", "batchRemove"}
              /\ cache'[r.id] # issueServer[r.id])
    /\ UNCHANGED <<issueServer, linked, issueChannel>>

(* handleUpdateField puts the whole row it remembers back.                  *)
FieldFails ==
  \E r \in requests :
    /\ r.st = "failed" /\ r.op = "field"
    /\ cache' = UpdateIssue(cache, r.id, r.prev)
    /\ requests' = requests \ {r}
    /\ IssueStrays(cache'[r.id] # issueServer[r.id])
    /\ UNCHANGED <<issueServer, linked, issueChannel>>

(* The board and the toolbar fetch the list again.                          *)
RecoversNot == {}  \* mutant of Recovers
Recovers    == {AskList}
MoveFails ==
  \E r \in requests :
    /\ r.st = "failed" /\ r.op \in {"move", "batch", "batchRemove"}
    /\ requests' = (requests \ {r}) \cup Recovers
    /\ UNCHANGED <<issueServer, cache, linked, issueChannel, issueStrayed>>

IssueNext ==
  \/ OthersWrite \/ HandleIssueEvent \/ IssueLinkDrops \/ IssueReconnects
  \/ OpenDetail \/ UpdateField \/ UpdateCard \/ MoveIssue \/ BatchUpdate \/ BatchDelete \/ DeleteIssue \/ CreateIssue
  \/ ServeIssue \/ IssuesLand \/ FetchFails \/ WriteSucceeds \/ FieldFails \/ MoveFails

IssueSpec == IssueInit /\ [][IssueNext]_issueVars

----------------------------------------------------------------------------
(* Type correctness of the store and the requests.                          *)
IssueTypeOK ==
  /\ issueServer \in IssueRows /\ cache \in IssueRows /\ linked \in BOOLEAN /\ issueStrayed \in BOOLEAN
  /\ Len(issueChannel) <= MaxIssueEvents
  /\ requests \subseteq IssueRequest

(* When all has been answered and heard, the tab shows the server's issues: *)
(* optimistic writes, their undoing, own events, lost connections and the   *)
(* reconnect's refetch leave no trace, except where an answer was overtaken *)
(* by a change or a fetch failed.                                           *)
IssueSettled == linked /\ issueChannel = <<>> /\ requests = {}
Converges    == IssueSettled /\ ~issueStrayed => cache = issueServer
=============================================================================

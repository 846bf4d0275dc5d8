------------------------------ MODULE InboxView ------------------------------
(***************************************************************************)
(* The inbox of one user: the server's items, the store that caches them    *)
(* (features/inbox/store.ts) and the page, which shows one entry per issue. *)
(* Events about the user's own reads and archivings are skipped, so what    *)
(* the store did before the server answered stays as it is unless the       *)
(* request fails.                                                           *)
(***************************************************************************)
EXTENDS Naturals, FiniteSets, Sequences

CONSTANTS MaxItems,         \* bound on the notifications ever sent
          SharedItems,      \* the first so many are about one issue, the
                            \* others about none
          MaxInboxCalls     \* bound on requests in flight

ASSUME InboxAssumption ==
  MaxItems \in Nat /\ SharedItems \in 0..MaxItems /\ MaxInboxCalls \in Nat

VARIABLES inboxDb,          \* the server's rows
          items,            \* the store's rows
          selectedKey,      \* the entry whose issue is open, 0 for none
          inboxWire,        \* inbox:new events on their way
          inboxHears,       \* the socket is open
          inboxCalls,       \* requests in flight
          inboxStrayed      \* history: overtaken, lost or unrepaired

inboxVars == <<inboxDb, items, selectedKey, inboxWire, inboxHears, inboxCalls, inboxStrayed>>

(* Ids grow with created_at.  key = issue_id ?? id.                         *)
ItemIds == 1..MaxItems
InboxRow == [id : ItemIds, read : BOOLEAN, archived : BOOLEAN]
Key(id) == IF id <= SharedItems THEN SharedItems ELSE id
Active(rows) == {r \in rows : ~r.archived}

(* deduplicateInboxItems: the latest active row of each key.                *)
DedupedItems(rows) ==
  {r \in Active(rows) : \A q \in Active(rows) : Key(q.id) = Key(r.id) => q.id <= r.id}
UnreadCount == Cardinality({r \in DedupedItems(items) : ~r.read})

ReadRow(rows, who)    == {IF r \in who THEN [r EXCEPT !.read = TRUE] ELSE r : r \in rows}
ArchiveRow(rows, who) == {IF r \in who THEN [r EXCEPT !.archived = TRUE] ELSE r : r \in rows}
InboxRowsOf(rows, id) == {r \in rows : r.id = id}

(* The store's operations (markRead, archive, markAllRead, archiveAll,      *)
(* archiveAllRead), each one update of the cached rows.                     *)
ArchivesActive(rows) == Active(rows)  \* mutant of ArchivesRead: unread ones too
ArchivesRead(rows) == {r \in rows : r.read /\ ~r.archived}
StoreDoes(rows, op, id) ==
  CASE op = "read"        -> ReadRow(rows, InboxRowsOf(rows, id))
    [] op = "archive"     -> ArchiveRow(rows, InboxRowsOf(rows, id))
    [] op = "readAll"     -> ReadRow(rows, Active(rows))
    [] op = "archiveAll"  -> ArchiveRow(rows, Active(rows))
    [] op = "archiveRead" -> ArchiveRow(rows, ArchivesRead(rows))
    [] OTHER -> rows
(* The handlers' UPDATE statements; Completed are the rows of an issue that *)
(* is done or cancelled.                                                    *)
DbDoes(rows, op, id, completed) ==
  CASE op = "read"        -> ReadRow(rows, InboxRowsOf(rows, id))
    [] op = "archive"     -> ArchiveRow(rows, InboxRowsOf(rows, id))
    [] op = "readAll"     -> ReadRow(rows, {r \in rows : ~r.archived /\ ~r.read})
    [] op = "archiveAll"  -> ArchiveRow(rows, {r \in rows : ~r.archived})
    [] op = "archiveRead" -> ArchiveRow(rows, {r \in rows : r.read /\ ~r.archived})
    [] op = "archiveDone" -> ArchiveRow(rows, {r \in rows : ~r.archived /\ r.id \in completed})

Optimistic == {"read", "readAll", "archiveAll", "archiveRead"}
Batches    == {"readAll", "archiveAll", "archiveRead", "archiveDone"}
InboxCall(op, id) ==
  [op |-> op, id |-> id, sel |-> IF op = "archive" THEN selectedKey ELSE 0,
   st |-> "sent", list |-> {}, old |-> FALSE]
(* Once the list has strayed the user waits for a fetch (a bound).          *)
BeginsCall(op, id) == /\ Cardinality(inboxCalls) < MaxInboxCalls
                      /\ op = "load" \/ ~inboxStrayed
                      /\ inboxCalls' = inboxCalls \cup {InboxCall(op, id)}

InboxInit ==
  /\ inboxDb = {} /\ items = {} /\ selectedKey = 0 /\ inboxWire = <<>>
  /\ inboxHears = TRUE /\ inboxStrayed = FALSE
  /\ inboxCalls = {[op |-> "load", id |-> 0, sel |-> 0, st |-> "sent", list |-> {}, old |-> FALSE]}

----------------------------------------------------------------------------
(* A notification is created and sent to its user.  A batch request on its  *)
(* way will include it although the store did not.                          *)
Stale(C) == {IF c.op = "load" /\ c.st = "done" THEN [c EXCEPT !.old = TRUE] ELSE c : c \in C}
NotificationCreated ==
  /\ Cardinality(inboxDb) < MaxItems /\ ~inboxStrayed
  /\ LET n == [id |-> Cardinality(inboxDb) + 1, read |-> FALSE, archived |-> FALSE] IN
     /\ inboxDb' = inboxDb \cup {n}
     /\ inboxWire' = IF inboxHears THEN Append(inboxWire, n) ELSE inboxWire
  /\ inboxCalls' = Stale(inboxCalls)
  /\ inboxStrayed' = (inboxStrayed \/ \E c \in inboxCalls : c.op \in Batches /\ c.st = "sent")
  /\ UNCHANGED <<items, selectedKey, inboxHears>>

(* inbox:new: addItem.                                                      *)
AddItem(rows, n) == IF InboxRowsOf(rows, n.id) # {} THEN rows ELSE rows \cup {n}
HearInboxNew ==
  /\ inboxWire # <<>>
  /\ items' = AddItem(items, Head(inboxWire))
  /\ inboxWire' = Tail(inboxWire)
  /\ UNCHANGED <<inboxDb, selectedKey, inboxHears, inboxCalls, inboxStrayed>>

InboxLinkDrops ==
  /\ inboxHears /\ inboxHears' = FALSE /\ inboxWire' = <<>>
  /\ UNCHANGED <<inboxDb, items, selectedKey, inboxCalls, inboxStrayed>>
InboxReconnects ==
  /\ ~inboxHears /\ inboxHears' = TRUE
  /\ BeginsCall("load", 0)
  /\ UNCHANGED <<inboxDb, items, selectedKey, inboxWire, inboxStrayed>>

----------------------------------------------------------------------------
(* The page.  handleSelect opens an entry and marks it read; an entry       *)
(* without an issue opens as well.                                          *)
HandleSelect ==
  \E r \in DedupedItems(items) :
    /\ selectedKey' = Key(r.id)
    /\ IF r.read THEN UNCHANGED <<items, inboxCalls>>
       ELSE items' = StoreDoes(items, "read", r.id) /\ BeginsCall("read", r.id)
    /\ UNCHANGED <<inboxDb, inboxWire, inboxHears, inboxStrayed>>

(* handleArchive archives in the store when the server has answered.        *)
HandleArchive ==
  \E r \in DedupedItems(items) :
    /\ BeginsCall("archive", r.id)
    /\ UNCHANGED <<inboxDb, items, selectedKey, inboxWire, inboxHears, inboxStrayed>>

(* The menu: mark all read, archive all, archive all read, archive          *)
(* completed.  An item on its way is on the server but not in the store.    *)
HandleBatch ==
  \E op \in Batches :
    /\ BeginsCall(op, 0)
    /\ items' = StoreDoes(items, op, 0)
    /\ selectedKey' =
         IF \/ op = "archiveAll"
            \/ op = "archiveRead" /\ \E r \in DedupedItems(items) : r.read /\ Key(r.id) = selectedKey
         THEN 0 ELSE selectedKey
    /\ inboxStrayed' = (inboxStrayed \/ inboxWire # <<>>)
    /\ UNCHANGED <<inboxDb, inboxWire, inboxHears>>

----------------------------------------------------------------------------
(* The server.  A statement that runs while another request is on its way   *)
(* may meet other rows than the store did.                                  *)
ServeInbox ==
  \E c \in inboxCalls, st \in {"done", "failed"} :
    /\ c.st = "sent"
    /\ IF c.op = "load"
       THEN /\ inboxCalls' = (inboxCalls \ {c}) \cup
                 {[c EXCEPT !.st = st, !.list = IF st = "done" THEN Active(inboxDb) ELSE {}]}
            /\ UNCHANGED <<inboxDb, inboxStrayed>>
       ELSE \E completed \in {{}, 1..SharedItems}, done \in BOOLEAN :
            /\ st = "done" => done
            /\ inboxDb' = IF done THEN DbDoes(inboxDb, c.op, c.id, completed) ELSE inboxDb
            /\ inboxCalls' = Stale(inboxCalls \ {c}) \cup {[c EXCEPT !.st = st, !.old = (st = "failed" /\ done)]}
            /\ inboxStrayed' = (inboxStrayed \/
                   \E d \in inboxCalls \ {c} : d.op # "load" /\ d.st = "sent")
    /\ UNCHANGED <<items, selectedKey, inboxWire, inboxHears>>

(* The answer: a fetch replaces the rows; archive updates the store and     *)
(* closes the entry if it was open when it was clicked; archive completed   *)
(* fetches again.                                                           *)
InboxAnswers ==
  \E c \in inboxCalls :
    /\ c.st = "done"
    /\ items' = CASE c.op = "load"    -> c.list
                  [] c.op = "archive" -> StoreDoes(items, "archive", c.id)
                  [] OTHER -> items
    /\ selectedKey' = IF \/ c.op = "archiveDone"
                         \/ c.op = "archive" /\ Key(c.id) = c.sel
                      THEN 0 ELSE selectedKey
    /\ inboxCalls' = (inboxCalls \ {c}) \cup
         (IF c.op = "archiveDone" THEN {InboxCall("load", 0)} ELSE {})
    /\ inboxStrayed' = IF c.op # "load" THEN inboxStrayed
                       ELSE \/ c.old \/ \E k \in DOMAIN inboxWire : InboxRowsOf(c.list, inboxWire[k].id) = {}
                            \/ \E d \in inboxCalls : d.op \in Optimistic /\ d.st = "sent"
    /\ UNCHANGED <<inboxDb, inboxWire, inboxHears>>

(* A failure: a toast, and a fetch where the store had gone ahead.          *)
InboxFails ==
  \E c \in inboxCalls :
    /\ c.st = "failed"
    /\ inboxCalls' = (inboxCalls \ {c}) \cup
         (IF c.op \in Optimistic THEN {InboxCall("load", 0)} ELSE {})
    /\ inboxStrayed' = (inboxStrayed \/ c.op = "load" \/ (c.op \notin Optimistic /\ c.old))
    /\ UNCHANGED <<inboxDb, items, selectedKey, inboxWire, inboxHears>>

InboxNext ==
  \/ NotificationCreated \/ HearInboxNew \/ InboxLinkDrops \/ InboxReconnects
  \/ HandleSelect \/ HandleArchive \/ HandleBatch
  \/ ServeInbox \/ InboxAnswers \/ InboxFails

InboxSpec == InboxInit /\ [][InboxNext]_inboxVars

----------------------------------------------------------------------------
(* Type correctness of the inbox; the badge never counts an entry twice.    *)
InboxTypeOK ==
  /\ inboxDb \subseteq InboxRow /\ items \subseteq InboxRow
  /\ selectedKey \in 0..MaxItems /\ inboxHears \in BOOLEAN /\ inboxStrayed \in BOOLEAN
  /\ \A r, q \in items : r.id = q.id => r = q
  /\ UnreadCount \in 0..MaxItems

(* With every request answered and every event heard, the page shows what   *)
(* the server would list, entry by entry, read or not: no archived entry    *)
(* comes back, none is lost or unread again, although nothing confirms what *)
(* the store did ahead of the server.  What leaves it wrong is recorded in  *)
(* inboxStrayed.                                                            *)
InboxConverges ==
  inboxHears /\ inboxWire = <<>> /\ inboxCalls = {} /\ ~inboxStrayed =>
    /\ Active(items) = Active(inboxDb)
    /\ DedupedItems(items) = DedupedItems(inboxDb)
=============================================================================

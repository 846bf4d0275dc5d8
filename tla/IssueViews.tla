----------------------------- MODULE IssueViews -----------------------------
(***************************************************************************)
(* The two pages that show issues in columns or lists, "issues" and "my     *)
(* issues": their persisted view stores (filters, scope, mode, sorting),    *)
(* the subscription that clears the filters when the workspace changes,     *)
(* the selection the pages share, and the board on which cards are dropped. *)
(* The requests behind them are IssueCache's.                               *)
(***************************************************************************)
EXTENDS Integers, FiniteSets, FiniteSetsExt, SequencesExt, SeqFilter

CONSTANTS NIssues,          \* issues, in the order of the store
          Columns,          \* BOARD_STATUSES
          Dims,             \* the filters besides the status one
          MaxDrops,         \* bound on the drops
          MaxViewEdits      \* bound on what the user sets

ASSUME IssueViewAssumption == NIssues \in Nat \ {0} /\ MaxDrops \in Nat /\ MaxViewEdits \in Nat

VARIABLES page,             \* the page mounted
          shownWs,          \* the workspace store's workspace, 0 for none
          registered,       \* the pages whose stores are cleared on a switch
          subscribed, prevId, \* the subscription to the workspace store
          view,             \* the two view stores
          selectedIds,
          row,              \* status and position of the issues in the store
          drops, viewEdits,
          chosenIn,         \* the workspace a page's filters were chosen in, 0 for none
          unheard,          \* pages that could not hear of a switch
          primed,           \* the workspace store changed since the subscription
          tickedIn,         \* page, mode and scope the selection was made in
          dropped           \* the column and the order the last drop asked for

viewVars == <<page, shownWs, registered, subscribed, prevId, view, selectedIds, row, drops,
              viewEdits, chosenIn, unheard, primed, tickedIn, dropped>>
pageVars == <<page, shownWs, registered, subscribed, prevId, unheard, primed>>

IssueIds   == 1..NIssues
Pages      == {"issues", "my"}
IssuesScopes == {"all", "members", "agents"}
MyScopes   == {"assigned", "created", "agents"}
Scopes(p)  == IF p = "issues" THEN IssuesScopes ELSE MyScopes
AllStatuses == Columns \cup {"cancelled"}
PickValues     == {"me", "bot", "none"}
ValueOf(i, d) == IF i % 3 = 0 THEN "none" ELSE IF i % 3 = 1 THEN "me" ELSE "bot"
HomeOf(i)  == IF i = NIssues /\ i > 3 THEN 2 ELSE 1
Unfiltered == [status |-> {}, picks |-> [d \in Dims |-> {}]]
FirstView(p) == [filters |-> Unfiltered, scope |-> IF p = "issues" THEN "all" ELSE "assigned",
                 mode |-> "board", sortBy |-> "position", direction |-> "asc"]
Powers[n \in 0..MaxDrops] == IF n = 0 THEN 1 ELSE 2 * Powers[n - 1]
Unit       == Powers[MaxDrops]   \* a position of 1: halves and quarters stay integers
NoDrop     == [column |-> "", order |-> <<>>]

IssueViewInit ==
  /\ page \in Pages /\ shownWs = 1 /\ registered = {} /\ subscribed = FALSE /\ prevId = 0
  /\ view = [p \in Pages |-> FirstView(p)] /\ selectedIds = {}
  /\ \E s \in Columns, gap \in {0, Unit} :
       row = [i \in IssueIds |-> [status |-> s, position |-> i * gap]]
  /\ drops = 0 /\ viewEdits = 0
  /\ chosenIn = [p \in Pages |-> 0] /\ unheard = {} /\ primed = FALSE
  /\ tickedIn = {} /\ dropped = NoDrop

----------------------------------------------------------------------------
(* What a page shows: its scope, filterIssues, the columns, sortIssues.     *)
InIssuesScope(i, s) == CASE s = "members" -> ValueOf(i, "assignee") = "me"
                         [] s = "agents"  -> ValueOf(i, "assignee") = "bot"
                         [] OTHER         -> TRUE
InMyScope(i, s) == CASE s = "agents"  -> ValueOf(i, "assignee") = "bot"
                     [] s = "created" -> ValueOf(i, "creator") = "me"
                     [] OTHER         -> ValueOf(i, "assignee") = "me"
InScope(i, p) ==
  /\ HomeOf(i) = shownWs
  /\ IF p = "issues" THEN InIssuesScope(i, view[p].scope) ELSE InMyScope(i, view[p].scope)

filterIssues(S, f) ==
  {i \in S : /\ f.status = {} \/ row[i].status \in f.status
             /\ \A d \in Dims : f.picks[d] = {} \/ ValueOf(i, d) \in f.picks[d]}
IssuesOf(p) == filterIssues({i \in IssueIds : InScope(i, p)}, view[p].filters)

OnBoard(p) == page = p /\ view[p].mode = "board"
OnList(p)  == page = p /\ view[p].mode = "list"
VisibleStatuses(p) ==
  IF view[p].filters.status = {} THEN Columns ELSE Columns \cap view[p].filters.status
HiddenStatuses(p) == Columns \ VisibleStatuses(p)
Column(p, s) == {i \in IssuesOf(p) : row[i].status = s}

(* A stable sort of the store's order; descending, it is reversed.          *)
Higher(i, j)  == \/ row[i].position < row[j].position
                 \/ row[i].position = row[j].position /\ i < j
ByPosition(S) == CHOOSE s \in [1..Cardinality(S) -> S] :
                   \A j, k \in DOMAIN s : j < k => Higher(s[j], s[k])
ByTitle(S)    == CHOOSE s \in [1..Cardinality(S) -> S] :
                   \A j, k \in DOMAIN s : j < k => s[j] > s[k]
sortIssues(S, v) ==
  LET sorted == IF v.sortBy = "position" THEN ByPosition(S) ELSE ByTitle(S) IN
  IF v.direction = "desc" THEN Reverse(sorted) ELSE sorted

----------------------------------------------------------------------------
(* A page mounts: it clears the selection and registers its store; the      *)
(* import that subscribes comes later, once.                                *)
OpenPage ==
  \E p \in Pages \cup {"elsewhere"} :
    /\ p # page /\ shownWs # 0 /\ page' = p
    /\ registered' = IF p \in Pages THEN registered \cup {p} ELSE registered
    /\ selectedIds' = IF p \in Pages THEN {} ELSE selectedIds
    /\ tickedIn' = IF p \in Pages THEN {} ELSE tickedIn
    /\ dropped' = NoDrop
    /\ UNCHANGED <<shownWs, subscribed, prevId, view, row, drops, viewEdits, chosenIn, unheard, primed>>
FirstMount ==
  /\ page \in Pages \ registered /\ registered' = registered \cup {page}
  /\ UNCHANGED <<page, shownWs, subscribed, prevId, view, selectedIds, row, drops, viewEdits,
                 chosenIn, unheard, primed, tickedIn, dropped>>
Subscribes ==
  /\ registered # {} /\ ~subscribed /\ subscribed' = TRUE
  /\ UNCHANGED <<page, shownWs, registered, prevId, view, selectedIds, row, drops, viewEdits,
                 chosenIn, unheard, primed, tickedIn, dropped>>

(* The workspace store changes: its workspace, or, with it kept, its lists. *)
ClearsShown(w) == IF prevId # 0 /\ w # prevId THEN registered \cap {page} ELSE {}  \* mutant: one store
Clears(w) == IF prevId # 0 /\ w # prevId THEN registered ELSE {}
StoreChanges ==
  \E w \in 0..2 :
    /\ (w # shownWs => viewEdits < MaxViewEdits) /\ shownWs' = w
    /\ viewEdits' = IF w # shownWs THEN viewEdits + 1 ELSE viewEdits
    /\ page' = IF w = 0 THEN "elsewhere" ELSE page
    /\ prevId' = IF subscribed THEN w ELSE prevId
    /\ primed' = (subscribed /\ w # 0)
    /\ LET cleared == IF subscribed THEN Clears(w) ELSE {} IN
       /\ view' = [p \in Pages |-> IF p \in cleared THEN [view[p] EXCEPT !.filters = Unfiltered] ELSE view[p]]
       /\ chosenIn' = [p \in Pages |-> IF p \in cleared THEN 0 ELSE chosenIn[p]]
    /\ unheard' = unheard \cup (IF w = shownWs THEN {} ELSE IF primed THEN Pages \ registered ELSE Pages)
    /\ dropped' = NoDrop
    /\ UNCHANGED <<registered, subscribed, selectedIds, row, drops, tickedIn>>

----------------------------------------------------------------------------
(* The headers: filters, scope, mode, sorting.                              *)
Sets(p, v) ==
  /\ page = p /\ viewEdits < MaxViewEdits /\ viewEdits' = viewEdits + 1
  /\ view' = [view EXCEPT ![p] = v] /\ dropped' = NoDrop
  /\ UNCHANGED <<pageVars, row, drops>>
SetsFilters(p, f) ==
  /\ Sets(p, [view[p] EXCEPT !.filters = f])
  /\ chosenIn' = [chosenIn EXCEPT ![p] = IF f = Unfiltered THEN 0
                                         ELSE IF @ = 0 THEN shownWs ELSE @]
  /\ UNCHANGED <<selectedIds, tickedIn>>
Flipped(S, x) == IF x \in S THEN S \ {x} ELSE S \cup {x}

Hidden(S, s)  == (IF S = {} THEN AllStatuses ELSE S) \ {s}
Unhidden(S, s) == IF S = {} THEN S ELSE S \cup {s}

ToggleStatusFilter(p) ==
  \E s \in AllStatuses : SetsFilters(p, [view[p].filters EXCEPT !.status = Flipped(@, s)])
TogglePick(p, dims) ==
  \E d \in dims, x \in PickValues :
    SetsFilters(p, [view[p].filters EXCEPT !.picks[d] = Flipped(@, x)])
ClearFilters(p) == view[p].filters # Unfiltered /\ SetsFilters(p, Unfiltered)
HideStatus(p) ==
  \E s \in VisibleStatuses(p) :
    OnBoard(p) /\ SetsFilters(p, [view[p].filters EXCEPT !.status = Hidden(@, s)])
ShowStatus(p) ==
  \E s \in HiddenStatuses(p) :
    OnBoard(p) /\ SetsFilters(p, [view[p].filters EXCEPT !.status = Unhidden(@, s)])

(* The effect on mode and scope clears the selection.                       *)
SetViewMode(p) ==
  \E m \in {"board", "list"} :
    /\ m # view[p].mode /\ Sets(p, [view[p] EXCEPT !.mode = m])
    /\ selectedIds' = {} /\ tickedIn' = {} /\ UNCHANGED chosenIn
SetScope(p) ==
  \E s \in Scopes(p) \ {view[p].scope} :
    /\ Sets(p, [view[p] EXCEPT !.scope = s])
    /\ selectedIds' = {} /\ tickedIn' = {} /\ UNCHANGED chosenIn
SetSort(p) ==
  /\ \/ \E by \in {"position", "title"} \ {view[p].sortBy} : Sets(p, [view[p] EXCEPT !.sortBy = by])
     \/ \E dir \in {"asc", "desc"} \ {view[p].direction} : Sets(p, [view[p] EXCEPT !.direction = dir])
  /\ UNCHANGED <<selectedIds, tickedIn, chosenIn>>

(* What the two headers offer; the filters of "my issues" are fewer.        *)
IssuesScopeTabs   == SetScope("issues")
IssuesFilterMenu  == ToggleStatusFilter("issues") \/ TogglePick("issues", Dims) \/ ClearFilters("issues")
IssuesViewToggle  == SetViewMode("issues")
IssuesDisplay     == SetSort("issues")
MyScopeTabs       == SetScope("my")
MyFilterMenu      == \/ ToggleStatusFilter("my") \/ TogglePick("my", Dims \cap {"priority"})
                     \/ ClearFilters("my")
MyViewToggle      == SetViewMode("my")
MyDisplay         == SetSort("my")
ColumnMenus       == \E p \in Pages : HideStatus(p) \/ ShowStatus(p)

(* ListRow's box; the box of a list's header; the toolbar's cross.          *)
Ticks(S) ==
  /\ page \in Pages /\ OnList(page) /\ viewEdits < MaxViewEdits
  /\ viewEdits' = viewEdits + 1 /\ selectedIds' = S
  /\ tickedIn' = IF S = {} THEN {} ELSE tickedIn \cup {<<page, view[page].mode, view[page].scope>>}
  /\ UNCHANGED <<pageVars, view, row, drops, chosenIn, dropped>>
ToggleIssue == page \in Pages /\ \E i \in IssuesOf(page) :
                 row[i].status \in VisibleStatuses(page) /\ Ticks(Flipped(selectedIds, i))
ToggleColumn ==
  page \in Pages /\ \E s \in VisibleStatuses(page) :
    Ticks(IF Column(page, s) \subseteq selectedIds THEN selectedIds \ Column(page, s)
          ELSE selectedIds \cup Column(page, s))
ClearSelection == selectedIds # {} /\ Ticks({})

----------------------------------------------------------------------------
(* BoardView.  A column's siblings by position, the dragged card left out,  *)
(* and a position at an index of theirs.                                    *)
Siblings(p, s, card) == ByPosition(Column(p, s) \ {card})
ComputePosition(sib, k) ==
  LET at(n) == row[sib[n]].position IN
  CASE sib = <<>>    -> 0
    [] sib # <<>> /\ k <= 0        -> at(1) - Unit
    [] sib # <<>> /\ k >= Len(sib) -> at(Len(sib)) + Unit
    [] OTHER         -> (at(k) + at(k + 1)) \div 2

(* onto a card of the same column further down: after it, else before it.   *)
Place(q, i) == CHOOSE n \in 1..Len(q) : q[n] = i
IndexUp(sib, card, over) ==  \* mutant of IndexAt: always before it
  IF over = 0 THEN Len(sib) ELSE Place(sib, over) - 1
IndexAt(sib, card, over) ==
  IF over = 0 THEN Len(sib)
  ELSE IF row[card].status = row[over].status /\ row[card].position < row[over].position
       THEN Place(sib, over) ELSE Place(sib, over) - 1
Target(s, over) == IF over = 0 THEN s ELSE row[over].status
Moved(p, card, s, over) ==
  LET sib == Siblings(p, Target(s, over), card) IN
  [row EXCEPT ![card] = [status |-> Target(s, over),
                         position |-> ComputePosition(sib, IndexAt(sib, card, over))]]

(* What the user sees and asks for: the card taken out of the order shown   *)
(* and put after the card it is pulled down onto, before it otherwise, or   *)
(* at the end of the column.                                                *)
Asked(p, card, s, over) ==
  LET shown == sortIssues(Column(p, Target(s, over)), view[p])
      rest  == Only(shown, IssueIds \ {card})
      k     == IF over = 0 THEN Len(rest)
               ELSE IF row[card].status = row[over].status /\ Place(shown, card) < Place(shown, over)
                    THEN Place(rest, over) ELSE Place(rest, over) - 1
  IN  InsertAt(rest, k + 1, card)
Distinct(p, s, card) ==
  \A i, j \in Column(p, s) \cup {card} : i # j => row[i].position # row[j].position

(* A drop onto a card, or (over = 0) onto a column; handleMoveIssue turns   *)
(* the sorting to manual.  What was asked is kept where the order shown was *)
(* the manual one, ascending, and no two positions were equal.              *)
OnItsCard(p, i) == i \in IssuesOf(p) /\ row[i].status \in VisibleStatuses(p)
Manual(v) == IF v.sortBy = "position" THEN v ELSE [v EXCEPT !.sortBy = "position", !.direction = "asc"]
DropCard ==
  \E p \in Pages \cap {page}, card \in IssueIds, s \in Columns, over \in IssueIds \cup {0} :
    LET v == view[p] IN
    /\ OnBoard(p) /\ drops < MaxDrops /\ OnItsCard(p, card) /\ s \in VisibleStatuses(p)
    /\ over # 0 => OnItsCard(p, over) /\ over # card /\ row[over].status = s
    /\ drops' = drops + 1 /\ row' = Moved(p, card, s, over)
    /\ view' = IF row' = row THEN view ELSE [view EXCEPT ![p] = Manual(@)]
    /\ dropped' = IF v.sortBy = "position" /\ v.direction = "asc" /\ Distinct(p, s, card)
                  THEN [column |-> s, order |-> Asked(p, card, s, over)] ELSE NoDrop
    /\ UNCHANGED <<pageVars, selectedIds, viewEdits, chosenIn, tickedIn>>

(* Another user drops a card on a board without filters; a new issue, or a  *)
(* change of status elsewhere, leaves the position alone.                   *)
OthersDrop ==
  \E card, over \in IssueIds :
    /\ drops < MaxDrops /\ drops' = drops + 1 /\ card # over /\ HomeOf(card) = HomeOf(over)
    /\ LET S   == {i \in IssueIds \ {card} : HomeOf(i) = HomeOf(over) /\ row[i].status = row[over].status}
           sib == ByPosition(S) IN
       row' = [row EXCEPT ![card] = [status |-> row[over].status,
                                     position |-> ComputePosition(sib, IndexAt(sib, card, over))]]
    /\ dropped' = NoDrop
    /\ UNCHANGED <<pageVars, view, selectedIds, viewEdits, chosenIn, tickedIn>>
OthersSetStatus ==
  \E i \in IssueIds : \E s \in AllStatuses \ {row[i].status} :
    /\ drops < MaxDrops /\ drops' = drops + 1
    /\ row' = [row EXCEPT ![i].status = s] /\ dropped' = NoDrop
    /\ UNCHANGED <<pageVars, view, selectedIds, viewEdits, chosenIn, tickedIn>>

ViewSteps ==
  \/ OpenPage \/ FirstMount \/ Subscribes \/ StoreChanges
  \/ IssuesScopeTabs \/ IssuesFilterMenu \/ IssuesViewToggle \/ IssuesDisplay
  \/ MyScopeTabs \/ MyFilterMenu \/ MyViewToggle \/ MyDisplay \/ ColumnMenus
  \/ ToggleIssue \/ ToggleColumn \/ ClearSelection
BoardSteps ==
  \/ DropCard \/ OthersDrop \/ OthersSetStatus
  \/ IssuesDisplay \/ MyDisplay \/ IssuesFilterMenu \/ MyFilterMenu \/ ColumnMenus

IssueViewSpec == IssueViewInit /\ [][ViewSteps \/ BoardSteps]_viewVars

----------------------------------------------------------------------------
(* Type correctness of the pages.                                           *)
IssueViewTypeOK ==
  /\ page \in Pages \cup {"elsewhere"} /\ shownWs \in 0..2 /\ prevId \in 0..2
  /\ registered \subseteq Pages /\ unheard \subseteq Pages /\ selectedIds \subseteq IssueIds
  /\ \A p \in Pages : view[p].scope \in Scopes(p) /\ view[p].filters.status \subseteq AllStatuses
  /\ row \in [IssueIds -> [status : AllStatuses, position : Int]]
  /\ drops \in 0..MaxDrops /\ viewEdits \in 0..MaxViewEdits

(* The filters of a workspace are gone when another one is shown -- unless  *)
(* the page's store was not registered yet, or the subscription had not     *)
(* seen a workspace yet, when the workspace changed.                        *)
FiltersStayHome ==
  \A p \in Pages \ unheard : shownWs # 0 => chosenIn[p] \in {0, shownWs}

(* The two pages share one selection: it is always of the page, the mode    *)
(* and the scope shown.                                                     *)
SelectionOfView ==
  page \in Pages => tickedIn \subseteq {<<page, view[page].mode, view[page].scope>>}

(* A card dropped on a manually sorted board is shown where it was dropped, *)
(* among the cards that pass the filters, whatever drops, of this user or   *)
(* of others, came before: the midpoint does what taking the card out and   *)
(* putting it in would, the card it is dropped onto being the one above or  *)
(* below.                                                                   *)
DropsLand ==
  dropped # NoDrop => sortIssues(Column(page, dropped.column), view[page]) = dropped.order
=============================================================================

-------------------------------- MODULE MCWeb ---------------------------------
(***************************************************************************)
(* The web client's copies of what the server has: the session and its     *)
(* workspace, the socket, the issue list, a thread, reactions and          *)
(* subscribers, the inbox, the card of an agent at work, and the pages and *)
(* board on which issues are shown. Each follows the server by requests    *)
(* and events of its own and reads nothing of another, so that the         *)
(* behaviours to look at are those of one at a time: focus says which one  *)
(* moves.                                                                  *)
(***************************************************************************)
EXTENDS WebSession, Realtime, IssueCache, IssueTimeline, IssueMarks,
        InboxView, LiveCard, IssueViews, TLC

VARIABLE focus

webVars == <<focus, sessionVars, realtimeVars, issueVars, timelineVars,
            markVars, inboxVars, cardVars, viewVars>>

Parts == {"session", "socket", "issues", "timeline", "marks", "inbox",
          "card", "views", "board"}

\* A part that is not looked at stays where it starts.
WebInit ==
    /\ focus \in Parts
    /\ SessionInit /\ RealtimeInit /\ IssueInit /\ TimelineInit
    /\ MarkInit /\ InboxInit /\ CardInit /\ IssueViewInit
    /\ focus # "session" => memberOf = Ws /\ stored = [token |-> FALSE, ws |-> NoWs]
    /\ focus # "issues" => \A i \in Issues : issueServer[i] = Gone
    /\ focus # "marks" => markKind = "reaction"
    /\ focus # "card" => task = 0 /\ written = {}
    /\ focus # "board" => \A i \in IssueIds : row[i].position = 0
    /\ (focus \notin {"views", "board"} => page = "issues")
    /\ \A i \in IssueIds : row[i].status = CHOOSE s \in Columns : TRUE
    /\ (focus = "board" => \A i \in IssueIds : row[i].position = i * Unit)

MovesSession == focus = "session" /\ SessionNext
    /\ UNCHANGED <<focus, realtimeVars, issueVars, timelineVars, markVars,
                   inboxVars, cardVars, viewVars>>
MovesSocket == focus = "socket" /\ RealtimeNext
    /\ UNCHANGED <<focus, sessionVars, issueVars, timelineVars, markVars,
                   inboxVars, cardVars, viewVars>>
MovesIssues == focus = "issues" /\ IssueNext
    /\ UNCHANGED <<focus, sessionVars, realtimeVars, timelineVars, markVars,
                   inboxVars, cardVars, viewVars>>
MovesTimeline == focus = "timeline" /\ TimelineNext
    /\ UNCHANGED <<focus, sessionVars, realtimeVars, issueVars, markVars,
                   inboxVars, cardVars, viewVars>>
MovesMarks == focus = "marks" /\ MarkNext
    /\ UNCHANGED <<focus, sessionVars, realtimeVars, issueVars, timelineVars,
                   inboxVars, cardVars, viewVars>>
MovesInbox == focus = "inbox" /\ InboxNext
    /\ UNCHANGED <<focus, sessionVars, realtimeVars, issueVars, timelineVars,
                   markVars, cardVars, viewVars>>
MovesCard == focus = "card" /\ CardNext
    /\ UNCHANGED <<focus, sessionVars, realtimeVars, issueVars, timelineVars,
                   markVars, inboxVars, viewVars>>
MovesViews == focus = "views" /\ ViewSteps
    /\ UNCHANGED <<focus, sessionVars, realtimeVars, issueVars, timelineVars,
                   markVars, inboxVars, cardVars>>
MovesBoard == focus = "board" /\ BoardSteps
    /\ UNCHANGED <<focus, sessionVars, realtimeVars, issueVars, timelineVars,
                   markVars, inboxVars, cardVars>>

WebNext ==
    \/ MovesSession \/ MovesSocket \/ MovesIssues \/ MovesTimeline
    \/ MovesMarks \/ MovesInbox \/ MovesCard \/ MovesViews \/ MovesBoard

WebSpec == WebInit /\ [][WebNext]_webVars

\* Type correctness of the part that moves.
WebTypeOK ==
    /\ focus = "session" => SessionTypeOK
    /\ focus = "socket" => RealtimeTypeOK
    /\ focus = "issues" => IssueTypeOK
    /\ focus = "timeline" => TimelineTypeOK
    /\ focus = "marks" => MarkTypeOK
    /\ focus = "inbox" => InboxTypeOK
    /\ focus = "card" => CardTypeOK
    /\ focus \in {"views", "board"} => IssueViewTypeOK

\* Nothing of a workspace or a view is asked for, or acted on, in another: no
\* request, no filter, no selection (and every variable keeps its type).
NothingFromElsewhere ==
    /\ WebTypeOK
    /\ RequestsAreOfShown /\ FiltersStayHome /\ SelectionOfView

\* Workspaces are interchangeable.
Perms == Permutations(Ws)
===============================================================================

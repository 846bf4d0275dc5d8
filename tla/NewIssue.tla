------------------------------ MODULE NewIssue ------------------------------
(***************************************************************************)
(* The modals: the one that creates an issue, with its draft, which is kept *)
(* in the browser whatever becomes of the modal, and the one that creates a *)
(* workspace.  And who may be made an assignee: what the pickers offer and  *)
(* what the server takes.  Status, priority and due date go the way of the  *)
(* assignee.  A text is the number of the edit that wrote it, 0 when empty. *)
(***************************************************************************)
EXTENDS Integers

CONSTANTS MaxTyped,         \* bound on the edits of texts
          MaxModalCalls,    \* bound on the requests
          MaxAgentChanges   \* bound on what changes about agents and roles

ASSUME ModalAssumption == {MaxTyped, MaxModalCalls, MaxAgentChanges} \subseteq Nat

VARIABLES modal,            \* the modal open
          formIssue, descPending,  \* its fields; the description's debounce runs
          submitting,
          issueDraft,       \* the persisted draft
          inWs,             \* the workspace shown
          modalCalls,       \* requests under way, with whether their modal is
                            \* still mounted
          madeIssues,       \* issues created: where and for whom
          rights, knownRights,  \* the server's agents and this user's role, the client's
          typedTexts, callsMade, rightsChanges,
          wanted,           \* what the user typed last
          crossed,          \* typed or reopened while a creation was under way
          carried           \* the draft had an assignee when the workspace changed

modalVars == <<modal, formIssue, descPending, submitting, issueDraft, inWs, modalCalls, madeIssues,
               rights, knownRights, typedTexts, callsMade, rightsChanges, wanted, crossed, carried>>
rightsVars == <<rights, knownRights, rightsChanges>>
screenVars == <<modal, formIssue, descPending, submitting, issueDraft>>

(* The first workspace has another member and two agents, one the user's.   *)
OwnAgent  == "mine"
Bots      == {"mine", "theirs"}
Assignees == Bots \cup {"peer", "none"}
EmptyDraft == [title |-> 0, desc |-> 0, assignee |-> "none"]
IssueDraft == [title : 0..MaxTyped, desc : 0..MaxTyped, assignee : Assignees]
Rights     == [role : {"member", "admin"}, hidden : SUBSET Bots, archived : SUBSET Bots]
Underway   == \E c \in modalCalls : c.op \in {"create", "created"}

ModalInit ==
  /\ modal = "none" /\ formIssue = EmptyDraft /\ descPending = FALSE /\ submitting = FALSE
  /\ issueDraft = EmptyDraft /\ inWs = 1 /\ modalCalls = {} /\ madeIssues = {}
  /\ rights = [role |-> "member", hidden |-> {}, archived |-> {}] /\ knownRights = rights
  /\ typedTexts = 0 /\ callsMade = 0 /\ rightsChanges = 0
  /\ wanted = EmptyDraft /\ crossed = FALSE /\ carried = FALSE

----------------------------------------------------------------------------
(* Who may be assigned: the picker of an issue, the modal's, the server.    *)
Picker(a, known) ==
  /\ a \notin known.archived
  /\ a \notin known.hidden \/ a = OwnAgent \/ known.role = "admin"
ModalOffers(a) == \/ a = "none"
                  \/ inWs = 1 /\ (a \in Bots => a \notin knownRights.archived)
ServerTakes(a, ws) ==
  a \in Bots => /\ ws = 1 /\ a \notin rights.archived
                /\ a \notin rights.hidden \/ a = OwnAgent \/ rights.role = "admin"

RightsChange ==
  /\ rightsChanges < MaxAgentChanges /\ rightsChanges' = rightsChanges + 1
  /\ \/ \E a \in Bots : \/ rights' = [rights EXCEPT !.hidden = @ \cup {a}]
                        \/ rights' = [rights EXCEPT !.archived = @ \cup {a}]
     \/ rights' = [rights EXCEPT !.role = "admin"]
  /\ UNCHANGED <<screenVars, inWs, modalCalls, madeIssues, knownRights, typedTexts, callsMade,
                 wanted, crossed, carried>>
RightsKnown ==
  /\ knownRights # rights /\ knownRights' = rights
  /\ UNCHANGED <<screenVars, inWs, modalCalls, madeIssues, rights, rightsChanges, typedTexts,
                 callsMade, wanted, crossed, carried>>

----------------------------------------------------------------------------
(* The modal store: one modal, open or not.  Closing unmounts the modal:    *)
(* the description of the last half second is in no draft.                  *)
OpenIssueModal ==
  /\ modal = "none" /\ modal' = "issue" /\ formIssue' = issueDraft
  /\ descPending' = FALSE /\ submitting' = FALSE
  /\ crossed' = (crossed \/ Underway)
  /\ UNCHANGED <<issueDraft, inWs, modalCalls, madeIssues, rightsVars, typedTexts, callsMade, wanted, carried>>
OpenWorkspaceModal ==
  /\ modal = "none" /\ modal' = "workspace" /\ submitting' = FALSE
  /\ UNCHANGED <<formIssue, descPending, issueDraft, inWs, modalCalls, madeIssues, rightsVars,
                 typedTexts, callsMade, wanted, crossed, carried>>
Unmounted(calls) == {[c EXCEPT !.live = FALSE] : c \in calls}
Closes ==
  /\ modal' = "none" /\ formIssue' = EmptyDraft /\ descPending' = FALSE /\ submitting' = FALSE
Shut ==
  /\ modal # "none" /\ Closes /\ modalCalls' = Unmounted(modalCalls)
  /\ wanted' = IF descPending THEN [wanted EXCEPT !.desc = issueDraft.desc] ELSE wanted
  /\ UNCHANGED <<issueDraft, inWs, madeIssues, rightsVars, typedTexts, callsMade, crossed, carried>>

(* updateTitle, the editor's update and its debounce, updateAssignee.  No   *)
(* field is disabled while a creation is under way.                         *)
Typing ==
  /\ modal = "issue" /\ typedTexts < MaxTyped /\ typedTexts' = typedTexts + 1
  /\ crossed' = (crossed \/ Underway)
  /\ UNCHANGED <<modal, submitting, inWs, modalCalls, madeIssues, rightsVars, callsMade, carried>>
TypeTitle ==
  /\ Typing /\ UNCHANGED descPending
  /\ formIssue' = [formIssue EXCEPT !.title = typedTexts'] /\ wanted' = [wanted EXCEPT !.title = typedTexts']
  /\ issueDraft' = [issueDraft EXCEPT !.title = typedTexts']
TypeDescription ==
  /\ Typing /\ descPending' = TRUE /\ UNCHANGED issueDraft
  /\ formIssue' = [formIssue EXCEPT !.desc = typedTexts'] /\ wanted' = [wanted EXCEPT !.desc = typedTexts']
DescriptionSettles ==
  /\ descPending /\ descPending' = FALSE /\ issueDraft' = [issueDraft EXCEPT !.desc = formIssue.desc]
  /\ UNCHANGED <<modal, formIssue, submitting, inWs, modalCalls, madeIssues, rightsVars, typedTexts,
                 callsMade, wanted, crossed, carried>>
UpdateAssignee ==
  \E a \in Assignees \ {formIssue.assignee} :
    /\ modal = "issue" /\ ModalOffers(a)
    /\ formIssue' = [formIssue EXCEPT !.assignee = a] /\ issueDraft' = [issueDraft EXCEPT !.assignee = a]
    /\ crossed' = (crossed \/ Underway)
    /\ UNCHANGED <<modal, descPending, submitting, inWs, modalCalls, madeIssues, rightsVars,
                   typedTexts, callsMade, wanted, carried>>

----------------------------------------------------------------------------
Calls(op) ==
  /\ callsMade < MaxModalCalls /\ callsMade' = callsMade + 1 /\ ~submitting /\ submitting' = TRUE
  /\ modalCalls' = modalCalls \cup {[op |-> op, ws |-> inWs, assignee |-> formIssue.assignee,
                                     live |-> TRUE, no |-> callsMade]}
  /\ UNCHANGED <<modal, formIssue, descPending, issueDraft, inWs, madeIssues, rightsVars, typedTexts,
                 wanted, crossed, carried>>
SubmitIssue     == modal = "issue" /\ formIssue.title # 0 /\ Calls("create")
SubmitWorkspace == modal = "workspace" /\ Calls("workspace")

ServerCreatesIssue ==
  \E c \in modalCalls :
    /\ c.op = "create" /\ ServerTakes(c.assignee, c.ws)
    /\ madeIssues' = madeIssues \cup {[ws |-> c.ws, assignee |-> c.assignee]}
    /\ modalCalls' = (modalCalls \ {c}) \cup {[c EXCEPT !.op = "created"]}
    /\ UNCHANGED <<screenVars, inWs, rightsVars, typedTexts, callsMade, wanted, crossed, carried>>

(* The answer clears the draft, and closes the modal that is open then.     *)
IssueCreated ==
  \E c \in modalCalls :
    /\ c.op = "created" /\ Closes /\ issueDraft' = EmptyDraft
    /\ modalCalls' = Unmounted(modalCalls \ {c})
    /\ wanted' = EmptyDraft /\ crossed' = \E d \in modalCalls \ {c} : d.op \in {"create", "created"}
    /\ UNCHANGED <<inWs, madeIssues, rightsVars, typedTexts, callsMade, carried>>

(* A new workspace is switched to, and the modal open then is closed.       *)
WorkspaceCreated ==
  \E c \in modalCalls :
    /\ c.op = "workspace" /\ Closes /\ inWs' = 3 - inWs
    /\ modalCalls' = Unmounted(modalCalls \ {c})
    /\ wanted' = IF descPending THEN [wanted EXCEPT !.desc = issueDraft.desc] ELSE wanted
    /\ carried' = (carried \/ issueDraft.assignee # "none")
    /\ UNCHANGED <<issueDraft, madeIssues, rightsVars, typedTexts, callsMade, crossed>>

(* Refused, failed, or the answer is lost: a message, and the form stays.   *)
AfterFailureCleared(d) == EmptyDraft  \* mutant of AfterFailure
AfterFailure(d) == d
ModalCallFails ==
  \E c \in modalCalls :
    /\ modalCalls' = modalCalls \ {c}
    /\ submitting' = (submitting /\ ~c.live) /\ issueDraft' = AfterFailure(issueDraft)
    /\ UNCHANGED <<modal, formIssue, descPending, inWs, madeIssues, rightsVars, typedTexts, callsMade,
                   wanted, crossed, carried>>

(* The switcher of workspaces, behind no modal.                             *)
SwitchesWorkspace ==
  /\ modal = "none" /\ callsMade < MaxModalCalls /\ callsMade' = callsMade + 1
  /\ inWs' = 3 - inWs /\ carried' = (carried \/ issueDraft.assignee # "none")
  /\ UNCHANGED <<screenVars, modalCalls, madeIssues, rightsVars, typedTexts, wanted, crossed>>

ModalSteps ==
  \/ OpenIssueModal \/ OpenWorkspaceModal \/ Shut
  \/ TypeTitle \/ TypeDescription \/ DescriptionSettles \/ UpdateAssignee
  \/ SubmitIssue \/ SubmitWorkspace \/ ServerCreatesIssue \/ IssueCreated
  \/ WorkspaceCreated \/ ModalCallFails \/ SwitchesWorkspace
RightsSteps ==
  \/ RightsChange \/ RightsKnown \/ OpenIssueModal \/ TypeTitle \/ UpdateAssignee
  \/ SubmitIssue \/ ServerCreatesIssue \/ ModalCallFails \/ SwitchesWorkspace

ModalNext == ModalSteps \/ RightsSteps
ModalSpec == ModalInit /\ [][ModalNext]_modalVars

----------------------------------------------------------------------------
(* Type correctness of the modals.                                          *)
ModalTypeOK ==
  /\ modal \in {"none", "issue", "workspace"} /\ formIssue \in IssueDraft /\ issueDraft \in IssueDraft
  /\ descPending \in BOOLEAN /\ submitting \in BOOLEAN /\ inWs \in 1..2
  /\ madeIssues \subseteq [ws : 1..2, assignee : Assignees]
  /\ rights \in Rights /\ knownRights \in Rights /\ callsMade \in 0..MaxModalCalls

(* However modals are closed, reopened and replaced and creations fail or   *)
(* are late, what the user typed last is in the form or in the draft until  *)
(* the issue is made -- unless it was typed, or the modal opened again,     *)
(* while an earlier creation was under way: its answer wipes it.            *)
NothingTypedLost ==
  ~crossed => LET kept == IF modal = "issue" THEN formIssue ELSE issueDraft IN
              kept.title = wanted.title /\ kept.desc = wanted.desc

(* An agent is assigned in its workspace only, although the draft crosses   *)
(* workspaces; a member, whom the server does not check, unless it crossed. *)
AssigneesAtHome ==
  \A i \in madeIssues : i.assignee # "none" /\ i.ws # 1 => i.assignee = "peer" /\ carried

(* The picker of an issue offers the agents the server takes, when it knows *)
(* what the server knows.                                                   *)
PickerAgrees == knownRights = rights => \A a \in Bots : Picker(a, knownRights) <=> ServerTakes(a, 1)
=============================================================================

----------------------------- MODULE AgentPage ------------------------------
(***************************************************************************)
(* The agents page: the list with its filter, the agent shown with one tab  *)
(* at a time, what is typed in the tab and not saved yet, and the calls it  *)
(* makes.  Each value says for which agent it was written, and by whom.     *)
(***************************************************************************)
EXTENDS Naturals, FiniteSets, FiniteSetsExt

CONSTANTS NAgents,          \* agents, in the order of the list
          Skills,           \* the workspace's skills
          ListTabs,         \* of tools and triggers, the tabs whose value is an array
          MaxAgentCalls,    \* bound on the calls in flight
          MaxAgentEdits     \* bound on what the others and the user start

ASSUME AgentAssumption == /\ NAgents \in Nat \ {0} /\ ListTabs \subseteq {"tools", "triggers"}
                          /\ MaxAgentCalls \in Nat /\ MaxAgentEdits \in Nat

VARIABLES atServer,         \* the server's agents
          agents,           \* the workspace store's
          selectedId, showArchived,
          tab, draft,       \* the tab shown, what its fields hold
          tasksOf,          \* whose tasks the tasks tab lists, 0 while loading
          agentCalls,       \* calls in flight
          agentEdits

agentVars == <<atServer, agents, selectedId, showArchived, tab, draft, tasksOf,
               agentCalls, agentEdits>>
shownVars == <<agents, selectedId, showArchived, tab, draft, tasksOf>>

AgentIds   == 1..NAgents
AgentParts == ListTabs \cup {"instructions", "settings"}
AgentTabs  == AgentParts \cup {"skills", "tasks"}
AgentValue == [for : AgentIds, by : {"first", "me", "other"}]
FirstValue(a)  == [for |-> a, by |-> "first"]
AgentRow(a, by) == [made |-> TRUE, archived |-> FALSE, skills |-> {},
               parts |-> [p \in AgentParts |-> [for |-> a, by |-> by]]]
NotMade(a) == [AgentRow(a, "first") EXCEPT !.made = FALSE]
AgentRows  == [made : BOOLEAN, archived : BOOLEAN, skills : SUBSET Skills, parts : [AgentParts -> AgentValue]]

Filtered(list, archived) == {a \in AgentIds : list[a].made /\ list[a].archived = archived}
ArchivedCount == Cardinality(Filtered(agents, TRUE))

(* A call: what it writes, and whether the tab that waits for it is still   *)
(* there.  Every write is followed by a refresh of the list.                *)
AgentCall(op, a) == [op |-> op, id |-> a, part |-> "settings", value |-> FirstValue(a),
                skills |-> {}, list |-> <<>>, live |-> TRUE]
AgentBusy(op)   == \E c \in agentCalls : c.op = op /\ c.live
SavingTab     == \E c \in agentCalls : c.op \in {"update", "updated"} /\ c.live
Creating   == AgentBusy("create")
AgentStarts(c)  == /\ Cardinality(agentCalls) < MaxAgentCalls /\ agentEdits < MaxAgentEdits
              /\ agentCalls' = agentCalls \cup {c} /\ agentEdits' = agentEdits + 1
Orphans(C) == {IF c.op \in {"create", "created"} THEN c ELSE [c EXCEPT !.live = FALSE] : c \in C}

AgentInit ==
  /\ \E made \in SUBSET AgentIds :
       atServer = [a \in AgentIds |-> IF a \in made THEN AgentRow(a, "first") ELSE NotMade(a)]
  /\ agents = atServer
  /\ selectedId = IF Filtered(agents, FALSE) = {} THEN 0 ELSE Min(Filtered(agents, FALSE))
  /\ showArchived = FALSE /\ tab = "instructions" /\ tasksOf = 0
  /\ draft = IF selectedId = 0 THEN FirstValue(1) ELSE FirstValue(selectedId)
  /\ agentCalls = {} /\ agentEdits = 0

----------------------------------------------------------------------------
(* A render.  The effect keeps the selection inside the filtered list; the  *)
(* detail is keyed by the agent, so another one starts at the first tab.    *)
Selection(list, archived, a) ==
  LET f == Filtered(list, archived) IN IF f # {} /\ a \notin f THEN Min(f) ELSE a

RemountsNever(a) == FALSE  \* mutant of Remounts: without the key
Remounts(a) == a # selectedId

(* The tabs' effects: instructions follow a new text, tools and triggers a  *)
(* new list of agents whatever it says, settings nothing.                   *)
Synced(list, a, new) ==
  CASE tab = "instructions" /\ (a # selectedId \/ list[a].parts[tab] # agents[a].parts[tab]) -> list[a].parts[tab]
    [] tab \in ListTabs /\ (a # selectedId \/ new) -> list[a].parts[tab]
    [] OTHER -> draft

Renders(list, archived, wanted, new) ==
  LET a == Selection(list, archived, wanted) IN
  /\ agents' = list /\ showArchived' = archived /\ selectedId' = a
  /\ IF a = 0 THEN UNCHANGED <<tab, draft, tasksOf>>
     ELSE IF Remounts(a)
     THEN tab' = "instructions" /\ draft' = list[a].parts["instructions"] /\ tasksOf' = 0
     ELSE draft' = Synced(list, a, new) /\ UNCHANGED <<tab, tasksOf>>
StillLive(a, C) == IF Remounts(a) THEN Orphans(C) ELSE C

(* AgentListItem, and the button that shows the archived ones.              *)
SelectAgent ==
  \E a \in Filtered(agents, showArchived) :
    /\ Renders(agents, showArchived, a, FALSE)
    /\ agentCalls' = StillLive(selectedId', agentCalls)
    /\ UNCHANGED <<atServer, agentEdits>>

ShowArchived ==
  /\ ArchivedCount > 0
  /\ Renders(agents, ~showArchived, selectedId, FALSE)
  /\ agentCalls' = StillLive(selectedId', agentCalls)
  /\ UNCHANGED <<atServer, agentEdits>>

(* AgentDetail's tabs: the one left is gone with what was typed in it.      *)
OpenTab ==
  \E t \in AgentTabs \ {tab} :
    /\ selectedId # 0
    /\ tab' = t /\ tasksOf' = 0
    /\ draft' = IF t \in AgentParts THEN agents[selectedId].parts[t] ELSE FirstValue(selectedId)
    /\ IF t = "tasks"
       THEN /\ Cardinality(agentCalls) < MaxAgentCalls
            /\ agentCalls' = Orphans(agentCalls) \cup {AgentCall("tasks", selectedId)}
       ELSE agentCalls' = Orphans(agentCalls)
    /\ UNCHANGED <<atServer, agents, selectedId, showArchived, agentEdits>>

----------------------------------------------------------------------------
(* The tabs: a key in a field; a tool added by its dialog, changed or       *)
(* removed; a trigger added, switched, changed or removed; a setting.       *)
Types(t) ==
  /\ selectedId # 0 /\ tab = t
  /\ draft' = [for |-> selectedId, by |-> "me"]
  /\ UNCHANGED <<atServer, agents, selectedId, showArchived, tab, tasksOf, agentCalls, agentEdits>>
EditInstructions == Types("instructions")
EditList     == \E t \in ListTabs : Types(t)
EditSettings == Types("settings")

Dirty == tab \in AgentParts /\ draft # agents[selectedId].parts[tab]
SaveTab ==
  /\ selectedId # 0 /\ Dirty /\ ~SavingTab
  /\ AgentStarts([AgentCall("update", selectedId) EXCEPT !.part = tab, !.value = draft])
  /\ UNCHANGED <<atServer, shownVars>>

(* SkillsTab sends the whole set it shows, with one more or one less.       *)
AvailableSkills == Skills \ agents[selectedId].skills
SetSkills ==
  /\ selectedId # 0 /\ tab = "skills" /\ ~SavingTab
  /\ \/ \E s \in AvailableSkills :
          AgentStarts([AgentCall("update", selectedId) EXCEPT !.part = "skills",
                    !.skills = agents[selectedId].skills \cup {s}])
     \/ \E s \in agents[selectedId].skills :
          AgentStarts([AgentCall("update", selectedId) EXCEPT !.part = "skills",
                    !.skills = agents[selectedId].skills \ {s}])
  /\ UNCHANGED <<atServer, shownVars>>

(* The archive dialog, the banner's restore.                                *)
ArchiveOrRestore ==
  /\ selectedId # 0
  /\ AgentStarts([AgentCall(IF agents[selectedId].archived THEN "restore" ELSE "archive", selectedId)
               EXCEPT !.live = FALSE])
  /\ UNCHANGED <<atServer, shownVars>>

(* CreateAgentDialog, with a name and a runtime.                            *)
CreateAgent ==
  /\ ~Creating
  /\ \E a \in AgentIds : ~atServer[a].made /\ AgentStarts(AgentCall("create", a))
  /\ UNCHANGED <<atServer, shownVars>>

----------------------------------------------------------------------------
(* The server, and the others.                                              *)
Written(c) ==
  CASE c.op = "update" /\ c.part = "skills" -> [atServer[c.id] EXCEPT !.skills = c.skills]
    [] c.op = "update" /\ c.part # "skills" -> [atServer[c.id] EXCEPT !.parts[c.part] = c.value]
    [] c.op = "archive" -> [atServer[c.id] EXCEPT !.archived = TRUE]
    [] c.op = "restore" -> [atServer[c.id] EXCEPT !.archived = FALSE]
    [] c.op = "create"  -> AgentRow(c.id, "me")

(* Done: refreshAgents, still awaited by the tab.                           *)
Writes == {"update", "archive", "restore", "create"}
After(c) ==
  [AgentCall(CASE c.op = "update" -> "updated" [] c.op = "create" -> "created" [] OTHER -> "refresh",
             IF c.op = "create" THEN c.id ELSE 1) EXCEPT !.live = c.live]
ServerWrites ==
  \E c \in agentCalls :
    /\ c.op \in Writes /\ (c.op = "create" => ~atServer[c.id].made)
    /\ atServer' = [atServer EXCEPT ![c.id] = Written(c)]
    /\ agentCalls' = (agentCalls \ {c}) \cup {After(c)}
    /\ UNCHANGED <<shownVars, agentEdits>>

OthersEdit ==
  \E a \in AgentIds :
    /\ atServer[a].made /\ agentEdits < MaxAgentEdits /\ agentEdits' = agentEdits + 1
    /\ \/ \E p \in AgentParts : atServer' = [atServer EXCEPT ![a].parts[p] = [for |-> a, by |-> "other"]]
       \/ atServer' = [atServer EXCEPT ![a].archived = ~@]
    /\ UNCHANGED <<shownVars, agentCalls>>

AgentsAnswered ==
  \E c \in agentCalls :
    /\ c.op \in {"updated", "created", "refresh"} /\ c.list = <<>>
    /\ agentCalls' = (agentCalls \ {c}) \cup {[c EXCEPT !.list = atServer]}
    /\ UNCHANGED <<atServer, shownVars, agentEdits>>

(* An event makes useRealtimeSync refresh the list.                         *)
RefreshAgents ==
  /\ Cardinality(agentCalls) < MaxAgentCalls
  /\ agentCalls' = agentCalls \cup {[AgentCall("refresh", 1) EXCEPT !.live = FALSE]}
  /\ UNCHANGED <<atServer, shownVars, agentEdits>>

(* The list lands; after a creation the new agent is selected.              *)
AgentsLand ==
  \E c \in agentCalls :
    /\ c.list # <<>>
    /\ Renders(c.list, showArchived, IF c.op = "created" THEN c.id ELSE selectedId, TRUE)
    /\ agentCalls' = StillLive(selectedId', agentCalls \ {c})
    /\ UNCHANGED <<atServer, agentEdits>>

(* The tasks of the agent, to a tab that is still there.                    *)
TasksLand ==
  \E c \in agentCalls :
    /\ c.op = "tasks"
    /\ tasksOf' = IF c.live THEN c.id ELSE tasksOf
    /\ agentCalls' = agentCalls \ {c}
    /\ UNCHANGED <<atServer, agents, selectedId, showArchived, tab, draft, agentEdits>>

(* A toast; the draft stays.                                                *)
AgentCallFails ==
  \E c \in agentCalls :
    /\ c.op # "tasks" /\ c.list = <<>>
    /\ agentCalls' = agentCalls \ {c}
    /\ UNCHANGED <<atServer, shownVars, agentEdits>>

AgentNext ==
  \/ SelectAgent \/ ShowArchived \/ OpenTab
  \/ EditInstructions \/ EditList \/ EditSettings
  \/ SaveTab \/ SetSkills \/ ArchiveOrRestore \/ CreateAgent
  \/ ServerWrites \/ OthersEdit \/ AgentsAnswered \/ RefreshAgents
  \/ AgentsLand \/ TasksLand \/ AgentCallFails

AgentSpec == AgentInit /\ [][AgentNext]_agentVars

----------------------------------------------------------------------------
(* Type correctness of the page.                                            *)
AgentTypeOK ==
  /\ atServer \in [AgentIds -> AgentRows] /\ agents \in [AgentIds -> AgentRows]
  /\ selectedId \in 0..NAgents /\ showArchived \in BOOLEAN /\ tab \in AgentTabs
  /\ draft \in AgentValue /\ tasksOf \in 0..NAgents
  /\ Cardinality(agentCalls) <= MaxAgentCalls /\ agentEdits \in 0..MaxAgentEdits

(* Agents are selected, archived, restored and created while drafts are     *)
(* open and calls in flight; nothing written for one agent is ever shown    *)
(* in, or saved to, another.                                                *)
AgentDraftsStayHome ==
  /\ \A a \in AgentIds, p \in AgentParts : atServer[a].parts[p].for = a
  /\ selectedId # 0 /\ tab \in AgentParts => draft.for = selectedId
  /\ tasksOf # 0 => tasksOf = selectedId
=============================================================================

------------------------------- MODULE MCPages --------------------------------
(***************************************************************************)
(* The pages on which a team is managed -- agents, skills, settings,       *)
(* members, runtimes --, the login page, the modals, the text editor, and  *)
(* the tools by which an agent talks to others. They share no state, so    *)
(* that the behaviours to look at are those of one at a time: focus says   *)
(* which one moves.                                                        *)
(***************************************************************************)
EXTENDS AgentPage, SkillPage, SettingsPage, Members, MeshTalk, NewIssue,
        Login, RuntimeList, EditorUploads, TLC

VARIABLE focus

pagesVars == <<focus, agentVars, skillVars, settingVars, memberVars,
            talkVars, modalVars, loginVars, listVars,
            editorVars>>

Parts == {"agents", "skills", "settings", "members", "tools", "context",
          "modals", "rights", "signins", "loginpage", "runtimes",
          "editor"}

\* A part that is not looked at stays where it starts.
PagesInit ==
    /\ focus \in Parts
    /\ AgentInit /\ SkillInit /\ SettingInit /\ MemberInit /\ TalkInit
    /\ ModalInit /\ LoginInit /\ RuntimeListInit /\ EditorInit
    /\ focus # "agents" => \A a \in AgentIds : atServer[a] = NotMade(a)
    /\ focus # "skills" => \A k \in SkillIds : ~held[k].made
    /\ focus # "loginpage" => loginPage.cli = "no"
    /\ focus # "editor" => editorKind = "comment"
    /\ focus # "settings" => manages
    /\ focus # "members" => \A p \in People : roles[p] = "owner"

MovesAgents == focus = "agents" /\ AgentNext
    /\ UNCHANGED <<focus, skillVars, settingVars, memberVars, talkVars,
                   modalVars, loginVars, listVars,
                   editorVars>>
MovesSkills == focus = "skills" /\ SkillNext
    /\ UNCHANGED <<focus, agentVars, settingVars, memberVars, talkVars,
                   modalVars, loginVars, listVars,
                   editorVars>>
MovesSettings == focus = "settings" /\ SettingNext
    /\ UNCHANGED <<focus, agentVars, skillVars, memberVars, talkVars,
                   modalVars, loginVars, listVars,
                   editorVars>>
MovesMembers == focus = "members" /\ MemberNext
    /\ UNCHANGED <<focus, agentVars, skillVars, settingVars, talkVars,
                   modalVars, loginVars, listVars,
                   editorVars>>
MovesTools == focus = "tools" /\ ToolSteps
    /\ UNCHANGED <<focus, agentVars, skillVars, settingVars, memberVars,
                   modalVars, loginVars, listVars,
                   editorVars>>
MovesContext == focus = "context" /\ ContextSteps
    /\ UNCHANGED <<focus, agentVars, skillVars, settingVars, memberVars,
                   modalVars, loginVars, listVars,
                   editorVars>>
MovesModals == focus = "modals" /\ ModalSteps
    /\ UNCHANGED <<focus, agentVars, skillVars, settingVars, memberVars,
                   talkVars, loginVars, listVars, editorVars>>
MovesRights == focus = "rights" /\ RightsSteps
    /\ UNCHANGED <<focus, agentVars, skillVars, settingVars, memberVars,
                   talkVars, loginVars, listVars, editorVars>>
MovesSignIns == focus = "signins" /\ SignInSteps
    /\ UNCHANGED <<focus, agentVars, skillVars, settingVars, memberVars,
                   talkVars, modalVars, listVars, editorVars>>
MovesLoginPage == focus = "loginpage" /\ SignPageSteps
    /\ UNCHANGED <<focus, agentVars, skillVars, settingVars, memberVars,
                   talkVars, modalVars, listVars, editorVars>>
MovesRuntimes == focus = "runtimes" /\ RuntimeListNext
    /\ UNCHANGED <<focus, agentVars, skillVars, settingVars, memberVars,
                   talkVars, modalVars, loginVars,
                   editorVars>>
MovesEditor == focus = "editor" /\ EditorNext
    /\ UNCHANGED <<focus, agentVars, skillVars, settingVars, memberVars,
                   talkVars, modalVars, loginVars, listVars>>

PagesNext ==
    \/ MovesAgents \/ MovesSkills \/ MovesSettings \/ MovesMembers
    \/ MovesTools \/ MovesContext \/ MovesModals \/ MovesRights
    \/ MovesSignIns \/ MovesLoginPage \/ MovesRuntimes \/ MovesEditor

PagesSpec == PagesInit /\ [][PagesNext]_pagesVars

\* Type correctness of the part that moves.
PagesTypeOK ==
    /\ focus = "agents" => AgentTypeOK
    /\ focus = "skills" => SkillTypeOK
    /\ focus = "settings" => SettingTypeOK
    /\ focus = "members" => MemberTypeOK
    /\ focus \in {"tools", "context"} => TalkTypeOK
    /\ focus \in {"modals", "rights"} => ModalTypeOK
    /\ focus \in {"signins", "loginpage"} => LoginTypeOK
    /\ focus = "runtimes" => RuntimeListTypeOK
    /\ focus = "editor" => EditorTypeOK

\* What a user typed and what a page sends belongs to the row they look at, on
\* every page: a form is never sent under another row's name, and what is typed
\* into a modal is neither lost nor assigned to an agent of elsewhere (and every
\* variable keeps its type).
DraftsStayHome ==
    /\ PagesTypeOK
    /\ AgentDraftsStayHome /\ SkillFilesStayHome /\ SkillFilesKept /\ SettingsStayHome
    /\ NothingTypedLost /\ AssigneesAtHome /\ PickerAgrees

\* However calls end or fail: messages are handed over in order and once, an
\* answer goes to the turn that asked, and what was shared stays shared.
ToolsKeepOrder == ListenInOrder /\ RepliesMatch /\ ContextKept

\* When nothing is on its way, the lists and the description shown are the
\* server's, unless requests failed or overtook one another, and no preview of an
\* upload is left in what it keeps.
ListsConverge ==
    /\ SeatsConverge /\ TokensConverge /\ RuntimesConverge
    /\ DescriptionSaved /\ PreviewsReplaced

\* However sign-ins run into one another: a code admits once, to an account with
\* one workspace of its own at most, and as the address the page shows.
SignInsAreWhole == CodesAdmitOnce /\ OneHomeEach /\ PageMeansItsEmail
===============================================================================

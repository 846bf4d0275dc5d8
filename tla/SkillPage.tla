----------------------------- MODULE SkillPage ------------------------------
(***************************************************************************)
(* The skills page: the list, the skill shown with its text and its files   *)
(* as edited and not saved yet, and the calls it makes.  A list row comes   *)
(* without files: the detail asks for the whole skill when it opens.  Texts *)
(* and files carry the skill they were written for.                         *)
(***************************************************************************)
EXTENDS Naturals, FiniteSets, FiniteSetsExt

CONSTANTS NSkills,          \* skills, in the order of the list
          Paths,            \* paths of supporting files
          MaxSkillCalls,    \* bound on the calls in flight
          MaxSkillEdits     \* bound on what the others and the user start

ASSUME SkillAssumption == NSkills \in Nat \ {0} /\ MaxSkillCalls \in Nat /\ MaxSkillEdits \in Nat

VARIABLES held,             \* the server's skills
          used,             \* ids that were given to a skill: none is given twice
          skills,           \* the workspace store's
          skillId,          \* the selected one, 0 for none
          text, files,      \* what the detail's fields hold
          loadingFiles,     \* the detail waits for the whole skill
          skillCalls, skillEdits,
          whole,            \* the detail's files have come
          expected,         \* files stored and not deleted by the user
          blind             \* skills saved when their files had not come

skillVars == <<held, used, skills, skillId, text, files, loadingFiles, skillCalls, skillEdits,
               whole, expected, blind>>
detailVars == <<text, files, loadingFiles, whole>>

SkillIds == 1..NSkills
Text     == [for : SkillIds, by : {"first", "me", "other"}]
File     == [for : SkillIds, path : Paths]
Skill    == [made : BOOLEAN, text : Text, files : SUBSET File]
FirstText(k) == [for |-> k, by |-> "first"]
NoSkill(k)   == [made |-> FALSE, text |-> FirstText(k), files |-> {}]
Listed(list) == {k \in SkillIds : list[k].made}
selected     == IF skillId \in Listed(skills) THEN skillId ELSE 0

(* A call: "get" answers the detail that asked, if it is still there;       *)
(* "refresh" keeps the files of the rows it saw when it was sent; "delete"  *)
(* the list of the render it was clicked in.                                *)
SkillCall(op, k) == [op |-> op, id |-> k, text |-> FirstText(k), files |-> {},
                     list |-> <<>>, others |-> {}, live |-> TRUE, done |-> FALSE]
SkillSends(C, c) == Cardinality(C) < MaxSkillCalls /\ skillCalls' = C \cup {c}
SkillCounts      == skillEdits < MaxSkillEdits /\ skillEdits' = skillEdits + 1
SavingSkill == \E c \in skillCalls : c.op = "update" /\ c.live
Departed(C) == {[c EXCEPT !.live = FALSE] : c \in C}

SkillInit ==
  /\ \E made \in SUBSET SkillIds :
       held = [k \in SkillIds |-> [NoSkill(k) EXCEPT !.made = k \in made,
                 !.files = IF k \in made THEN [for : {k}, path : Paths] ELSE {}]]
  /\ used = Listed(held)
  /\ skills = [k \in SkillIds |-> [held[k] EXCEPT !.files = {}]]
  /\ skillId = 0
  /\ text = FirstText(1) /\ files = {} /\ loadingFiles = FALSE
  /\ skillCalls = {} /\ skillEdits = 0 /\ blind = {} /\ whole = FALSE
  /\ expected = UNION {held[k].files : k \in SkillIds}

----------------------------------------------------------------------------
(* A render.  With nothing selected the effect takes the first skill; a     *)
(* skill that shows up is asked for whole, one that stays has its fields    *)
(* follow a new text.                                                       *)
Wanted(list, k) == IF k = 0 /\ Listed(list) # {} THEN Min(Listed(list)) ELSE k

AlwaysSame(k) == selected # 0  \* mutant of SameDetail: without the key
SameDetail(k) == k = selected

ShowsSkills(list, wanted, C) ==
  LET k == IF Wanted(list, wanted) \in Listed(list) THEN Wanted(list, wanted) ELSE 0 IN
  /\ skills' = list /\ skillId' = Wanted(list, wanted)
  /\ IF k = 0 \/ SameDetail(k)
     THEN /\ skillCalls' = IF k = selected THEN C ELSE Departed(C)
          /\ text' = IF k # 0 /\ list[k].text # skills[k].text THEN list[k].text ELSE text
          /\ UNCHANGED <<files, loadingFiles, whole>>
     ELSE /\ SkillSends(Departed(C), SkillCall("get", k))
          /\ text' = list[k].text /\ files' = list[k].files
          /\ loadingFiles' = TRUE /\ whole' = FALSE

(* SkillListItem; the page's first render.                                  *)
SelectSkill ==
  \E k \in Listed(skills) \cup {0} :
    /\ k = 0 => skillId = 0 /\ Listed(skills) # {}
    /\ ShowsSkills(skills, k, skillCalls)
    /\ UNCHANGED <<held, used, skillEdits, expected, blind>>

----------------------------------------------------------------------------
(* The detail.                                                              *)
EditText ==
  /\ selected # 0 /\ text' = [for |-> selected, by |-> "me"]
  /\ UNCHANGED <<held, used, skills, skillId, files, loadingFiles, skillCalls, skillEdits, whole, expected, blind>>

(* AddFileDialog refuses a path that exists.                                *)
AddFile ==
  /\ selected # 0
  /\ \E p \in Paths :
       /\ \A f \in files : f.path # p
       /\ files' = files \cup {[for |-> selected, path |-> p]}
  /\ UNCHANGED <<held, used, skills, skillId, text, loadingFiles, skillCalls, skillEdits, whole, expected, blind>>

(* handleDeleteFile, of the file that is open.                              *)
DeleteFile ==
  /\ selected # 0
  /\ \E f \in files : files' = files \ {f} /\ expected' = expected \ {f}
  /\ UNCHANGED <<held, used, skills, skillId, text, loadingFiles, skillCalls, skillEdits, whole, blind>>

(* handleSave sends the text and every file the detail holds.               *)
IsDirty == text # skills[selected].text \/ files # skills[selected].files
SaveSkill ==
  /\ selected # 0 /\ IsDirty /\ ~SavingSkill /\ SkillCounts
  /\ SkillSends(skillCalls, [SkillCall("update", selected) EXCEPT !.text = text, !.files = files])
  /\ blind' = IF whole THEN blind ELSE blind \cup {selected}
  /\ UNCHANGED <<held, used, skills, skillId, detailVars, expected>>

DeleteSkill ==
  /\ selected # 0 /\ SkillCounts
  /\ SkillSends(skillCalls, [SkillCall("delete", selected) EXCEPT !.live = FALSE,
                        !.others = Listed(skills) \ {selected}])
  /\ UNCHANGED <<held, used, skills, skillId, detailVars, expected, blind>>

(* CreateSkillDialog's two tabs: a new skill without files, an imported one.*)
CreateSkill ==
  /\ SkillCounts /\ ~\E c \in skillCalls : c.op = "create"
  /\ \E k \in SkillIds \ used, imported \in SUBSET Paths :
       SkillSends(skillCalls, [SkillCall("create", k) EXCEPT !.live = FALSE,
                            !.files = [for : {k}, path : imported]])
  /\ UNCHANGED <<held, used, skills, skillId, detailVars, expected, blind>>

(* A skill event makes useRealtimeSync refresh the list.                    *)
RefreshSkills ==
  /\ SkillSends(skillCalls, [SkillCall("refresh", 1) EXCEPT !.live = FALSE, !.list = skills])
  /\ UNCHANGED <<held, used, skills, skillId, detailVars, skillEdits, expected, blind>>

----------------------------------------------------------------------------
(* The server answers with the skill as it stands then; an update that      *)
(* names files replaces them all.                                           *)
SkillAnswer(c) == [c EXCEPT !.done = TRUE, !.text = held'[c.id].text, !.files = held'[c.id].files]
SkillServed ==
  \E c \in skillCalls :
    /\ ~c.done
    /\ IF c.op = "refresh"
       THEN /\ held' = held
            /\ skillCalls' = (skillCalls \ {c}) \cup {[c EXCEPT !.done = TRUE,
                 !.list = [k \in SkillIds |-> [held[k] EXCEPT !.files = c.list[k].files]]]}
       ELSE /\ (c.op = "create") # held[c.id].made
            /\ held' = [held EXCEPT ![c.id] =
                 CASE c.op = "get" -> @
                   [] c.op \in {"update", "create"} -> [made |-> TRUE, text |-> c.text, files |-> c.files]
                   [] c.op = "delete" -> NoSkill(c.id)]
            /\ skillCalls' = (skillCalls \ {c}) \cup {SkillAnswer(c)}
    /\ used' = IF c.op = "create" THEN used \cup {c.id} ELSE used
    /\ expected' = CASE c.op = "delete" -> {f \in expected : f.for # c.id}
                     [] c.op = "create" -> expected \cup c.files
                     [] OTHER           -> expected
    /\ UNCHANGED <<skills, skillId, detailVars, skillEdits, blind>>

(* Refused (the skill is gone) or lost: a toast.                            *)
SkillFails ==
  \E c \in skillCalls :
    /\ ~c.done /\ skillCalls' = skillCalls \ {c}
    /\ loadingFiles' = (loadingFiles /\ ~(c.op = "get" /\ c.live))
    /\ UNCHANGED <<held, used, skills, skillId, text, files, whole, skillEdits, expected, blind>>

OthersRewrite ==
  \E k \in Listed(held) :
    /\ SkillCounts /\ held' = [held EXCEPT ![k].text.by = "other"]
    /\ UNCHANGED <<used, skills, skillId, detailVars, skillCalls, expected, blind>>

----------------------------------------------------------------------------
(* Answers land.  upsertSkill adds the skill when the list has it no more.  *)
Upserted(c) == [skills EXCEPT ![c.id] = [made |-> TRUE, text |-> c.text, files |-> c.files]]

(* The whole skill, for the list, and the files for the detail that asked.  *)
WholeLands ==
  \E c \in skillCalls :
    /\ c.op = "get" /\ c.done
    /\ IF c.live
       THEN /\ skills' = Upserted(c) /\ files' = c.files /\ loadingFiles' = FALSE /\ whole' = TRUE
            /\ text' = IF c.text # skills[c.id].text THEN c.text ELSE text
            /\ skillCalls' = skillCalls \ {c} /\ UNCHANGED skillId
       ELSE ShowsSkills(Upserted(c), skillId, skillCalls \ {c})
    /\ UNCHANGED <<held, used, skillEdits, expected, blind>>

SavedLands ==
  \E c \in skillCalls :
    /\ c.op \in {"update", "create"} /\ c.done
    /\ ShowsSkills(Upserted(c), IF c.op = "create" THEN c.id ELSE skillId, skillCalls \ {c})
    /\ UNCHANGED <<held, used, skillEdits, expected, blind>>

SkillsLand ==
  \E c \in skillCalls :
    /\ c.op = "refresh" /\ c.done
    /\ ShowsSkills(c.list, skillId, skillCalls \ {c})
    /\ UNCHANGED <<held, used, skillEdits, expected, blind>>

(* handleDelete: the first of the others in the list it was clicked in,     *)
(* whatever is selected meanwhile.                                          *)
DeletedLands ==
  \E c \in skillCalls :
    /\ c.op = "delete" /\ c.done
    /\ ShowsSkills([skills EXCEPT ![c.id] = NoSkill(c.id)],
                   IF c.others = {} THEN 0 ELSE Min(c.others), skillCalls \ {c})
    /\ UNCHANGED <<held, used, skillEdits, expected, blind>>

SkillNext ==
  \/ SelectSkill \/ EditText \/ AddFile \/ DeleteFile \/ SaveSkill \/ DeleteSkill \/ CreateSkill
  \/ RefreshSkills \/ SkillServed \/ SkillFails \/ OthersRewrite
  \/ WholeLands \/ SavedLands \/ SkillsLand \/ DeletedLands

SkillSpec == SkillInit /\ [][SkillNext]_skillVars

----------------------------------------------------------------------------
(* Type correctness of the page.                                            *)
SkillTypeOK ==
  /\ held \in [SkillIds -> Skill] /\ skills \in [SkillIds -> Skill]
  /\ skillId \in 0..NSkills /\ text \in Text /\ files \subseteq File /\ loadingFiles \in BOOLEAN
  /\ Cardinality(skillCalls) <= MaxSkillCalls /\ skillEdits \in 0..MaxSkillEdits
  /\ whole \in BOOLEAN /\ expected \subseteq File /\ blind \subseteq SkillIds /\ used \subseteq SkillIds

(* Skills are selected, saved, created and removed while their files are on *)
(* the way; no text or file of one skill is ever shown in, or saved to,     *)
(* another, and a file leaves the server only when the user deleted it --   *)
(* or saved while the files had not come, which sends none.                 *)
SkillFilesStayHome ==
  /\ \A k \in Listed(held) : held[k].text.for = k /\ \A f \in held[k].files : f.for = k
  /\ selected # 0 => text.for = selected /\ \A f \in files : f.for = selected
SkillFilesKept ==
  \A f \in expected : f.for \in blind \/ f \in held[f.for].files
=============================================================================

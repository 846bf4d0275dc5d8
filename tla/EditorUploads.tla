---------------------------- MODULE EditorUploads ----------------------------
(***************************************************************************)
(* The text editor with its uploads, as it is used twice: for an issue's    *)
(* description, which is saved some time after each change, and for a       *)
(* comment, which is sent when the user says so.  A picture is shown from   *)
(* the browser's memory until it is uploaded; that preview is in the        *)
(* document, and so in what is saved meanwhile.  A text is the number of    *)
(* the edit that wrote it, 0 when empty; where a file stands is left out.   *)
(***************************************************************************)
EXTENDS Integers

CONSTANTS Pictures, Papers, \* the files the user has, images and others
          MaxPicks,         \* bound on the files picked
          MaxKeys,          \* bound on the edits, this user's and others'
          MaxSaves          \* bound on the requests that save or send

ASSUME EditorAssumption == Pictures \cap Papers = {} /\ {MaxPicks, MaxKeys, MaxSaves} \subseteq Nat

VARIABLES editorKind,       \* "description" or "comment"
          editing, doc,     \* the editor and its document
          debouncing,       \* a change waits for its debounce
          uploads, picks,   \* uploads under way, number of files picked
          saves,            \* requests under way
          keptDoc,          \* the server's description, or the comment sent last
          shownDoc, news,   \* the client's issue; an event tells of the server's
          keysTyped, savesMade,
          outrun,           \* what the server has is not what was saved last
          abandoned         \* an upload or a debounce was under way when its
                            \* document was left or sent, or its preview outlived it

editorVars == <<editorKind, editing, doc, debouncing, uploads, picks, saves, keptDoc, shownDoc, news,
                keysTyped, savesMade, outrun, abandoned>>
keptVars == <<keptDoc, shownDoc, news>>

FileIds  == Pictures \cup Papers
Blank    == [text |-> 0, file |-> [f \in FileIds |-> "none"]]
Doc      == [text : 0..MaxKeys, file : [FileIds -> {"none", "preview", "link"}]]
Previews(d) == \E f \in FileIds : d.file[f] = "preview"
Upload == [file : FileIds, at : {"cursor", "end", "unsure"}, here : BOOLEAN]
Save   == [doc : Doc, prev : Doc, no : Nat, here : BOOLEAN, landed : BOOLEAN]

EditorInit ==
  /\ editorKind \in {"description", "comment"} /\ editing = FALSE /\ doc = Blank /\ debouncing = FALSE
  /\ uploads = {} /\ picks = 0 /\ saves = {} /\ keptDoc = Blank /\ shownDoc = Blank /\ news = FALSE
  /\ keysTyped = 0 /\ savesMade = 0 /\ outrun = FALSE /\ abandoned = FALSE

----------------------------------------------------------------------------
(* The editor reads its text once; later it hears of no one else's edits.   *)
Mount ==
  /\ ~editing /\ editing' = TRUE /\ debouncing' = FALSE
  /\ doc' = IF editorKind = "description" THEN shownDoc ELSE Blank
  /\ outrun' = (keptDoc # shownDoc \/ saves # {}) /\ abandoned' = (abandoned \/ Previews(doc'))
  /\ UNCHANGED <<editorKind, uploads, picks, saves, keptVars, keysTyped, savesMade>>

(* Unmounting clears the debounce; what is under way finds no document.     *)
Unmount ==
  /\ editing /\ editing' = FALSE /\ debouncing' = FALSE /\ doc' = Blank
  /\ abandoned' = (abandoned \/ debouncing \/ uploads # {})
  /\ uploads' = {[u EXCEPT !.here = FALSE] : u \in uploads}
  /\ saves' = {[c EXCEPT !.here = FALSE] : c \in saves}
  /\ UNCHANGED <<editorKind, picks, keptVars, keysTyped, savesMade, outrun>>

(* Every change of the document, whoever makes it, restarts the debounce;   *)
(* a place noted in it may then lie beyond its end.                         *)
Moved(u) == IF u.at = "end" THEN [u EXCEPT !.at = "unsure"] ELSE u
Changes(d, us) ==
  /\ doc' = d /\ debouncing' = (debouncing \/ d # doc)
  /\ uploads' = IF d = doc THEN us ELSE {Moved(u) : u \in us}

EditDocument ==
  /\ editing /\ keysTyped < MaxKeys /\ keysTyped' = keysTyped + 1
  /\ Changes([doc EXCEPT !.text = keysTyped'], uploads)
  /\ UNCHANGED <<editorKind, editing, picks, saves, keptVars, savesMade, outrun, abandoned>>
Erase ==
  /\ editing
  /\ \/ doc.text # 0 /\ Changes([doc EXCEPT !.text = 0], uploads)
     \/ \E f \in FileIds : doc.file[f] # "none" /\ Changes([doc EXCEPT !.file[f] = "none"], uploads)
  /\ UNCHANGED <<editorKind, editing, picks, saves, keptVars, keysTyped, savesMade, outrun, abandoned>>

----------------------------------------------------------------------------
(* uploadAndInsertFile: a picture's preview is inserted at once, a paper's  *)
(* link when the upload has ended: at the cursor when it was pasted, at the *)
(* place that was the document's end when its button was used.              *)
PickFile ==
  \E f \in FileIds, at \in {"cursor", "end"} :
    /\ editing /\ doc.file[f] = "none"
    /\ (\A u \in uploads : u.file # f) /\ picks < MaxPicks /\ picks' = picks + 1
    /\ Changes(IF f \in Pictures THEN [doc EXCEPT !.file[f] = "preview"] ELSE doc,
               uploads \cup {[file |-> f, at |-> at, here |-> TRUE]})
    /\ UNCHANGED <<editorKind, editing, saves, keptVars, keysTyped, savesMade, outrun, abandoned>>

(* A mutant: the preview of a failed upload stays.                          *)
RemoveImageNever(d, f) == d
RemoveImageBySrc(d, f) == IF d.file[f] = "preview" THEN [d EXCEPT !.file[f] = "none"] ELSE d
SetNodeMarkup(d, f) == IF d.file[f] = "preview" THEN [d EXCEPT !.file[f] = "link"] ELSE d

(* What the answer may make of the document: a link for a place beyond its  *)
(* end is not inserted at all.                                              *)
AfterUpload(u, stored) ==
  CASE u.file \in Pictures -> {IF stored THEN SetNodeMarkup(doc, u.file) ELSE RemoveImageBySrc(doc, u.file)}
    [] u.file \in Papers   -> (IF stored THEN {[doc EXCEPT !.file[u.file] = "link"]} ELSE {doc})
                             \cup (IF u.at = "unsure" THEN {doc} ELSE {})
UploadEnds ==
  \E u \in uploads, stored \in BOOLEAN :
    /\ \E d \in IF u.here THEN AfterUpload(u, stored) ELSE {doc} : Changes(d, uploads \ {u})
    /\ UNCHANGED <<editorKind, editing, picks, saves, keptVars, keysTyped, savesMade, outrun, abandoned>>

----------------------------------------------------------------------------
Asks ==
  /\ savesMade < MaxSaves /\ savesMade' = savesMade + 1
  /\ saves' = saves \cup {[doc |-> doc, prev |-> shownDoc, no |-> savesMade', here |-> TRUE,
                           landed |-> FALSE]}
  /\ UNCHANGED <<editorKind, editing, doc, uploads, picks, keptDoc, news, keysTyped, outrun>>

(* The debounce ends: the description is shown and sent as it is now.       *)
SaveDescription ==
  /\ editorKind = "description" /\ debouncing /\ debouncing' = FALSE
  /\ Asks /\ shownDoc' = doc /\ UNCHANGED abandoned

(* A comment is sent as it is, its previews included.                       *)
SubmitComment ==
  /\ editorKind = "comment" /\ editing /\ doc # Blank /\ \A c \in saves : ~c.here
  /\ Asks /\ abandoned' = (abandoned \/ uploads # {}) /\ UNCHANGED <<shownDoc, debouncing>>
CommentSettles ==
  /\ editorKind = "comment" /\ debouncing /\ debouncing' = FALSE
  /\ UNCHANGED <<editorKind, editing, doc, uploads, picks, saves, keptVars, keysTyped, savesMade,
                 outrun, abandoned>>

(* An empty description is sent as no description at all, which leaves the  *)
(* server's as it is.                                                       *)
ServerKeeps ==
  \E c \in saves :
    /\ ~c.landed /\ saves' = (saves \ {c}) \cup {[c EXCEPT !.landed = TRUE]}
    /\ keptDoc' = IF c.doc = Blank THEN keptDoc ELSE c.doc
    /\ news' = (news \/ editorKind = "description")
    /\ outrun' = (c.no # savesMade \/ c.doc = Blank \/ ~c.here)
    /\ UNCHANGED <<editorKind, editing, doc, debouncing, uploads, picks, shownDoc, keysTyped,
                   savesMade, abandoned>>

(* The answer, good or bad or none: it puts the shown description back; the *)
(* box of a comment is cleared whatever came of it.                         *)
SaveAnswered ==
  \E c \in saves, ok \in BOOLEAN :
    /\ ok => c.landed
    /\ saves' = saves \ {c} /\ outrun' = (outrun \/ (~c.landed /\ c.no = savesMade))
    /\ shownDoc' = IF ok \/ editorKind = "comment" THEN shownDoc ELSE c.prev
    /\ IF editorKind = "comment" /\ c.here
         THEN Changes(Blank, uploads) ELSE UNCHANGED <<doc, debouncing, uploads>>
    /\ UNCHANGED <<editorKind, editing, picks, keptDoc, news, keysTyped, savesMade, abandoned>>

(* Others write the description too; an event brings it to this client.     *)
OthersDescribe ==
  /\ editorKind = "description" /\ keysTyped < MaxKeys /\ keysTyped' = keysTyped + 1
  /\ keptDoc' = [Blank EXCEPT !.text = keysTyped'] /\ news' = TRUE /\ outrun' = TRUE
  /\ UNCHANGED <<editorKind, editing, doc, debouncing, uploads, picks, saves, shownDoc, savesMade,
                 abandoned>>
HearUpdate ==
  /\ news /\ news' = FALSE /\ shownDoc' = keptDoc
  /\ UNCHANGED <<editorKind, editing, doc, debouncing, uploads, picks, saves, keptDoc, keysTyped,
                 savesMade, outrun, abandoned>>

EditorNext ==
  \/ Mount \/ Unmount \/ EditDocument \/ Erase \/ PickFile \/ UploadEnds \/ SaveDescription \/ SubmitComment
  \/ CommentSettles \/ ServerKeeps \/ SaveAnswered \/ OthersDescribe \/ HearUpdate
EditorSpec == EditorInit /\ [][EditorNext]_editorVars

----------------------------------------------------------------------------
(* Type correctness.                                                        *)
EditorTypeOK ==
  /\ editorKind \in {"description", "comment"}
  /\ {editing, debouncing, news, outrun, abandoned} \subseteq BOOLEAN
  /\ {doc, keptDoc, shownDoc} \subseteq Doc /\ uploads \subseteq Upload /\ picks \in 0..MaxPicks
  /\ saves \subseteq Save /\ keysTyped \in 0..MaxKeys /\ savesMade \in 0..MaxSaves

Settled == uploads = {} /\ saves = {} /\ ~debouncing

(* A preview lives only in the tab that made it: when all is quiet, none is *)
(* left in what the server keeps, unless the document was left or sent with *)
(* work under way, or the last save did not get through                     *)
(* (uploadAndInsertFile, the editor's debounce, handleUpdateField).         *)
PreviewsReplaced == Settled /\ Previews(keptDoc) => abandoned \/ outrun

(* The description on the screen is the server's when all is quiet, also    *)
(* when it was changed last by an upload's end, unless saves failed or      *)
(* overtook one another, others wrote, or it was emptied.                   *)
DescriptionSaved ==
  (editorKind = "description" /\ editing /\ Settled /\ ~outrun) => doc = keptDoc

============================================================================

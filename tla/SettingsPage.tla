---------------------------- MODULE SettingsPage ----------------------------
(***************************************************************************)
(* The settings page: the workspace, repositories and account tabs, whose   *)
(* fields hold a draft of a row of the stores, and the tokens tab.  The     *)
(* account's row belongs to home 0, a workspace's rows to the workspace.    *)
(***************************************************************************)
EXTENDS Naturals, FiniteSets, FiniteSetsExt

CONSTANTS NHomes,           \* workspaces
          MaxSettingCalls,  \* bound on the calls in flight
          MaxSettingEdits   \* bound on what the others and the user start

ASSUME SettingAssumption == /\ NHomes \in Nat \ {0}
                            /\ MaxSettingCalls \in Nat /\ MaxSettingEdits \in Nat

VARIABLES kept,             \* the server's rows
          known,            \* the stores'
          home,             \* the workspace shown, 0 for none
          manages,          \* the user is an owner or an admin of it
          stab, fields,     \* the tab shown, what its fields hold
          settingCalls, settingEdits,
          liveTokens,             \* the user's tokens at the server
          tokensMinted,           \* tokens created
          tokens,           \* the list the tokens tab shows
          newToken,         \* the one shown in full, 0 for none
          shuffled          \* a list of tokens landed after a later one, or failed,
                            \* or a tab that is gone changed the tokens

settingVars == <<kept, known, home, manages, stab, fields, settingCalls, settingEdits,
                 liveTokens, tokensMinted, tokens, newToken, shuffled>>
formVars  == <<kept, known, home, manages, stab, fields>>
settingTokenVars == <<liveTokens, tokensMinted, tokens, newToken, shuffled>>

Homes  == 0..NHomes
Forms  == {"workspace", "repositories", "account"}
Setting == [for : Homes, by : {"first", "me", "other"}]
OwnerOf(t) == IF t = "account" THEN 0 ELSE home
Group(h)   == IF h = 0 THEN {"account"} ELSE {"workspace", "repositories"}
SettingKeys       == {k \in Homes \X Forms : k[2] \in Group(k[1])}
SettingRows(table, H) == {[key |-> k, value |-> table[k]] : k \in {x \in SettingKeys : x[1] \in H}}

SettingCall(op, h) == [op |-> op, home |-> h, tab |-> "account", value |-> [for |-> h, by |-> "first"],
                       token |-> 0, rows |-> {}, list |-> {}, done |-> FALSE, live |-> TRUE]
SettingSends(c) == Cardinality(settingCalls) < MaxSettingCalls /\ settingCalls' = settingCalls \cup {c}
SettingStarts     == settingEdits < MaxSettingEdits /\ settingEdits' = settingEdits + 1
SavingForm == \E c \in settingCalls : c.op = "save" /\ c.live

SettingInit ==
  /\ kept = [k \in SettingKeys |-> [for |-> k[1], by |-> "first"]] /\ known = kept
  /\ home = 1 /\ manages \in BOOLEAN /\ stab = "account" /\ fields = kept[<<0, "account">>]
  /\ settingCalls = {} /\ settingEdits = 0
  /\ liveTokens = {} /\ tokensMinted = 0 /\ tokens = {} /\ newToken = 0 /\ shuffled = FALSE

----------------------------------------------------------------------------
(* A tab opens with what the stores hold, the tokens tab asks for its list. *)
OpenForm ==
  \E t \in (Forms \cup {"tokens"}) \ {stab} :
    /\ stab' = t
    /\ fields' = IF t \in Forms /\ <<OwnerOf(t), t>> \in SettingKeys THEN known[<<OwnerOf(t), t>>] ELSE fields
    /\ newToken' = 0 /\ tokens' = {}
    /\ LET C == {[c EXCEPT !.live = FALSE] : c \in settingCalls} IN
       IF t = "tokens"
       THEN Cardinality(C) < MaxSettingCalls /\ settingCalls' = C \cup {SettingCall("tokens", 0)}
       ELSE settingCalls' = C
    /\ shuffled' = FALSE
    /\ UNCHANGED <<kept, known, home, manages, settingEdits, liveTokens, tokensMinted>>

FormShown(t) == t \in Forms /\ (t # "account" => home # 0)
TypeField ==
  /\ FormShown(stab) /\ (stab # "account" => manages)
  /\ fields' = [for |-> OwnerOf(stab), by |-> "me"]
  /\ UNCHANGED <<kept, known, home, manages, stab, settingCalls, settingEdits, settingTokenVars>>

(* handleSave and handleProfileSave: the tab's fields, as they stand.       *)
SaveForm ==
  /\ FormShown(stab) /\ (stab # "account" => manages) /\ ~SavingForm /\ SettingStarts
  /\ SettingSends([SettingCall("save", OwnerOf(stab)) EXCEPT !.tab = stab, !.value = fields])
  /\ UNCHANGED <<formVars, settingTokenVars>>

(* The effect of a tab on a new row of its own: the fields follow it.       *)
KeepsFields(new, h) == fields  \* mutant of Follows: without the effect
Follows(new, h) ==
  IF stab \in Forms /\ <<h, stab>> \in SettingKeys THEN new[<<h, stab>>] ELSE fields

(* updateWorkspace, setUser: the row that was saved, wherever it is; of a   *)
(* refresh, that of the workspace shown by then.                            *)
RowLands ==
  \E c \in settingCalls :
    LET h == IF c.op = "save" THEN c.home ELSE home IN
    /\ c.done /\ c.op \in {"save", "row"}
    /\ known' = [k \in SettingKeys |-> IF k[1] = h /\ (c.op = "row" => h # 0)
                                THEN (CHOOSE r \in c.rows : r.key = k).value ELSE known[k]]
    /\ fields' = IF stab \in Forms /\ h = OwnerOf(stab) THEN Follows(known', h) ELSE fields
    /\ settingCalls' = settingCalls \ {c}
    /\ UNCHANGED <<kept, home, manages, stab, settingEdits, settingTokenVars>>

(* The workspace is left, deleted by the user or by another, or the user    *)
(* removed: the stores take up another one, or none, under the open tab.    *)
MovesHome ==
  \E h \in Homes \ {home}, m \in BOOLEAN :
    /\ SettingStarts
    /\ home' = h /\ manages' = (m /\ h # 0)
    /\ fields' = IF stab \in Forms \ {"account"} /\ h # 0 THEN Follows(known, h) ELSE fields
    /\ UNCHANGED <<kept, known, stab, settingCalls, settingTokenVars>>

(* The others save; a workspace event refreshes the row of the one shown.   *)
OthersSave ==
  \E k \in SettingKeys :
    /\ SettingStarts /\ kept' = [kept EXCEPT ![k] = [for |-> k[1], by |-> "other"]]
    /\ UNCHANGED <<known, home, manages, stab, fields, settingCalls, settingTokenVars>>
RefreshesRow ==
  /\ home # 0 /\ SettingSends([SettingCall("row", 0) EXCEPT !.live = FALSE])
  /\ UNCHANGED <<formVars, settingEdits, settingTokenVars>>

----------------------------------------------------------------------------
(* TokensTab.                                                               *)
CreateToken ==
  /\ stab = "tokens" /\ SettingStarts /\ ~\E c \in settingCalls : c.live /\ c.op = "create"
  /\ SettingSends(SettingCall("create", 0))
  /\ UNCHANGED <<formVars, settingTokenVars>>
RevokeToken ==
  \E k \in tokens :
    /\ stab = "tokens" /\ SettingStarts /\ ~\E c \in settingCalls : c.live /\ c.op = "revoke" /\ c.token = k
    /\ SettingSends([SettingCall("revoke", 0) EXCEPT !.token = k])
    /\ UNCHANGED <<formVars, settingTokenVars>>

----------------------------------------------------------------------------
(* The server.                                                              *)
SettingServed ==
  \E c \in settingCalls :
    /\ ~c.done
    /\ kept' = IF c.op = "save" THEN [kept EXCEPT ![<<c.home, c.tab>>] = c.value] ELSE kept
    /\ tokensMinted' = IF c.op = "create" THEN tokensMinted + 1 ELSE tokensMinted
    /\ liveTokens' = CASE c.op = "create" -> liveTokens \cup {tokensMinted'}
                 [] c.op = "revoke" -> liveTokens \ {c.token}
                 [] OTHER           -> liveTokens
    /\ settingCalls' = (settingCalls \ {c}) \cup
         {[c EXCEPT !.done = TRUE, !.token = IF c.op = "create" THEN tokensMinted' ELSE @,
             !.rows = CASE c.op = "save" -> SettingRows(kept', {c.home})
                        [] c.op = "row"  -> SettingRows(kept', Homes \ {0})
                        [] OTHER         -> {},
             !.list = IF c.op = "tokens" THEN liveTokens ELSE {}]}
    /\ shuffled' = (shuffled \/ (c.op \in {"create", "revoke"} /\ ~c.live))
    /\ UNCHANGED <<known, home, manages, stab, fields, settingEdits, tokens, newToken>>

(* What was created shows once; the list is asked for again.                *)
ReloadsAdded(c) == IF c.op = "create" THEN {[SettingCall("tokens", 0) EXCEPT !.live = c.live]}
                   ELSE {}  \* mutant of Reloads: not after a revocation
Reloads(c) == {[SettingCall("tokens", 0) EXCEPT !.live = c.live]}
TokenLands ==
  \E c \in settingCalls :
    /\ c.done /\ c.op \in {"create", "revoke"}
    /\ newToken' = IF c.live /\ c.op = "create" THEN c.token ELSE newToken
    /\ settingCalls' = (settingCalls \ {c}) \cup Reloads(c)
    /\ UNCHANGED <<formVars, settingEdits, liveTokens, tokensMinted, tokens, shuffled>>
TokensLand ==
  \E c \in settingCalls :
    /\ c.done /\ c.op = "tokens" /\ settingCalls' = settingCalls \ {c}
    /\ tokens' = IF c.live THEN c.list ELSE tokens
    /\ shuffled' = (shuffled \/ (c.live /\ \E d \in settingCalls \ {c} : d.live /\ d.op = "tokens"))
    /\ UNCHANGED <<formVars, settingEdits, liveTokens, tokensMinted, newToken>>

SettingFails ==
  \E c \in settingCalls :
    /\ ~c.done /\ settingCalls' = settingCalls \ {c}
    /\ shuffled' = (shuffled \/ (c.live /\ c.op \in {"tokens", "create", "revoke"}))
    /\ UNCHANGED <<formVars, settingEdits, liveTokens, tokensMinted, tokens, newToken>>

SettingNext ==
  \/ OpenForm \/ TypeField \/ SaveForm \/ RowLands \/ MovesHome \/ OthersSave \/ RefreshesRow
  \/ CreateToken \/ RevokeToken \/ SettingServed \/ TokenLands \/ TokensLand \/ SettingFails

SettingSpec == SettingInit /\ [][SettingNext]_settingVars

----------------------------------------------------------------------------
(* Type correctness of the page.                                            *)
SettingTypeOK ==
  /\ kept \in [SettingKeys -> Setting] /\ known \in [SettingKeys -> Setting]
  /\ home \in Homes /\ manages \in BOOLEAN /\ stab \in Forms \cup {"tokens"} /\ fields \in Setting
  /\ Cardinality(settingCalls) <= MaxSettingCalls /\ settingEdits \in 0..MaxSettingEdits
  /\ tokensMinted \in 0..MaxSettingEdits /\ liveTokens \subseteq 1..tokensMinted /\ newToken \in 0..tokensMinted

(* The workspace changes under the open tab while saves and refreshes are   *)
(* on the way; nothing typed for one is ever shown in, or saved to, another.*)
SettingsStayHome ==
  /\ \A k \in SettingKeys : kept[k].for = k[1] /\ known[k].for = k[1]
  /\ FormShown(stab) => fields.for = OwnerOf(stab)

(* The list of tokens is the server's when nothing is on its way -- unless  *)
(* two lists crossed.                                                       *)
TokensConverge ==
  stab = "tokens" /\ ~shuffled /\ (\A c \in settingCalls : c.op \in {"save", "row"}) => tokens = liveTokens
=============================================================================

------------------------------- MODULE Login --------------------------------
(***************************************************************************)
(* Signing in by a code sent by mail: the server's handlers, each a row of  *)
(* statements among which others' run (one transaction, that provisions the *)
(* first workspace, apart), and the login page of a browser or of a CLI     *)
(* that waits to be called back.  Codes are numbers in the order they were  *)
(* made; two of them are never the same six digits.                         *)
(***************************************************************************)
EXTENDS Naturals, Sequences, FiniteSetsExt

CONSTANTS Emails,
          MaxAttempts,      \* 5 in the code
          Production,       \* APP_ENV: the master code is refused
          MaxCodes,         \* bound on the codes made
          MaxSignIns        \* bound on the requests but for codes

ASSUME LoginAssumption ==
  /\ MaxAttempts \in Nat \ {0} /\ Production \in BOOLEAN /\ {MaxCodes, MaxSignIns} \subseteq Nat

VARIABLES codes, fresh,     \* the codes; emails that got one within 10 seconds
          users, homes, invited,  \* users, first workspaces made, members elsewhere
          handlers, signIns,      \* requests under way, their number so far
          loginPage,        \* the page's state
          admits, twins,    \* history: logins by code; codes two requests read unused
          sentTo, loggedAs, strayed  \* history of the page: emails a code went to,
                            \* who was logged in, email changed with a call under way

serverVars == <<codes, fresh, users, homes, invited, admits, twins>>
pageVars   == <<signIns, loginPage, sentTo, loggedAs, strayed>>
peopleVars == <<users, homes, invited>>
loginVars  == <<serverVars, handlers, signIns, loginPage, sentTo, loggedAs, strayed>>

None   == 0
Master == MaxCodes + 1
Code   == [email : Emails, used : BOOLEAN, expired : BOOLEAN, attempts : 0..MaxAttempts + MaxSignIns]
Stages == {"sent", "makes", "misses", "marks",
           "looks", "creates", "lists", "provisions", "joins", "done", "failed"}
Handler(op, e, c, ours) ==
  [op |-> op, email |-> e, code |-> c, at |-> "sent", ours |-> ours, no |-> signIns]
LoginSteps == {"email", "code", "cli_confirm", "left"}

LoginInit ==
  /\ codes = <<>> /\ fresh = {} /\ users = {} /\ homes = [e \in Emails |-> 0] /\ invited = {}
  /\ handlers = {} /\ signIns = 0 /\ admits = [c \in 1..MaxCodes |-> 0] /\ twins = {}
  /\ \E cli \in {"no", "valid", "invalid"}, had \in BOOLEAN :
       /\ had => cli = "valid"
       /\ loginPage = [step |-> "email", email |-> None, submitting |-> FALSE, cooldown |-> FALSE,
                       cli |-> cli, token |-> had, asking |-> had /\ cli = "valid"]
  /\ sentTo = {} /\ loggedAs = None /\ strayed = FALSE

----------------------------------------------------------------------------
(* GetLatestVerificationCode: the latest that can still be used.            *)
Usable(e) == {c \in DOMAIN codes : /\ codes[c].email = e /\ ~codes[c].used /\ ~codes[c].expired
                                   /\ codes[c].attempts < MaxAttempts}
Latest(e) == Max(Usable(e) \cup {None})
Matches(entered, c) == entered = c \/ (entered = Master /\ ~Production)

Moves(h, g) == handlers' = (handlers \ {h}) \cup {g}
Goes(h, at) == Moves(h, [h EXCEPT !.at = at])
Ends(h, at) == IF h.ours THEN Goes(h, at) ELSE handlers' = handlers \ {h}

(* SendCode: none within ten seconds of the last, as read before the insert; *)
(* the mail may fail after it.                                              *)
ServeSend ==
  \E h \in handlers :
    /\ h.op \in {"send", "resend"} /\ h.at = "sent"
    /\ IF h.email \in fresh THEN Ends(h, "failed") ELSE Goes(h, "makes")
    /\ UNCHANGED <<serverVars, pageVars>>
MakesCode ==
  \E h \in handlers :
    /\ h.at = "makes" /\ Len(codes) < MaxCodes
    /\ codes' = Append(codes, [email |-> h.email, used |-> FALSE, expired |-> FALSE, attempts |-> 0])
    /\ fresh' = fresh \cup {h.email}
    /\ Ends(h, "done") \/ Ends(h, "failed")
    /\ UNCHANGED <<admits, twins, peopleVars, pageVars>>

TenSeconds ==
  \E e \in fresh :
    /\ fresh' = fresh \ {e}
    /\ UNCHANGED <<codes, handlers, admits, twins, peopleVars, pageVars>>
TenMinutes ==
  \E c \in DOMAIN codes :
    /\ ~codes[c].expired /\ \A b \in 1..c - 1 : codes[b].expired
    /\ c = Len(codes) => codes[c].email \notin fresh
    /\ codes' = [codes EXCEPT ![c].expired = TRUE]
    /\ UNCHANGED <<fresh, handlers, admits, twins, peopleVars, pageVars>>

(* VerifyCode: reads the latest code and compares, and counts a miss,       *)
VerifyReads ==
  \E h \in handlers :
    /\ h.op = "verify" /\ h.at = "sent"
    /\ LET c == Latest(h.email) IN
       /\ IF c = None THEN Ends(h, "failed")
          ELSE Moves(h, [h EXCEPT !.code = c, !.at = IF Matches(h.code, c) THEN "marks" ELSE "misses"])
       /\ twins' = IF c # None /\ Matches(h.code, c) /\ \E g \in handlers : g.at = "marks" /\ g.code = c
                   THEN twins \cup {c} ELSE twins
    /\ UNCHANGED <<codes, fresh, admits, peopleVars, pageVars>>
VerifyMisses ==
  \E h \in handlers :
    /\ h.at = "misses" /\ codes' = [codes EXCEPT ![h.code].attempts = @ + 1] /\ Ends(h, "failed")
    /\ UNCHANGED <<fresh, admits, twins, peopleVars, pageVars>>
(* marks it as used,                                                        *)
SpendNever(c) == codes  \* mutant of Spend
Spend(c)      == [codes EXCEPT ![c].used = TRUE]
VerifyMarks ==
  \E h \in handlers :
    /\ h.at = "marks" /\ codes' = Spend(h.code) /\ Goes(h, "looks")
    /\ UNCHANGED <<fresh, admits, twins, peopleVars, pageVars>>

(* finds or creates the user, as CreateMember does for one who is invited,  *)
LooksForUser ==
  \E h \in handlers :
    /\ h.at = "looks"
    /\ Goes(h, IF h.email \notin users THEN "creates" ELSE IF h.op = "invite" THEN "joins" ELSE "lists")
    /\ UNCHANGED <<codes, fresh, admits, twins, peopleVars, pageVars>>
CreatesUser ==
  \E h \in handlers :
    /\ h.at = "creates" /\ users' = users \cup {h.email}
    /\ IF h.email \in users THEN Ends(h, "failed")
       ELSE Goes(h, IF h.op = "invite" THEN "joins" ELSE "lists")
    /\ UNCHANGED <<codes, fresh, homes, invited, admits, twins, pageVars>>
Invited ==
  \E h \in handlers :
    /\ h.at = "joins" /\ invited' = invited \cup {h.email} /\ Ends(h, "done")
    /\ UNCHANGED <<codes, fresh, users, homes, admits, twins, pageVars>>

(* and makes sure of a workspace: it is in none, and in a transaction still *)
(* none, and the slug, which is the user's, is not taken.                   *)
LetIn(h) == admits' = [admits EXCEPT ![h.code] = @ + 1] /\ Ends(h, "done")
ListsWorkspaces ==
  \E h \in handlers :
    /\ h.at = "lists"
    /\ IF homes[h.email] > 0 \/ h.email \in invited THEN LetIn(h)
       ELSE Goes(h, "provisions") /\ UNCHANGED admits
    /\ UNCHANGED <<codes, fresh, twins, peopleVars, pageVars>>
SlugFreeAlways(e) == TRUE  \* mutant of SlugFree
SlugFree(e) == homes[e] = 0
Provisions ==
  \E h \in handlers :
    /\ h.at = "provisions" /\ LetIn(h)
    /\ homes' = IF SlugFree(h.email) /\ h.email \notin invited
                THEN [homes EXCEPT ![h.email] = @ + 1] ELSE homes
    /\ UNCHANGED <<codes, fresh, users, invited, twins, pageVars>>

(* A statement fails, and what was done before it stays done.               *)
HandlerFails ==
  \E h \in handlers :
    /\ h.at \notin {"sent", "done", "failed"} /\ Ends(h, "failed")
    /\ UNCHANGED <<serverVars, pageVars>>

(* Other devices, and an administrator who invites.                         *)
Starts(h) == signIns < MaxSignIns /\ signIns' = signIns + 1 /\ handlers' = handlers \cup {h}
OthersSignIn ==
  /\ \E e \in Emails :
       \/ Starts(Handler("send", e, None, FALSE))
       \/ \E c \in DOMAIN codes : codes[c].email = e /\ Starts(Handler("verify", e, c, FALSE))
       \/ Starts([Handler("invite", e, None, FALSE) EXCEPT !.at = "looks"])
  /\ UNCHANGED <<serverVars, loginPage, sentTo, loggedAs, strayed>>

----------------------------------------------------------------------------
(* The page.  Email can be changed and Back pressed with a call under way.  *)
Ours == {h \in handlers : h.ours}
PageBecomes(p) == loginPage' = p /\ UNCHANGED <<serverVars, signIns>>
TypeEmail ==
  \E e \in Emails \ {loginPage.email} :
    /\ loginPage.step = "email" /\ PageBecomes([loginPage EXCEPT !.email = e])
    /\ strayed' = (strayed \/ Ours # {}) /\ UNCHANGED <<handlers, sentTo, loggedAs>>
PageAsks(h, busy) ==
  /\ Starts(h) /\ loginPage' = [loginPage EXCEPT !.submitting = @ \/ busy]
  /\ UNCHANGED <<serverVars, sentTo, loggedAs, strayed>>
HandleSendCode ==
  /\ loginPage.step = "email" /\ loginPage.email # None /\ ~loginPage.submitting
  /\ PageAsks(Handler("send", loginPage.email, None, TRUE), TRUE)
HandleResend ==
  /\ loginPage.step = "code" /\ ~loginPage.cooldown
  /\ PageAsks(Handler("resend", loginPage.email, None, TRUE), FALSE)
Back ==
  /\ loginPage.step = "code" /\ PageBecomes([loginPage EXCEPT !.step = "email"])
  /\ UNCHANGED <<handlers, sentTo, loggedAs, strayed>>
CooldownEnds ==
  /\ loginPage.cooldown /\ PageBecomes([loginPage EXCEPT !.cooldown = FALSE])
  /\ UNCHANGED <<handlers, sentTo, loggedAs, strayed>>

(* Six digits: a code that was mailed, the master code or a mistake.        *)
HandleVerifyCode ==
  /\ loginPage.step = "code" /\ ~loginPage.submitting /\ loginPage.cli # "invalid"
  /\ \E c \in {d \in DOMAIN codes : codes[d].email = loginPage.email} \cup {None, Master} :
       PageAsks(Handler("verify", loginPage.email, c, TRUE), TRUE)

(* The answer to sendCode takes the page to the code, wherever it is.       *)
CodeSent ==
  \E h \in Ours :
    /\ h.op \in {"send", "resend"} /\ h.at = "done" /\ loginPage.step # "left"
    /\ handlers' = handlers \ {h} /\ sentTo' = sentTo \cup {h.email}
    /\ PageBecomes([loginPage EXCEPT !.cooldown = TRUE,
                       !.step = IF h.op = "send" THEN "code" ELSE @,
                       !.submitting = IF h.op = "send" THEN FALSE ELSE @])
    /\ UNCHANGED <<loggedAs, strayed>>
(* The token goes to the CLI's address, or is stored; the page is left.     *)
VerifyAnswered ==
  \E h \in Ours :
    /\ h.op = "verify" /\ h.at = "done" /\ loginPage.step # "left"
    /\ handlers' = handlers \ {h} /\ loggedAs' = h.email
    /\ PageBecomes([loginPage EXCEPT !.step = "left", !.token = @ \/ loginPage.cli = "no"])
    /\ strayed' = (strayed \/ loginPage.email # h.email) /\ UNCHANGED sentTo
(* Refused, failed, or the answer was lost.                                 *)
CallFailed ==
  \E h \in Ours :
    /\ h.at \in {"sent", "done", "failed"} /\ handlers' = handlers \ {h}
    /\ PageBecomes([loginPage EXCEPT !.submitting = IF h.op = "resend" THEN @ ELSE FALSE])
    /\ UNCHANGED <<sentTo, loggedAs, strayed>>

(* A CLI's page with a token asks who that is, and offers to pass it on.    *)
SessionChecked ==
  /\ loginPage.asking /\ loginPage.step # "left"
  /\ \/ PageBecomes([loginPage EXCEPT !.asking = FALSE, !.step = "cli_confirm"])
     \/ PageBecomes([loginPage EXCEPT !.asking = FALSE, !.token = FALSE])
  /\ UNCHANGED <<handlers, sentTo, loggedAs, strayed>>
HandleCliAuthorize ==
  /\ loginPage.step = "cli_confirm" /\ ~loginPage.submitting /\ loginPage.token
  /\ PageBecomes([loginPage EXCEPT !.step = "left"])
  /\ UNCHANGED <<handlers, sentTo, loggedAs, strayed>>
UseDifferentAccount ==
  /\ loginPage.step = "cli_confirm" /\ PageBecomes([loginPage EXCEPT !.step = "email"])
  /\ UNCHANGED <<handlers, sentTo, loggedAs, strayed>>

HandlerSteps ==
  \/ ServeSend \/ MakesCode \/ TenSeconds \/ TenMinutes
  \/ VerifyReads \/ VerifyMisses \/ VerifyMarks
  \/ LooksForUser \/ CreatesUser \/ ListsWorkspaces \/ Provisions \/ HandlerFails
LoginPageSteps ==
  \/ TypeEmail \/ HandleSendCode \/ HandleResend \/ Back \/ CooldownEnds
  \/ HandleVerifyCode \/ CodeSent \/ VerifyAnswered \/ CallFailed
  \/ SessionChecked \/ HandleCliAuthorize \/ UseDifferentAccount
SignInSteps == HandlerSteps \/ OthersSignIn \/ Invited
SignPageSteps == HandlerSteps \/ LoginPageSteps

LoginNext == SignInSteps \/ LoginPageSteps
LoginSpec == LoginInit /\ [][LoginNext]_loginVars

----------------------------------------------------------------------------
(* Type correctness of the tables, the handlers and the page.               *)
LoginTypeOK ==
  /\ codes \in Seq(Code) /\ Len(codes) <= MaxCodes /\ fresh \subseteq Emails
  /\ users \subseteq Emails /\ homes \in [Emails -> 0..MaxSignIns] /\ invited \subseteq users
  /\ \A h \in handlers : h.at \in Stages /\ h.email \in Emails /\ h.code \in 0..Master
  /\ loginPage.step \in LoginSteps /\ loginPage.email \in Emails \cup {None}

(* However sign-ins, retries and lost answers mix, a code admits once,      *)
(* unless two requests read it before either had marked it.                 *)
CodesAdmitOnce == \A c \in 1..MaxCodes : admits[c] > 1 => c \in twins

(* Whoever a code admitted is a user and in a workspace, and first logins   *)
(* and invitations at the same time never make a second one of one's own.   *)
OneHomeEach ==
  /\ \A c \in DOMAIN codes : admits[c] > 0 =>
       LET e == codes[c].email IN e \in users /\ (homes[e] = 1 \/ e \in invited)
  /\ \A e \in Emails : homes[e] <= 1

(* The page that asks for a code sent one to the address it shows, and logs *)
(* in as that, unless the address was changed with a call under way.        *)
PageMeansItsEmail ==
  ~strayed => /\ loginPage.step = "code" => loginPage.email \in sentTo
              /\ loggedAs # None => loggedAs = loginPage.email
=============================================================================

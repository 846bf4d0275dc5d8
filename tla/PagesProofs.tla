----------------------------- MODULE PagesProofs -----------------------------
(***************************************************************************)
(* Proofs about the pages and the tools.  Members: requests that do not     *)
(* overlap leave an owner, and ownership is given and taken by owners       *)
(* alone.  Signing in: however requests run into one another, a code admits *)
(* once, an account has one workspace of its own at most, and the page      *)
(* means the address it shows.  Tools: messages are handed over in order    *)
(* and once, answers go to the turn that asked, notes stay shared.  Pages:  *)
(* what is typed and sent belongs to the row it was written for, and when   *)
(* nothing is on its way the lists show what the server holds.              *)
(***************************************************************************)
EXTENDS MCPages, SeqFilterProofs, SequenceTheorems

(* Members *)

Place == {"sent", "admitted", "counting", "writing"}
CallType ==
  [op : {"role", "remove", "add", "leave", "list"}, by : People, target : People,
   role : MemberRole, at : Place, mine : MemberRole \cup {"out"},
   had : MemberRole \cup {"out"}, stale : BOOLEAN, list : Seats \cup {<<>>}]

\* What a request has read is so still, and it is further than its checks let it.
ReadIsSo(c) ==
  /\ c.op = "leave" => c.target = c.by
  /\ c.at # "sent" => c.mine = roles[c.by]
  /\ c.at \in {"counting", "writing"} =>
       /\ ~Forbids(c)
       /\ c.op \in {"role", "remove", "leave"} => c.had = roles[c.target]
       /\ c.op = "add" => c.had = "out"
  /\ c.at = "writing" /\ TakesOwner(c) => Enough

\* A request is marked when another has written since it was admitted.
Unmarked == \A c \in Requested : ~c.stale => ReadIsSo(c)

MemberInv ==
  /\ roles \in Seats /\ memberCalls \subseteq CallType /\ seats \in Seats
  /\ OwnersGuarded /\ Unmarked
  /\ raced \in BOOLEAN /\ usurped \in BOOLEAN

LEMMA AnotherOwner ==
  ASSUME roles \in Seats, Enough, NEW p \in People
  PROVE  \E q \in Owners : q # p
  <1>1. IsFiniteSet(Owners)
    BY MemberAssumption, FS_Subset DEF Owners
  <1>2. Owners # {} /\ ~\E q : Owners = {q}
    <2>1. Cardinality({}) = 0 /\ \A q : Cardinality({q}) = 1
      BY FS_EmptySet, FS_Singleton
    <2>2. Cardinality(Owners) # 0 /\ Cardinality(Owners) # 1
      BY DEF Enough
    <2>3. \A q : Owners # {q}
      BY <2>1, <2>2
    <2> QED BY <2>1, <2>2, <2>3
  <1> QED BY <1>2

LEMMA MemberStart == MemberInit => MemberInv
  <1> SUFFICES ASSUME MemberInit PROVE MemberInv
    OBVIOUS
  <1>1. PICK o \in People : roles \in {r \in [People -> {"owner", "out"}] : r[o] = "owner"}
    BY DEF MemberInit
  <1>2. roles \in Seats /\ o \in Owners
    <2>1. roles \in [People -> {"owner", "out"}] /\ roles[o] = "owner"
      BY <1>1
    <2> QED BY <2>1 DEF Seats, MemberRole, Owners
  <1>3. Requested = {}
    BY DEF MemberInit, Requested
  <1> QED BY <1>2, <1>3 DEF MemberInit, MemberInv, OwnersGuarded, OwnerRemains, Unmarked

\* The page and the other clients only add requests that have read nothing yet.
LEMMA AskStep ==
  ASSUME MemberInv, RoleChange \/ RemoveMember \/ AddMember \/ LeaveIt \/ OthersAsk
  PROVE  MemberInv'
  <1>1. PICK c : /\ MemberAsks(c) /\ c \in CallType /\ c.at = "sent"
                 /\ c.op = "leave" => c.target = c.by
    <2>1. ASSUME NEW op \in {"role", "remove", "add", "leave"}, NEW by \in People,
                 NEW target \in People, NEW role \in MemberRole
          PROVE  /\ MemberCall(op, by, target, role) \in CallType
                 /\ MemberCall(op, by, target, role).at = "sent"
                 /\ MemberCall(op, by, target, role).op = op
                 /\ MemberCall(op, by, target, role).by = by
                 /\ MemberCall(op, by, target, role).target = target
      BY <2>1 DEF MemberCall, CallType, Place
    <2>2. RoleChoices \subseteq MemberRole /\ "member" \in MemberRole
      BY DEF RoleChoices, MemberRole
    <2> QED BY <2>1, <2>2, MemberAssumption
            DEF RoleChange, RemoveMember, AddMember, LeaveIt, OthersAsk
  <1>2. memberCalls' = memberCalls \cup {c} /\ UNCHANGED <<roles, seats, raced, usurped>>
    BY <1>1 DEF MemberAsks
  <1>3. Unmarked'
    BY <1>1, <1>2 DEF MemberInv, Unmarked, Requested, ReadIsSo, Forbids, GivesOwner, TakesOwner, Enough, Owners
  <1> QED BY <1>1, <1>2, <1>3 DEF MemberInv, OwnersGuarded, OwnerRemains, Owners

\* A step of one request that reads: c becomes d.
LEMMA ReadStep ==
  ASSUME MemberInv, NEW c \in Requested, NEW d \in CallType, CallMoves(c, d),
         UNCHANGED <<roles, seats, raced, usurped>>, d.op = c.op, d.stale = c.stale,
         ~c.stale /\ ReadIsSo(c) => ReadIsSo(d)
  PROVE  MemberInv'
  <1>1. memberCalls' = (memberCalls \ {c}) \cup {d}
    BY DEF CallMoves
  <1>2. Unmarked'
    BY <1>1 DEF MemberInv, Unmarked, Requested, ReadIsSo, Forbids, GivesOwner, TakesOwner, Enough, Owners
  <1> QED BY <1>1, <1>2 DEF MemberInv, OwnersGuarded, OwnerRemains, Owners

LEMMA CheckStep == ASSUME MemberInv, Admitted \/ Weighed \/ Counted PROVE MemberInv'
  <1> USE DEF MemberInv
  <1>1. Requested \subseteq CallType /\ \A c \in Requested : c \in memberCalls
    BY DEF Requested
  <1>2. UNCHANGED <<roles, seats, raced, usurped>>
    BY DEF Admitted, Weighed, Counted
  <1>3. CASE Admitted
    <2>1. PICK c \in Requested :
            c.at = "sent" /\ CallMoves(c, [c EXCEPT !.at = "admitted", !.mine = roles[c.by]])
      BY <1>3 DEF Admitted
    <2> DEFINE d == [c EXCEPT !.at = "admitted", !.mine = roles[c.by]]
    <2>2. /\ d \in CallType /\ d.op = c.op /\ d.stale = c.stale /\ d.at = "admitted"
          /\ d.mine = roles[c.by] /\ d.by = c.by /\ d.target = c.target
      BY <1>1 DEF CallType, Place, Seats
    <2>3. ReadIsSo(c) => ReadIsSo(d)
      BY <2>2 DEF ReadIsSo
    <2> QED BY <1>2, <2>1, <2>2, <2>3, ReadStep
  <1>4. CASE Weighed
    <2>1. PICK c \in Requested, h \in MemberRole \cup {"out"}, a \in {"counting", "writing"} :
            /\ c.at = "admitted"
            /\ h = IF c.op = "leave" THEN c.mine ELSE IF c.op = "add" THEN "out" ELSE roles[c.target]
            /\ ~Forbids([c EXCEPT !.had = h])
            /\ a = IF TakesOwner([c EXCEPT !.had = h]) THEN "counting" ELSE "writing"
            /\ CallMoves(c, [[c EXCEPT !.had = h] EXCEPT !.at = a])
      BY <1>1, <1>4 DEF Weighed, CallType, Seats
    <2> DEFINE e == [c EXCEPT !.had = h]
               d == [e EXCEPT !.at = a]
    <2>2. /\ e \in CallType /\ d \in CallType /\ d.op = c.op /\ d.stale = c.stale /\ d.at = a
          /\ d.had = h /\ e.had = h /\ d.mine = c.mine /\ e.mine = c.mine /\ d.by = c.by
          /\ d.target = c.target /\ d.role = c.role /\ e.role = c.role /\ e.op = c.op
      BY <1>1 DEF CallType, Place
    <2>3. ReadIsSo(c) => ReadIsSo(d)
      BY <2>1, <2>2 DEF ReadIsSo, Forbids, TakesOwner, GivesOwner
    <2> QED BY <1>2, <2>1, <2>2, <2>3, ReadStep
  <1>5. CASE Counted
    <2>1. PICK c \in Requested :
            c.at = "counting" /\ Enough /\ CallMoves(c, [c EXCEPT !.at = "writing"])
      BY <1>5 DEF Counted
    <2> DEFINE d == [c EXCEPT !.at = "writing"]
    <2>2. /\ d \in CallType /\ d.op = c.op /\ d.stale = c.stale /\ d.at = "writing"
          /\ d.had = c.had /\ d.mine = c.mine /\ d.by = c.by
          /\ d.target = c.target /\ d.role = c.role
      BY <1>1 DEF CallType, Place
    <2>3. ReadIsSo(c) => ReadIsSo(d)
      BY <2>1, <2>2 DEF ReadIsSo, Forbids, TakesOwner, GivesOwner
    <2> QED BY <1>2, <2>1, <2>2, <2>3, ReadStep
  <1> QED BY <1>3, <1>4, <1>5

\* The write of a request whose reads are so.
LEMMA GuardedWrite ==
  ASSUME MemberInv, NEW c \in CallType, c.at = "writing", ReadIsSo(c), c.op # "list",
         OwnerRemains, roles' = [roles EXCEPT ![c.target] = Outcome(c)]
  PROVE  /\ OwnerRemains'
         /\ Outcome(c) # roles[c.target] /\ "owner" \in {Outcome(c), roles[c.target]} => c.mine = "owner"
  <1>1. c.op \in {"role", "remove", "add", "leave"} /\ c.target \in People /\ roles \in Seats
        /\ c.role \in MemberRole /\ roles[c.target] \in MemberRole \cup {"out"}
    BY DEF CallType, MemberInv, Seats
  <1>2. ASSUME roles[c.target] = "owner", Outcome(c) # "owner" PROVE TakesOwner(c) /\ c.mine = "owner"
    BY <1>1, <1>2 DEF ReadIsSo, Forbids, GivesOwner, TakesOwner, Outcome, MemberRole
  <1>3. ASSUME roles[c.target] # "owner", Outcome(c) = "owner" PROVE c.mine = "owner"
    BY <1>1, <1>3 DEF ReadIsSo, Forbids, GivesOwner, TakesOwner, Outcome, MemberRole
  <1>4. OwnerRemains'
    <2>1. CASE roles[c.target] = "owner" /\ Outcome(c) # "owner"
      <3>1. PICK q \in Owners : q # c.target
        BY <1>1, <1>2, <2>1, AnotherOwner DEF ReadIsSo
      <3>2. roles'[q] = "owner"
        BY <1>1, <3>1 DEF Owners, Seats
      <3> QED BY <3>1, <3>2 DEF OwnerRemains, Owners
    <2>2. CASE roles[c.target] # "owner" \/ Outcome(c) = "owner"
      <3>1. PICK q \in Owners : TRUE
        BY DEF OwnerRemains
      <3>2. roles'[q] = "owner"
        BY <1>1, <2>2 DEF Owners, Seats
      <3> QED BY <3>1, <3>2 DEF OwnerRemains, Owners
    <2> QED BY <2>1, <2>2
  <1> QED BY <1>2, <1>3, <1>4

LEMMA OutcomeTyped ==
  ASSUME roles \in Seats, NEW c \in CallType PROVE Outcome(c) \in MemberRole \cup {"out"}
  BY DEF Outcome, CallType, Seats

LEMMA WriteStep == ASSUME MemberInv, WritesMember PROVE MemberInv'
  <1> USE DEF MemberInv
  <1>1. PICK c \in Requested :
          /\ c.at = "writing" /\ roles' = [roles EXCEPT ![c.target] = Outcome(c)]
          /\ memberCalls' = {IF roles' # roles /\ d.at # "sent" /\ d.op # "list"
                             THEN [d EXCEPT !.stale = TRUE] ELSE d : d \in memberCalls \ {c}}
                            \cup (IF c.by = Me /\ c.op # "leave" THEN {ListCall} ELSE {})
          /\ raced' = (raced \/ c.stale)
          /\ usurped' = (usurped \/ (Outcome(c) # roles[c.target]
                                     /\ "owner" \in {Outcome(c), roles[c.target]} /\ c.mine # "owner"))
          /\ UNCHANGED seats
    BY DEF WritesMember
  <1>2. c \in CallType /\ c \in memberCalls /\ c.op # "list" /\ c.stale \in BOOLEAN
        /\ c.target \in People
    BY DEF Requested, CallType
  <1>3. roles' \in Seats
    BY <1>1, <1>2, OutcomeTyped DEF Seats
  <1>4. OwnersGuarded'
    <2>1. CASE raced \/ c.stale
      BY <1>1, <2>1 DEF OwnersGuarded
    <2>2. CASE ~raced /\ ~c.stale
      <3>1. ReadIsSo(c) /\ OwnerRemains /\ ~usurped
        BY <2>2 DEF Unmarked, OwnersGuarded
      <3> QED BY <1>1, <1>2, <3>1, GuardedWrite DEF OwnersGuarded
    <2> QED BY <1>1, <2>1, <2>2
  <1>5. ListCall \in CallType /\ ListCall.op = "list"
    BY MemberAssumption DEF ListCall, MemberCall, CallType, Place, MemberRole
  <1>6. ASSUME NEW d \in memberCalls
        PROVE  /\ [d EXCEPT !.stale = TRUE] \in CallType /\ [d EXCEPT !.stale = TRUE].stale
    BY DEF CallType
  <1>7. memberCalls' \subseteq CallType
    BY <1>1, <1>5, <1>6
  <1>8. Unmarked'
    <2> SUFFICES ASSUME NEW e \in memberCalls', e.op # "list", ~e.stale PROVE ReadIsSo(e)'
      BY DEF Unmarked, Requested
    <2>1. e \in memberCalls /\ (roles' = roles \/ e.at = "sent")
      BY <1>1, <1>5, <1>6
    <2>2. ReadIsSo(e)
      BY <2>1 DEF Unmarked, Requested
    <2> QED BY <2>1, <2>2 DEF ReadIsSo, Forbids, GivesOwner, TakesOwner, Enough, Owners
  <1> QED BY <1>1, <1>3, <1>4, <1>7, <1>8

LEMMA ListStep ==
  ASSUME MemberInv, Refuses \/ MemberHeard \/ ListsMembers \/ ListRefused \/ MembersLand
         \/ UNCHANGED memberVars
  PROVE  MemberInv'
  <1> USE DEF MemberInv
  <1>1. UNCHANGED <<roles, raced, usurped>>
    BY DEF Refuses, MemberHeard, ListsMembers, ListRefused, MembersLand, memberVars
  <1>2. ListCall \in CallType /\ ListCall.op = "list"
    BY MemberAssumption DEF ListCall, MemberCall, CallType, Place, MemberRole
  <1>3. memberCalls' \subseteq CallType /\ \A e \in memberCalls' : e \in memberCalls \/ e.op = "list"
    <2>1. CASE ListsMembers
      <3>1. PICK c \in memberCalls : c.op = "list" /\ CallMoves(c, [c EXCEPT !.list = roles])
        BY <2>1 DEF ListsMembers
      <3>2. [c EXCEPT !.list = roles] \in CallType /\ [c EXCEPT !.list = roles].op = "list"
        BY <3>1 DEF CallType
      <3> QED BY <3>1, <3>2 DEF CallMoves
    <2>2. CASE MemberHeard
      BY <1>2, <2>2 DEF MemberHeard
    <2>3. CASE Refuses \/ ListRefused \/ MembersLand \/ UNCHANGED memberVars
      BY <2>3 DEF Refuses, ListRefused, MembersLand, memberVars
    <2> QED BY <2>1, <2>2, <2>3
  <1>4. seats' \in Seats
    BY DEF Refuses, MemberHeard, ListsMembers, ListRefused, MembersLand, memberVars, CallType
  <1>5. Unmarked'
    BY <1>1, <1>3 DEF Unmarked, Requested, ReadIsSo, Forbids, GivesOwner, TakesOwner, Enough, Owners
  <1> QED BY <1>1, <1>3, <1>4, <1>5 DEF OwnersGuarded, OwnerRemains, Owners

-----------------------------------------------------------------------------
(* Theorems *)

\* The inductive invariant: what an unmarked request has read is so still.
THEOREM MemberInvariant == MemberSpec => []MemberInv
  <1>1. MemberInv /\ [MemberNext]_memberVars => MemberInv'
    BY AskStep, CheckStep, WriteStep, ListStep DEF MemberNext
  <1> QED BY <1>1, MemberStart, PTL DEF MemberSpec

\* UpdateMember, DeleteMember, LeaveWorkspace: one request at a time they leave an
\* owner, and none but an owner makes or unmakes one.  Only a write that another
\* has overtaken since its reads can do so.
THEOREM MembersOwnersGuarded == MemberSpec => []OwnersGuarded
  <1>1. MemberInv => OwnersGuarded
    BY DEF MemberInv
  <1> QED BY <1>1, MemberInvariant, PTL

-----------------------------------------------------------------------------
(* Signing in *)

\* A number of a bounded set is its greatest: what Latest returns.
LEMMA GreatestOfBounded ==
  ASSUME NEW S \in SUBSET Nat, NEW n \in Nat, \A x \in S : x <= n, S # {}
  PROVE  Max(S) \in S
  <1> DEFINE T == {m \in Nat : \A x \in S : x <= m}
  <1>1. PICK m \in T : \A y \in T : m <= y
    <2>1. n \in T
      OBVIOUS
    <2> HIDE DEF T
    <2>2. T \in SUBSET Nat
      BY DEF T
    <2> QED BY <2>1, <2>2, LeastOfNaturals
  <1>2. m \in S
    <2> SUFFICES ASSUME m \notin S PROVE FALSE
      OBVIOUS
    <2>1. m \in Nat /\ \A x \in S : x <= m /\ x # m /\ x \in Nat
      OBVIOUS
    <2>2. PICK x : x \in S
      OBVIOUS
    <2>3. m # 0
      BY <2>1, <2>2
    <2>4. m - 1 \in T
      BY <2>1, <2>3
    <2> QED BY <1>1, <2>1, <2>4
  <1>3. \E x \in S : \A y \in S : x >= y
    BY <1>2
  <1> QED BY <1>3 DEF Max

-----------------------------------------------------------------------------
(* The inductive invariant *)

LoginOps   == {"send", "resend", "verify", "invite"}
LoginCall  == [op : LoginOps, email : Emails, code : 0..Master, at : Stages,
               ours : BOOLEAN, no : Nat]
CodeRow    == [email : Emails, used : BOOLEAN, expired : BOOLEAN, attempts : Nat]

\* Every request has a number of its own.
CallsTyped ==
    /\ signIns \in Nat
    /\ \A h \in handlers : h \in LoginCall /\ h.no < signIns
    /\ \A h, g \in handlers : h.no = g.no => h = g

ServerTyped ==
    /\ codes \in Seq(CodeRow) /\ Len(codes) <= MaxCodes
    /\ fresh \subseteq Emails /\ users \subseteq Emails /\ invited \subseteq users
    /\ admits \in [1..MaxCodes -> Nat] /\ homes \in [Emails -> {0, 1}]

\* A handler that has compared is one that verifies, and has a code of its
\* email, marked from then on; one that looks for workspaces has its user.
HasCode == {"misses", "marks", "looks", "creates", "lists", "provisions"}
Marked  == {"looks", "creates", "lists", "provisions"}

CallOK(h) ==
    /\ h.at \in {"misses", "marks", "lists", "provisions"} => h.op = "verify"
    /\ h.at \in {"looks", "creates"} => h.op \in {"verify", "invite"}
    /\ h.at \in {"lists", "provisions", "joins"} => h.email \in users
    /\ h.op = "verify" /\ h.at \in HasCode =>
         h.code \in DOMAIN codes /\ codes[h.code].email = h.email
    /\ h.op = "verify" /\ h.at \in Marked => codes[h.code].used

\* Who holds a code read it as usable and has not let its user in yet.
Holds(h, c) == h.op = "verify" /\ h.at \in Marked \cup {"marks"} /\ h.code = c

OnceOnly(c) ==
    /\ admits[c] <= 1
    /\ \A h, g \in handlers : Holds(h, c) /\ Holds(g, c) => h = g
    /\ admits[c] = 1 => \A h \in handlers : ~Holds(h, c)

LetInOK(c) == admits[c] > 0 =>
    /\ c \in DOMAIN codes /\ codes[c].used /\ codes[c].email \in users
    /\ homes[codes[c].email] = 1 \/ codes[c].email \in invited

SignInInv ==
    /\ CallsTyped /\ ServerTyped
    /\ \A h \in handlers : CallOK(h)
    /\ \A c \in 1..MaxCodes : LetInOK(c) /\ (c \notin twins => OnceOnly(c))

LEMMA LatestIsUsable ==
  ASSUME ServerTyped, NEW e \in Emails
  PROVE  Latest(e) \in Usable(e) \cup {None} /\ Usable(e) \subseteq 1..MaxCodes
  <1> DEFINE S == Usable(e) \cup {None}
  <1>1. Len(codes) \in Nat /\ DOMAIN codes = 1..Len(codes) /\ Len(codes) <= MaxCodes /\ MaxCodes \in Nat
    BY LoginAssumption DEF ServerTyped
  <1>2. Usable(e) \subseteq 1..Len(codes)
    BY <1>1 DEF Usable
  <1>3. S \in SUBSET Nat /\ S # {} /\ \A x \in S : x <= Len(codes)
    BY <1>1, <1>2 DEF None
  <1> HIDE DEF S
  <1>4. Max(S) \in S
    BY <1>1, <1>3, GreatestOfBounded
  <1> QED BY <1>1, <1>2, <1>4 DEF S, Latest

-----------------------------------------------------------------------------
(* What a step of one request keeps of the others *)

\* Rows are never taken back: a code keeps its email and, once used, is used;
\* users, members and first workspaces stay.
Grows ==
    /\ DOMAIN codes \subseteq DOMAIN codes'
    /\ \A c \in DOMAIN codes :
         codes'[c].email = codes[c].email /\ (codes[c].used => codes'[c].used)
    /\ users \subseteq users' /\ invited \subseteq invited' /\ twins \subseteq twins'
    /\ \A e \in Emails : homes[e] = 1 => homes'[e] = 1

LEMMA CallsStayOK ==
  ASSUME Grows, NEW h, CallOK(h)
  PROVE  CallOK(h)'
  BY DEF Grows, CallOK, HasCode, Marked

LEMMA CodesTyped ==
  ASSUME ServerTyped
  PROVE  /\ DOMAIN codes = 1..Len(codes) /\ Len(codes) \in Nat /\ DOMAIN codes \subseteq 1..MaxCodes
         /\ \A c \in DOMAIN codes : codes[c] \in CodeRow
  <1>1. codes \in Seq(CodeRow) /\ Len(codes) <= MaxCodes /\ MaxCodes \in Nat
    BY LoginAssumption DEF ServerTyped
  <1>2. DOMAIN codes = 1..Len(codes) /\ Len(codes) \in Nat
    BY <1>1
  <1> QED BY <1>1, <1>2

LEMMA LetInStays ==
  ASSUME ServerTyped, Grows, NEW c, LetInOK(c), admits'[c] = admits[c]
  PROVE  LetInOK(c)'
  <1>1. c \in DOMAIN codes => codes[c].email \in Emails
    BY CodesTyped DEF CodeRow
  <1> QED BY <1>1 DEF Grows, LetInOK

\* No request appears and none moves.
LEMMA QuietCalls ==
  ASSUME SignInInv, ServerTyped', Grows, signIns' = signIns, handlers' \subseteq handlers,
         admits' = admits
  PROVE  SignInInv'
  <1>1. CallsTyped'
    BY DEF SignInInv, CallsTyped
  <1>2. \A h \in handlers' : CallOK(h)'
    BY CallsStayOK DEF SignInInv
  <1>3. ASSUME NEW c \in 1..MaxCodes PROVE LetInOK(c)' /\ (c \notin twins' => OnceOnly(c)')
    <2>1. LetInOK(c)'
      BY LetInStays DEF SignInInv
    <2>2. c \notin twins' => OnceOnly(c)'
      BY DEF SignInInv, Grows, OnceOnly, Holds
    <2> QED BY <2>1, <2>2
  <1> QED BY <1>1, <1>2, <1>3 DEF SignInInv

\* One request moves: it gets hold of a code only when nobody has it and it has
\* let nobody in.
LEMMA SignInMoves ==
  ASSUME SignInInv, ServerTyped', Grows, signIns' = signIns, admits' = admits,
         NEW h \in handlers, NEW g \in LoginCall, g.no = h.no, CallOK(g)',
         handlers' \subseteq (handlers \ {h}) \cup {g},
         \A c \in 1..MaxCodes : Holds(g, c) /\ c \notin twins' =>
            Holds(h, c) \/ (admits[c] = 0 /\ \A k \in handlers : ~Holds(k, c))
  PROVE  SignInInv'
  <1>1. CallsTyped'
    BY DEF SignInInv, CallsTyped
  <1>2. \A k \in handlers' : CallOK(k)'
    BY CallsStayOK DEF SignInInv
  <1>3. ASSUME NEW c \in 1..MaxCodes PROVE LetInOK(c)' /\ (c \notin twins' => OnceOnly(c)')
    <2>1. LetInOK(c)'
      BY LetInStays DEF SignInInv
    <2>2. ASSUME c \notin twins' PROVE OnceOnly(c)'
      <3>1. OnceOnly(c)
        BY <2>2 DEF SignInInv, Grows
      <3>2. CASE Holds(g, c)
        BY <2>2, <3>1, <3>2 DEF OnceOnly, Holds
      <3>3. CASE ~Holds(g, c)
        BY <3>1, <3>3 DEF OnceOnly, Holds
      <3> QED BY <3>2, <3>3
    <2> QED BY <2>1, <2>2
  <1> QED BY <1>1, <1>2, <1>3 DEF SignInInv

\* One request lets its user in by the code it holds.
LEMMA CallLetsIn ==
  ASSUME SignInInv, ServerTyped', Grows, signIns' = signIns,
         NEW h \in handlers, h.at \in {"lists", "provisions"},
         admits' = [admits EXCEPT ![h.code] = @ + 1],
         homes'[h.email] = 1 \/ h.email \in invited',
         NEW g \in LoginCall, g.no = h.no, g.at = "done",
         handlers' \subseteq (handlers \ {h}) \cup {g}
  PROVE  SignInInv'
  <1>1. CallsTyped'
    BY DEF SignInInv, CallsTyped
  <1>2. \A k \in handlers' : CallOK(k)'
    <2>1. CallOK(g)'
      BY DEF CallOK, HasCode, Marked
    <2> QED BY <2>1, CallsStayOK DEF SignInInv
  <1>3. /\ h.op = "verify" /\ Holds(h, h.code) /\ h.email \in users /\ h.code \in DOMAIN codes
        /\ codes[h.code].email = h.email /\ codes[h.code].used
    BY DEF SignInInv, CallOK, HasCode, Marked, Holds
  <1>4. h.code \in 1..MaxCodes
    BY <1>3, CodesTyped DEF SignInInv
  <1>5. ASSUME NEW c \in 1..MaxCodes PROVE LetInOK(c)' /\ (c \notin twins' => OnceOnly(c)')
    <2>1. admits \in [1..MaxCodes -> Nat]
      BY DEF SignInInv, ServerTyped
    <2>2. CASE c = h.code
      <3>1. LetInOK(c)'
        <4>1. c \in DOMAIN codes' /\ codes'[c].used /\ codes'[c].email = h.email /\ h.email \in users'
          BY <1>3, <2>2 DEF Grows
        <4> QED BY <4>1 DEF LetInOK
      <3>2. ASSUME c \notin twins' PROVE OnceOnly(c)'
        <4>1. OnceOnly(c)
          BY <3>2 DEF SignInInv, Grows
        <4>2. admits[c] = 0 /\ admits'[c] = 1
          BY <1>3, <2>1, <2>2, <4>1 DEF OnceOnly
        <4>3. ~Holds(g, c)
          BY DEF Holds, Marked
        <4>4. \A k \in handlers' : ~Holds(k, c)
          BY <1>3, <2>2, <4>1, <4>3 DEF OnceOnly
        <4> QED BY <4>2, <4>4 DEF OnceOnly, Holds
      <3> QED BY <3>1, <3>2
    <2>3. CASE c # h.code
      <3>1. admits'[c] = admits[c]
        BY <2>1, <2>3
      <3>2. LetInOK(c)'
        BY <3>1, LetInStays DEF SignInInv
      <3>3. ASSUME c \notin twins' PROVE OnceOnly(c)'
        <4>1. OnceOnly(c)
          BY <3>3 DEF SignInInv, Grows
        <4>2. ~Holds(g, c)
          BY DEF Holds, Marked
        <4> QED BY <3>1, <4>1, <4>2 DEF OnceOnly, Holds
      <3> QED BY <3>2, <3>3
    <2> QED BY <2>2, <2>3
  <1> QED BY <1>1, <1>2, <1>5 DEF SignInInv

\* A new request holds no code.
LEMMA SignInStarts ==
  ASSUME SignInInv, UNCHANGED serverVars, NEW g \in LoginCall, Starts(g), g.no = signIns,
         \/ g.at = "sent"
         \/ g.at = "looks" /\ g.op = "invite"
  PROVE  SignInInv'
  <1>1. CallsTyped'
    <2>1. /\ handlers' = handlers \cup {g} /\ signIns' = signIns + 1 /\ signIns \in Nat
          /\ \A h \in handlers : h \in LoginCall /\ h.no \in Nat /\ h.no < signIns
          /\ \A h, k \in handlers : h.no = k.no => h = k
      BY DEF SignInInv, CallsTyped, Starts, LoginCall
    <2>2. \A h \in handlers : h.no # g.no /\ h.no < signIns'
      BY <2>1
    <2> QED BY <2>1, <2>2 DEF CallsTyped
  <1>2. ServerTyped' /\ Grows
    BY DEF SignInInv, ServerTyped, Grows, serverVars
  <1>3. \A h \in handlers' : CallOK(h)'
    <2>1. CallOK(g)'
      BY DEF CallOK, HasCode, Marked
    <2> QED BY <1>2, <2>1, CallsStayOK DEF SignInInv, Starts
  <1>4. ASSUME NEW c \in 1..MaxCodes PROVE LetInOK(c)' /\ (c \notin twins' => OnceOnly(c)')
    <2>1. LetInOK(c)'
      BY <1>2, LetInStays DEF SignInInv, serverVars
    <2>2. ~Holds(g, c)
      BY DEF Holds, Marked
    <2>3. c \notin twins' => OnceOnly(c)'
      BY <2>2 DEF SignInInv, OnceOnly, Holds, serverVars, Starts
    <2> QED BY <2>1, <2>3
  <1> QED BY <1>1, <1>2, <1>3, <1>4 DEF SignInInv

-----------------------------------------------------------------------------
(* Every step *)

\* A request that is moved keeps all but its stage and the code it holds.
LEMMA AdvancedCall ==
  ASSUME NEW h \in LoginCall, NEW at \in Stages
  PROVE  LET g == [h EXCEPT !.at = at] IN
         /\ g \in LoginCall /\ g.at = at /\ g.code = h.code
         /\ g.op = h.op /\ g.email = h.email /\ g.ours = h.ours /\ g.no = h.no
  BY DEF LoginCall

LEMMA EndedCall ==
  ASSUME CallsTyped, NEW h \in handlers, NEW at \in {"done", "failed"}, Ends(h, at)
  PROVE  \E g \in LoginCall :
            /\ g.at = at /\ g.no = h.no /\ g.op = h.op /\ g.email = h.email /\ g.ours = h.ours
            /\ handlers' \subseteq (handlers \ {h}) \cup {g}
            /\ \A c : ~Holds(g, c)
            /\ CallOK(g)'
  <1> DEFINE g == [h EXCEPT !.at = at]
  <1>1. at \in Stages
    BY DEF Stages
  <1>2. /\ g \in LoginCall /\ g.at = at /\ g.no = h.no /\ g.op = h.op /\ g.email = h.email
        /\ g.ours = h.ours
    BY <1>1, AdvancedCall DEF CallsTyped
  <1>3. handlers' \subseteq (handlers \ {h}) \cup {g}
    BY DEF Ends, Goes, Moves
  <1> HIDE DEF g
  <1> QED BY <1>2, <1>3 DEF Holds, Marked, HasCode, CallOK

\* A request that ends lets go of its code.
LEMMA SignInEnds ==
  ASSUME SignInInv, ServerTyped', Grows, signIns' = signIns, admits' = admits,
         NEW h \in handlers, NEW at \in {"done", "failed"}, Ends(h, at)
  PROVE  SignInInv'
  <1>1. PICK g \in LoginCall :
            /\ g.no = h.no /\ handlers' \subseteq (handlers \ {h}) \cup {g}
            /\ \A c : ~Holds(g, c)
            /\ CallOK(g)'
    BY EndedCall DEF SignInInv
  <1> QED BY <1>1, SignInMoves

\* A request that goes on as itself keeps the code it holds, if it holds one.
LEMMA CallGoes ==
  ASSUME SignInInv, ServerTyped', Grows, signIns' = signIns, admits' = admits,
         NEW h \in handlers, NEW at \in Stages, Goes(h, at),
         h.op = "verify" /\ at \in HasCode => h.at \in HasCode /\ h.at # "misses",
         at \in {"misses", "marks"} => FALSE,
         at \in {"lists", "provisions"} => h.op = "verify",
         at \in {"looks", "creates"} => h.op \in {"verify", "invite"},
         at \in {"lists", "provisions", "joins"} => h.email \in users',
         h.op = "verify" /\ h.at = "marks" /\ at \in Marked => codes'[h.code].used
  PROVE  SignInInv'
  <1> DEFINE g == [h EXCEPT !.at = at]
  <1>1. /\ g \in LoginCall /\ g.at = at /\ g.no = h.no /\ g.op = h.op /\ g.email = h.email
        /\ g.code = h.code
    BY AdvancedCall DEF SignInInv, CallsTyped
  <1>2. handlers' \subseteq (handlers \ {h}) \cup {g}
    BY DEF Goes, Moves
  <1> HIDE DEF g
  <1>3. CallOK(h)'
    BY CallsStayOK DEF SignInInv
  <1>4. CallOK(g)'
    BY <1>1, <1>3 DEF CallOK, HasCode, Marked
  <1>5. \A c \in 1..MaxCodes : Holds(g, c) => Holds(h, c)
    BY <1>1 DEF Holds, HasCode, Marked
  <1> QED BY <1>1, <1>2, <1>4, <1>5, SignInMoves

LEMMA ServerStays ==
  ASSUME ServerTyped, UNCHANGED serverVars
  PROVE  ServerTyped' /\ Grows /\ admits' = admits
  BY DEF ServerTyped, Grows, serverVars

LEMMA SendSteps ==
  ASSUME SignInInv, ServeSend \/ MakesCode
  PROVE  SignInInv'
  <1>1. ASSUME ServeSend PROVE SignInInv'
    <2>1. PICK h \in handlers : /\ h.op \in {"send", "resend"}
                                /\ Ends(h, "failed") \/ Goes(h, "makes")
      BY <1>1 DEF ServeSend
    <2>2. ServerTyped' /\ Grows /\ admits' = admits /\ signIns' = signIns
      BY <1>1, ServerStays DEF ServeSend, pageVars, SignInInv
    <2>3. ASSUME Goes(h, "makes") PROVE SignInInv'
      BY <2>1, <2>2, <2>3, CallGoes DEF HasCode, Marked, Stages
    <2> QED BY <2>1, <2>2, <2>3, SignInEnds
  <1>2. ASSUME MakesCode PROVE SignInInv'
    <2>1. PICK h \in handlers :
             /\ Len(codes) < MaxCodes
             /\ codes' = Append(codes, [email |-> h.email, used |-> FALSE, expired |-> FALSE, attempts |-> 0])
             /\ fresh' = fresh \cup {h.email}
             /\ Ends(h, "done") \/ Ends(h, "failed")
      BY <1>2 DEF MakesCode
    <2>2. UNCHANGED <<admits, twins, users, homes, invited, signIns>>
      BY <1>2 DEF MakesCode, peopleVars, pageVars
    <2>3. h.email \in Emails
      BY DEF SignInInv, CallsTyped, LoginCall
    <2> DEFINE new == [email |-> h.email, used |-> FALSE, expired |-> FALSE, attempts |-> 0]
    <2>4. new \in CodeRow
      BY <2>3 DEF CodeRow
    <2>5. codes \in Seq(CodeRow)
      BY DEF SignInInv, ServerTyped
    <2>6. codes' = Append(codes, new)
      BY <2>1
    <2> HIDE DEF new
    <2>7. /\ codes' \in Seq(CodeRow) /\ Len(codes') = Len(codes) + 1 /\ DOMAIN codes \subseteq DOMAIN codes'
          /\ \A c \in DOMAIN codes : codes'[c] = codes[c]
      BY <2>4, <2>5, <2>6
    <2>8. Len(codes') <= MaxCodes
      BY <2>1, <2>5, <2>7, LoginAssumption
    <2>9. ServerTyped' /\ Grows
      BY <2>1, <2>2, <2>3, <2>7, <2>8 DEF SignInInv, ServerTyped, Grows
    <2> QED BY <2>1, <2>2, <2>9, SignInEnds
  <1> QED BY <1>1, <1>2

\* A step that writes one row of a code, not its email, and does not take back
\* that it was used.
LEMMA CodeWritten ==
  ASSUME ServerTyped, UNCHANGED <<admits, twins, users, homes, invited>>, fresh' \subseteq Emails,
         NEW c \in DOMAIN codes, NEW r \in CodeRow, codes' = [codes EXCEPT ![c] = r],
         r.email = codes[c].email, codes[c].used => r.used
  PROVE  ServerTyped' /\ Grows
  <1>1. codes \in Seq(CodeRow) /\ c \in 1..Len(codes)
    BY CodesTyped DEF ServerTyped
  <1>2. /\ codes' \in Seq(CodeRow) /\ Len(codes') = Len(codes) /\ DOMAIN codes = DOMAIN codes'
        /\ \A d \in DOMAIN codes : codes'[d] = IF d = c THEN r ELSE codes[d]
    BY <1>1
  <1> QED BY <1>2 DEF ServerTyped, Grows

LEMMA TimeSteps ==
  ASSUME SignInInv, TenSeconds \/ TenMinutes
  PROVE  SignInInv'
  <1>1. ASSUME TenSeconds PROVE SignInInv'
    <2>1. ServerTyped' /\ Grows
      BY <1>1 DEF SignInInv, ServerTyped, Grows, TenSeconds, peopleVars
    <2> QED BY <1>1, <2>1, QuietCalls DEF TenSeconds, pageVars
  <1>2. ASSUME TenMinutes PROVE SignInInv'
    <2>1. PICK c \in DOMAIN codes : codes' = [codes EXCEPT ![c].expired = TRUE]
      BY <1>2 DEF TenMinutes
    <2> DEFINE r == [codes[c] EXCEPT !.expired = TRUE]
    <2>2. r \in CodeRow /\ r.email = codes[c].email /\ r.used = codes[c].used
      BY CodesTyped DEF SignInInv, CodeRow
    <2>3. codes' = [codes EXCEPT ![c] = r]
      BY <2>1
    <2>4. UNCHANGED <<fresh, handlers, admits, twins, users, homes, invited, signIns>>
      BY <1>2 DEF TenMinutes, peopleVars, pageVars
    <2> HIDE DEF r
    <2>5. ServerTyped' /\ Grows
      BY <2>2, <2>3, <2>4, CodeWritten DEF SignInInv, ServerTyped
    <2> QED BY <2>4, <2>5, QuietCalls
  <1> QED BY <1>1, <1>2

LEMMA VerifySteps ==
  ASSUME SignInInv, VerifyReads \/ VerifyMisses \/ VerifyMarks
  PROVE  SignInInv'
  <1>1. ASSUME VerifyReads PROVE SignInInv'
    <2>1. PICK h \in handlers : 
             /\ h.op = "verify" /\ h.at = "sent"
             /\ LET c == Latest(h.email) IN
                /\ IF c = None THEN Ends(h, "failed")
                   ELSE Moves(h, [h EXCEPT !.code = c, !.at = IF Matches(h.code, c) THEN "marks" ELSE "misses"])
                /\ twins' = IF c # None /\ Matches(h.code, c) /\ \E g \in handlers : g.at = "marks" /\ g.code = c
                            THEN twins \cup {c} ELSE twins
      BY <1>1 DEF VerifyReads
    <2>2. UNCHANGED <<codes, fresh, admits, users, homes, invited, signIns>>
      BY <1>1 DEF VerifyReads, peopleVars, pageVars
    <2>3. twins \subseteq twins'
      BY <2>1
    <2>4. ServerTyped' /\ Grows
      BY <2>2, <2>3 DEF SignInInv, ServerTyped, Grows
    <2>5. h \in LoginCall
      BY DEF SignInInv, CallsTyped
    <2>c. PICK c : c = Latest(h.email)
      OBVIOUS
    <2>6. CASE c = None
      BY <2>1, <2>c, <2>2, <2>4, <2>6, SignInEnds
    <2>7. CASE c # None
      <3>a. PICK at : at = IF Matches(h.code, c) THEN "marks" ELSE "misses"
        OBVIOUS
      <3> DEFINE g == [h EXCEPT !.code = c, !.at = at]
      <3>1. c \in Usable(h.email) /\ c \in 1..MaxCodes
        BY <2>5, <2>7, <2>c, LatestIsUsable DEF SignInInv, LoginCall
      <3>2. c \in DOMAIN codes /\ codes[c].email = h.email /\ ~codes[c].used
        BY <3>1 DEF Usable
      <3>3. handlers' \subseteq (handlers \ {h}) \cup {g}
        BY <2>1, <2>7, <2>c, <3>a DEF Moves
      <3>4. /\ at = "marks" /\ (\E k \in handlers : k.at = "marks" /\ k.code = c) => c \in twins'
            /\ at \in {"marks", "misses"}
        BY <2>1, <2>7, <2>c, <3>a
      <3>5. c \in 0..Master /\ at \in Stages
        BY <3>1, <3>4, LoginAssumption DEF Master, Stages
      <3>6. /\ g \in LoginCall /\ g.at = at /\ g.code = c
            /\ g.op = h.op /\ g.email = h.email /\ g.no = h.no
        <4>1. LET k == [h EXCEPT !.code = c, !.at = at] IN
              /\ k \in LoginCall /\ k.at = at /\ k.code = c
              /\ k.op = h.op /\ k.email = h.email /\ k.no = h.no
          BY ONLY <2>5, <3>5 DEF LoginCall
        <4> QED BY <4>1
      <3> HIDE DEF g
      <3>7. CallOK(g)'
        BY <2>1, <2>2, <3>2, <3>4, <3>6 DEF CallOK, HasCode, Marked
      <3>8. ASSUME NEW d \in 1..MaxCodes, Holds(g, d), d \notin twins'
            PROVE  admits[d] = 0 /\ \A k \in handlers : ~Holds(k, d)
        <4>1. d = c /\ at = "marks"
          BY <3>4, <3>6, <3>8 DEF Holds, Marked
        <4>2. admits[d] = 0
          BY <3>2, <4>1 DEF SignInInv, LetInOK, ServerTyped
        <4>3. ASSUME NEW k \in handlers, Holds(k, d) PROVE FALSE
          <5>1. k.at # "marks"
            BY <3>4, <3>8, <4>1, <4>3 DEF Holds
          <5>2. codes[c].used
            BY <4>1, <4>3, <5>1 DEF SignInInv, CallOK, Holds
          <5> QED BY <3>2, <5>2
        <4> QED BY <4>2, <4>3
      <3> QED BY <2>2, <2>4, <3>3, <3>6, <3>7, <3>8, SignInMoves
    <2> QED BY <2>6, <2>7
  <1>2. ASSUME VerifyMisses PROVE SignInInv'
    <2>1. PICK h \in handlers : /\ h.at = "misses" /\ codes' = [codes EXCEPT ![h.code].attempts = @ + 1]
                                /\ Ends(h, "failed")
      BY <1>2 DEF VerifyMisses
    <2>2. UNCHANGED <<fresh, admits, twins, users, homes, invited, signIns>>
      BY <1>2 DEF VerifyMisses, peopleVars, pageVars
    <2> DEFINE c == h.code
               r == [codes[c] EXCEPT !.attempts = @ + 1]
    <2>3. c \in DOMAIN codes
      BY <2>1 DEF SignInInv, CallOK, HasCode
    <2>4. r \in CodeRow /\ r.email = codes[c].email /\ r.used = codes[c].used
      BY <2>3, CodesTyped DEF SignInInv, CodeRow
    <2>5. codes' = [codes EXCEPT ![c] = r]
      BY <2>1
    <2> HIDE DEF r, c
    <2>6. ServerTyped' /\ Grows
      BY <2>2, <2>3, <2>4, <2>5, CodeWritten DEF SignInInv, ServerTyped
    <2> QED BY <2>1, <2>2, <2>6, SignInEnds
  <1>3. ASSUME VerifyMarks PROVE SignInInv'
    <2>1. PICK h \in handlers : h.at = "marks" /\ codes' = Spend(h.code) /\ Goes(h, "looks")
      BY <1>3 DEF VerifyMarks
    <2>2. UNCHANGED <<fresh, admits, twins, users, homes, invited, signIns>>
      BY <1>3 DEF VerifyMarks, peopleVars, pageVars
    <2> DEFINE c == h.code
               r == [codes[c] EXCEPT !.used = TRUE]
    <2>3. c \in DOMAIN codes /\ h.op = "verify"
      BY <2>1 DEF SignInInv, CallOK, HasCode
    <2>4. r \in CodeRow /\ r.email = codes[c].email /\ r.used
      BY <2>3, CodesTyped DEF SignInInv, CodeRow
    <2>5. codes' = [codes EXCEPT ![c] = r] /\ codes'[c] = r
      BY <2>1, <2>3 DEF Spend
    <2> HIDE DEF r, c
    <2>6. ServerTyped' /\ Grows
      BY <2>2, <2>3, <2>4, <2>5, CodeWritten DEF SignInInv, ServerTyped
    <2>7. codes'[h.code].used
      BY <2>4, <2>5 DEF c
    <2>8. h.op = "verify"
      BY <2>3
    <2> QED BY <2>1, <2>2, <2>6, <2>7, <2>8, CallGoes DEF HasCode, Marked, Stages
  <1> QED BY <1>1, <1>2, <1>3

LEMMA UserSteps ==
  ASSUME SignInInv, LooksForUser \/ CreatesUser \/ Invited
  PROVE  SignInInv'
  <1> USE DEF HasCode, Marked, Stages
  <1>1. ASSUME LooksForUser PROVE SignInInv'
    <2>1. PICK h \in handlers : /\ h.at = "looks"
             /\ Goes(h, IF h.email \notin users THEN "creates" ELSE IF h.op = "invite" THEN "joins" ELSE "lists")
      BY <1>1 DEF LooksForUser
    <2>2. ServerTyped' /\ Grows /\ admits' = admits /\ signIns' = signIns /\ UNCHANGED <<codes, users>>
      BY <1>1 DEF LooksForUser, peopleVars, pageVars, SignInInv, ServerTyped, Grows
    <2>3. h.op \in {"verify", "invite"}
      BY <2>1 DEF SignInInv, CallOK
    <2>4. CASE h.email \notin users
      BY <2>1, <2>2, <2>3, <2>4, CallGoes
    <2>5. CASE h.email \in users /\ h.op = "invite"
      BY <2>1, <2>2, <2>5, CallGoes
    <2>6. CASE h.email \in users /\ h.op = "verify"
      BY <2>1, <2>2, <2>6, CallGoes
    <2> QED BY <2>3, <2>4, <2>5, <2>6
  <1>2. ASSUME CreatesUser PROVE SignInInv'
    <2>1. PICK h \in handlers : /\ h.at = "creates" /\ users' = users \cup {h.email}
             /\ IF h.email \in users THEN Ends(h, "failed")
                ELSE Goes(h, IF h.op = "invite" THEN "joins" ELSE "lists")
      BY <1>2 DEF CreatesUser
    <2>2. UNCHANGED <<codes, fresh, homes, invited, admits, twins, signIns>>
      BY <1>2 DEF CreatesUser, pageVars
    <2>3. h.email \in Emails /\ h.op \in {"verify", "invite"}
      BY <2>1 DEF SignInInv, CallOK, CallsTyped, LoginCall
    <2>4. ServerTyped' /\ Grows
      BY <2>1, <2>2, <2>3 DEF SignInInv, ServerTyped, Grows
    <2>5. CASE h.email \in users
      BY <2>1, <2>2, <2>4, <2>5, SignInEnds
    <2>6. CASE h.email \notin users /\ h.op = "invite"
      BY <2>1, <2>2, <2>4, <2>6, CallGoes
    <2>7. CASE h.email \notin users /\ h.op = "verify"
      BY <2>1, <2>2, <2>4, <2>7, CallGoes
    <2> QED BY <2>3, <2>5, <2>6, <2>7
  <1>3. ASSUME Invited PROVE SignInInv'
    <2>1. PICK h \in handlers : h.at = "joins" /\ invited' = invited \cup {h.email} /\ Ends(h, "done")
      BY <1>3 DEF Invited
    <2>2. UNCHANGED <<codes, fresh, users, homes, admits, twins, signIns>>
      BY <1>3 DEF Invited, pageVars
    <2>3. h.email \in users
      BY <2>1 DEF SignInInv, CallOK
    <2>4. ServerTyped' /\ Grows
      BY <2>1, <2>2, <2>3 DEF SignInInv, ServerTyped, Grows
    <2> QED BY <2>1, <2>2, <2>4, SignInEnds
  <1> QED BY <1>1, <1>2, <1>3

LEMMA CallAdmits ==
  ASSUME SignInInv, ServerTyped', Grows, signIns' = signIns,
         NEW h \in handlers, h.at \in {"lists", "provisions"}, LetIn(h),
         homes'[h.email] = 1 \/ h.email \in invited'
  PROVE  SignInInv'
  <1>1. Ends(h, "done") /\ admits' = [admits EXCEPT ![h.code] = @ + 1]
    BY DEF LetIn
  <1>2. PICK g \in LoginCall : /\ g.no = h.no /\ g.at = "done"
                               /\ handlers' \subseteq (handlers \ {h}) \cup {g}
    BY <1>1, EndedCall DEF SignInInv
  <1> QED BY <1>1, <1>2, CallLetsIn

\* Counting one admission keeps the table's type.
LEMMA AdmitTyped ==
  ASSUME SignInInv, NEW h \in handlers, h.at \in {"lists", "provisions"}, LetIn(h)
  PROVE  admits' \in [1..MaxCodes -> Nat] /\ h.email \in users /\ h.email \in Emails
  <1>1. h.code \in 1..MaxCodes /\ h.email \in users
    BY CodesTyped DEF SignInInv, CallOK, HasCode
  <1> QED BY <1>1 DEF LetIn, SignInInv, ServerTyped

LEMMA WorkspaceSteps ==
  ASSUME SignInInv, ListsWorkspaces \/ Provisions
  PROVE  SignInInv'
  <1>1. ASSUME ListsWorkspaces PROVE SignInInv'
    <2>1. PICK h \in handlers :
             /\ h.at = "lists"
             /\ IF homes[h.email] > 0 \/ h.email \in invited THEN LetIn(h)
                ELSE Goes(h, "provisions") /\ UNCHANGED admits
      BY <1>1 DEF ListsWorkspaces
    <2>2. UNCHANGED <<codes, fresh, twins, users, homes, invited, signIns>>
      BY <1>1 DEF ListsWorkspaces, peopleVars, pageVars
    <2>3. h.op = "verify" /\ h.email \in users /\ h.email \in Emails
      BY <2>1 DEF SignInInv, CallOK, ServerTyped
    <2>4. CASE homes[h.email] > 0 \/ h.email \in invited
      <3>1. LetIn(h)
        BY <2>1, <2>4
      <3>2. ServerTyped' /\ Grows
        BY <2>1, <2>2, <3>1, AdmitTyped DEF SignInInv, ServerTyped, Grows
      <3>3. homes[h.email] \in {0, 1}
        BY <2>3 DEF SignInInv, ServerTyped
      <3>4. homes'[h.email] = 1 \/ h.email \in invited'
        BY <2>2, <2>4, <3>3
      <3> QED BY <2>1, <2>2, <3>1, <3>2, <3>4, CallAdmits
    <2>5. CASE ~(homes[h.email] > 0 \/ h.email \in invited)
      <3>1. Goes(h, "provisions") /\ admits' = admits
        BY <2>1, <2>5
      <3>2. ServerTyped' /\ Grows
        BY <2>2, <3>1 DEF SignInInv, ServerTyped, Grows
      <3> QED BY <2>1, <2>2, <2>3, <3>1, <3>2, CallGoes DEF HasCode, Marked, Stages
    <2> QED BY <2>4, <2>5
  <1>2. ASSUME Provisions PROVE SignInInv'
    <2>1. PICK h \in handlers :
             /\ h.at = "provisions" /\ LetIn(h)
             /\ homes' = IF SlugFree(h.email) /\ h.email \notin invited
                         THEN [homes EXCEPT ![h.email] = @ + 1] ELSE homes
      BY <1>2 DEF Provisions
    <2>2. UNCHANGED <<codes, fresh, users, invited, twins, signIns>>
      BY <1>2 DEF Provisions, pageVars
    <2>3. admits' \in [1..MaxCodes -> Nat] /\ h.email \in users /\ h.email \in Emails
      BY <2>1, AdmitTyped
    <2>4. homes \in [Emails -> {0, 1}]
      BY DEF SignInInv, ServerTyped
    <2>5. /\ homes' \in [Emails -> {0, 1}] /\ \A e \in Emails : homes[e] = 1 => homes'[e] = 1
          /\ homes'[h.email] = 1 \/ h.email \in invited
      <3>1. CASE homes[h.email] = 0 /\ h.email \notin invited
        <4>1. homes' = [homes EXCEPT ![h.email] = 1]
          BY <2>1, <3>1 DEF SlugFree
        <4> QED BY <2>3, <2>4, <3>1, <4>1
      <3>2. CASE ~(homes[h.email] = 0 /\ h.email \notin invited)
        <4>1. homes' = homes
          BY <2>1, <3>2 DEF SlugFree
        <4> QED BY <2>3, <2>4, <3>2, <4>1
      <3> QED BY <3>1, <3>2
    <2>6. ServerTyped' /\ Grows
      BY <2>2, <2>3, <2>5 DEF SignInInv, ServerTyped, Grows
    <2> QED BY <2>1, <2>2, <2>5, <2>6, CallAdmits
  <1> QED BY <1>1, <1>2

LEMMA NewCall ==
  ASSUME signIns \in Nat, NEW op \in LoginOps, NEW e \in Emails, NEW c \in 0..Master,
         NEW ours \in BOOLEAN
  PROVE  /\ Handler(op, e, c, ours) \in LoginCall
         /\ Handler(op, e, c, ours).no = signIns /\ Handler(op, e, c, ours).at = "sent"
         /\ Handler(op, e, c, ours).email = e
  BY DEF Handler, LoginCall, Stages

LEMMA OtherCalls ==
  ASSUME SignInInv, HandlerFails \/ OthersSignIn
  PROVE  SignInInv'
  <1>1. ASSUME HandlerFails PROVE SignInInv'
    <2>1. PICK h \in handlers : Ends(h, "failed")
      BY <1>1 DEF HandlerFails
    <2>2. ServerTyped' /\ Grows /\ admits' = admits /\ signIns' = signIns
      BY <1>1, ServerStays DEF HandlerFails, pageVars, SignInInv
    <2> QED BY <2>1, <2>2, SignInEnds
  <1>2. ASSUME OthersSignIn PROVE SignInInv'
    <2>1. UNCHANGED serverVars
      BY <1>2 DEF OthersSignIn
    <2>2. PICK g : Starts(g) /\ \E e \in Emails :
             \/ g = Handler("send", e, None, FALSE)
             \/ \E c \in DOMAIN codes : g = Handler("verify", e, c, FALSE)
             \/ g = [Handler("invite", e, None, FALSE) EXCEPT !.at = "looks"]
      BY <1>2 DEF OthersSignIn
    <2>3. signIns \in Nat /\ DOMAIN codes \subseteq 0..Master /\ None \in 0..Master
      BY CodesTyped, LoginAssumption DEF SignInInv, CallsTyped, Master, None
    <2>4. /\ g \in LoginCall /\ g.no = signIns
          /\ g.at = "sent" \/ (g.at = "looks" /\ g.op = "invite")
      <3>1. PICK e \in Emails :
             \/ g = Handler("send", e, None, FALSE)
             \/ \E c \in DOMAIN codes : g = Handler("verify", e, c, FALSE)
             \/ g = [Handler("invite", e, None, FALSE) EXCEPT !.at = "looks"]
        BY <2>2
      <3>2. {"send", "verify", "invite"} \subseteq LoginOps /\ FALSE \in BOOLEAN
        BY DEF LoginOps
      <3>3. CASE g = Handler("send", e, None, FALSE)
        BY <2>3, <3>2, <3>3, NewCall
      <3>4. ASSUME NEW c \in DOMAIN codes, g = Handler("verify", e, c, FALSE)
            PROVE  g \in LoginCall /\ g.no = signIns /\ g.at = "sent"
        BY <2>3, <3>2, <3>4, NewCall
      <3>5. CASE g = [Handler("invite", e, None, FALSE) EXCEPT !.at = "looks"]
        <4>1. g = [op |-> "invite", email |-> e, code |-> None, at |-> "looks", ours |-> FALSE,
                   no |-> signIns]
          BY <3>5 DEF Handler
        <4> QED BY <2>3, <3>2, <4>1 DEF LoginCall, Stages
      <3> QED BY <3>1, <3>3, <3>4, <3>5
    <2> QED BY <2>1, <2>2, <2>4, SignInStarts
  <1> QED BY <1>1, <1>2

-----------------------------------------------------------------------------
(* The page *)

PageState == [step : LoginSteps, email : Emails \cup {None}, submitting : BOOLEAN,
              cooldown : BOOLEAN, cli : {"no", "valid", "invalid"}, token : BOOLEAN,
              asking : BOOLEAN]

\* Where a code can be entered, or a call of the page is under way, it has an
\* address; and it is that of the calls unless it was changed meanwhile.
PageInv ==
    /\ loginPage \in PageState
    /\ loginPage.step = "code" \/ Ours # {} => loginPage.email \in Emails
    /\ loggedAs # None => loginPage.step = "left"
    /\ PageMeansItsEmail
    /\ ~strayed => \A h \in Ours : h.email = loginPage.email

LoginInv == SignInInv /\ PageInv

LEMMA PageCalls ==
  ASSUME LoginInv, HandleSendCode \/ HandleResend \/ HandleVerifyCode
  PROVE  LoginInv'
  <1>1. PICK op \in {"send", "resend", "verify"}, c \in DOMAIN codes \cup {None, Master}, busy \in BOOLEAN :
           PageAsks(Handler(op, loginPage.email, c, TRUE), busy)
    BY DEF HandleSendCode, HandleResend, HandleVerifyCode
  <1>2. loginPage.email \in Emails
    BY DEF HandleSendCode, HandleResend, HandleVerifyCode, LoginInv, PageInv, PageState
  <1>3. PICK g : g = Handler(op, loginPage.email, c, TRUE)
    OBVIOUS
  <1>4. c \in 0..Master /\ signIns \in Nat /\ op \in LoginOps /\ TRUE \in BOOLEAN
    BY CodesTyped, LoginAssumption DEF LoginInv, SignInInv, CallsTyped, Master, None, LoginOps
  <1>5. g \in LoginCall /\ g.no = signIns /\ g.at = "sent" /\ g.email = loginPage.email
    <2>1. PICK ours \in BOOLEAN : ours = TRUE
      OBVIOUS
    <2>2. g = Handler(op, loginPage.email, c, ours)
      BY <1>3, <2>1
    <2> QED BY <1>2, <1>4, <2>2, NewCall
  <1>6. /\ Starts(g) /\ loginPage' = [loginPage EXCEPT !.submitting = @ \/ busy]
        /\ UNCHANGED <<serverVars, sentTo, loggedAs, strayed>>
    BY <1>1, <1>3 DEF PageAsks
  <1>7. SignInInv'
    BY <1>5, <1>6, SignInStarts DEF LoginInv
  <1>8. loginPage' \in PageState /\ loginPage'.email = loginPage.email /\ loginPage'.step = loginPage.step
    BY <1>1, <1>6 DEF LoginInv, PageInv, PageState
  <1>9. Ours' \subseteq Ours \cup {g}
    BY <1>6 DEF Ours, Starts
  <1>10. PageInv'
    BY <1>2, <1>5, <1>6, <1>8, <1>9 DEF LoginInv, PageInv, PageMeansItsEmail
  <1> QED BY <1>7, <1>10 DEF LoginInv

\* What the server does leaves the page as it is, and the calls its own.
LEMMA ServerLeavesPage ==
  ASSUME LoginInv, UNCHANGED <<loginPage, sentTo, loggedAs, strayed>>,
         \A h \in Ours' : \E k \in Ours : h.email = k.email
  PROVE  PageInv'
  BY DEF LoginInv, PageInv, PageMeansItsEmail

LEMMA PageQuiet ==
  ASSUME LoginInv,
         TypeEmail \/ Back \/ CooldownEnds \/ SessionChecked \/ HandleCliAuthorize \/ UseDifferentAccount
  PROVE  LoginInv'
  <1>1. UNCHANGED <<serverVars, signIns, handlers, sentTo, loggedAs>>
    BY DEF TypeEmail, Back, CooldownEnds, SessionChecked, HandleCliAuthorize, UseDifferentAccount,
           PageBecomes
  <1>2. SignInInv'
    <2>1. ServerTyped' /\ Grows /\ admits' = admits
      BY <1>1, ServerStays DEF LoginInv, SignInInv
    <2> QED BY <1>1, <2>1, QuietCalls DEF LoginInv
  <1>3. Ours' = Ours
    BY <1>1 DEF Ours
  <1>4. CASE TypeEmail
    <2>1. PICK e \in Emails : /\ loginPage.step = "email" /\ loginPage' = [loginPage EXCEPT !.email = e]
                              /\ strayed' = (strayed \/ Ours # {})
      BY <1>4 DEF TypeEmail, PageBecomes
    <2>2. loginPage' \in PageState /\ loginPage'.email = e /\ loginPage'.step = "email"
      BY <2>1 DEF LoginInv, PageInv, PageState
    <2>3. PageInv'
      BY <1>1, <1>3, <2>1, <2>2 DEF LoginInv, PageInv, PageMeansItsEmail
    <2> QED BY <1>2, <2>3 DEF LoginInv
  <1>5. CASE Back \/ CooldownEnds \/ SessionChecked \/ HandleCliAuthorize \/ UseDifferentAccount
    <2>1. /\ loginPage' \in PageState /\ loginPage'.email = loginPage.email
          /\ loginPage'.step = loginPage.step \/ loginPage'.step \in {"email", "cli_confirm", "left"}
          /\ loginPage.step = "left" => loginPage'.step = "left"
          /\ strayed' = strayed
      BY <1>5 DEF Back, CooldownEnds, SessionChecked, HandleCliAuthorize, UseDifferentAccount,
                  PageBecomes, LoginInv, PageInv, PageState, LoginSteps
    <2>2. PageInv'
      BY <1>1, <1>3, <2>1 DEF LoginInv, PageInv, PageMeansItsEmail
    <2> QED BY <1>2, <2>2 DEF LoginInv
  <1> QED BY <1>4, <1>5

LEMMA PageAnswers ==
  ASSUME LoginInv, CodeSent \/ VerifyAnswered \/ CallFailed
  PROVE  LoginInv'
  <1>1. PICK h \in Ours : handlers' = handlers \ {h}
                          /\ \/ /\ CodeSent /\ sentTo' = sentTo \cup {h.email} /\ UNCHANGED <<loggedAs, strayed>>
                                /\ PageBecomes([loginPage EXCEPT !.cooldown = TRUE,
                                        !.step = IF h.op = "send" THEN "code" ELSE @,
                                        !.submitting = IF h.op = "send" THEN FALSE ELSE @])
                                /\ loginPage.step # "left"
                             \/ /\ VerifyAnswered /\ loggedAs' = h.email /\ UNCHANGED sentTo
                                /\ PageBecomes([loginPage EXCEPT !.step = "left", !.token = @ \/ loginPage.cli = "no"])
                                /\ strayed' = (strayed \/ loginPage.email # h.email)
                             \/ /\ CallFailed /\ UNCHANGED <<sentTo, loggedAs, strayed>>
                                /\ PageBecomes([loginPage EXCEPT !.submitting = IF h.op = "resend" THEN @ ELSE FALSE])
    BY DEF CodeSent, VerifyAnswered, CallFailed
  <1>2. UNCHANGED <<serverVars, signIns>>
    BY <1>1 DEF PageBecomes
  <1>3. SignInInv'
    <2>1. ServerTyped' /\ Grows /\ admits' = admits
      BY <1>2, ServerStays DEF LoginInv, SignInInv
    <2> QED BY <1>1, <1>2, <2>1, QuietCalls DEF LoginInv
  <1>4. Ours' \subseteq Ours /\ Ours # {}
    BY <1>1 DEF Ours
  <1>5. loginPage.email \in Emails /\ loginPage \in PageState
    BY <1>4 DEF LoginInv, PageInv
  <1>6. CASE CodeSent /\ sentTo' = sentTo \cup {h.email} /\ UNCHANGED <<loggedAs, strayed>>
             /\ PageBecomes([loginPage EXCEPT !.cooldown = TRUE,
                                        !.step = IF h.op = "send" THEN "code" ELSE @,
                                        !.submitting = IF h.op = "send" THEN FALSE ELSE @])
             /\ loginPage.step # "left"
    <2>1. /\ loginPage' \in PageState /\ loginPage'.email = loginPage.email
          /\ loginPage'.step \in {loginPage.step, "code"}
      BY <1>5, <1>6 DEF PageBecomes, PageState, LoginSteps
    <2>2. PageInv'
      BY <1>4, <1>5, <1>6, <2>1 DEF LoginInv, PageInv, PageMeansItsEmail
    <2> QED BY <1>3, <2>2 DEF LoginInv
  <1>7. CASE VerifyAnswered /\ loggedAs' = h.email /\ UNCHANGED sentTo
             /\ PageBecomes([loginPage EXCEPT !.step = "left", !.token = @ \/ loginPage.cli = "no"])
             /\ strayed' = (strayed \/ loginPage.email # h.email)
    <2>1. /\ loginPage' \in PageState /\ loginPage'.email = loginPage.email
          /\ loginPage'.step = "left"
      BY <1>5, <1>7 DEF PageBecomes, PageState, LoginSteps
    <2>2. PageInv'
      BY <1>4, <1>5, <1>7, <2>1 DEF LoginInv, PageInv, PageMeansItsEmail
    <2> QED BY <1>3, <2>2 DEF LoginInv
  <1>8. CASE CallFailed /\ UNCHANGED <<sentTo, loggedAs, strayed>>
             /\ PageBecomes([loginPage EXCEPT !.submitting = IF h.op = "resend" THEN @ ELSE FALSE])
    <2>1. /\ loginPage' \in PageState /\ loginPage'.email = loginPage.email
          /\ loginPage'.step = loginPage.step
      BY <1>5, <1>8 DEF PageBecomes, PageState, LoginSteps
    <2>2. PageInv'
      BY <1>4, <1>5, <1>8, <2>1 DEF LoginInv, PageInv, PageMeansItsEmail
    <2> QED BY <1>3, <2>2 DEF LoginInv
  <1> QED BY <1>1, <1>6, <1>7, <1>8

-----------------------------------------------------------------------------
(* The server's steps, and the invariant *)

\* A request stays that of its sender and of its email.
LEMMA SameSender ==
  ASSUME CallsTyped, NEW h \in handlers,
         \/ \E at \in Stages : Goes(h, at) \/ Ends(h, at)
         \/ \E c \in 0..Master, at \in Stages : Moves(h, [h EXCEPT !.code = c, !.at = at])
  PROVE  \A k \in Ours' : \E x \in Ours : k.email = x.email
  <1>0. h \in LoginCall
    BY DEF CallsTyped
  <1>1. CASE handlers' = handlers \ {h}
    BY <1>1 DEF Ours
  <1>2. ASSUME NEW at \in Stages, handlers' = (handlers \ {h}) \cup {[h EXCEPT !.at = at]}
        PROVE  \A k \in Ours' : \E x \in Ours : k.email = x.email
    <2>1. PICK g : g = [h EXCEPT !.at = at]
      OBVIOUS
    <2>2. g.ours = h.ours /\ g.email = h.email
      BY <1>0, <2>1, AdvancedCall
    <2> QED BY <1>2, <2>1, <2>2 DEF Ours
  <1>3. ASSUME NEW at \in Stages, NEW c \in 0..Master,
               handlers' = (handlers \ {h}) \cup {[h EXCEPT !.code = c, !.at = at]}
        PROVE  \A k \in Ours' : \E x \in Ours : k.email = x.email
    <2>1. PICK g : g = [h EXCEPT !.code = c, !.at = at]
      OBVIOUS
    <2>2. g.ours = h.ours /\ g.email = h.email
      BY <1>0, <2>1 DEF LoginCall
    <2> QED BY <1>3, <2>1, <2>2 DEF Ours
  <1> QED BY <1>1, <1>2, <1>3 DEF Goes, Ends, Moves

LEMMA ServerSenders ==
  ASSUME SignInInv, HandlerSteps \/ OthersSignIn \/ Invited
  PROVE  /\ UNCHANGED <<loginPage, sentTo, loggedAs, strayed>>
         /\ \A k \in Ours' : \E x \in Ours : k.email = x.email
  <1> DEFINE Same == \A k \in Ours' : \E x \in Ours : k.email = x.email
  <1>0. CallsTyped /\ ServerTyped
    BY DEF SignInInv
  <1>1. ASSUME TenSeconds \/ TenMinutes \/ OthersSignIn
        PROVE  Same /\ UNCHANGED <<loginPage, sentTo, loggedAs, strayed>>
    <2>1. CASE TenSeconds \/ TenMinutes
      BY <2>1 DEF TenSeconds, TenMinutes, Ours, pageVars
    <2>2. CASE OthersSignIn
      <3>1. PICK g : Starts(g) /\ ~g.ours
        <4>1. \A op, e, c : /\ ~Handler(op, e, c, FALSE).ours
                            /\ ~[Handler(op, e, c, FALSE) EXCEPT !.at = "looks"].ours
          BY DEF Handler
        <4> QED BY <2>2, <4>1 DEF OthersSignIn
      <3> QED BY <2>2, <3>1 DEF OthersSignIn, Starts, Ours
    <2> QED BY <1>1, <2>1, <2>2
  <1>2. ASSUME ServeSend \/ MakesCode \/ VerifyMisses \/ VerifyMarks \/ LooksForUser \/ CreatesUser
               \/ ListsWorkspaces \/ Provisions \/ HandlerFails \/ Invited
        PROVE  Same /\ UNCHANGED <<loginPage, sentTo, loggedAs, strayed>>
    <2>1. PICK h \in handlers : \E at \in Stages : Goes(h, at) \/ Ends(h, at)
      <3>1. {"makes", "looks", "creates", "lists", "provisions", "joins", "done", "failed"} \subseteq Stages
        BY DEF Stages
      <3>2. CASE ServeSend
        BY <3>1, <3>2 DEF ServeSend
      <3>3. CASE LooksForUser
        BY <3>1, <3>3 DEF LooksForUser
      <3>4. CASE CreatesUser
        BY <3>1, <3>4 DEF CreatesUser
      <3>5. CASE MakesCode \/ VerifyMisses \/ VerifyMarks
        BY <3>1, <3>5 DEF MakesCode, VerifyMisses, VerifyMarks
      <3>6. CASE ListsWorkspaces \/ Provisions \/ HandlerFails \/ Invited
        BY <3>1, <3>6 DEF ListsWorkspaces, Provisions, HandlerFails, Invited, LetIn
      <3> QED BY <1>2, <3>2, <3>3, <3>4, <3>5, <3>6
    <2>2. Same
      BY <1>0, <2>1, SameSender
    <2> QED BY <1>2, <2>2 DEF ServeSend, MakesCode, VerifyMisses, VerifyMarks, LooksForUser, CreatesUser,
                  ListsWorkspaces, Provisions, HandlerFails, Invited, pageVars
  <1>3. ASSUME VerifyReads PROVE Same /\ UNCHANGED <<loginPage, sentTo, loggedAs, strayed>>
    <2>1. PICK h \in handlers :
             LET c == Latest(h.email) IN
             IF c = None THEN Ends(h, "failed")
             ELSE Moves(h, [h EXCEPT !.code = c, !.at = IF Matches(h.code, c) THEN "marks" ELSE "misses"])
      BY <1>3 DEF VerifyReads
    <2>2. {"marks", "misses", "failed"} \subseteq Stages
      BY DEF Stages
    <2>3. h.email \in Emails
      BY <1>0 DEF CallsTyped, LoginCall
    <2>4. Latest(h.email) \in 0..Master
      BY <1>0, <2>3, LatestIsUsable, LoginAssumption DEF None, Master
    <2>5. Same
      BY <1>0, <2>1, <2>2, <2>4, SameSender
    <2> QED BY <1>3, <2>5 DEF VerifyReads, pageVars
  <1> QED BY <1>1, <1>2, <1>3 DEF HandlerSteps

LEMMA LoginStep == LoginInv /\ [LoginNext]_loginVars => LoginInv'
  <1>1. ASSUME LoginInv, HandlerSteps \/ OthersSignIn \/ Invited PROVE LoginInv'
    <2>1. SignInInv'
      BY <1>1, SendSteps, TimeSteps, VerifySteps, UserSteps, WorkspaceSteps, OtherCalls
         DEF HandlerSteps, LoginInv
    <2>2. PageInv'
      BY <1>1, ServerSenders, ServerLeavesPage DEF LoginInv
    <2> QED BY <2>1, <2>2 DEF LoginInv
  <1>2. ASSUME LoginInv, UNCHANGED loginVars PROVE LoginInv'
    <2>1. UNCHANGED <<serverVars, handlers, signIns, loginPage, sentTo, loggedAs, strayed>>
      BY <1>2 DEF loginVars
    <2>2. SignInInv'
      <3>1. ServerTyped' /\ Grows /\ admits' = admits
        BY <1>2, <2>1, ServerStays DEF LoginInv, SignInInv
      <3> QED BY <1>2, <2>1, <3>1, QuietCalls DEF LoginInv
    <2>3. PageInv'
      BY <1>2, <2>1 DEF LoginInv, PageInv, PageMeansItsEmail, Ours
    <2> QED BY <2>2, <2>3 DEF LoginInv
  <1> QED BY <1>1, <1>2, PageCalls, PageQuiet, PageAnswers
          DEF LoginNext, SignInSteps, LoginPageSteps

LEMMA LoginStart == LoginInit => LoginInv
  <1> SUFFICES ASSUME LoginInit PROVE LoginInv
    OBVIOUS
  <1>1. /\ codes = <<>> /\ fresh = {} /\ users = {} /\ homes = [e \in Emails |-> 0] /\ invited = {}
        /\ handlers = {} /\ signIns = 0 /\ admits = [c \in 1..MaxCodes |-> 0] /\ twins = {}
        /\ sentTo = {} /\ loggedAs = None /\ strayed = FALSE
    BY DEF LoginInit
  <1>2. CallsTyped /\ \A h \in handlers : CallOK(h)
    BY <1>1 DEF CallsTyped
  <1>3. ServerTyped
    BY <1>1, LoginAssumption DEF ServerTyped
  <1>4. \A c \in 1..MaxCodes : LetInOK(c) /\ OnceOnly(c)
    BY <1>1 DEF LetInOK, OnceOnly
  <1>5. loginPage \in PageState /\ loginPage.step = "email"
    BY DEF LoginInit, PageState, LoginSteps
  <1>6. PageInv
    BY <1>1, <1>5 DEF PageInv, PageMeansItsEmail, Ours
  <1> QED BY <1>2, <1>3, <1>4, <1>6 DEF LoginInv, SignInInv

\* The invariant of sign-in: what is kept of codes, tokens and users is of the
\* right kind, and no half of a sign-in is there without the other.
THEOREM LoginInvariant == LoginSpec => []LoginInv
  BY LoginStart, LoginStep, PTL DEF LoginSpec

\* Sign-in and its server side, however requests cross: a code admits once, an
\* account has one workspace of its own at most, and the page signs in as the
\* address it shows.
THEOREM LoginWhole == LoginSpec => [](CodesAdmitOnce /\ OneHomeEach /\ PageMeansItsEmail)
  <1>1. LoginInv => CodesAdmitOnce /\ OneHomeEach /\ PageMeansItsEmail
    <2> SUFFICES ASSUME LoginInv PROVE CodesAdmitOnce /\ OneHomeEach /\ PageMeansItsEmail
      OBVIOUS
    <2>1. CodesAdmitOnce
      BY DEF LoginInv, SignInInv, ServerTyped, OnceOnly, CodesAdmitOnce
    <2>2. OneHomeEach
      BY CodesTyped DEF LoginInv, SignInInv, ServerTyped, LetInOK, OneHomeEach
    <2> QED BY <2>1, <2>2 DEF LoginInv, PageInv
  <1> QED BY <1>1, LoginInvariant, PTL

-----------------------------------------------------------------------------
(* Type correctness: a request counts one miss at most *)

Untried == {h \in handlers : h.at \in {"sent", "misses"}}

SignInsCounted ==
    /\ IsFiniteSet(handlers) /\ signIns <= MaxSignIns
    /\ Cardinality(Untried) <= signIns
    /\ \A c \in DOMAIN codes : codes[c].attempts + Cardinality(Untried) <= signIns
    /\ \A e \in Emails : homes[e] = 1 => signIns >= 1

LEMMA UntriedFinite ==
  ASSUME SignInsCounted
  PROVE  IsFiniteSet(Untried) /\ Cardinality(Untried) \in Nat
  <1>1. Untried \in SUBSET handlers
    BY DEF Untried
  <1>2. IsFiniteSet(Untried)
    BY <1>1, FS_Subset DEF SignInsCounted
  <1> QED BY <1>2, FS_CardinalityType

LEMMA UntriedMoves ==
  ASSUME SignInsCounted, NEW h \in handlers, NEW g, handlers' \subseteq (handlers \ {h}) \cup {g},
         g.at \in {"sent", "misses"} => h.at \in {"sent", "misses"}
  PROVE  /\ IsFiniteSet(handlers')
         /\ Cardinality(Untried') \in Nat /\ Cardinality(Untried') <= Cardinality(Untried)
         /\ h.at = "misses" /\ g.at \notin {"sent", "misses"} =>
               Cardinality(Untried') + 1 <= Cardinality(Untried)
  <1>1. IsFiniteSet(handlers')
    <2>1. IsFiniteSet(handlers \ {h})
      BY FS_RemoveElement DEF SignInsCounted
    <2>2. IsFiniteSet((handlers \ {h}) \cup {g})
      BY <2>1, FS_AddElement
    <2> QED BY <2>2, FS_Subset
  <1>2. IsFiniteSet(Untried) /\ Cardinality(Untried) \in Nat
    BY UntriedFinite
  <1>3. CASE g.at \in {"sent", "misses"}
    <2>1. h \in Untried /\ Untried' \subseteq (Untried \ {h}) \cup {g}
      BY <1>3 DEF Untried
    <2>2. IsFiniteSet(Untried \ {h}) /\ Cardinality(Untried \ {h}) = Cardinality(Untried) - 1
      BY <1>2, <2>1, FS_RemoveElement
    <2>3. /\ IsFiniteSet((Untried \ {h}) \cup {g})
          /\ Cardinality((Untried \ {h}) \cup {g}) <= Cardinality(Untried)
      <3>1. /\ IsFiniteSet((Untried \ {h}) \cup {g})
            /\ Cardinality((Untried \ {h}) \cup {g})
                 = IF g \in Untried \ {h} THEN Cardinality(Untried \ {h}) ELSE Cardinality(Untried \ {h}) + 1
        BY <2>2, FS_AddElement
      <3> QED BY <1>2, <2>2, <3>1
    <2>4. Cardinality(Untried') <= Cardinality((Untried \ {h}) \cup {g}) /\ IsFiniteSet(Untried')
      BY <2>1, <2>3, FS_Subset
    <2>5. Cardinality(Untried') \in Nat /\ Cardinality((Untried \ {h}) \cup {g}) \in Nat
      BY <2>3, <2>4, FS_CardinalityType
    <2> QED BY <1>1, <1>2, <1>3, <2>3, <2>4, <2>5
  <1>4. CASE g.at \notin {"sent", "misses"}
    <2>1. Untried' \subseteq Untried \ {h}
      BY <1>4 DEF Untried
    <2>2. /\ IsFiniteSet(Untried \ {h})
          /\ Cardinality(Untried \ {h}) = IF h \in Untried THEN Cardinality(Untried) - 1 ELSE Cardinality(Untried)
      BY <1>2, FS_RemoveElement
    <2>3. Cardinality(Untried') <= Cardinality(Untried \ {h}) /\ IsFiniteSet(Untried')
      BY <2>1, <2>2, FS_Subset
    <2>4. Cardinality(Untried') \in Nat /\ Cardinality(Untried \ {h}) \in Nat
      BY <2>2, <2>3, FS_CardinalityType
    <2>5. h.at = "misses" => h \in Untried
      BY DEF Untried
    <2> QED BY <1>1, <1>2, <2>2, <2>3, <2>4, <2>5
  <1> QED BY <1>3, <1>4

\* The request that ends, or goes on as one that has been tried.
LEMMA TriedCall ==
  ASSUME SignInInv, NEW h \in handlers,
         \E at \in Stages \ {"sent", "misses"} : Goes(h, at) \/ Ends(h, at)
  PROVE  \E g : g.at \notin {"sent", "misses"} /\ handlers' \subseteq (handlers \ {h}) \cup {g}
  <1>0. h \in LoginCall
    BY DEF SignInInv, CallsTyped
  <1>1. PICK at \in Stages \ {"sent", "misses"} :
           handlers' \subseteq (handlers \ {h}) \cup {[h EXCEPT !.at = at]}
    BY DEF Goes, Ends, Moves
  <1>2. PICK g : g = [h EXCEPT !.at = at]
    OBVIOUS
  <1>3. g.at = at
    BY <1>0, <1>2, AdvancedCall
  <1> QED BY <1>1, <1>2, <1>3

\* What a step that makes no request, and counts no miss, does to the count.
LEMMA CountStays ==
  ASSUME ServerTyped, ServerTyped', SignInsCounted, signIns' = signIns, signIns \in Nat,
         IsFiniteSet(handlers'), Cardinality(Untried') \in Nat, Cardinality(Untried') <= Cardinality(Untried),
         \A c \in DOMAIN codes' : codes'[c].attempts = 0
                                  \/ (c \in DOMAIN codes /\ codes'[c].attempts = codes[c].attempts),
         \A e \in Emails : homes'[e] = 1 => homes[e] = 1 \/ signIns >= 1
  PROVE  SignInsCounted'
  <1>1. MaxSignIns \in Nat /\ Cardinality(Untried) \in Nat
    BY LoginAssumption, UntriedFinite
  <1>2. \A c \in DOMAIN codes : codes[c].attempts \in Nat
    BY CodesTyped DEF CodeRow
  <1>3. \A c \in DOMAIN codes' : codes'[c].attempts + Cardinality(Untried') <= signIns
    BY <1>1, <1>2 DEF SignInsCounted
  <1> QED BY <1>1, <1>3 DEF SignInsCounted

LEMMA CountStep ==
  ASSUME LoginInv, SignInsCounted, LoginInv', [LoginNext]_loginVars
  PROVE  SignInsCounted'
  <1> SignInInv /\ SignInInv' /\ CallsTyped /\ ServerTyped /\ ServerTyped' /\ CallsTyped' /\ signIns \in Nat
    BY DEF LoginInv, SignInInv, CallsTyped
  <1>0. /\ IsFiniteSet(handlers) /\ Cardinality(Untried) \in Nat /\ MaxSignIns \in Nat
        /\ \A h \in handlers : signIns >= 1 /\ h.no \in Nat
    BY UntriedFinite, LoginAssumption DEF SignInsCounted, CallsTyped, LoginCall
  <1>1. ASSUME ServeSend \/ MakesCode \/ VerifyMarks \/ LooksForUser \/ CreatesUser
               \/ ListsWorkspaces \/ Provisions \/ HandlerFails \/ Invited
        PROVE  SignInsCounted'
    <2>1. PICK h \in handlers : \E at \in Stages \ {"sent", "misses"} : Goes(h, at) \/ Ends(h, at)
      <3>1. {"makes", "looks", "creates", "lists", "provisions", "joins", "done", "failed"}
              \subseteq Stages \ {"sent", "misses"}
        BY DEF Stages
      <3>2. CASE ServeSend
        BY <3>1, <3>2 DEF ServeSend
      <3>3. CASE LooksForUser
        BY <3>1, <3>3 DEF LooksForUser
      <3>4. CASE CreatesUser
        BY <3>1, <3>4 DEF CreatesUser
      <3>5. CASE MakesCode \/ VerifyMarks
        BY <3>1, <3>5 DEF MakesCode, VerifyMarks
      <3>6. CASE ListsWorkspaces \/ Provisions \/ HandlerFails \/ Invited
        BY <3>1, <3>6 DEF ListsWorkspaces, Provisions, HandlerFails, Invited, LetIn
      <3> QED BY <1>1, <3>2, <3>3, <3>4, <3>5, <3>6
    <2>2. PICK g : g.at \notin {"sent", "misses"} /\ handlers' \subseteq (handlers \ {h}) \cup {g}
      BY <2>1, TriedCall
    <2>3. IsFiniteSet(handlers') /\ Cardinality(Untried') \in Nat /\ Cardinality(Untried') <= Cardinality(Untried)
      BY <2>2, UntriedMoves
    <2>4. signIns' = signIns
      BY <1>1 DEF ServeSend, MakesCode, VerifyMarks, LooksForUser, CreatesUser,
                  ListsWorkspaces, Provisions, HandlerFails, Invited, pageVars
    <2>5. \A c \in DOMAIN codes' : codes'[c].attempts = 0
                                  \/ (c \in DOMAIN codes /\ codes'[c].attempts = codes[c].attempts)
      <3>1. CASE MakesCode
        <4>1. PICK r \in CodeRow : codes' = Append(codes, r) /\ r.attempts = 0
          <5>1. PICK k \in handlers :
                  codes' = Append(codes, [email |-> k.email, used |-> FALSE, expired |-> FALSE, attempts |-> 0])
            BY <3>1 DEF MakesCode
          <5>2. k.email \in Emails
            BY DEF CallsTyped, LoginCall
          <5>3. [email |-> k.email, used |-> FALSE, expired |-> FALSE, attempts |-> 0] \in CodeRow
            BY <5>2 DEF CodeRow
          <5> QED BY <5>1, <5>3
        <4>2. codes \in Seq(CodeRow)
          BY DEF ServerTyped
        <4> QED BY <4>1, <4>2
      <3>2. CASE VerifyMarks
        <4>1. PICK k \in handlers : codes' = [codes EXCEPT ![k.code].used = TRUE]
          BY <3>2 DEF VerifyMarks, Spend
        <4>2. DOMAIN codes' = DOMAIN codes
          BY <4>1
        <4>3. ASSUME NEW c \in DOMAIN codes PROVE codes'[c].attempts = codes[c].attempts
          <5>1. codes[c] \in CodeRow
            BY CodesTyped
          <5>2. codes'[c] \in {codes[c], [codes[c] EXCEPT !.used = TRUE]}
            BY <4>1
          <5>3. [codes[c] EXCEPT !.used = TRUE].attempts = codes[c].attempts
            BY <5>1 DEF CodeRow
          <5> QED BY <5>2, <5>3
        <4> QED BY <4>2, <4>3
      <3>3. CASE ServeSend \/ LooksForUser \/ CreatesUser
                 \/ ListsWorkspaces \/ Provisions \/ HandlerFails \/ Invited
        BY <3>3 DEF ServeSend, LooksForUser, CreatesUser,
                  ListsWorkspaces, Provisions, HandlerFails, Invited, serverVars
      <3> QED BY <1>1, <3>1, <3>2, <3>3
    <2> QED BY <1>0, <2>3, <2>4, <2>5, CountStays
  <1>2. ASSUME TenSeconds \/ TenMinutes PROVE SignInsCounted'
    <2>1. UNCHANGED <<handlers, signIns, homes>>
      BY <1>2 DEF TenSeconds, TenMinutes, pageVars, peopleVars
    <2>2. Untried' = Untried
      BY <2>1 DEF Untried
    <2>3. \A c \in DOMAIN codes' : c \in DOMAIN codes /\ codes'[c].attempts = codes[c].attempts
      <3>1. CASE TenMinutes
        <4>1. PICK d \in DOMAIN codes : codes' = [codes EXCEPT ![d].expired = TRUE]
          BY <3>1 DEF TenMinutes
        <4>2. DOMAIN codes' = DOMAIN codes
          BY <4>1
        <4>3. ASSUME NEW c \in DOMAIN codes PROVE codes'[c].attempts = codes[c].attempts
          <5>1. codes[c] \in CodeRow
            BY CodesTyped
          <5>2. codes'[c] \in {codes[c], [codes[c] EXCEPT !.expired = TRUE]}
            BY <4>1
          <5>3. [codes[c] EXCEPT !.expired = TRUE].attempts = codes[c].attempts
            BY <5>1 DEF CodeRow
          <5> QED BY <5>2, <5>3
        <4> QED BY <4>2, <4>3
      <3>2. CASE TenSeconds
        BY <3>2 DEF TenSeconds
      <3> QED BY <1>2, <3>1, <3>2
    <2> QED BY <1>0, <2>1, <2>2, <2>3, CountStays

  <1>3. ASSUME VerifyReads PROVE SignInsCounted'
    <2>1. PICK h \in handlers : 
             /\ h.op = "verify" /\ h.at = "sent"
             /\ LET c == Latest(h.email) IN
                IF c = None THEN Ends(h, "failed")
                ELSE Moves(h, [h EXCEPT !.code = c, !.at = IF Matches(h.code, c) THEN "marks" ELSE "misses"])
      BY <1>3 DEF VerifyReads
    <2>2. UNCHANGED <<codes, homes, signIns>>
      BY <1>3 DEF VerifyReads, peopleVars, pageVars
    <2>3. \E g : handlers' \subseteq (handlers \ {h}) \cup {g}
      BY <2>1 DEF Ends, Goes, Moves
    <2>4. IsFiniteSet(handlers') /\ Cardinality(Untried') \in Nat /\ Cardinality(Untried') <= Cardinality(Untried)
      BY <2>1, <2>3, UntriedMoves
    <2> QED BY <2>2, <2>4, CountStays
  <1>4. ASSUME VerifyMisses PROVE SignInsCounted'
    <2>1. PICK h \in handlers : /\ h.at = "misses" /\ codes' = [codes EXCEPT ![h.code].attempts = @ + 1]
                                /\ Ends(h, "failed")
      BY <1>4 DEF VerifyMisses
    <2>2. UNCHANGED <<homes, signIns>>
      BY <1>4 DEF VerifyMisses, peopleVars, pageVars
    <2>3. PICK g : g.at \notin {"sent", "misses"} /\ handlers' \subseteq (handlers \ {h}) \cup {g}
      <3>1. "failed" \in Stages \ {"sent", "misses"}
        BY DEF Stages
      <3> QED BY <2>1, <3>1, TriedCall
    <2>4. /\ IsFiniteSet(handlers') /\ Cardinality(Untried') \in Nat
          /\ Cardinality(Untried') + 1 <= Cardinality(Untried)
      BY <2>1, <2>3, UntriedMoves
    <2>5. DOMAIN codes' = DOMAIN codes
      BY <2>1
    <2>6. ASSUME NEW c \in DOMAIN codes
          PROVE  codes[c].attempts \in Nat /\ codes'[c].attempts \in {codes[c].attempts, codes[c].attempts + 1}
      <3>1. codes[c] \in CodeRow
        BY CodesTyped
      <3>2. codes'[c] \in {codes[c], [codes[c] EXCEPT !.attempts = @ + 1]}
        BY <2>1
      <3>3. [codes[c] EXCEPT !.attempts = @ + 1].attempts = codes[c].attempts + 1 /\ codes[c].attempts \in Nat
        BY <3>1 DEF CodeRow
      <3> QED BY <3>2, <3>3
    <2>7. \A c \in DOMAIN codes' : codes'[c].attempts + Cardinality(Untried') <= signIns
      BY <1>0, <2>4, <2>5, <2>6 DEF SignInsCounted
    <2> QED BY <1>0, <2>2, <2>4, <2>7 DEF SignInsCounted
  <1>5. ASSUME OthersSignIn \/ HandleSendCode \/ HandleResend \/ HandleVerifyCode PROVE SignInsCounted'
    <2>1. UNCHANGED <<codes, homes>> /\ \E g : Starts(g)
      BY <1>5 DEF OthersSignIn, HandleSendCode, HandleResend, HandleVerifyCode, PageAsks, serverVars, peopleVars
    <2>2. PICK g : Starts(g)
      BY <2>1
    <2>3. signIns < MaxSignIns /\ signIns' = signIns + 1 /\ handlers' = handlers \cup {g}
      BY <2>2 DEF Starts
    <2>4. IsFiniteSet(handlers')
      BY <1>0, <2>3, FS_AddElement
    <2>5. IsFiniteSet(Untried) /\ Cardinality(Untried) \in Nat
      BY UntriedFinite
    <2>6. Untried' \subseteq Untried \cup {g}
      BY <2>3 DEF Untried
    <2>7. /\ IsFiniteSet(Untried \cup {g})
          /\ Cardinality(Untried \cup {g}) = IF g \in Untried THEN Cardinality(Untried) ELSE Cardinality(Untried) + 1
      BY <2>5, FS_AddElement
    <2>8. IsFiniteSet(Untried') /\ Cardinality(Untried') <= Cardinality(Untried \cup {g})
      BY <2>6, <2>7, FS_Subset
    <2>9. Cardinality(Untried') \in Nat /\ Cardinality(Untried') <= Cardinality(Untried) + 1
      BY <2>5, <2>7, <2>8, FS_CardinalityType
    <2>10. \A c \in DOMAIN codes : codes[c].attempts \in Nat
      BY CodesTyped DEF CodeRow
    <2> QED BY <1>0, <2>1, <2>3, <2>4, <2>9, <2>10 DEF SignInsCounted
  <1>6. ASSUME CodeSent \/ VerifyAnswered \/ CallFailed \/ TypeEmail \/ Back \/ CooldownEnds
               \/ SessionChecked \/ HandleCliAuthorize \/ UseDifferentAccount \/ UNCHANGED loginVars
        PROVE  SignInsCounted'
    <2>1. handlers' \subseteq handlers /\ UNCHANGED <<codes, homes, signIns>>
      BY <1>6 DEF CodeSent, VerifyAnswered, CallFailed, TypeEmail, Back, CooldownEnds,
                  SessionChecked, HandleCliAuthorize, UseDifferentAccount, PageBecomes,
                  loginVars, serverVars, peopleVars
    <2>2. IsFiniteSet(handlers')
      BY <1>0, <2>1, FS_Subset
    <2>3. Untried' \subseteq Untried
      BY <2>1 DEF Untried
    <2>4. IsFiniteSet(Untried') /\ Cardinality(Untried') <= Cardinality(Untried)
      BY <2>3, UntriedFinite, FS_Subset
    <2> QED BY <2>1, <2>2, <2>4, FS_CardinalityType, CountStays
  <1> QED BY <1>1, <1>2, <1>3, <1>4, <1>5, <1>6
          DEF LoginNext, SignInSteps, HandlerSteps, LoginPageSteps

LEMMA CountTypes == LoginInv /\ SignInsCounted => LoginTypeOK
  <1> SUFFICES ASSUME LoginInv, SignInsCounted PROVE LoginTypeOK
    OBVIOUS
  <1>1. /\ Cardinality(Untried) \in Nat /\ MaxSignIns \in Nat /\ MaxAttempts \in Nat
        /\ signIns \in Nat /\ signIns <= MaxSignIns
    BY UntriedFinite, LoginAssumption DEF SignInsCounted, LoginInv, SignInInv, CallsTyped
  <1>2. codes \in Seq(Code)
    <2>1. codes \in Seq(CodeRow) /\ DOMAIN codes = 1..Len(codes) /\ Len(codes) \in Nat
      BY CodesTyped DEF LoginInv, SignInInv, ServerTyped
    <2>2. ASSUME NEW c \in DOMAIN codes PROVE codes[c] \in Code
      <3>1. codes[c] \in CodeRow
        BY CodesTyped DEF LoginInv, SignInInv
      <3>2. codes[c].attempts \in Nat /\ codes[c].attempts <= MaxAttempts + MaxSignIns
        BY <1>1, <3>1 DEF CodeRow, SignInsCounted
      <3> QED BY <1>1, <3>1, <3>2 DEF CodeRow, Code
    <2>3. codes \in [1..Len(codes) -> Code]
      BY <2>1, <2>2
    <2> QED BY <2>1, <2>3
  <1>3. homes \in [Emails -> 0..MaxSignIns]
    <2>1. homes \in [Emails -> {0, 1}] /\ \A e \in Emails : homes[e] = 1 => MaxSignIns >= 1
      BY <1>1 DEF LoginInv, SignInInv, ServerTyped, SignInsCounted
    <2> QED BY <1>1, <2>1
  <1>4. \A h \in handlers : h.at \in Stages /\ h.email \in Emails /\ h.code \in 0..Master
    BY DEF LoginInv, SignInInv, CallsTyped, LoginCall
  <1>5. loginPage.step \in LoginSteps /\ loginPage.email \in Emails \cup {None}
    BY DEF LoginInv, PageInv, PageState
  <1> QED BY <1>2, <1>3, <1>4, <1>5 DEF LoginInv, SignInInv, ServerTyped, LoginTypeOK

\* Type correctness of sign-in.
THEOREM LoginTyped == LoginSpec => []LoginTypeOK
  <1>1. LoginInit => LoginInv /\ SignInsCounted
    <2>1. LoginInit => SignInsCounted
      <3> SUFFICES ASSUME LoginInit PROVE SignInsCounted
        OBVIOUS
      <3>1. handlers = {} /\ Untried = {} /\ signIns = 0 /\ DOMAIN codes = {}
            /\ \A e \in Emails : homes[e] = 0
        BY DEF LoginInit, Untried
      <3> QED BY <3>1, FS_EmptySet, LoginAssumption DEF SignInsCounted
    <2> QED BY <2>1, LoginStart
  <1>2. LoginInv /\ SignInsCounted /\ [LoginNext]_loginVars => (LoginInv /\ SignInsCounted)'
    BY LoginStep, CountStep
  <1>3. LoginInv /\ SignInsCounted => LoginTypeOK
    BY CountTypes
  <1> QED BY <1>1, <1>2, <1>3, PTL DEF LoginSpec

-----------------------------------------------------------------------------
(* The tools *)

\* What a poll brings: ids of the log in their order, after the cursor.
Ordered(s) == /\ s \in Seq(DOMAIN log)
              /\ \A m, n \in DOMAIN s : m < n => s[m] < s[n]
\* The list q takes its elements from s.
Within(q, s) == \A k \in DOMAIN q : \E j \in DOMAIN s : q[k] = s[j]
\* The list s has x.
Among(x, s) == \E j \in DOMAIN s : x = s[j]
\* The tool that runs: a listener has its cursor at what was handed over or
\* past it, a chat waits for an answer to a turn that has none.
ToolTrue ==
    /\ tool.name = "listen" => /\ tool.step \in {"baseline", "poll"}
                               /\ lastProcessed[tool.key] <= tool.last
                               /\ tool.step = "baseline" => tool.last = 0
    /\ tool.step = "baseline" => tool.name = "listen"
    /\ tool.name \in {"chat", "turn"} => tool.corr \in 1..turns /\ \A r \in replies : r.turn # tool.corr
\* What was handed to the host was processed.
HandedTrue == \A key \in NoteKeys :
    /\ handed[key] \in Seq(1..MaxLog)
    /\ \A k \in DOMAIN handed[key] : handed[key][k] <= lastProcessed[key]
RepliesTrue == \A r \in replies : r.id \in DOMAIN log /\ r.turn \in 1..turns
SharesTrue == \A s \in shares : s.note \in Notes /\ s.read \subseteq Notes

TalkInv ==
    /\ TalkTypeOK /\ ToolTrue /\ handed \in [NoteKeys -> Seq(Nat)] /\ HandedTrue /\ ListenInOrder
    /\ RepliesTrue /\ RepliesMatch /\ SharesTrue /\ ContextKept

LEMMA TalkBounds == MaxLog \in Nat /\ MaxTurns \in Nat /\ PageSize \in Nat /\ PageSize >= 1
  BY TalkAssumption

-----------------------------------------------------------------------------
(* What the hub answers.                                                    *)

\* A part of a list in order is in order.
LEMMA PartOrdered ==
  ASSUME NEW s, Ordered(s), NEW m \in Int, NEW n \in Int, 1 <= m, n <= Len(s),
         NEW q, q = SubSeq(s, m, n)
  PROVE  /\ Ordered(q)
         /\ Within(q, s)
  <1>1. /\ s \in Seq(DOMAIN log) /\ Len(s) \in Nat /\ DOMAIN s = 1..Len(s)
        /\ \A j \in DOMAIN s : s[j] \in DOMAIN log
    BY DEF Ordered
  <1>2. \A i \in m..n : s[i] \in DOMAIN log
    BY <1>1
  <1>3. /\ q \in Seq(DOMAIN log)
        /\ Len(q) = IF m <= n THEN n - m + 1 ELSE 0
        /\ \A i \in 1..(n - m + 1) : q[i] = s[m + i - 1]
    BY <1>2, SubSeqProperties
  <1>4. /\ DOMAIN q = 1..Len(q)
        /\ \A i \in DOMAIN q : i \in 1..(n - m + 1) /\ m + i - 1 \in DOMAIN s /\ q[i] = s[m + i - 1]
    BY <1>1, <1>3
  <1>5. ASSUME NEW i \in DOMAIN q, NEW j \in DOMAIN q, i < j PROVE q[i] < q[j]
    <2>1. m + i - 1 < m + j - 1
      BY <1>4, <1>5
    <2> QED BY <1>4, <2>1 DEF Ordered
  <1>6. Ordered(q)
    BY <1>3, <1>5 DEF Ordered
  <1> QED BY <1>4, <1>6 DEF Within

LEMMA FeedOrdered ==
  ASSUME TalkTypeOK, NEW key
  PROVE  Ordered(FeedIds(key))
  <1> PICK K : K = {n \in DOMAIN log : InFeed(log[n], key)}
    OBVIOUS
  <1>1. Len(log) \in Nat /\ DOMAIN log = 1..Len(log)
    BY DEF TalkTypeOK
  <1>2. K \subseteq 1..Len(log) /\ K \in SUBSET Nat /\ IsFiniteSet(K)
    <2>1. K \subseteq 1..Len(log) /\ K \in SUBSET Nat
      BY <1>1
    <2>2. IsFiniteSet(1..Len(log))
      BY <1>1, FS_Interval
    <2>3. IsFiniteSet(K)
      BY <2>1, <2>2, FS_Subset
    <2> QED BY <2>1, <2>3
  <1> PICK f : f = Ascending(K)
    OBVIOUS
  <1>3. /\ Cardinality(K) \in Nat /\ f \in [1..Cardinality(K) -> K]
        /\ \A j, k \in 1..Cardinality(K) : j < k => f[j] < f[k]
    BY <1>2, AscendingLists
  <1>4. f \in Seq(DOMAIN log) /\ DOMAIN f = 1..Cardinality(K)
    BY <1>1, <1>2, <1>3
  <1> QED BY <1>3, <1>4 DEF FeedIds, Ordered

\* What a filter leaves of a list in order, and where it was.
LEMMA FilterOrdered ==
  ASSUME NEW s, Ordered(s), NEW T
  PROVE  /\ Ordered(Only(s, T))
         /\ \A k \in DOMAIN Only(s, T) : Only(s, T)[k] \in T
         /\ Within(Only(s, T), s)
  <1> PICK q : q = Only(s, T)
    OBVIOUS
  <1>1. s \in Seq(DOMAIN log)
    BY DEF Ordered
  <1>2. q \in Seq(DOMAIN log) /\ \E n \in Nat : \E f : TakenAt(q, s, T, n, f)
    BY <1>1, OnlyPlaces
  <1> PICK n \in Nat : \E f : TakenAt(q, s, T, n, f)
    BY <1>2
  <1> PICK f : TakenAt(q, s, T, n, f)
    OBVIOUS
  <1>3. /\ f \in [1..n -> 1..Len(s)] /\ DOMAIN q = 1..n
        /\ \A j, k \in 1..n : j < k => f[j] < f[k]
        /\ \A k \in 1..n : q[k] = s[f[k]] /\ s[f[k]] \in T
    BY <1>2 DEF TakenAt
  <1>4. DOMAIN s = 1..Len(s)
    BY <1>1
  <1>5. \A k \in DOMAIN q : f[k] \in DOMAIN s /\ q[k] = s[f[k]] /\ q[k] \in T
    BY <1>3, <1>4
  <1>6. \A i, j \in DOMAIN q : i < j => q[i] < q[j]
    BY <1>3, <1>5 DEF Ordered
  <1>7. Ordered(q)
    BY <1>2, <1>6 DEF Ordered
  <1> QED BY <1>5, <1>7 DEF Within

LEMMA PageOrdered ==
  ASSUME TalkTypeOK, NEW key, NEW last \in 0..MaxLog
  PROVE  /\ Ordered(Page(key, last))
         /\ \A k \in DOMAIN Page(key, last) : Page(key, last)[k] > last
  <1> PICK feed : feed = FeedIds(key)
    OBVIOUS
  <1>1. /\ Ordered(feed) /\ feed \in Seq(DOMAIN log) /\ Len(feed) \in Nat
        /\ \A x \in DOMAIN log : x \in Nat /\ x > 0
    BY FeedOrdered DEF Ordered, TalkTypeOK
  <1>2. CASE last = 0
    <2> DEFINE m == IF Len(feed) < PageSize THEN 1 ELSE Len(feed) - PageSize + 1
    <2>1. m \in Int /\ 1 <= m /\ Len(feed) \in Int /\ Len(feed) <= Len(feed)
      BY <1>1, TalkBounds
    <2>2. Page(key, last) = SubSeq(feed, m, Len(feed))
      BY <1>2 DEF Page, LatestOf
    <2> HIDE DEF m
    <2> PICK r : r = SubSeq(feed, m, Len(feed))
      OBVIOUS
    <2>3. Ordered(r)
      BY <1>1, <2>1, PartOrdered
    <2>4. r \in Seq(DOMAIN log) /\ DOMAIN r = 1..Len(r)
      BY <2>3 DEF Ordered
    <2>5. \A k \in DOMAIN r : r[k] \in DOMAIN log
      BY <2>4, ElementOfSeq
    <2>6. \A k \in DOMAIN r : r[k] > last
      BY <1>1, <1>2, <2>5
    <2> QED BY <2>2, <2>3, <2>6
  <1>3. CASE last # 0
    <2> PICK T : T = {n \in DOMAIN log : n > last}
      OBVIOUS
    <2> PICK q : q = Only(feed, T)
      OBVIOUS
    <2>1. Ordered(q) /\ \A k \in DOMAIN q : q[k] \in T
      BY <1>1, FilterOrdered
    <2> PICK n : n = IF Len(q) < PageSize THEN Len(q) ELSE PageSize
      OBVIOUS
    <2>2. q \in Seq(DOMAIN log) /\ Len(q) \in Nat
      BY <2>1 DEF Ordered
    <2>3. n \in Int /\ n <= Len(q) /\ 1 \in Int /\ 1 <= 1
      BY <2>2, TalkBounds
    <2>4. Page(key, last) = SubSeq(q, 1, n)
      BY <1>3 DEF Page, FirstOf
    <2> PICK r : r = SubSeq(q, 1, n)
      OBVIOUS
    <2>5. Ordered(r)
      BY <2>1, <2>3, PartOrdered
    <2>6. Within(r, q)
      BY <2>1, <2>3, PartOrdered
    <2>7. \A j \in DOMAIN q : q[j] > last
      BY <2>1
    <2>8. ASSUME NEW k \in DOMAIN r PROVE r[k] > last
      <3>1. PICK j \in DOMAIN q : r[k] = q[j]
        BY <2>6 DEF Within
      <3> QED BY <2>7, <3>1
    <2> QED BY <2>4, <2>5, <2>8
  <1> QED BY <1>2, <1>3

LEMMA OrderedIds ==
  ASSUME TalkTypeOK, NEW s, Ordered(s)
  PROVE  \A k \in DOMAIN s : s[k] \in 0..MaxLog
  <1>1. s \in Seq(DOMAIN log)
    BY DEF Ordered
  <1>2. \A k \in DOMAIN s : s[k] \in DOMAIN log
    BY <1>1
  <1>3. \A x \in DOMAIN log : x \in 0..MaxLog
    BY TalkBounds DEF TalkTypeOK
  <1> QED BY <1>2, <1>3

\* The cursor after a page, and what is found on it.
LEMMA CursorMoves ==
  ASSUME TalkTypeOK, NEW page, Ordered(page), NEW last \in 0..MaxLog
  PROVE  /\ Saved(last, page) \in 0..MaxLog
         /\ page # <<>> => /\ Saved(last, page) = page[Len(page)]
                           /\ \A k \in DOMAIN page : page[k] <= Saved(last, page)
  <1>1. /\ page \in Seq(DOMAIN log) /\ DOMAIN log = 1..Len(log) /\ Len(log) \in Nat /\ Len(log) <= MaxLog
        /\ Len(page) \in Nat /\ DOMAIN page = 1..Len(page)
    BY DEF Ordered, TalkTypeOK
  <1>2. CASE page = <<>>
    BY <1>2 DEF Saved
  <1>3. CASE page # <<>>
    <2>1. Len(page) \in DOMAIN page /\ Saved(last, page) = page[Len(page)]
      BY <1>1, <1>3 DEF Saved, Last
    <2>2. \A k \in DOMAIN page : page[k] \in 1..Len(log)
      BY <1>1
    <2>3. \A k \in DOMAIN page : k < Len(page) \/ k = Len(page)
      BY <1>1
    <2>4. \A k \in DOMAIN page : page[k] <= page[Len(page)]
      BY <2>1, <2>2, <2>3 DEF Ordered
    <2> QED BY <1>1, <2>1, <2>2, <2>4, TalkBounds
  <1> QED BY <1>2, <1>3

LEMMA FoundOnPage ==
  ASSUME TalkTypeOK, NEW page, Ordered(page), NEW T, Only(page, T) # <<>>
  PROVE  /\ Only(page, T)[1] \in T /\ Only(page, T)[1] \in DOMAIN log /\ page # <<>>
         /\ \E j \in DOMAIN page : Only(page, T)[1] = page[j]
  <1> PICK q : q = Only(page, T)
    OBVIOUS
  <1>1. Ordered(q) /\ (\A k \in DOMAIN q : q[k] \in T) /\ Within(q, page)
    BY FilterOrdered
  <1>2. q \in Seq(DOMAIN log) /\ q # <<>> /\ page \in Seq(DOMAIN log)
    BY <1>1 DEF Ordered
  <1>3. 1 \in DOMAIN q
    BY <1>2
  <1>4. q[1] \in DOMAIN log
    BY <1>2, <1>3
  <1> QED BY <1>1, <1>2, <1>3, <1>4 DEF Within
-----------------------------------------------------------------------------
(* The steps.                                                               *)

LEMMA TalkStart == TalkInit => TalkInv
  <1> SUFFICES ASSUME TalkInit PROVE TalkInv
    OBVIOUS
  <1> USE TalkBounds DEF TalkInit
  <1>1. TalkTypeOK
    <2>1. tool \in Tool
      BY DEF Tool, NoTool, NoteKeys
    <2>2. log \in Seq(Message) /\ Len(log) = 0
      OBVIOUS
    <2>3. 0 \in 0..MaxLog /\ 0 \in 0..MaxTurns
      OBVIOUS
    <2>4. lastProcessed \in [NoteKeys -> 0..MaxLog]
      BY <2>3
    <2>5. isAgent \in BOOLEAN /\ contextCrossed \in BOOLEAN
      OBVIOUS
    <2>6. turns \in 0..MaxTurns /\ context \subseteq Notes /\ noted \subseteq Notes
      BY <2>3
    <2>7. Len(log) <= MaxLog
      BY <2>2
    <2> QED BY <2>1, <2>2, <2>4, <2>5, <2>6, <2>7, Zenon DEF TalkTypeOK
  <1>2. ToolTrue
    BY DEF ToolTrue, NoTool
  <1>3. handed \in [NoteKeys -> Seq(Nat)] /\ HandedTrue /\ ListenInOrder
    <2>1. \A k \in NoteKeys : handed[k] = <<>>
      OBVIOUS
    <2> QED BY <2>1 DEF HandedTrue, ListenInOrder, Increasing
  <1>4. RepliesTrue /\ RepliesMatch /\ SharesTrue /\ ContextKept
    BY DEF RepliesTrue, RepliesMatch, SharesTrue, ContextKept
  <1> QED BY <1>1, <1>2, <1>3, <1>4 DEF TalkInv

\* A step that leaves the history, the cursors and the context alone; the log
\* grows at most, and the tool that runs is another or another way on.
TalkQuiet == /\ UNCHANGED <<lastProcessed, handed, replies, context, shares, noted, contextCrossed>>
             /\ turns' >= turns
             /\ \A r \in DOMAIN log : r \in DOMAIN log' /\ log'[r] = log[r]

LEMMA QuietKeeps ==
  ASSUME TalkInv, TalkTypeOK', ToolTrue', TalkQuiet
  PROVE  TalkInv'
  <1>0. turns \in Nat /\ turns' \in Nat
    BY TalkBounds DEF TalkInv, TalkTypeOK
  <1>1. RepliesTrue'
    <2>1. ASSUME NEW r \in replies PROVE r.id \in DOMAIN log' /\ r.turn \in 1..turns'
      <3>1. r.id \in DOMAIN log /\ r.turn \in 1..turns
        BY DEF TalkInv, RepliesTrue
      <3> QED BY <1>0, <3>1 DEF TalkQuiet
    <2> QED BY <2>1 DEF TalkQuiet, RepliesTrue
  <1>2. RepliesMatch'
    <2>1. \A r \in replies : r.id \in DOMAIN log /\ log'[r.id] = log[r.id]
      BY DEF TalkInv, RepliesTrue, TalkQuiet
    <2> QED BY <2>1 DEF TalkInv, RepliesMatch, TalkQuiet
  <1>3. (handed \in [NoteKeys -> Seq(Nat)] /\ HandedTrue /\ ListenInOrder)'
    BY DEF TalkInv, TalkQuiet, HandedTrue, ListenInOrder
  <1>4. SharesTrue' /\ ContextKept'
    BY DEF TalkInv, TalkQuiet, SharesTrue, ContextKept
  <1> QED BY <1>1, <1>2, <1>3, <1>4 DEF TalkInv

LEMMA PostGrows ==
  ASSUME TalkTypeOK, NEW m \in Message, Post(m)
  PROVE  /\ log' \in Seq(Message) /\ Len(log') <= MaxLog
         /\ \A r \in DOMAIN log : r \in DOMAIN log' /\ log'[r] = log[r]
  <1>1. log \in Seq(Message) /\ Len(log) \in Nat /\ Len(log) < MaxLog /\ log' = Append(log, m)
    BY DEF TalkTypeOK, Post
  <1> QED BY <1>1, TalkBounds

LEMMA SaysGrows ==
  ASSUME TalkTypeOK, NEW in \in NoteKeys, Says(in)
  PROVE  /\ log' \in Seq(Message) /\ Len(log') <= MaxLog
         /\ \A r \in DOMAIN log : r \in DOMAIN log' /\ log'[r] = log[r]
  <1>1. [from |-> "me", in |-> in, hit |-> FALSE, corr |-> 0] \in Message
    BY TalkBounds DEF Message
  <1> QED BY <1>1, PostGrows DEF Says

LEMMA HubSteps ==
  ASSUME TalkInv, PeerSends \/ Register \/ SendTool
  PROVE  TalkInv'
  <1>1. /\ UNCHANGED <<lastProcessed, tool, turns, handed, replies, contextVars>>
        /\ isAgent' \in BOOLEAN
    BY DEF PeerSends, Register, SendTool, TalkInv, TalkTypeOK
  <1>2. TalkTypeOK /\ turns \in 0..MaxTurns
    BY DEF TalkInv, TalkTypeOK
  <1>3. /\ log' \in Seq(Message) /\ Len(log') <= MaxLog
        /\ \A r \in DOMAIN log : r \in DOMAIN log' /\ log'[r] = log[r]
    <2>1. CASE UNCHANGED log
      BY <1>2, <2>1 DEF TalkTypeOK
    <2>2. CASE PeerSends
      <3>1. \A in \in NoteKeys, corr \in 0..turns, hit \in BOOLEAN :
               [from |-> "peer", in |-> in, hit |-> hit, corr |-> corr] \in Message
        BY <1>2, TalkBounds DEF Message
      <3>2. FALSE \in BOOLEAN /\ 0 \in 0..turns /\ {"dm", "session", "channel"} \subseteq NoteKeys
        BY <1>2, TalkBounds DEF NoteKeys
      <3>3. CASE \E in \in {"dm", "session"}, corr \in 0..turns :
                   Post([from |-> "peer", in |-> in, hit |-> FALSE, corr |-> corr])
        BY <1>2, <3>1, <3>2, <3>3, PostGrows
      <3>4. CASE \E hit \in BOOLEAN : Post([from |-> "peer", in |-> "channel", hit |-> hit, corr |-> 0])
        BY <1>2, <3>1, <3>2, <3>4, PostGrows
      <3> QED BY <2>2, <3>3, <3>4 DEF PeerSends
    <2>3. CASE \E in \in NoteKeys : Says(in)
      BY <1>2, <2>3, SaysGrows
    <2>4. SendTool => UNCHANGED log \/ \E in \in NoteKeys : Says(in)
      BY DEF SendTool, SendMessage, SubmitPlan, SendFile, SendToChannel, Broadcast, OwnerSend,
             InviteToSession, NoteKeys
    <2> QED BY <2>1, <2>2, <2>3, <2>4 DEF Register
  <1>4. TalkTypeOK'
    BY <1>1, <1>2, <1>3 DEF TalkTypeOK, contextVars
  <1>5. ToolTrue'
    BY <1>1 DEF TalkInv, ToolTrue
  <1>6. TalkQuiet
    BY <1>1, <1>2, <1>3 DEF TalkQuiet, contextVars
  <1> QED BY <1>4, <1>5, <1>6, QuietKeeps

\* The tool a chat starts with.
ChatAt(step, c) == [NoTool EXCEPT !.name = IF step = "send" THEN "chat" ELSE "turn", !.step = step, !.corr = c]

LEMMA ChatTool ==
  ASSUME NEW step \in {"session", "send"}, NEW c \in 0..MaxTurns, NEW t, t = ChatAt(step, c)
  PROVE  t \in Tool /\ t.name \in {"chat", "turn"} /\ t.step = step /\ t.corr = c
  <1>1. NoTool \in Tool
    BY TalkBounds DEF NoTool, Tool, NoteKeys
  <1>2. CASE step = "send"
    <2>1. t = [NoTool EXCEPT !.name = "chat", !.step = "send", !.corr = c]
      BY <1>2 DEF ChatAt
    <2> QED BY <1>1, <1>2, <2>1 DEF Tool
  <1>3. CASE step = "session"
    <2>1. t = [NoTool EXCEPT !.name = "turn", !.step = "session", !.corr = c]
      BY <1>3 DEF ChatAt
    <2> QED BY <1>1, <1>3, <2>1 DEF Tool
  <1> QED BY <1>2, <1>3

LEMMA ToolStarts ==
  ASSUME TalkInv, \/ \E key \in NoteKeys : Listen(key)
                  \/ TakeBaseline \/ ToolEnds \/ Chat \/ SessionReady \/ ChatSends
  PROVE  TalkInv'
  <1>1. /\ TalkTypeOK /\ ToolTrue /\ turns \in Nat /\ turns \in 0..MaxTurns
        /\ tool \in Tool /\ lastProcessed \in [NoteKeys -> 0..MaxLog] /\ 0 \in 0..MaxLog /\ 0 \in 0..MaxTurns
    BY TalkBounds DEF TalkInv, TalkTypeOK
  <1>2. /\ tool.key \in NoteKeys /\ tool.last \in 0..MaxLog /\ tool.corr \in 0..MaxTurns
        /\ tool.name \in {"none", "listen", "chat", "turn"}
    BY <1>1 DEF Tool
  <1>3. NoTool \in Tool
    BY <1>1 DEF NoTool, Tool, NoteKeys
  <1>4. ASSUME NEW t \in Tool, tool' = t, ToolTrue',
               UNCHANGED <<isAgent, lastProcessed, handed, replies, context, shares, noted, contextCrossed>>,
               turns' \in turns..MaxTurns,
               log' \in Seq(Message) /\ Len(log') <= MaxLog,
               \A r \in DOMAIN log : r \in DOMAIN log' /\ log'[r] = log[r]
        PROVE  TalkInv'
    <2>1. turns' >= turns /\ turns' \in 0..MaxTurns
      BY <1>1, <1>4
    <2>2. TalkTypeOK'
      BY <1>1, <1>4, <2>1 DEF TalkTypeOK
    <2>3. TalkQuiet
      BY <1>4, <2>1 DEF TalkQuiet
    <2> QED BY <1>4, <2>2, <2>3, QuietKeeps
  <1>5. log \in Seq(Message) /\ Len(log) <= MaxLog /\ turns \in turns..MaxTurns
    BY <1>1 DEF TalkTypeOK
  <1>6. CASE \E key \in NoteKeys : Listen(key)
    <2> PICK key \in NoteKeys : Listen(key)
      BY <1>6
    <2> PICK t : t = [NoTool EXCEPT !.name = "listen", !.key = key, !.last = lastProcessed[key],
                                    !.step = IF lastProcessed[key] = 0 THEN "baseline" ELSE "poll"]
      OBVIOUS
    <2>1. t \in Tool /\ t.name = "listen" /\ t.key = key /\ t.last = lastProcessed[key]
          /\ t.step = IF lastProcessed[key] = 0 THEN "baseline" ELSE "poll"
      BY <1>1, <1>3 DEF Tool, NoTool
    <2>2. tool' = t /\ UNCHANGED <<talkVarsOfHub, lastProcessed, turns, handed, replies>>
      BY DEF Listen
    <2>3. ToolTrue'
      BY <1>1, <2>1, <2>2 DEF ToolTrue
    <2> QED BY <1>4, <1>5, <2>1, <2>2, <2>3 DEF talkVarsOfHub
  <1>7. CASE TakeBaseline
    <2> PICK newest \in {0} \cup Range(LatestOf(FeedIds(tool.key), 1)) :
               tool' = [tool EXCEPT !.last = newest, !.step = "poll"]
      BY <1>7 DEF TakeBaseline
    <2>1. newest \in 0..MaxLog
      <3> PICK feed : feed = FeedIds(tool.key)
        OBVIOUS
      <3>1. Ordered(feed) /\ feed \in Seq(DOMAIN log) /\ Len(feed) \in Nat
        BY <1>1, FeedOrdered DEF Ordered
      <3> PICK m : m = IF Len(feed) < 1 THEN 1 ELSE Len(feed) - 1 + 1
        OBVIOUS
      <3>2. m \in Int /\ 1 <= m /\ Len(feed) \in Int /\ Len(feed) <= Len(feed)
        BY <3>1
      <3> PICK q : q = SubSeq(feed, m, Len(feed))
        OBVIOUS
      <3>3. q = LatestOf(feed, 1)
        BY DEF LatestOf
      <3>4. Ordered(q)
        BY <3>1, <3>2, PartOrdered
      <3>5. \A k \in DOMAIN q : q[k] \in 0..MaxLog
        BY <1>1, <3>4, OrderedIds
      <3>9. \A x \in Range(q) : x \in 0..MaxLog
        BY <3>5, Zenon DEF Range
      <3> QED BY <1>1, <3>3, <3>9
    <2> PICK t : t = [tool EXCEPT !.last = newest, !.step = "poll"]
      OBVIOUS
    <2>2. t \in Tool /\ t.name = tool.name /\ t.key = tool.key /\ t.last = newest /\ t.step = "poll" /\ t.corr = tool.corr
      BY <1>1, <2>1 DEF Tool
    <2>3. tool.name = "listen" /\ lastProcessed[tool.key] <= tool.last /\ tool.last = 0
      BY <1>1, <1>7 DEF TakeBaseline, ToolTrue
    <2>4. lastProcessed[tool.key] <= newest
      BY <1>1, <1>2, <2>1, <2>3
    <2>5. tool' = t /\ UNCHANGED <<talkVarsOfHub, lastProcessed, turns, handed, replies>>
      BY <1>7 DEF TakeBaseline
    <2>6. ToolTrue'
      BY <2>2, <2>3, <2>4, <2>5 DEF ToolTrue
    <2> QED BY <1>4, <1>5, <2>2, <2>5, <2>6 DEF talkVarsOfHub
  <1>8. CASE ToolEnds
    <2>1. tool' = NoTool /\ UNCHANGED <<talkVarsOfHub, lastProcessed, turns, handed, replies>>
      BY <1>8 DEF ToolEnds
    <2>2. ToolTrue'
      BY <2>1 DEF ToolTrue, NoTool
    <2> QED BY <1>3, <1>4, <1>5, <2>1, <2>2 DEF talkVarsOfHub
  <1>9. CASE Chat
    <2> PICK step \in {"session", "send"} : tool' = ChatAt(step, turns + 1)
      BY <1>9 DEF Chat, ChatAt
    <2> PICK t : t = ChatAt(step, turns + 1)
      OBVIOUS
    <2>1. turns < MaxTurns /\ turns' = turns + 1 /\ UNCHANGED <<talkVarsOfHub, lastProcessed, handed, replies>>
      BY <1>9 DEF Chat
    <2>0. turns + 1 \in 0..MaxTurns
      BY <1>1, <2>1, TalkBounds
    <2>2. t \in Tool /\ t.name \in {"chat", "turn"} /\ t.step = step /\ t.corr = turns + 1
      BY <2>0, ChatTool
    <2>3. \A r \in replies : r.turn \in 1..turns
      BY DEF TalkInv, RepliesTrue
    <2>4. \A r \in replies : r.turn # turns + 1
      BY <1>1, <2>3
    <2>5. ToolTrue'
      BY <1>1, <2>1, <2>2, <2>4 DEF ToolTrue
    <2>6. turns' \in turns..MaxTurns
      BY <1>1, <2>1, TalkBounds
    <2> QED BY <1>4, <1>5, <2>1, <2>2, <2>5, <2>6 DEF talkVarsOfHub
  <1>10. CASE SessionReady \/ ChatSends
    <2> PICK step \in {"send", "poll"} : tool' = [tool EXCEPT !.step = step]
      BY <1>10 DEF SessionReady, ChatSends
    <2> PICK t : t = [tool EXCEPT !.step = step]
      OBVIOUS
    <2>1. t \in Tool /\ t.name = tool.name /\ t.key = tool.key /\ t.last = tool.last /\ t.step = step /\ t.corr = tool.corr
      BY <1>1 DEF Tool
    <2>2. UNCHANGED <<isAgent, lastProcessed, turns, handed, replies, contextVars>>
      BY <1>10 DEF SessionReady, ChatSends, talkVarsOfHub, contextVars
    <2>3. tool.name # "listen"
      BY <1>1, <1>10 DEF SessionReady, ChatSends, ToolTrue
    <2>4. ToolTrue'
      BY <1>1, <2>1, <2>2, <2>3 DEF ToolTrue
    <2>5. log' \in Seq(Message) /\ Len(log') <= MaxLog /\ \A r \in DOMAIN log : r \in DOMAIN log' /\ log'[r] = log[r]
      <3>1. CASE UNCHANGED log
        BY <1>5, <3>1
      <3>2. CASE \E in \in NoteKeys : Says(in)
        BY <1>1, <3>2, SaysGrows
      <3> QED BY <1>10, <3>1, <3>2 DEF SessionReady, ChatSends, talkVarsOfHub, NoteKeys
    <2> QED BY <1>4, <1>5, <2>1, <2>2, <2>4, <2>5 DEF contextVars
  <1> QED BY <1>6, <1>7, <1>8, <1>9, <1>10

LEMMA ContextMoves ==
  ASSUME TalkInv, ContextSteps
  PROVE  TalkInv'
  <1>1. UNCHANGED <<isAgent, log, lastProcessed, tool, turns, handed, replies>>
    BY DEF ContextSteps, ShareReads, ShareWrites, ShareFails
  <1>2. TalkTypeOK /\ SharesTrue /\ ContextKept /\ context \subseteq Notes /\ noted \subseteq Notes
        /\ contextCrossed \in BOOLEAN
    BY DEF TalkInv, TalkTypeOK
  <1>3. /\ context' \subseteq Notes /\ noted' \subseteq Notes /\ contextCrossed' \in BOOLEAN
        /\ SharesTrue' /\ ContextKept'
    <2>1. CASE ShareReads
      <3> PICK n \in Notes \ noted : shares' = shares \cup {[note |-> n, read |-> context]}
        BY <2>1 DEF ShareReads
      <3>1. UNCHANGED <<context, noted, contextCrossed>>
        BY <2>1 DEF ShareReads
      <3>2. \A s \in shares' : s \in shares \/ s = [note |-> n, read |-> context]
        OBVIOUS
      <3> QED BY <1>2, <3>1, <3>2 DEF SharesTrue, ContextKept
    <2>2. CASE ShareWrites
      <3> PICK s \in shares : /\ shares' = shares \ {s} /\ context' = NewContext(s.read, s.note)
                              /\ noted' = noted \cup {s.note}
                              /\ contextCrossed' = (contextCrossed \/ s.read # context)
        BY <2>2 DEF ShareWrites
      <3>1. s.note \in Notes /\ s.read \subseteq Notes
        BY <1>2 DEF SharesTrue
      <3>2. ~contextCrossed' => context' = noted'
        BY <1>2 DEF NewContext, ContextKept
      <3>3. contextCrossed' \in BOOLEAN
        BY <1>2
      <3>4. context' \subseteq Notes /\ noted' \subseteq Notes
        BY <1>2, <3>1 DEF NewContext
      <3> QED BY <1>2, <3>2, <3>3, <3>4 DEF SharesTrue, ContextKept
    <2>3. CASE ShareFails
      <3>1. shares' \subseteq shares /\ UNCHANGED <<context, noted, contextCrossed>>
        BY <2>3 DEF ShareFails
      <3> QED BY <1>2, <3>1 DEF SharesTrue, ContextKept
    <2> QED BY <2>1, <2>2, <2>3 DEF ContextSteps
  <1>4. TalkTypeOK'
    BY <1>1, <1>2, <1>3 DEF TalkTypeOK
  <1>5. (ToolTrue /\ handed \in [NoteKeys -> Seq(Nat)] /\ HandedTrue /\ ListenInOrder)'
    BY <1>1 DEF TalkInv, ToolTrue, HandedTrue, ListenInOrder
  <1>6. (RepliesTrue /\ RepliesMatch)'
    BY <1>1 DEF TalkInv, RepliesTrue, RepliesMatch
  <1> QED BY <1>3, <1>4, <1>5, <1>6 DEF TalkInv

\* A list that rises takes one more that is past its last.
LEMMA RisingAppend ==
  ASSUME NEW s \in Seq(1..MaxLog), Increasing(s), NEW x \in 1..MaxLog,
         \A k \in DOMAIN s : s[k] < x
  PROVE  /\ Append(s, x) \in Seq(1..MaxLog) /\ Increasing(Append(s, x))
         /\ \A k \in DOMAIN Append(s, x) : Append(s, x)[k] = x \/ (k \in DOMAIN s /\ Append(s, x)[k] = s[k])
  <1> PICK q : q = Append(s, x)
    OBVIOUS
  <1>1. /\ q \in Seq(1..MaxLog) /\ Len(s) \in Nat /\ DOMAIN s = 1..Len(s) /\ DOMAIN q = 1..(Len(s) + 1)
        /\ q[Len(s) + 1] = x /\ \A k \in DOMAIN s : q[k] = s[k]
    OBVIOUS
  <1>2. \A k \in DOMAIN q : k \in DOMAIN s \/ k = Len(s) + 1
    BY <1>1
  <1>3. ASSUME NEW m \in DOMAIN q, NEW n \in DOMAIN q, m < n PROVE q[m] < q[n]
    <2>1. m \in DOMAIN s
      BY <1>1, <1>3
    <2>2. CASE n \in DOMAIN s
      BY <1>1, <1>3, <2>1, <2>2 DEF Increasing
    <2>3. CASE n = Len(s) + 1
      BY <1>1, <2>1, <2>3
    <2> QED BY <1>2, <2>2, <2>3
  <1> QED BY <1>1, <1>2, <1>3 DEF Increasing

LEMMA ListElements ==
  ASSUME NEW s \in Seq(1..MaxLog)
  PROVE  s \in Seq(Nat) /\ \A i \in DOMAIN s : s[i] \in 1..MaxLog
  <1>1. Len(s) \in Nat /\ DOMAIN s = 1..Len(s) /\ s = [i \in 1..Len(s) |-> s[i]]
    OBVIOUS
  <1>2. \A i \in DOMAIN s : s[i] \in 1..MaxLog
    BY <1>1, ElementOfSeq
  <1>3. \A x \in 1..MaxLog : x \in Nat
    BY TalkBounds
  <1>4. \A i \in 1..Len(s) : s[i] \in Nat
    BY <1>1, <1>2, <1>3
  <1> QED BY <1>1, <1>2, <1>4

\* What a poll does to the cursors of a listener.
LEMMA CursorGrows ==
  ASSUME TalkInv, tool.name = "listen", NEW page, page = Page(tool.key, tool.last)
  PROVE  /\ Saved(lastProcessed[tool.key], page) \in 0..MaxLog
         /\ lastProcessed[tool.key] <= Saved(lastProcessed[tool.key], page)
         /\ Saved(tool.last, page) \in 0..MaxLog
         /\ Saved(lastProcessed[tool.key], page) <= Saved(tool.last, page)
         /\ \A k \in DOMAIN page : /\ page[k] > lastProcessed[tool.key]
                                   /\ page[k] <= Saved(lastProcessed[tool.key], page)
  <1> PICK l : l = lastProcessed[tool.key]
    OBVIOUS
  <1>1. /\ TalkTypeOK /\ ToolTrue /\ tool.key \in NoteKeys /\ tool.last \in 0..MaxLog
        /\ l \in 0..MaxLog /\ l <= tool.last
    BY DEF TalkInv, TalkTypeOK, Tool, ToolTrue
  <1>2. Ordered(page) /\ \A k \in DOMAIN page : page[k] > tool.last
    BY <1>1, PageOrdered
  <1>3. \A k \in DOMAIN page : page[k] \in 0..MaxLog
    BY <1>1, <1>2, OrderedIds
  <1>4. \A k \in DOMAIN page : page[k] > l
    BY <1>1, <1>2, <1>3
  <1>5. /\ Saved(l, page) \in 0..MaxLog /\ Saved(tool.last, page) \in 0..MaxLog
        /\ page # <<>> => /\ Saved(l, page) = page[Len(page)] /\ Saved(tool.last, page) = page[Len(page)]
                          /\ \A k \in DOMAIN page : page[k] <= Saved(l, page)
    BY <1>1, <1>2, CursorMoves
  <1>6. CASE page = <<>>
    <2>1. Saved(l, page) = l /\ Saved(tool.last, page) = tool.last /\ DOMAIN page = {}
      BY <1>6 DEF Saved
    <2> QED BY <1>1, <2>1
  <1>7. CASE page # <<>>
    <2>1. Len(page) \in DOMAIN page
      BY <1>2, <1>7 DEF Ordered
    <2>2. l <= page[Len(page)]
      BY <1>1, <1>3, <1>4, <2>1
    <2>3. Saved(l, page) <= Saved(tool.last, page)
      BY <1>5, <1>7
    <2>4. \A k \in DOMAIN page : page[k] <= Saved(l, page)
      BY <1>5, <1>7
    <2> QED BY <1>4, <1>5, <1>7, <2>2, <2>3, <2>4
  <1> QED BY <1>6, <1>7

LEMMA FoundThere ==
  ASSUME TalkTypeOK, NEW page, Ordered(page), NEW T, NEW found, found = Only(page, T), found # <<>>
  PROVE  found[1] \in DOMAIN log /\ Among(found[1], page)
  BY FoundOnPage DEF Among

LEMMA ListenPolls ==
  ASSUME TalkInv, PollListen
  PROVE  TalkInv'
  <1> PICK key : key = tool.key
    OBVIOUS
  <1> PICK page : page = Page(key, tool.last)
    OBVIOUS
  <1> PICK T : T = {n \in DOMAIN log : Relevant(log[n])}
    OBVIOUS
  <1> PICK found : found = Only(page, T)
    OBVIOUS
  <1>1. /\ tool.name = "listen" /\ tool.step = "poll"
        /\ lastProcessed' = [lastProcessed EXCEPT ![key] = Saved(@, page)]
        /\ UNCHANGED <<talkVarsOfHub, turns, replies>>
        /\ found = <<>> => tool' = [tool EXCEPT !.last = Saved(@, page)] /\ handed' = handed
        /\ found # <<>> => tool' = NoTool /\ handed' = [handed EXCEPT ![key] = Append(@, found[1])]
    BY DEF PollListen
  <1>2. /\ TalkTypeOK /\ ToolTrue /\ HandedTrue /\ ListenInOrder /\ handed \in [NoteKeys -> Seq(Nat)]
        /\ tool \in Tool /\ key \in NoteKeys /\ tool.last \in 0..MaxLog
        /\ lastProcessed \in [NoteKeys -> 0..MaxLog]
    BY DEF TalkInv, TalkTypeOK, Tool
  <1> PICK l : l = lastProcessed[key]
    OBVIOUS
  <1>3. /\ Saved(l, page) \in 0..MaxLog /\ l <= Saved(l, page)
        /\ Saved(tool.last, page) \in 0..MaxLog /\ Saved(l, page) <= Saved(tool.last, page)
        /\ \A k \in DOMAIN page : page[k] > l /\ page[k] <= Saved(l, page)
    BY <1>1, CursorGrows
  <1>4. /\ lastProcessed' \in [NoteKeys -> 0..MaxLog] /\ lastProcessed'[key] = Saved(l, page)
        /\ \A k \in NoteKeys : k # key => lastProcessed'[k] = lastProcessed[k]
    BY <1>1, <1>2, <1>3
  <1>5. \A k \in NoteKeys : lastProcessed[k] <= lastProcessed'[k]
    <2> SUFFICES ASSUME NEW k \in NoteKeys PROVE lastProcessed[k] <= lastProcessed'[k]
      OBVIOUS
    <2>1. lastProcessed[k] \in 0..MaxLog
      BY <1>2
    <2>2. CASE k = key
      BY <1>3, <1>4, <2>2
    <2>3. CASE k # key
      BY <1>4, <2>1, <2>3
    <2> QED BY <2>2, <2>3
  <1>6. tool' \in Tool /\ ToolTrue'
    <2>1. CASE found = <<>>
      <3> PICK t : t = [tool EXCEPT !.last = Saved(tool.last, page)]
        OBVIOUS
      <3>1. t \in Tool /\ t.name = "listen" /\ t.key = key /\ t.last = Saved(tool.last, page) /\ t.step = "poll"
        BY <1>1, <1>2, <1>3 DEF Tool
      <3>2. tool' = t
        BY <1>1, <2>1
      <3>3. lastProcessed'[key] <= t.last
        BY <1>3, <1>4, <3>1
      <3> QED BY <3>1, <3>2, <3>3 DEF ToolTrue
    <2>2. CASE found # <<>>
      <3>1. tool' = NoTool
        BY <1>1, <2>2
      <3>2. NoTool \in Tool
        BY TalkBounds DEF NoTool, Tool, NoteKeys
      <3> QED BY <3>1, <3>2 DEF ToolTrue, NoTool
    <2> QED BY <2>1, <2>2
  <1>7. TalkTypeOK'
    BY <1>1, <1>2, <1>4, <1>6 DEF TalkTypeOK, talkVarsOfHub
  <1>8. \A k \in NoteKeys : /\ handed[k] \in Seq(1..MaxLog) /\ Increasing(handed[k])
                            /\ \A i \in DOMAIN handed[k] : handed[k][i] <= lastProcessed[k]
    BY <1>2 DEF HandedTrue, ListenInOrder
  <1>9. \A k \in NoteKeys : \A i \in DOMAIN handed[k] : handed[k][i] \in 1..MaxLog
    BY <1>8, ListElements
  <1>10. \A k \in NoteKeys : \A i \in DOMAIN handed[k] : handed[k][i] <= lastProcessed'[k]
    BY <1>2, <1>4, <1>5, <1>8, <1>9
  <1>11. handed' \in [NoteKeys -> Seq(Nat)] /\ HandedTrue' /\ ListenInOrder'
    <2>1. CASE found = <<>>
      <3>1. handed' = handed
        BY <1>1, <2>1
      <3> QED BY <1>2, <1>8, <1>10, <3>1 DEF HandedTrue, ListenInOrder
    <2>2. CASE found # <<>>
      <3>1. Ordered(page)
        BY <1>2, PageOrdered
      <3>2. found[1] \in DOMAIN log /\ Among(found[1], page)
        BY <1>2, <2>2, <3>1, FoundThere
      <3> PICK x : x = found[1]
        OBVIOUS
      <3> PICK h : h = Append(handed[key], x)
        OBVIOUS
      <3>3. x \in 1..MaxLog /\ x > l /\ x <= Saved(l, page)
        BY <1>2, <1>3, <3>2, TalkBounds DEF TalkTypeOK, Among
      <3>4. \A i \in DOMAIN handed[key] : handed[key][i] < x
        BY <1>2, <1>8, <1>9, <3>3
      <3>5. /\ h \in Seq(1..MaxLog) /\ Increasing(h)
            /\ \A k \in DOMAIN h : h[k] = x \/ (k \in DOMAIN handed[key] /\ h[k] = handed[key][k])
        BY <1>2, <1>8, <3>3, <3>4, RisingAppend
      <3>6. \A k \in DOMAIN h : h[k] <= lastProcessed'[key]
        BY <1>2, <1>4, <1>10, <3>3, <3>5
      <3>7. /\ handed' = [handed EXCEPT ![key] = h] /\ handed'[key] = h
            /\ \A k \in NoteKeys : k # key => handed'[k] = handed[k]
        BY <1>1, <1>2, <2>2
      <3>8. \A k \in NoteKeys : /\ handed'[k] \in Seq(1..MaxLog) /\ Increasing(handed'[k])
                                /\ \A i \in DOMAIN handed'[k] : handed'[k][i] <= lastProcessed'[k]
        <4> SUFFICES ASSUME NEW k \in NoteKeys
                     PROVE  /\ handed'[k] \in Seq(1..MaxLog) /\ Increasing(handed'[k])
                            /\ \A i \in DOMAIN handed'[k] : handed'[k][i] <= lastProcessed'[k]
          OBVIOUS
        <4>1. CASE k = key
          <5>1. handed'[k] = h /\ lastProcessed'[k] = lastProcessed'[key]
            BY <3>7, <4>1, Zenon
          <5> QED BY <3>5, <3>6, <5>1
        <4>2. CASE k # key
          BY <1>8, <1>10, <3>7, <4>2
        <4> QED BY <4>1, <4>2
      <3>9. h \in Seq(Nat)
        BY <3>5, ListElements
      <3>10. handed' \in [NoteKeys -> Seq(Nat)]
        BY <1>2, <3>7, <3>9
      <3> QED BY <3>8, <3>10, Zenon DEF HandedTrue, ListenInOrder
    <2> QED BY <2>1, <2>2
  <1>12. RepliesTrue' /\ RepliesMatch' /\ SharesTrue' /\ ContextKept'
    BY <1>1 DEF TalkInv, RepliesTrue, RepliesMatch, SharesTrue, ContextKept, talkVarsOfHub
  <1> QED BY <1>6, <1>7, <1>11, <1>12, Zenon DEF TalkInv

LEMMA ChatPolls ==
  ASSUME TalkInv, PollReply
  PROVE  TalkInv'
  <1> PICK page : page = Page("dm", tool.last)
    OBVIOUS
  <1> PICK found : found = Only(page, {n \in DOMAIN log : IsReply(log[n])})
    OBVIOUS
  <1>1. /\ tool.name \in {"chat", "turn"} /\ tool.step = "poll"
        /\ UNCHANGED <<talkVarsOfHub, lastProcessed, turns, handed>>
        /\ found = <<>> => tool' = [tool EXCEPT !.last = Saved(@, page)] /\ replies' = replies
        /\ found # <<>> => tool' = NoTool /\ replies' = replies \cup {[id |-> found[1], turn |-> tool.corr]}
    BY DEF PollReply
  <1>2. /\ TalkTypeOK /\ ToolTrue /\ RepliesTrue /\ RepliesMatch
        /\ tool \in Tool /\ tool.last \in 0..MaxLog
        /\ tool.corr \in 1..turns /\ \A r \in replies : r.turn # tool.corr
    BY <1>1 DEF TalkInv, TalkTypeOK, Tool, ToolTrue
  <1>3. "dm" \in NoteKeys
    BY DEF NoteKeys
  <1>4. Ordered(page)
    BY <1>2, <1>3, PageOrdered
  <1>5. tool' \in Tool /\ ToolTrue' /\ RepliesTrue' /\ RepliesMatch'
    <2>1. CASE found = <<>>
      <3>1. Saved(tool.last, page) \in 0..MaxLog
        BY <1>2, <1>4, CursorMoves
      <3> PICK t : t = [tool EXCEPT !.last = Saved(tool.last, page)]
        OBVIOUS
      <3>2. t \in Tool /\ t.name = tool.name /\ t.step = "poll" /\ t.corr = tool.corr
        BY <1>1, <1>2, <3>1 DEF Tool
      <3>3. tool' = t /\ replies' = replies /\ turns' = turns /\ log' = log
        BY <1>1, <2>1 DEF talkVarsOfHub
      <3>4. ToolTrue'
        BY <1>1, <1>2, <3>2, <3>3 DEF ToolTrue
      <3>5. RepliesTrue' /\ RepliesMatch'
        BY <1>2, <3>3 DEF RepliesTrue, RepliesMatch
      <3> QED BY <3>2, <3>3, <3>4, <3>5
    <2>2. CASE found # <<>>
      <3> PICK x : x = found[1]
        OBVIOUS
      <3> PICK new : new = [id |-> x, turn |-> tool.corr]
        OBVIOUS
      <3>1. x \in DOMAIN log /\ IsReply(log[x])
        BY <1>2, <1>4, <2>2, FoundOnPage
      <3>2. log[x].corr # 0 => log[x].corr = tool.corr
        BY <3>1 DEF IsReply
      <3>3. tool' = NoTool /\ replies' = replies \cup {new} /\ turns' = turns /\ log' = log
        BY <1>1, <2>2 DEF talkVarsOfHub
      <3>4. new.id = x /\ new.turn = tool.corr
        OBVIOUS
      <3>5. NoTool \in Tool /\ ToolTrue'
        BY <3>3, TalkBounds DEF NoTool, Tool, NoteKeys, ToolTrue
      <3>6. \A r \in replies' : r.id \in DOMAIN log /\ r.turn \in 1..turns /\ (log[r.id].corr # 0 => log[r.id].corr = r.turn)
        BY <1>2, <3>1, <3>2, <3>3, <3>4 DEF RepliesTrue, RepliesMatch
      <3>7. \A r, s \in replies' : r.turn = s.turn => r = s
        BY <1>2, <3>3, <3>4 DEF RepliesMatch
      <3> QED BY <3>3, <3>5, <3>6, <3>7 DEF RepliesTrue, RepliesMatch
    <2> QED BY <2>1, <2>2
  <1>6. TalkTypeOK'
    BY <1>1, <1>2, <1>5 DEF TalkTypeOK, talkVarsOfHub
  <1>7. (handed \in [NoteKeys -> Seq(Nat)] /\ HandedTrue /\ ListenInOrder /\ SharesTrue /\ ContextKept)'
    BY <1>1 DEF TalkInv, HandedTrue, ListenInOrder, SharesTrue, ContextKept, talkVarsOfHub
  <1> QED BY <1>5, <1>6, <1>7 DEF TalkInv

LEMMA TalkMoves == TalkInv /\ [TalkNext]_talkVars => TalkInv'
  <1> SUFFICES ASSUME TalkInv, [TalkNext]_talkVars PROVE TalkInv'
    OBVIOUS
  <1>1. CASE UNCHANGED talkVars
    BY <1>1 DEF talkVars, TalkInv, TalkTypeOK, ToolTrue, HandedTrue, ListenInOrder,
                RepliesTrue, RepliesMatch, SharesTrue, ContextKept
  <1>2. CASE ContextSteps
    BY <1>2, ContextMoves
  <1>3. CASE ToolSteps
    BY <1>3, HubSteps, ToolStarts, ListenPolls, ChatPolls DEF ToolSteps
  <1> QED BY <1>1, <1>2, <1>3 DEF TalkNext

\* Type correctness of the tools, and what keeps them in order: a listener polls
\* from where the last call ended, and a chat waits for a turn without an answer.
THEOREM TalkInvariant == TalkSpec => []TalkInv
  BY TalkStart, TalkMoves, PTL DEF TalkSpec

-----------------------------------------------------------------------------
(* The list of members *)

MemberLists == {c \in memberCalls : c.op = "list"}
\* Without an event on its way, a list on its way is as young as the table, or
\* the page shows the table.
ListAsYoung == ~memberDue /\ ~overtaken =>
                 (\E d \in MemberLists : d.list \in {<<>>, roles}) \/ (MemberLists = {} /\ seats = roles)
MemberListInv == MemberInv /\ MemberTypeOK /\ AtMost(Requested, MaxMemberCalls) /\ ListAsYoung

LEMMA SeatsShow == MemberListInv => SeatsConverge
  BY DEF MemberListInv, SeatsConverge, ListAsYoung, MemberLists

LEMMA SeatsStart == MemberInit => MemberListInv
  <1> SUFFICES ASSUME MemberInit PROVE MemberListInv
    OBVIOUS
  <1>1. MemberInv
    BY MemberStart
  <1>2. Requested = {} /\ MemberLists = {}
    BY DEF MemberInit, Requested, MemberLists
  <1>3. AtMost(Requested, MaxMemberCalls) /\ Cardinality(Requested) <= MaxMemberCalls
    BY <1>2, NoneAtMost, MemberAssumption DEF AtMost
  <1>4. MemberTypeOK
    <2>1. memberWrites \in 0..MaxMemberWrites /\ memberDue \in BOOLEAN /\ overtaken \in BOOLEAN
      <3>1. memberWrites = 0 /\ memberDue = FALSE /\ overtaken = FALSE
        BY DEF MemberInit
      <3>2. MaxMemberWrites \in Nat
        BY MemberAssumption
      <3>3. 0 \in 0..MaxMemberWrites
        BY <3>2
      <3> QED BY <3>1, <3>3, Zenon
    <2> QED BY <1>1, <1>3, <2>1 DEF MemberInv, MemberTypeOK
  <1>5. ListAsYoung
    BY <1>2 DEF MemberInit, ListAsYoung
  <1> QED BY <1>1, <1>3, <1>4, <1>5 DEF MemberListInv

\* Steps that leave the lists and the table alone.
LEMMA SeatsQuiet ==
  ASSUME MemberListInv, MemberInv', AtMost(Requested, MaxMemberCalls)', MemberLists' = MemberLists,
         memberWrites' \in 0..MaxMemberWrites, UNCHANGED <<roles, seats, memberDue, overtaken>>
  PROVE  MemberListInv'
  <1>1. MemberTypeOK'
    BY DEF MemberListInv, MemberTypeOK, MemberInv, AtMost
  <1>2. ListAsYoung'
    BY DEF MemberListInv, ListAsYoung
  <1> QED BY <1>1, <1>2 DEF MemberListInv

LEMMA SeatsAsked ==
  ASSUME MemberListInv, MemberInv', RoleChange \/ RemoveMember \/ AddMember \/ LeaveIt \/ OthersAsk
  PROVE  MemberListInv'
  <1>1. PICK c : MemberAsks(c) /\ c.op # "list"
    <2>1. \A op \in {"role", "remove", "add", "leave"} : \A by, target, role : MemberCall(op, by, target, role).op # "list"
      BY DEF MemberCall
    <2> QED BY <2>1 DEF RoleChange, RemoveMember, AddMember, LeaveIt, OthersAsk
  <1>2. memberCalls' = memberCalls \cup {c} /\ memberWrites' = memberWrites + 1 /\ memberWrites < MaxMemberWrites
        /\ Cardinality(Requested) < MaxMemberCalls /\ UNCHANGED <<roles, seats, memberDue, overtaken>>
    BY <1>1 DEF MemberAsks
  <1>3. Requested' = Requested \cup {c} /\ MemberLists' = MemberLists
    BY <1>1, <1>2 DEF Requested, MemberLists
  <1>4. AtMost(Requested, MaxMemberCalls)'
    <2>1. IsFiniteSet(Requested)
      BY DEF MemberListInv, AtMost
    <2> QED BY <1>2, <1>3, <2>1, OneMore, MemberAssumption
  <1>5. memberWrites' \in 0..MaxMemberWrites
    BY <1>2, MemberAssumption DEF MemberListInv, MemberTypeOK
  <1> QED BY <1>2, <1>3, <1>4, <1>5, SeatsQuiet

LEMMA SeatsChecked ==
  ASSUME MemberListInv, MemberInv', Admitted \/ Weighed \/ Counted \/ Refuses
  PROVE  MemberListInv'
  <1>1. UNCHANGED <<roles, seats, memberDue, overtaken, memberWrites>>
    BY DEF Admitted, Weighed, Counted, Refuses
  <1>2. PICK c \in Requested : \/ memberCalls' = memberCalls \ {c}
                              \/ \E d : memberCalls' = (memberCalls \ {c}) \cup {d} /\ d.op = c.op
    <2>1. Requested \subseteq CallType
      BY DEF MemberListInv, MemberInv, Requested
    <2>2. CASE Admitted
      <3>1. PICK c \in Requested : CallMoves(c, [c EXCEPT !.at = "admitted", !.mine = roles[c.by]])
        BY <2>2 DEF Admitted
      <3>2. [c EXCEPT !.at = "admitted", !.mine = roles[c.by]].op = c.op
        BY <2>1 DEF CallType
      <3> QED BY <3>1, <3>2 DEF CallMoves
    <2>3. CASE Weighed
      <3>1. PICK c \in Requested : \E h, a : CallMoves(c, [[c EXCEPT !.had = h] EXCEPT !.at = a])
        BY <2>3 DEF Weighed
      <3>2. \A h, a : [[c EXCEPT !.had = h] EXCEPT !.at = a].op = c.op
        BY <2>1 DEF CallType
      <3> QED BY <3>1, <3>2 DEF CallMoves
    <2>4. CASE Counted
      BY <2>1, <2>4 DEF Counted, CallMoves, CallType
    <2> QED BY <2>2, <2>3, <2>4 DEF Refuses
  <1>3. MemberLists' = MemberLists /\ (Requested' = Requested \ {c} \/ \E d : Requested' = (Requested \ {c}) \cup {d})
    BY <1>2 DEF MemberLists, Requested
  <1>4. AtMost(Requested, MaxMemberCalls)'
    BY <1>3, PartAtMost, OneSwapped, MemberAssumption DEF MemberListInv
  <1> QED BY <1>1, <1>3, <1>4, SeatsQuiet DEF MemberListInv, MemberTypeOK

LEMMA SeatsWritten == ASSUME MemberListInv, MemberInv', WritesMember PROVE MemberListInv'
  <1> PICK c \in Requested :
        memberCalls' = {IF roles' # roles /\ d.at # "sent" /\ d.op # "list"
                        THEN [d EXCEPT !.stale = TRUE] ELSE d : d \in memberCalls \ {c}}
                       \cup (IF c.by = Me /\ c.op # "leave" THEN {ListCall} ELSE {})
    BY DEF WritesMember
  <1>1. memberDue' = TRUE /\ UNCHANGED <<memberWrites, seats, overtaken>>
    BY DEF WritesMember
  <1> DEFINE Mark(d) == IF roles' # roles /\ d.at # "sent" /\ d.op # "list" THEN [d EXCEPT !.stale = TRUE] ELSE d
  <1>2. ListCall.op = "list"
    BY DEF ListCall, MemberCall
  <1>3. \A d \in memberCalls : Mark(d).op = d.op
    BY DEF MemberListInv, MemberInv, CallType
  <1>4. Requested' \subseteq {Mark(d) : d \in Requested}
    BY <1>2, <1>3 DEF Requested
  <1> DEFINE f == [d \in Requested |-> Mark(d)]
  <1>5. AtMost({Mark(d) : d \in Requested}, MaxMemberCalls)
    <2>1. f \in [Requested -> {Mark(d) : d \in Requested}] /\ \A y \in {Mark(d) : d \in Requested} : \E x \in Requested : f[x] = y
      OBVIOUS
    <2>2. AtMost(Requested, MaxMemberCalls) /\ MaxMemberCalls \in Nat
      BY MemberAssumption DEF MemberListInv
    <2> HIDE DEF f
    <2> QED BY <2>1, <2>2, Renamed
  <1>6. AtMost(Requested, MaxMemberCalls)'
    BY <1>4, <1>5, PartAtMost, MemberAssumption
  <1>7. MemberTypeOK'
    BY <1>1, <1>6 DEF MemberListInv, MemberTypeOK, MemberInv, AtMost
  <1> QED BY <1>1, <1>6, <1>7 DEF MemberListInv, ListAsYoung

LEMMA SeatsListed ==
  ASSUME MemberListInv, MemberInv', MemberHeard \/ ListsMembers \/ ListRefused \/ MembersLand
  PROVE  MemberListInv'
  <1>1. UNCHANGED <<roles, memberWrites>> /\ memberDue' \in BOOLEAN /\ overtaken' \in BOOLEAN
    BY DEF MemberListInv, MemberTypeOK, MemberHeard, ListsMembers, ListRefused, MembersLand
  <1>2. ListCall.op = "list" /\ ListCall.list = <<>>
    BY DEF ListCall, MemberCall
  <1>3. memberCalls \subseteq CallType
    BY DEF MemberListInv, MemberInv
  <1>4. Requested' = Requested
    BY <1>2, <1>3 DEF Requested, MemberHeard, ListsMembers, ListRefused, MembersLand, CallMoves, CallType
  <1>5. AtMost(Requested, MaxMemberCalls)' /\ MemberTypeOK'
    BY <1>1, <1>4 DEF MemberListInv, MemberTypeOK, MemberInv
  <1>6. ListAsYoung'
    <2>1. CASE MemberHeard
      BY <1>2, <2>1 DEF MemberHeard, ListAsYoung, MemberLists
    <2>2. CASE ListRefused
      BY <2>2 DEF ListRefused, ListAsYoung
    <2>3. CASE ListsMembers
      <3>1. PICK c \in memberCalls : c.op = "list" /\ CallMoves(c, [c EXCEPT !.list = roles]) /\ roles' = roles
        BY <2>3 DEF ListsMembers
      <3>2. [c EXCEPT !.list = roles].list = roles /\ [c EXCEPT !.list = roles].op = "list"
        BY <1>3, <3>1 DEF CallType
      <3> QED BY <3>1, <3>2 DEF ListAsYoung, MemberLists, CallMoves
    <2>4. CASE MembersLand
      <3>1. PICK c \in memberCalls : c.op = "list" /\ c.list # <<>> /\ seats' = c.list
                                     /\ overtaken' = (overtaken \/ \E d \in memberCalls \ {c} : d.op = "list")
                                     /\ memberCalls' = memberCalls \ {c} /\ UNCHANGED <<roles, memberDue>>
        BY <2>4 DEF MembersLand
      <3>2. CASE overtaken'
        BY <3>2 DEF ListAsYoung
      <3>3. CASE ~overtaken' /\ ~memberDue'
        <4>1. MemberLists = {c} /\ ~overtaken /\ ~memberDue
          BY <3>1, <3>3 DEF MemberLists
        <4>2. c.list = roles
          BY <3>1, <4>1 DEF MemberListInv, ListAsYoung
        <4> QED BY <3>1, <4>1, <4>2 DEF ListAsYoung, MemberLists
      <3> QED BY <3>2, <3>3 DEF ListAsYoung
    <2> QED BY <2>1, <2>2, <2>3, <2>4
  <1> QED BY <1>5, <1>6 DEF MemberListInv

\* handleMemberAction and the events' refetches: without an event on its way the
\* list on its way is as young as the table, or the page shows the table.
LEMMA MemberListInvariant == MemberSpec => []MemberListInv
  <1>1. MemberListInv /\ MemberInv' /\ [MemberNext]_memberVars => MemberListInv'
    <2>1. ASSUME MemberListInv, MemberInv', UNCHANGED memberVars PROVE MemberListInv'
      BY <2>1 DEF memberVars, MemberListInv, MemberTypeOK, ListAsYoung, MemberLists, Requested
    <2> QED BY <2>1, SeatsAsked, SeatsChecked, SeatsWritten, SeatsListed DEF MemberNext
  <1> QED BY <1>1, SeatsStart, MemberInvariant, PTL DEF MemberSpec

-----------------------------------------------------------------------------
(* The settings *)

RowOf == [key : SettingKeys, value : Setting]
SettingCallType ==
  [op : {"save", "row", "create", "revoke", "tokens"}, home : Homes, tab : Forms, value : Setting,
   token : Nat, rows : SUBSET RowOf, list : SUBSET Nat, done : BOOLEAN, live : BOOLEAN]

\* A table whose rows are each of their owner.
AtHome(table) == table \in [SettingKeys -> Setting] /\ \A k \in SettingKeys : table[k].for = k[1]
\* The rows brought are of their owners, and all those of the owners in H are there.
Brings(rows, H) == /\ \A r \in rows : r.value.for = r.key[1]
                   /\ \A k \in SettingKeys : k[1] \in H => \E r \in rows : r.key = k
Expected(c) == IF ~c.done THEN {} ELSE IF c.op = "save" THEN {c.home} ELSE IF c.op = "row" THEN Homes \ {0} ELSE {}
\* What is on its way for a form is of the row it was typed for.
SaveAtHome(c) == c.op = "save" => <<c.home, c.tab>> \in SettingKeys /\ c.value.for = c.home
CallAtHome(c) == c \in SettingCallType /\ SaveAtHome(c) /\ Brings(c.rows, Expected(c))

\* What was created is numbered up to tokensMinted.
MintedCall(c) == c.op = "create" /\ c.done => c.token <= tokensMinted
Minting == {c \in settingCalls : c.op = "create" /\ ~c.done}
TokensCounted == /\ settingEdits \in 0..MaxSettingEdits /\ tokensMinted \in Nat /\ settingEdits - tokensMinted \in Nat
                 /\ AtMost(Minting, settingEdits - tokensMinted)
                 /\ liveTokens \subseteq 1..tokensMinted /\ newToken \in 0..tokensMinted
                 /\ \A c \in settingCalls : MintedCall(c)

\* A list of tokens will be asked for, or is on its way and young, or is shown.
WillReload(c) == c.live /\ c.done /\ c.op \in {"create", "revoke"}
ListLive(c)   == c.live /\ c.op = "tokens"
YoungTokens   == \/ \E c \in settingCalls : WillReload(c)
                 \/ \E c \in settingCalls : ListLive(c) /\ (~c.done \/ c.list = liveTokens)
                 \/ tokens = liveTokens /\ \A c \in settingCalls : ~ListLive(c)
TokensKnown == (stab = "tokens" /\ ~shuffled) => YoungTokens

PlaceTyped == /\ home \in Homes /\ manages \in BOOLEAN /\ stab \in Forms \cup {"tokens"} /\ fields \in Setting
              /\ shuffled \in BOOLEAN
\* The list shown is of tokens.
TokensTyped == tokens \subseteq Nat
FieldsAtHome == FormShown(stab) => fields.for = OwnerOf(stab)
SettingInv ==
  /\ PlaceTyped /\ TokensTyped /\ AtHome(kept) /\ AtHome(known) /\ FieldsAtHome
  /\ AtMost(settingCalls, MaxSettingCalls) /\ \A c \in settingCalls : CallAtHome(c)
  /\ TokensCounted /\ TokensKnown

LEMMA SettingBounds == NHomes \in Nat /\ NHomes >= 1 /\ MaxSettingCalls \in Nat /\ MaxSettingEdits \in Nat
  BY SettingAssumption

LEMMA SettingShows == SettingInv => SettingTypeOK /\ SettingsStayHome /\ TokensConverge
  <1> SUFFICES ASSUME SettingInv PROVE SettingTypeOK /\ SettingsStayHome /\ TokensConverge
    OBVIOUS
  <1>1. tokensMinted \in 0..MaxSettingEdits
    BY SettingBounds DEF SettingInv, TokensCounted
  <1>2. SettingTypeOK
    BY <1>1 DEF SettingInv, SettingTypeOK, PlaceTyped, TokensCounted, AtMost, AtHome
  <1>3. SettingsStayHome
    BY DEF SettingInv, SettingsStayHome, AtHome, FieldsAtHome
  <1>4. TokensConverge
    BY DEF SettingInv, TokensConverge, TokensKnown, YoungTokens, WillReload, ListLive
  <1> QED BY <1>2, <1>3, <1>4

LEMMA MoreRoom ==
  ASSUME NEW a \in Nat, NEW b \in Nat, NEW m \in Nat, NEW k \in Nat, a - m \in Nat, b >= a, k <= a - m
  PROVE  b - m \in Nat /\ k <= b - m
  OBVIOUS

LEMMA KeysOf ==
  ASSUME home \in Homes, NEW t \in Forms, FormShown(t)
  PROVE  <<OwnerOf(t), t>> \in SettingKeys /\ OwnerOf(t) \in Homes
  BY SettingBounds DEF FormShown, Forms, OwnerOf, SettingKeys, Group, Homes

LEMMA SettingStart == SettingInit => SettingInv
  <1> SUFFICES ASSUME SettingInit PROVE SettingInv
    OBVIOUS
  <1> USE SettingBounds
  <1>1. /\ kept = [k \in SettingKeys |-> [for |-> k[1], by |-> "first"]] /\ known = kept
        /\ home = 1 /\ manages \in BOOLEAN /\ stab = "account" /\ fields = kept[<<0, "account">>]
        /\ settingCalls = {} /\ settingEdits = 0
        /\ liveTokens = {} /\ tokensMinted = 0 /\ tokens = {} /\ newToken = 0 /\ shuffled = FALSE
    BY DEF SettingInit
  <1>2. AtHome(kept) /\ AtHome(known)
    BY <1>1 DEF AtHome, Setting, SettingKeys
  <1>3. 1 \in Homes /\ <<0, "account">> \in SettingKeys
    BY DEF Homes, SettingKeys, Group, Forms
  <1>4. PlaceTyped /\ FieldsAtHome
    BY <1>1, <1>2, <1>3 DEF PlaceTyped, FieldsAtHome, AtHome, OwnerOf, Forms
  <1>5. AtMost({}, 0) /\ AtMost({}, MaxSettingCalls) /\ Minting = {}
    BY <1>1, NoneAtMost DEF Minting
  <1>6. TokensCounted
    BY <1>1, <1>5 DEF TokensCounted
  <1> QED BY <1>1, <1>2, <1>4, <1>5, <1>6 DEF SettingInv, TokensKnown, TokensTyped

\* Steps of the forms: the tokens and what is on its way for them stay.
TokenParts == <<liveTokens, tokensMinted, tokens, newToken, shuffled>>

LEMMA TokensStay ==
  ASSUME SettingInv, settingEdits' \in 0..MaxSettingEdits, settingEdits' >= settingEdits, UNCHANGED <<TokenParts, stab>>,
         \A c \in settingCalls' : c \in settingCalls \/ (c.op \in {"save", "row"}),
         \A c \in settingCalls : c \in settingCalls' \/ (c.op \in {"save", "row"})
  PROVE  (TokensCounted /\ TokensKnown /\ TokensTyped)'
  <1>1. Minting' = Minting
    BY DEF Minting
  <1>2. TokensCounted /\ settingEdits \in Nat /\ settingEdits' \in Nat /\ tokensMinted \in Nat
        /\ tokensMinted' = tokensMinted /\ liveTokens' = liveTokens /\ newToken' = newToken
    BY SettingBounds DEF SettingInv, TokensCounted, TokenParts
  <1>3. AtMost(Minting, settingEdits - tokensMinted)' /\ (settingEdits - tokensMinted)' \in Nat
    <2>1. Cardinality(Minting) \in Nat /\ IsFiniteSet(Minting) /\ Cardinality(Minting) <= settingEdits - tokensMinted
      BY <1>2, FS_CardinalityType DEF TokensCounted, AtMost
    <2>2. settingEdits - tokensMinted \in Nat /\ settingEdits' >= settingEdits
      BY <1>2 DEF TokensCounted
    <2>3. settingEdits' - tokensMinted' \in Nat /\ Cardinality(Minting) <= settingEdits' - tokensMinted'
      <3>1. settingEdits' - tokensMinted \in Nat /\ Cardinality(Minting) <= settingEdits' - tokensMinted
        BY <1>2, <2>1, <2>2, MoreRoom
      <3> QED BY <1>2, <3>1
    <2> QED BY <1>1, <2>1, <2>3 DEF AtMost
  <1>4. \A c \in settingCalls' : MintedCall(c)'
    BY <1>2 DEF TokensCounted, MintedCall
  <1>5. TokensCounted'
    BY <1>2, <1>3, <1>4 DEF TokensCounted
  <1>6. TokensKnown'
    BY DEF SettingInv, TokensKnown, YoungTokens, WillReload, ListLive, TokenParts
  <1>7. TokensTyped'
    BY DEF SettingInv, TokensTyped, TokenParts
  <1> QED BY <1>5, <1>6, <1>7

LEMMA NewSettingCall ==
  ASSUME NEW op \in {"save", "row", "create", "revoke", "tokens"}, NEW h \in Homes
  PROVE  /\ SettingCall(op, h) \in SettingCallType /\ Brings(SettingCall(op, h).rows, Expected(SettingCall(op, h)))
         /\ SettingCall(op, h).op = op /\ SettingCall(op, h).home = h /\ ~SettingCall(op, h).done /\ SettingCall(op, h).live
  BY DEF SettingCall, SettingCallType, Forms, Setting, Brings, Expected

\* A call more, that is of its row.
LEMMA SettingSent ==
  ASSUME SettingInv, NEW c, CallAtHome(c), SettingSends(c)
  PROVE  /\ settingCalls' = settingCalls \cup {c} /\ AtMost(settingCalls, MaxSettingCalls)'
         /\ \A d \in settingCalls' : CallAtHome(d)
  <1>1. settingCalls' = settingCalls \cup {c} /\ Cardinality(settingCalls) < MaxSettingCalls
    BY DEF SettingSends
  <1>2. IsFiniteSet(settingCalls)
    BY DEF SettingInv, AtMost
  <1> QED BY <1>1, <1>2, OneMore, SettingBounds DEF SettingInv

\* The user types, leaves the workspace, the others save: no call begins or ends.
LEMMA FormSteps == ASSUME SettingInv, TypeField \/ MovesHome \/ OthersSave PROVE SettingInv'
  <1>1. UNCHANGED <<TokenParts, stab, settingCalls, known>>
    BY DEF TypeField, MovesHome, OthersSave, settingTokenVars, TokenParts
  <1>2. settingEdits' \in 0..MaxSettingEdits /\ settingEdits' >= settingEdits
    BY SettingBounds DEF TypeField, MovesHome, OthersSave, SettingStarts, SettingInv, TokensCounted
  <1>3. (TokensCounted /\ TokensKnown /\ TokensTyped)'
    BY <1>1, <1>2, TokensStay
  <1>4. AtMost(settingCalls, MaxSettingCalls)' /\ \A c \in settingCalls' : CallAtHome(c)
    BY <1>1 DEF SettingInv
  <1>5. AtHome(known)'
    BY <1>1 DEF SettingInv, AtHome
  <1>6. CASE TypeField
    <2>1. UNCHANGED <<kept, home, manages>> /\ FormShown(stab) /\ fields' = [for |-> OwnerOf(stab), by |-> "me"]
      BY <1>6 DEF TypeField
    <2>2. OwnerOf(stab) \in Homes
      BY <2>1, KeysOf DEF SettingInv, PlaceTyped, FormShown
    <2>3. PlaceTyped'
      BY <1>1, <2>1, <2>2 DEF SettingInv, PlaceTyped, Setting, TokenParts
    <2>4. FieldsAtHome'
      BY <1>1, <2>1, <2>2 DEF FieldsAtHome, OwnerOf
    <2> QED BY <1>3, <1>4, <1>5, <2>1, <2>3, <2>4 DEF SettingInv, AtHome
  <1>7. CASE MovesHome
    <2>1. PICK h \in Homes \ {home}, m \in BOOLEAN :
            /\ home' = h /\ manages' = (m /\ h # 0) /\ UNCHANGED kept
            /\ fields' = IF stab \in Forms \ {"account"} /\ h # 0 THEN Follows(known, h) ELSE fields
      BY <1>7 DEF MovesHome
    <2>2. ASSUME stab \in Forms \ {"account"}, h # 0
          PROVE  /\ Follows(known, h) = known[<<h, stab>>] /\ known[<<h, stab>>] \in Setting
                 /\ known[<<h, stab>>].for = h
      BY <2>1, <2>2 DEF Follows, SettingKeys, Group, Forms, SettingInv, AtHome
    <2>3. fields' \in Setting
      BY <2>1, <2>2 DEF SettingInv, PlaceTyped
    <2>4. PlaceTyped'
      <3>1. manages' \in BOOLEAN
        BY <2>1
      <3> QED BY <1>1, <2>1, <2>3, <3>1 DEF SettingInv, PlaceTyped, TokenParts
    <2>5. FieldsAtHome'
      <3>1. CASE stab \in Forms \ {"account"} /\ h # 0
        BY <1>1, <2>1, <2>2, <3>1 DEF FieldsAtHome, OwnerOf
      <3>2. CASE ~(stab \in Forms \ {"account"} /\ h # 0)
        BY <1>1, <2>1, <3>2 DEF SettingInv, FieldsAtHome, OwnerOf, FormShown, Forms
      <3> QED BY <3>1, <3>2
    <2> QED BY <1>3, <1>4, <1>5, <2>1, <2>4, <2>5 DEF SettingInv, AtHome
  <1>8. CASE OthersSave
    <2>1. PICK k \in SettingKeys : kept' = [kept EXCEPT ![k] = [for |-> k[1], by |-> "other"]]
      BY <1>8 DEF OthersSave
    <2>2. UNCHANGED <<home, manages, fields>>
      BY <1>8 DEF OthersSave
    <2>3. AtHome(kept)'
      <3>1. k[1] \in Homes
        BY DEF SettingKeys
      <3> QED BY <2>1, <3>1 DEF SettingInv, AtHome, Setting
    <2>4. PlaceTyped' /\ FieldsAtHome'
      BY <1>1, <2>2 DEF SettingInv, PlaceTyped, FieldsAtHome, TokenParts, FormShown, OwnerOf
    <2> QED BY <1>3, <1>4, <1>5, <2>3, <2>4 DEF SettingInv
  <1> QED BY <1>6, <1>7, <1>8

\* A save or a refresh begins.
LEMMA SettingSaveSteps == ASSUME SettingInv, SaveForm \/ RefreshesRow PROVE SettingInv'
  <1>1. UNCHANGED <<TokenParts, formVars>>
    BY DEF SaveForm, RefreshesRow, settingTokenVars, TokenParts
  <1>2. settingEdits' \in 0..MaxSettingEdits /\ settingEdits' >= settingEdits
    BY SettingBounds DEF SaveForm, RefreshesRow, SettingStarts, SettingInv, TokensCounted
  <1>3. \E c : CallAtHome(c) /\ SettingSends(c) /\ c.op \in {"save", "row"}
    <2>1. CASE SaveForm
      <3>1. FormShown(stab) /\ SettingSends([SettingCall("save", OwnerOf(stab)) EXCEPT !.tab = stab, !.value = fields])
        BY <2>1 DEF SaveForm
      <3>2. stab \in Forms /\ <<OwnerOf(stab), stab>> \in SettingKeys /\ OwnerOf(stab) \in Homes
            /\ fields.for = OwnerOf(stab) /\ fields \in Setting
        BY <3>1, KeysOf DEF FormShown, SettingInv, PlaceTyped, FieldsAtHome
      <3> DEFINE c == [SettingCall("save", OwnerOf(stab)) EXCEPT !.tab = stab, !.value = fields]
      <3>3. c \in SettingCallType /\ c.op = "save" /\ c.home = OwnerOf(stab) /\ c.tab = stab /\ c.value = fields /\ ~c.done
            /\ c.rows = {}
        BY <3>2 DEF SettingCall, SettingCallType
      <3>4. CallAtHome(c)
        BY <3>2, <3>3 DEF CallAtHome, SaveAtHome, Brings, Expected
      <3> QED BY <3>1, <3>3, <3>4
    <2>2. CASE RefreshesRow
      <3> DEFINE c == [SettingCall("row", 0) EXCEPT !.live = FALSE]
      <3>1. SettingSends(c)
        BY <2>2 DEF RefreshesRow
      <3>2. c \in SettingCallType /\ c.op = "row" /\ ~c.done /\ c.rows = {}
        <4>1. 0 \in Homes
          BY SettingBounds DEF Homes
        <4> QED BY <4>1 DEF SettingCall, SettingCallType, Forms, Setting
      <3>3. CallAtHome(c)
        BY <3>2 DEF CallAtHome, SaveAtHome, Brings, Expected
      <3> QED BY <3>1, <3>2, <3>3
    <2> QED BY <2>1, <2>2
  <1>4. /\ AtMost(settingCalls, MaxSettingCalls)' /\ \A d \in settingCalls' : CallAtHome(d)
        /\ \A c \in settingCalls' : c \in settingCalls \/ c.op \in {"save", "row"}
        /\ \A c \in settingCalls : c \in settingCalls'
    BY <1>3, SettingSent
  <1>5. (TokensCounted /\ TokensKnown /\ TokensTyped)'
    BY <1>1, <1>2, <1>4, TokensStay DEF formVars
  <1>6. PlaceTyped' /\ FieldsAtHome' /\ AtHome(kept)' /\ AtHome(known)'
    BY <1>1 DEF SettingInv, PlaceTyped, FieldsAtHome, TokenParts, FormShown, OwnerOf, formVars, AtHome
  <1>7. \A d \in settingCalls' : CallAtHome(d)'
    BY <1>4
  <1> QED BY <1>4, <1>5, <1>6, <1>7 DEF SettingInv

\* The rows of a table, as they are brought.
LEMMA RowsBrought ==
  ASSUME NEW table, AtHome(table), NEW H
  PROVE  SettingRows(table, H) \subseteq RowOf /\ Brings(SettingRows(table, H), H)
  <1>1. \A r \in SettingRows(table, H) : r \in RowOf /\ r.value.for = r.key[1]
    BY DEF SettingRows, AtHome, RowOf
  <1>2. ASSUME NEW k \in SettingKeys, k[1] \in H PROVE \E r \in SettingRows(table, H) : r.key = k
    <2>1. [key |-> k, value |-> table[k]] \in SettingRows(table, H)
      BY <1>2 DEF SettingRows
    <2> QED BY <2>1
  <1> QED BY <1>1, <1>2 DEF Brings

\* A row of those brought.
LEMMA RowFound ==
  ASSUME NEW rows \in SUBSET RowOf, NEW H, Brings(rows, H), NEW k \in SettingKeys, k[1] \in H
  PROVE  /\ (CHOOSE r \in rows : r.key = k).value \in Setting
         /\ (CHOOSE r \in rows : r.key = k).value.for = k[1]
  <1>1. \E r \in rows : r.key = k
    BY DEF Brings
  <1> DEFINE z == CHOOSE r \in rows : r.key = k
  <1>2. z \in rows /\ z.key = k
    BY <1>1
  <1> HIDE DEF z
  <1>3. z.value \in Setting /\ z.value.for = k[1]
    BY <1>2 DEF Brings, RowOf
  <1> QED BY <1>3 DEF z

LEMMA RowStep == ASSUME SettingInv, RowLands PROVE SettingInv'
  <1>1. PICK c \in settingCalls :
          LET h == IF c.op = "save" THEN c.home ELSE home IN
          /\ c.done /\ c.op \in {"save", "row"}
          /\ known' = [k \in SettingKeys |-> IF k[1] = h /\ (c.op = "row" => h # 0)
                                THEN (CHOOSE r \in c.rows : r.key = k).value ELSE known[k]]
          /\ fields' = IF stab \in Forms /\ h = OwnerOf(stab) THEN Follows(known', h) ELSE fields
          /\ settingCalls' = settingCalls \ {c}
          /\ UNCHANGED <<kept, home, manages, stab, settingEdits, settingTokenVars>>
    BY DEF RowLands
  <1> DEFINE h == IF c.op = "save" THEN c.home ELSE home
  <1>2. /\ c.done /\ c.op \in {"save", "row"} /\ CallAtHome(c) /\ h \in Homes
        /\ known' = [k \in SettingKeys |-> IF k[1] = h /\ (c.op = "row" => h # 0)
                                THEN (CHOOSE r \in c.rows : r.key = k).value ELSE known[k]]
        /\ fields' = IF stab \in Forms /\ h = OwnerOf(stab) THEN Follows(known', h) ELSE fields
        /\ settingCalls' = settingCalls \ {c}
        /\ UNCHANGED <<kept, home, manages, stab, settingEdits>> /\ UNCHANGED TokenParts
    BY <1>1 DEF SettingInv, CallAtHome, SettingCallType, PlaceTyped, settingTokenVars, TokenParts
  <1> HIDE DEF h
  <1>3. (c.op = "row" => h # 0) => h \in Expected(c)
    BY <1>2 DEF Expected, h
  <1>4. AtHome(known)'
    <2> SUFFICES ASSUME NEW k \in SettingKeys PROVE known'[k] \in Setting /\ known'[k].for = k[1]
      BY <1>2 DEF AtHome
    <2>1. CASE k[1] = h /\ (c.op = "row" => h # 0)
      <3>1. c.rows \subseteq RowOf /\ Brings(c.rows, Expected(c)) /\ k[1] \in Expected(c)
        BY <1>2, <1>3, <2>1 DEF CallAtHome, SettingCallType
      <3>2. known'[k] = (CHOOSE r \in c.rows : r.key = k).value
        BY <1>2, <2>1
      <3> QED BY <3>1, <3>2, RowFound
    <2>2. CASE ~(k[1] = h /\ (c.op = "row" => h # 0))
      <3>1. known'[k] = known[k]
        BY <1>2, <2>2
      <3> QED BY <3>1 DEF SettingInv, AtHome
    <2> QED BY <2>1, <2>2
  <1>5. fields' \in Setting
    BY <1>2, <1>4 DEF Follows, AtHome, SettingInv, PlaceTyped
  <1>6. PlaceTyped'
    BY <1>2, <1>5 DEF SettingInv, PlaceTyped, TokenParts
  <1>7. FieldsAtHome'
    <2> SUFFICES ASSUME FormShown(stab) PROVE fields'.for = OwnerOf(stab)
      BY <1>2 DEF FieldsAtHome, FormShown, OwnerOf
    <2>1. stab \in Forms /\ <<OwnerOf(stab), stab>> \in SettingKeys /\ fields.for = OwnerOf(stab)
      BY KeysOf DEF FormShown, SettingInv, PlaceTyped, FieldsAtHome
    <2>2. CASE h = OwnerOf(stab)
      <3>1. fields' = known'[<<h, stab>>]
        BY <1>2, <2>1, <2>2 DEF Follows
      <3>2. known'[<<h, stab>>].for = h
        BY <1>4, <2>1, <2>2 DEF AtHome
      <3> QED BY <2>2, <3>1, <3>2
    <2>3. CASE h # OwnerOf(stab)
      BY <1>2, <2>1, <2>3
    <2> QED BY <2>2, <2>3
  <1>8. (TokensCounted /\ TokensKnown /\ TokensTyped)'
    <2>1. settingEdits' \in 0..MaxSettingEdits /\ settingEdits' >= settingEdits
      BY <1>2, SettingBounds DEF SettingInv, TokensCounted
    <2> QED BY <1>2, <2>1, TokensStay
  <1>9. AtMost(settingCalls, MaxSettingCalls)' /\ \A d \in settingCalls' : CallAtHome(d)'
    <2>1. settingCalls' \subseteq settingCalls
      BY <1>2
    <2> QED BY <2>1, PartAtMost, SettingBounds DEF SettingInv
  <1>10. AtHome(kept)'
    BY <1>2 DEF SettingInv, AtHome
  <1> QED BY <1>4, <1>6, <1>7, <1>8, <1>9, <1>10 DEF SettingInv

\* What a step of the tokens leaves alone.
LEMMA FormsStay ==
  ASSUME SettingInv, UNCHANGED <<kept, known, home, manages, stab, fields>>, shuffled' \in BOOLEAN
  PROVE  PlaceTyped' /\ FieldsAtHome' /\ AtHome(kept)' /\ AtHome(known)'
  BY DEF SettingInv, PlaceTyped, FieldsAtHome, FormShown, OwnerOf, AtHome

\* The tokens are counted while no token is created or revoked.
LEMMA CountKept ==
  ASSUME SettingInv, settingEdits' \in 0..MaxSettingEdits, settingEdits' >= settingEdits,
         liveTokens' \subseteq liveTokens, tokensMinted' = tokensMinted, newToken' \in 0..tokensMinted,
         Minting' \subseteq Minting, \A c \in settingCalls' : MintedCall(c)
  PROVE  TokensCounted'
  <1>1. TokensCounted /\ settingEdits \in Nat /\ settingEdits' \in Nat /\ tokensMinted \in Nat
        /\ settingEdits - tokensMinted \in Nat
    BY SettingBounds DEF SettingInv, TokensCounted
  <1>2. AtMost(Minting', settingEdits - tokensMinted)
    BY <1>1, PartAtMost DEF TokensCounted
  <1>3. Cardinality(Minting') \in Nat /\ IsFiniteSet(Minting') /\ Cardinality(Minting') <= settingEdits - tokensMinted
    BY <1>2, FS_CardinalityType DEF AtMost
  <1>4. settingEdits' - tokensMinted \in Nat /\ Cardinality(Minting') <= settingEdits' - tokensMinted
    BY <1>1, <1>3, MoreRoom
  <1>5. \A c \in settingCalls' : MintedCall(c)'
    BY DEF MintedCall
  <1> QED BY <1>1, <1>3, <1>4, <1>5 DEF TokensCounted, AtMost

LEMMA CallUnlive ==
  ASSUME NEW c, CallAtHome(c)
  PROVE  /\ CallAtHome([c EXCEPT !.live = FALSE]) /\ ~[c EXCEPT !.live = FALSE].live
         /\ [c EXCEPT !.live = FALSE].op = c.op /\ [c EXCEPT !.live = FALSE].done = c.done
         /\ [c EXCEPT !.live = FALSE].token = c.token
  <1> DEFINE d == [c EXCEPT !.live = FALSE]
  <1>1. d \in SettingCallType /\ ~d.live /\ d.op = c.op /\ d.done = c.done /\ d.token = c.token /\ d.home = c.home
        /\ d.tab = c.tab /\ d.value = c.value /\ d.rows = c.rows
    BY DEF CallAtHome, SettingCallType
  <1> HIDE DEF d
  <1>2. CallAtHome(d)
    BY <1>1 DEF CallAtHome, SaveAtHome, Expected
  <1> QED BY <1>1, <1>2 DEF d

LEMMA OpenStep == ASSUME SettingInv, OpenForm PROVE SettingInv'
  <1> USE DEF SettingInv
  <1>1. PICK t \in (Forms \cup {"tokens"}) \ {stab} :
    /\ stab' = t
    /\ fields' = IF t \in Forms /\ <<OwnerOf(t), t>> \in SettingKeys THEN known[<<OwnerOf(t), t>>] ELSE fields
    /\ newToken' = 0
    /\ LET C == {[c EXCEPT !.live = FALSE] : c \in settingCalls} IN
       IF t = "tokens"
       THEN Cardinality(C) < MaxSettingCalls /\ settingCalls' = C \cup {SettingCall("tokens", 0)}
       ELSE settingCalls' = C
    /\ shuffled' = FALSE
    /\ UNCHANGED <<kept, known, home, manages, settingEdits, liveTokens, tokensMinted>>
    BY DEF OpenForm
  <1> DEFINE Unlive(c) == [c EXCEPT !.live = FALSE]
             C == {Unlive(c) : c \in settingCalls}
  <1>2. \A c \in settingCalls : /\ CallAtHome(Unlive(c)) /\ ~Unlive(c).live /\ Unlive(c).op = c.op
                               /\ Unlive(c).done = c.done /\ Unlive(c).token = c.token
    BY CallUnlive
  <1>3. AtMost(C, MaxSettingCalls)
    <2> DEFINE f == [c \in settingCalls |-> Unlive(c)]
    <2>1. f \in [settingCalls -> C] /\ \A y \in C : \E x \in settingCalls : f[x] = y
      OBVIOUS
    <2> HIDE DEF f, C
    <2> QED BY <2>1, Renamed, SettingBounds
  <1> DEFINE T == SettingCall("tokens", 0)
  <1>4. CallAtHome(T) /\ T.op = "tokens" /\ ~T.done /\ T.live
    <2>1. 0 \in Homes
      BY SettingBounds DEF Homes
    <2> QED BY <2>1, NewSettingCall DEF CallAtHome, SaveAtHome
  <1>5. \/ settingCalls' = C /\ t # "tokens"
        \/ settingCalls' = C \cup {T} /\ Cardinality(C) < MaxSettingCalls
    BY <1>1
  <1> HIDE DEF T
  <1>6. AtMost(settingCalls, MaxSettingCalls)'
    <2>1. IsFiniteSet(C)
      BY <1>3 DEF AtMost
    <2> HIDE DEF C, Unlive
    <2>2. CASE settingCalls' = C
      BY <1>3, <2>2
    <2>3. CASE settingCalls' = C \cup {T} /\ Cardinality(C) < MaxSettingCalls
      BY <2>1, <2>3, OneMore, SettingBounds
    <2> QED BY <1>5, <2>2, <2>3
  <1>7. \A d \in settingCalls' : CallAtHome(d)'
    BY <1>2, <1>4, <1>5
  <1>8. TokensKnown'
    <2> SUFFICES ASSUME t = "tokens" PROVE YoungTokens'
      BY <1>1 DEF TokensKnown
    <2>1. T \in settingCalls'
      BY <1>5
    <2> QED BY <1>4, <2>1 DEF YoungTokens, ListLive
  <1>9. Minting' = {Unlive(c) : c \in Minting}
    <2> HIDE DEF Unlive
    <2>1. \A d \in settingCalls' : d.op = "create" /\ ~d.done => d \in C
      BY <1>4, <1>5
    <2>2. \A d \in C : d \in settingCalls'
      BY <1>5
    <2>3. \A d \in C : d.op = "create" /\ ~d.done => \E c \in Minting : d = Unlive(c)
      BY <1>2 DEF Minting
    <2>4. \A c \in Minting : Unlive(c) \in C /\ Unlive(c).op = "create" /\ ~Unlive(c).done
      BY <1>2 DEF Minting
    <2> HIDE DEF C
    <2> QED BY <2>1, <2>2, <2>3, <2>4 DEF Minting
  <1>10. AtMost(Minting', settingEdits - tokensMinted)
    <2> DEFINE D == {Unlive(c) : c \in Minting}
               f == [c \in Minting |-> Unlive(c)]
    <2>1. f \in [Minting -> D] /\ \A y \in D : \E x \in Minting : f[x] = y
      OBVIOUS
    <2>2. AtMost(Minting, settingEdits - tokensMinted) /\ settingEdits - tokensMinted \in Nat
      BY DEF TokensCounted
    <2> HIDE DEF f, D
    <2>3. AtMost(D, settingEdits - tokensMinted)
      BY <2>1, <2>2, Renamed
    <2> QED BY <1>9, <2>3 DEF D
  <1>11. ASSUME NEW d \in settingCalls' PROVE MintedCall(d)'
    <2> HIDE DEF Unlive
    <2>1. d = T \/ \E c \in settingCalls : d = Unlive(c)
      BY <1>5
    <2>2. tokensMinted' = tokensMinted /\ \A c \in settingCalls : MintedCall(c)
      BY <1>1 DEF TokensCounted
    <2> QED BY <1>2, <1>4, <2>1, <2>2 DEF MintedCall
  <1>12. TokensCounted'
    BY <1>1, <1>10, <1>11 DEF TokensCounted
  <1>13. PlaceTyped' /\ FieldsAtHome'
    <2>1. ASSUME FormShown(t) PROVE <<OwnerOf(t), t>> \in SettingKeys
      BY <2>1, KeysOf DEF FormShown, PlaceTyped
    <2>2. fields' \in Setting
      BY <1>1 DEF AtHome, PlaceTyped
    <2>3. FormShown(t) => fields'.for = OwnerOf(t)
      BY <1>1, <2>1 DEF AtHome, FormShown
    <2> QED BY <1>1, <2>2, <2>3 DEF PlaceTyped, FieldsAtHome, FormShown, OwnerOf
  <1>14. TokensTyped'
    BY DEF OpenForm, TokensTyped
  <1> QED BY <1>1, <1>6, <1>7, <1>8, <1>12, <1>13, <1>14 DEF AtHome

\* A token is to be created or revoked.
LEMMA TokenAsked == ASSUME SettingInv, CreateToken \/ RevokeToken PROVE SettingInv'
  <1> USE DEF SettingInv
  <1>1. PICK c : /\ CallAtHome(c) /\ SettingSends(c) /\ c.op \in {"create", "revoke"} /\ ~c.done
                 /\ SettingStarts /\ UNCHANGED <<formVars, TokenParts>>
    <2>1. 0 \in Homes
      BY SettingBounds DEF Homes
    <2>2. CASE CreateToken
      <3>1. SettingSends(SettingCall("create", 0)) /\ SettingStarts /\ UNCHANGED <<formVars, TokenParts>>
        BY <2>2 DEF CreateToken, settingTokenVars, TokenParts
      <3> QED BY <2>1, <3>1, NewSettingCall DEF CallAtHome, SaveAtHome
    <2>3. CASE RevokeToken
      <3>1. PICK k \in tokens : /\ SettingSends([SettingCall("revoke", 0) EXCEPT !.token = k])
                                /\ SettingStarts /\ UNCHANGED <<formVars, TokenParts>>
        BY <2>3 DEF RevokeToken, settingTokenVars, TokenParts
      <3> DEFINE c == [SettingCall("revoke", 0) EXCEPT !.token = k]
      <3>2. k \in Nat
        BY DEF TokensTyped
      <3>3. c \in SettingCallType /\ c.op = "revoke" /\ ~c.done /\ c.rows = {}
        BY <2>1, <3>2 DEF SettingCall, SettingCallType, Forms, Setting
      <3>4. CallAtHome(c)
        BY <3>3 DEF CallAtHome, SaveAtHome, Brings, Expected
      <3> QED BY <3>1, <3>3, <3>4
    <2> QED BY <2>2, <2>3
  <1>2. /\ settingCalls' = settingCalls \cup {c} /\ AtMost(settingCalls, MaxSettingCalls)'
        /\ \A d \in settingCalls' : CallAtHome(d)
    BY <1>1, SettingSent
  <1>3. \A d \in settingCalls' : CallAtHome(d)'
    BY <1>2
  <1>4. /\ UNCHANGED <<kept, known, home, manages, stab, fields>> /\ UNCHANGED <<liveTokens, tokensMinted, tokens, newToken, shuffled>>
        /\ settingEdits' = settingEdits + 1 /\ settingEdits < MaxSettingEdits
    BY <1>1 DEF SettingStarts, formVars, TokenParts
  <1>5. TokensCounted'
    <2>1. settingEdits \in Nat /\ settingEdits' \in 0..MaxSettingEdits /\ tokensMinted \in Nat
          /\ settingEdits - tokensMinted \in Nat
          /\ settingEdits' - tokensMinted' = (settingEdits - tokensMinted) + 1
      BY <1>4, SettingBounds DEF TokensCounted
    <2>2. Minting' \subseteq Minting \cup {c}
      BY <1>2 DEF Minting
    <2>3. AtMost(Minting \cup {c}, (settingEdits - tokensMinted) + 1)
      BY <2>1, AndOneMore DEF TokensCounted
    <2>4. AtMost(Minting', settingEdits' - tokensMinted') /\ settingEdits' - tokensMinted' \in Nat
      BY <2>1, <2>2, <2>3, PartAtMost
    <2>5. \A d \in settingCalls' : MintedCall(d)'
      BY <1>1, <1>2, <1>4 DEF MintedCall, TokensCounted
    <2> QED BY <1>4, <2>1, <2>4, <2>5 DEF TokensCounted
  <1>6. TokensKnown'
    <2> SUFFICES ASSUME YoungTokens PROVE YoungTokens'
      BY <1>4 DEF TokensKnown
    <2> QED BY <1>1, <1>2, <1>4 DEF YoungTokens, WillReload, ListLive
  <1>7. PlaceTyped' /\ FieldsAtHome' /\ AtHome(kept)' /\ AtHome(known)'
    BY <1>4, FormsStay DEF PlaceTyped
  <1>8. TokensTyped'
    BY <1>4 DEF TokensTyped
  <1> QED BY <1>2, <1>3, <1>5, <1>6, <1>7, <1>8

\* The steps that take a call off, and may ask for the list again.
LEMMA TokenAnswered == ASSUME SettingInv, TokenLands \/ TokensLand \/ SettingFails PROVE SettingInv'
  <1> USE DEF SettingInv
  <1>1. UNCHANGED <<kept, known, home, manages, stab, fields>> /\ UNCHANGED <<settingEdits, liveTokens, tokensMinted>>
    BY DEF TokenLands, TokensLand, SettingFails, formVars
  <1>2. settingEdits' \in 0..MaxSettingEdits /\ settingEdits' >= settingEdits
    BY <1>1, SettingBounds DEF TokensCounted
  <1>3. CASE TokenLands
    <2>1. PICK c \in settingCalls :
        /\ c.done /\ c.op \in {"create", "revoke"}
        /\ newToken' = IF c.live /\ c.op = "create" THEN c.token ELSE newToken
        /\ settingCalls' = (settingCalls \ {c}) \cup Reloads(c)
        /\ UNCHANGED <<tokens, shuffled>>
      BY <1>3 DEF TokenLands
    <2> DEFINE T == [SettingCall("tokens", 0) EXCEPT !.live = c.live]
    <2>2. CallAtHome(c) /\ MintedCall(c) /\ c \in SettingCallType
      BY DEF TokensCounted, CallAtHome
    <2>3. T \in SettingCallType /\ T.op = "tokens" /\ ~T.done /\ T.live = c.live /\ T.rows = {}
      <3>1. 0 \in Homes /\ c.live \in BOOLEAN
        BY <2>2, SettingBounds DEF Homes, SettingCallType
      <3> QED BY <3>1 DEF SettingCall, SettingCallType, Forms, Setting
    <2>4. CallAtHome(T)
      BY <2>3 DEF CallAtHome, SaveAtHome, Brings, Expected
    <2>5. settingCalls' = (settingCalls \ {c}) \cup {T}
      BY <2>1 DEF Reloads
    <2> HIDE DEF T
    <2>6. AtMost(settingCalls, MaxSettingCalls)' /\ \A d \in settingCalls' : CallAtHome(d)'
      BY <2>4, <2>5, OneSwapped, SettingBounds
    <2>7. TokensCounted'
      <3>1. newToken' \in 0..tokensMinted
        BY <2>1, <2>2 DEF MintedCall, SettingCallType, TokensCounted
      <3>2. Minting' \subseteq Minting
        BY <2>3, <2>5 DEF Minting
      <3>3. \A d \in settingCalls' : MintedCall(d)
        BY <2>3, <2>5 DEF MintedCall, TokensCounted
      <3> QED BY <1>1, <1>2, <3>1, <3>2, <3>3, CountKept
    <2>8. TokensKnown'
      <3> SUFFICES ASSUME YoungTokens PROVE YoungTokens'
        BY <1>1, <2>1 DEF TokensKnown
      <3>1. CASE c.live
        BY <2>3, <2>5, <3>1 DEF YoungTokens, ListLive
      <3>2. CASE ~c.live
        BY <1>1, <2>1, <2>3, <2>5, <3>2 DEF YoungTokens, WillReload, ListLive
      <3> QED BY <3>1, <3>2
    <2>9. PlaceTyped' /\ FieldsAtHome' /\ AtHome(kept)' /\ AtHome(known)'
      BY <1>1, <2>1, FormsStay DEF PlaceTyped
    <2>10. TokensTyped'
      BY <2>1 DEF TokensTyped
    <2> QED BY <2>6, <2>7, <2>8, <2>9, <2>10
  <1>4. CASE TokensLand \/ SettingFails
    <2>1. PICK c \in settingCalls :
        /\ settingCalls' = settingCalls \ {c} /\ newToken' = newToken
        /\ \/ /\ c.done /\ c.op = "tokens" /\ tokens' = IF c.live THEN c.list ELSE tokens
              /\ shuffled' = (shuffled \/ (c.live /\ \E d \in settingCalls \ {c} : d.live /\ d.op = "tokens"))
           \/ /\ ~c.done /\ shuffled' = (shuffled \/ (c.live /\ c.op \in {"tokens", "create", "revoke"}))
              /\ tokens' = tokens
      BY <1>4 DEF TokensLand, SettingFails
    <2>2. settingCalls' \subseteq settingCalls /\ shuffled' \in BOOLEAN /\ c \in SettingCallType
      BY <2>1 DEF CallAtHome, PlaceTyped
    <2>3. AtMost(settingCalls, MaxSettingCalls)' /\ \A d \in settingCalls' : CallAtHome(d)'
      BY <2>2, PartAtMost, SettingBounds
    <2>4. TokensCounted'
      <3>1. Minting' \subseteq Minting /\ newToken' \in 0..tokensMinted /\ \A d \in settingCalls' : MintedCall(d)
        BY <2>1, <2>2 DEF Minting, TokensCounted
      <3> QED BY <1>1, <1>2, <3>1, CountKept
    <2>5. TokensTyped'
      BY <2>1, <2>2 DEF TokensTyped, SettingCallType
    <2>6. TokensKnown'
      <3> SUFFICES ASSUME stab = "tokens", ~shuffled' PROVE YoungTokens'
        BY <1>1 DEF TokensKnown
      <3>1. ~shuffled /\ YoungTokens
        BY <2>1 DEF TokensKnown
      <3>2. CASE c.done /\ c.op = "tokens" /\ c.live /\ tokens' = c.list
                 /\ shuffled' = (shuffled \/ (c.live /\ \E d \in settingCalls \ {c} : d.live /\ d.op = "tokens"))
        <4>1. \A d \in settingCalls' : ~ListLive(d)
          BY <2>1, <3>2 DEF ListLive
        <4>2. ListLive(c) /\ ~WillReload(c) /\ c.done
          BY <3>2 DEF ListLive, WillReload
        <4>3. (\E d \in settingCalls : WillReload(d)) \/ c.list = liveTokens
          BY <2>1, <3>1, <4>1, <4>2 DEF YoungTokens
        <4> QED BY <1>1, <2>1, <3>2, <4>1, <4>2, <4>3 DEF YoungTokens, WillReload, ListLive
      <3>3. CASE tokens' = tokens /\ ~ListLive(c) /\ ~WillReload(c)
        BY <1>1, <2>1, <3>1, <3>3 DEF YoungTokens, WillReload, ListLive
      <3>4. ASSUME tokens' = tokens, ~c.done \/ c.op = "tokens", ~c.live \/ c.op \notin {"tokens", "create", "revoke"}
            PROVE  ~ListLive(c) /\ ~WillReload(c)
        BY <3>4 DEF ListLive, WillReload
      <3> QED BY <2>1, <3>2, <3>3, <3>4
    <2>7. PlaceTyped' /\ FieldsAtHome' /\ AtHome(kept)' /\ AtHome(known)'
      BY <1>1, <2>2, FormsStay
    <2> QED BY <2>3, <2>4, <2>5, <2>6, <2>7
  <1> QED BY <1>3, <1>4

\* The server's answer to a call.
LEMMA SettingAnswered == ASSUME SettingInv, SettingServed PROVE SettingInv'
  <1> USE DEF SettingInv
  <1>1. PICK c \in settingCalls :
    /\ ~c.done
    /\ kept' = IF c.op = "save" THEN [kept EXCEPT ![<<c.home, c.tab>>] = c.value] ELSE kept
    /\ tokensMinted' = IF c.op = "create" THEN tokensMinted + 1 ELSE tokensMinted
    /\ liveTokens' = CASE c.op = "create" -> liveTokens \cup {tokensMinted'}
                 [] c.op = "revoke" -> liveTokens \ {c.token}
                 [] OTHER           -> liveTokens
    /\ settingCalls' = (settingCalls \ {c}) \cup
         {[c EXCEPT !.done = TRUE, !.token = IF c.op = "create" THEN tokensMinted' ELSE @,
             !.rows = CASE c.op = "save" -> SettingRows(kept', {c.home})
                        [] c.op = "row"  -> SettingRows(kept', Homes \ {0})
                        [] OTHER         -> {},
             !.list = IF c.op = "tokens" THEN liveTokens ELSE {}]}
    /\ shuffled' = (shuffled \/ (c.op \in {"create", "revoke"} /\ ~c.live))
    /\ UNCHANGED <<known, home, manages, stab, fields, settingEdits, tokens, newToken>>
    BY DEF SettingServed
  <1> DEFINE rows == CASE c.op = "save" -> SettingRows(kept', {c.home})
                       [] c.op = "row"  -> SettingRows(kept', Homes \ {0})
                       [] OTHER         -> {}
             token == IF c.op = "create" THEN tokensMinted' ELSE c.token
             list == IF c.op = "tokens" THEN liveTokens ELSE {}
             d == [c EXCEPT !.done = TRUE, !.token = token, !.rows = rows, !.list = list]
  <1>2. c \in SettingCallType /\ CallAtHome(c) /\ MintedCall(c) /\ tokensMinted \in Nat /\ tokensMinted' \in Nat
    BY <1>1 DEF CallAtHome, TokensCounted
  <1>3. settingCalls' = (settingCalls \ {c}) \cup {d}
    BY <1>1, <1>2 DEF SettingCallType
  <1>4. AtHome(kept)'
    BY <1>1, <1>2 DEF AtHome, CallAtHome, SaveAtHome, SettingCallType
  <1>5. rows \subseteq RowOf /\ (c.op = "save" => Brings(rows, {c.home})) /\ (c.op = "row" => Brings(rows, Homes \ {0}))
        /\ (c.op \notin {"save", "row"} => Brings(rows, {}))
    <2>1. \A H : SettingRows(kept', H) \subseteq RowOf /\ Brings(SettingRows(kept', H), H)
      BY <1>4, RowsBrought DEF AtHome
    <2> QED BY <2>1 DEF Brings
  <1>6. token \in Nat /\ list \subseteq Nat /\ liveTokens \subseteq Nat
    <2>1. liveTokens \subseteq Nat
      BY <1>2 DEF TokensCounted
    <2> QED BY <1>2, <2>1 DEF SettingCallType
  <1>7. /\ d \in SettingCallType /\ d.done /\ d.op = c.op /\ d.live = c.live /\ d.home = c.home /\ d.tab = c.tab
        /\ d.value = c.value /\ d.token = token /\ d.rows = rows /\ d.list = list
    <2> HIDE DEF token, rows, list
    <2> QED BY <1>2, <1>5, <1>6 DEF SettingCallType
  <1>8. CallAtHome(d)
    <2> HIDE DEF d, token, rows, list
    <2> QED BY <1>2, <1>5, <1>7 DEF CallAtHome, SaveAtHome, Expected
  <1> HIDE DEF d, rows
  <1>9. AtMost(settingCalls, MaxSettingCalls)' /\ \A e \in settingCalls' : CallAtHome(e)'
    BY <1>3, <1>8, OneSwapped, SettingBounds
  <1>10. settingEdits' = settingEdits /\ settingEdits \in 0..MaxSettingEdits /\ settingEdits \in Nat
    BY <1>1, SettingBounds DEF TokensCounted
  <1>11. TokensCounted'
    <2>1. CASE c.op = "create"
      <3>1. c \in Minting /\ Minting' \subseteq Minting \ {c}
        BY <1>1, <1>3, <1>7, <2>1 DEF Minting
      <3>2. settingEdits - tokensMinted \in Nat /\ (settingEdits - tokensMinted) - 1 = settingEdits' - tokensMinted'
        BY <1>1, <1>2, <1>10, <2>1 DEF TokensCounted
      <3>3. settingEdits' - tokensMinted' \in Nat /\ AtMost(Minting', settingEdits' - tokensMinted')
        <4>1. (settingEdits - tokensMinted) - 1 \in Nat /\ AtMost(Minting \ {c}, (settingEdits - tokensMinted) - 1)
          BY <3>1, <3>2, OneLess DEF TokensCounted
        <4> QED BY <3>1, <3>2, <4>1, PartAtMost
      <3>4. tokensMinted' = tokensMinted + 1 /\ liveTokens' = liveTokens \cup {tokensMinted + 1} /\ newToken' = newToken
        BY <1>1, <2>1
      <3>5. liveTokens' \subseteq 1..tokensMinted' /\ newToken' \in 0..tokensMinted'
        BY <1>2, <3>4 DEF TokensCounted
      <3>6. \A e \in settingCalls' : MintedCall(e)'
        <4>1. d.token <= tokensMinted'
          BY <1>2, <1>7, <2>1
        <4>2. ASSUME NEW e \in settingCalls, e.op = "create", e.done PROVE e.token <= tokensMinted'
          <5>1. MintedCall(e) /\ e.token \in Nat
            BY DEF TokensCounted, CallAtHome, SettingCallType
          <5> QED BY <1>2, <3>4, <4>2, <5>1 DEF MintedCall
        <4> QED BY <1>3, <4>1, <4>2 DEF MintedCall
      <3> QED BY <1>2, <1>10, <3>3, <3>5, <3>6 DEF TokensCounted
    <2>2. CASE c.op # "create"
      <3>1. liveTokens' \subseteq liveTokens /\ tokensMinted' = tokensMinted /\ newToken' \in 0..tokensMinted
        BY <1>1, <2>2 DEF TokensCounted
      <3>2. Minting' \subseteq Minting /\ \A e \in settingCalls' : MintedCall(e)
        BY <1>3, <1>7, <2>2 DEF Minting, MintedCall, TokensCounted
      <3>3. settingEdits' \in 0..MaxSettingEdits /\ settingEdits' >= settingEdits
        BY <1>10, SettingBounds
      <3> QED BY <3>1, <3>2, <3>3, CountKept
    <2> QED BY <2>1, <2>2
  <1>12. TokensKnown'
    <2> SUFFICES ASSUME stab = "tokens", ~shuffled' PROVE YoungTokens'
      BY <1>1 DEF TokensKnown
    <2>1. YoungTokens /\ (c.op \in {"create", "revoke"} => c.live)
      BY <1>1 DEF TokensKnown
    <2>2. CASE c.op \in {"create", "revoke"}
      BY <1>3, <1>7, <2>1, <2>2 DEF YoungTokens, WillReload
    <2>3. CASE c.op = "tokens" /\ c.live
      <3>1. ListLive(d) /\ d.list = liveTokens /\ liveTokens' = liveTokens
        BY <1>1, <1>7, <2>3 DEF ListLive
      <3> QED BY <1>3, <3>1 DEF YoungTokens
    <2>4. CASE c.op \notin {"create", "revoke"} /\ ~(c.op = "tokens" /\ c.live)
      <3>1. liveTokens' = liveTokens /\ tokens' = tokens
        BY <1>1, <2>4
      <3>2. ~ListLive(c) /\ ~ListLive(d) /\ ~WillReload(c)
        BY <1>7, <2>4 DEF ListLive, WillReload
      <3>3. \A e \in settingCalls : e # c => e \in settingCalls'
        BY <1>3
      <3>4. \A e \in settingCalls' : e = d \/ e \in settingCalls
        BY <1>3
      <3> QED BY <2>1, <3>1, <3>2, <3>3, <3>4 DEF YoungTokens
    <2> QED BY <2>2, <2>3, <2>4
  <1>13. PlaceTyped' /\ FieldsAtHome'
    BY <1>1 DEF PlaceTyped, FieldsAtHome, FormShown, OwnerOf
  <1>14. AtHome(known)' /\ TokensTyped'
    BY <1>1 DEF AtHome, TokensTyped
  <1> QED BY <1>4, <1>9, <1>11, <1>12, <1>13, <1>14

\* The settings' tabs and tokens: forms hold what is of the workspace they were
\* opened for, and without a call on its way what the lists show is stored.
LEMMA SettingInvariant == SettingSpec => []SettingInv
  <1>1. ASSUME SettingInv, UNCHANGED settingVars PROVE SettingInv'
    BY <1>1 DEF settingVars, SettingInv, PlaceTyped, TokensTyped, AtHome, FieldsAtHome, TokensCounted, TokensKnown,
                YoungTokens, FormShown, OwnerOf, Minting, MintedCall
  <1>2. SettingInv /\ [SettingNext]_settingVars => SettingInv'
    BY <1>1, FormSteps, SettingSaveSteps, RowStep, OpenStep, TokenAsked, TokenAnswered, SettingAnswered DEF SettingNext
  <1> QED BY <1>2, SettingStart, PTL DEF SettingSpec

-----------------------------------------------------------------------------
(* The list of runtimes *)

FetchCall == [of : Shops, served : BOOLEAN, rows : SUBSET Row]

\* A list on its way is of one workspace, and what it brings was so when it was read.
FetchesTyped == \A c \in fetches : c \in FetchCall /\ \A x \in c.rows : x.id[1] = c.of
\* The list on its way brings what the server has.
Young(c) == c.of = runtimesOf /\ (c.served => c.rows = ListAgentRuntimes(runtimesOf))
\* Nothing is left to be said to the page.
Told == mounted /\ ~behind /\ ~daemonEvent /\ runtimesOf \notin unsaid /\ enrolled[runtimesOf] = 0
\* A page that is not behind waits for one list at most.
OneFetch == ~behind => \/ fetches = {}
                       \/ \E c \in fetches : fetches = {c} /\ (mounted => c.of = runtimesOf)
ListIsYoung == Told => \/ fetches = {} /\ runtimes = ListAgentRuntimes(runtimesOf)
                       \/ \E c \in fetches : Young(c)
ListInv == /\ RuntimeListTypeOK /\ AtMost(fetches, MaxFetches) /\ FetchesTyped
           /\ OneFetch /\ ListIsYoung /\ RuntimesConverge

LEMMA ListBounds == NRuntimes \in Nat /\ NRuntimes >= 1 /\ MaxFetches \in Nat /\ MaxFetches >= 1 /\ MaxRuntimeWrites \in Nat
  BY RuntimeListAssumption

LEMMA ListStart == RuntimeListInit => ListInv
  <1> SUFFICES ASSUME RuntimeListInit PROVE ListInv
    OBVIOUS
  <1>1. AtMost(fetches, MaxFetches) /\ Cardinality(fetches) <= MaxFetches
    BY NoneAtMost, ListBounds DEF RuntimeListInit, AtMost
  <1>2. RuntimeListTypeOK
    <2>1. /\ rowStatus \in [Shops \X RuntimeNo -> {"none", "online", "offline"}]
          /\ enrolled \in [Shops -> 0..NRuntimes] /\ unsaid \subseteq Shops
      BY ListBounds DEF RuntimeListInit
    <2>2. runtimesOf \in Shops /\ {mounted, fetching, daemonEvent, behind} \subseteq BOOLEAN
      <3>1. mounted \in BOOLEAN /\ fetching \in BOOLEAN /\ daemonEvent \in BOOLEAN /\ behind \in BOOLEAN
        BY DEF RuntimeListInit
      <3>2. runtimesOf \in Shops
        BY DEF RuntimeListInit, Shops
      <3> QED BY <3>1, <3>2
    <2>3. runtimes \subseteq Row /\ selectedRuntime \in (Shops \X RuntimeNo) \cup {NoRuntime}
      BY DEF RuntimeListInit
    <2>4. runtimeWrites \in 0..MaxRuntimeWrites
      BY ListBounds DEF RuntimeListInit
    <2> QED BY <1>1, <2>1, <2>2, <2>3, <2>4 DEF RuntimeListTypeOK
  <1>3. FetchesTyped /\ OneFetch /\ ListIsYoung /\ RuntimesConverge
    BY DEF RuntimeListInit, FetchesTyped, OneFetch, ListIsYoung, Told, RuntimesConverge
  <1> QED BY <1>1, <1>2, <1>3 DEF ListInv

\* What the server's part of a step may do: the page keeps its list, what is
\* written in the workspace shown is still to be said, or puts the page behind.
ServerWritesOn ==
  /\ UNCHANGED <<runtimesOf, mounted, runtimeStore, fetches>>
  /\ rowStatus' \in [Shops \X RuntimeNo -> {"none", "online", "offline"}]
  /\ enrolled' \in [Shops -> 0..NRuntimes] /\ unsaid' \subseteq Shops
  /\ daemonEvent' \in BOOLEAN /\ behind' \in BOOLEAN /\ runtimeWrites' \in 0..MaxRuntimeWrites
  /\ behind => behind'
  /\ Told' => Told /\ ListAgentRuntimes(runtimesOf)' = ListAgentRuntimes(runtimesOf)

LEMMA ServerKeepsList ==
  ASSUME ListInv, ServerWritesOn
  PROVE  ListInv'
  <1>1. RuntimeListTypeOK'
    BY DEF ListInv, RuntimeListTypeOK, ServerWritesOn, runtimeStore
  <1>2. AtMost(fetches, MaxFetches)' /\ FetchesTyped' /\ OneFetch'
    BY DEF ListInv, FetchesTyped, OneFetch, ServerWritesOn
  <1>3. ListIsYoung'
    <2> SUFFICES ASSUME Told' PROVE \/ fetches = {} /\ runtimes = ListAgentRuntimes(runtimesOf)'
                                    \/ \E c \in fetches : Young(c)'
      BY DEF ListIsYoung, ServerWritesOn, runtimeStore
    <2>1. Told /\ ListAgentRuntimes(runtimesOf)' = ListAgentRuntimes(runtimesOf) /\ runtimesOf' = runtimesOf
      BY DEF ServerWritesOn
    <2>2. \A c \in fetches : Young(c) => Young(c)'
      BY <2>1 DEF Young
    <2> QED BY <2>1, <2>2 DEF ListInv, ListIsYoung
  <1>4. RuntimesConverge'
    <2>1. ((Told /\ fetches = {}) => runtimes = ListAgentRuntimes(runtimesOf))'
      BY <1>3 DEF ListIsYoung
    <2> QED BY <2>1 DEF ListInv, RuntimesConverge, Told, ServerWritesOn, runtimeStore
  <1> QED BY <1>1, <1>2, <1>3, <1>4 DEF ListInv

\* Rows of other workspaces are not on the list.
LEMMA OtherRows ==
  ASSUME NEW w \in Shops, \A r \in {w} \X RuntimeNo : rowStatus'[r] = rowStatus[r]
  PROVE  ListAgentRuntimes(w)' = ListAgentRuntimes(w)
  <1>1. {x \in {w} \X RuntimeNo : rowStatus'[x] # "none"} = {x \in {w} \X RuntimeNo : rowStatus[x] # "none"}
    OBVIOUS
  <1> QED BY <1>1 DEF ListAgentRuntimes

LEMMA ServerSteps ==
  ASSUME ListInv, \/ \E w \in Shops : UpsertAgentRuntime(w) \/ EndsEnrolment(w) \/ GoOffline(w) \/ Announce(w)
                  \/ \E r \in Shops \X RuntimeNo : HeartbeatRevives(r)
  PROVE  ListInv'
  <1>1. RuntimeListTypeOK
    BY DEF ListInv
  <1> USE ListBounds
  <1>2. CASE \E w \in Shops : UpsertAgentRuntime(w)
    <2> PICK w \in Shops : UpsertAgentRuntime(w)
      BY <1>2
    <2>1. enrolled[w] \in 0..NRuntimes /\ enrolled[w] + 1 \in RuntimeNo /\ runtimeWrites' \in 0..MaxRuntimeWrites
      BY <1>1 DEF UpsertAgentRuntime, RuntimeWrite, RuntimeListTypeOK, RuntimeNo
    <2>2. /\ enrolled' = [enrolled EXCEPT ![w] = enrolled[w] + 1]
          /\ rowStatus' = [rowStatus EXCEPT ![<<w, enrolled[w] + 1>>] = "online"]
          /\ UNCHANGED <<unsaid, runtimesOf, mounted, runtimeStore, fetches, daemonEvent, behind>>
      BY DEF UpsertAgentRuntime
    <2>3. enrolled' \in [Shops -> 0..NRuntimes]
      BY <1>1, <2>1, <2>2 DEF RuntimeListTypeOK, RuntimeNo
    <2>4. rowStatus' \in [Shops \X RuntimeNo -> {"none", "online", "offline"}]
      BY <1>1, <2>1, <2>2 DEF RuntimeListTypeOK
    <2>5. Told' => runtimesOf # w /\ Told
      BY <1>1, <2>1, <2>2 DEF Told, RuntimeListTypeOK
    <2>6. Told' => ListAgentRuntimes(runtimesOf)' = ListAgentRuntimes(runtimesOf)
      <3> SUFFICES ASSUME Told' PROVE ListAgentRuntimes(runtimesOf)' = ListAgentRuntimes(runtimesOf)
        BY <2>2
      <3>1. \A r \in {runtimesOf} \X RuntimeNo : rowStatus'[r] = rowStatus[r]
        BY <1>1, <2>1, <2>2, <2>5 DEF RuntimeListTypeOK
      <3> QED BY <1>1, <2>2, <3>1, OtherRows DEF RuntimeListTypeOK
    <2>7. unsaid \subseteq Shops /\ daemonEvent \in BOOLEAN /\ behind \in BOOLEAN
      BY <1>1 DEF RuntimeListTypeOK
    <2>8. (Told' => Told) /\ (Told' => ListAgentRuntimes(runtimesOf)' = ListAgentRuntimes(runtimesOf))
      BY <2>5, <2>6
    <2>9. ServerWritesOn
      BY <2>1, <2>2, <2>3, <2>4, <2>7, <2>8 DEF ServerWritesOn
    <2> QED BY <2>9, ServerKeepsList
  <1>3. CASE \E w \in Shops : EndsEnrolment(w)
    <2> PICK w \in Shops : EndsEnrolment(w)
      BY <1>3
    <2>1. /\ enrolled[w] > 0 /\ enrolled' = [enrolled EXCEPT ![w] = 0]
          /\ \/ unsaid' = unsaid \cup {w} /\ UNCHANGED behind
             \/ behind' = (behind \/ w = runtimesOf) /\ UNCHANGED unsaid
          /\ UNCHANGED <<rowStatus, runtimeWrites, runtimesOf, mounted, runtimeStore, fetches, daemonEvent>>
      BY DEF EndsEnrolment
    <2>2. enrolled' \in [Shops -> 0..NRuntimes]
      BY <1>1, <2>1 DEF RuntimeListTypeOK
    <2>3. Told' => Told
      BY <1>1, <2>1 DEF Told, RuntimeListTypeOK
    <2>4. ListAgentRuntimes(runtimesOf)' = ListAgentRuntimes(runtimesOf)
      BY <2>1 DEF ListAgentRuntimes
    <2>5. rowStatus \in [Shops \X RuntimeNo -> {"none", "online", "offline"}] /\ unsaid' \subseteq Shops
          /\ daemonEvent \in BOOLEAN /\ behind' \in BOOLEAN /\ runtimeWrites \in 0..MaxRuntimeWrites /\ (behind => behind')
      <3>1. unsaid \subseteq Shops /\ daemonEvent \in BOOLEAN /\ behind \in BOOLEAN /\ runtimeWrites \in 0..MaxRuntimeWrites
            /\ rowStatus \in [Shops \X RuntimeNo -> {"none", "online", "offline"}]
        BY <1>1 DEF RuntimeListTypeOK
      <3> QED BY <2>1, <3>1
    <2>6. ServerWritesOn
      BY <2>1, <2>2, <2>3, <2>4, <2>5 DEF ServerWritesOn
    <2> QED BY <2>6, ServerKeepsList
  <1>4. CASE \E w \in Shops : GoOffline(w)
    <2> PICK w \in Shops : GoOffline(w)
      BY <1>4
    <2>1. /\ unsaid' = unsaid \cup {w} /\ runtimeWrites' = runtimeWrites + 1 /\ runtimeWrites < MaxRuntimeWrites
          /\ UNCHANGED <<enrolled, runtimesOf, mounted, runtimeStore, fetches, daemonEvent, behind>>
      BY DEF GoOffline, RuntimeWrite
    <2>2. /\ rowStatus' \in [Shops \X RuntimeNo -> {"none", "online", "offline"}]
          /\ \A r \in Shops \X RuntimeNo : r[1] # w => rowStatus'[r] = rowStatus[r]
      BY <1>1 DEF GoOffline, RuntimeListTypeOK
    <2>3. Told' => Told /\ runtimesOf # w
      BY <2>1 DEF Told
    <2>4. Told' => ListAgentRuntimes(runtimesOf)' = ListAgentRuntimes(runtimesOf)
      <3> SUFFICES ASSUME Told' PROVE ListAgentRuntimes(runtimesOf)' = ListAgentRuntimes(runtimesOf)
        OBVIOUS
      <3>1. \A r \in {runtimesOf} \X RuntimeNo : rowStatus'[r] = rowStatus[r]
        BY <1>1, <2>2, <2>3 DEF RuntimeListTypeOK
      <3> QED BY <1>1, <2>1, <3>1, OtherRows DEF RuntimeListTypeOK
    <2>5. runtimeWrites' \in 0..MaxRuntimeWrites /\ unsaid' \subseteq Shops
      BY <1>1, <2>1 DEF RuntimeListTypeOK
    <2>6. ServerWritesOn
      BY <1>1, <2>1, <2>2, <2>3, <2>4, <2>5 DEF ServerWritesOn, RuntimeListTypeOK
    <2> QED BY <2>6, ServerKeepsList
  <1>5. CASE \E w \in Shops : Announce(w)
    <2> PICK w \in Shops : Announce(w)
      BY <1>5
    <2>1. Told' => Told
      BY <1>1 DEF Announce, Told, RuntimeListTypeOK
    <2>2. ListAgentRuntimes(runtimesOf)' = ListAgentRuntimes(runtimesOf)
      BY DEF Announce, ListAgentRuntimes
    <2>3. ServerWritesOn
      BY <1>1, <2>1, <2>2 DEF ServerWritesOn, RuntimeListTypeOK, Announce
    <2> QED BY <2>3, ServerKeepsList
  <1>6. CASE \E r \in Shops \X RuntimeNo : HeartbeatRevives(r)
    <2> PICK r \in Shops \X RuntimeNo : HeartbeatRevives(r)
      BY <1>6
    <2>1. /\ rowStatus' = [rowStatus EXCEPT ![r] = "online"] /\ behind' = (behind \/ r[1] = runtimesOf)
          /\ runtimeWrites' = runtimeWrites + 1 /\ runtimeWrites < MaxRuntimeWrites
          /\ UNCHANGED <<enrolled, unsaid, runtimesOf, mounted, runtimeStore, fetches, daemonEvent>>
      BY DEF HeartbeatRevives, RuntimeWrite
    <2>2. rowStatus' \in [Shops \X RuntimeNo -> {"none", "online", "offline"}]
      BY <1>1, <2>1 DEF RuntimeListTypeOK
    <2>3. Told' => Told /\ runtimesOf # r[1]
      BY <2>1 DEF Told
    <2>4. Told' => ListAgentRuntimes(runtimesOf)' = ListAgentRuntimes(runtimesOf)
      <3> SUFFICES ASSUME Told' PROVE ListAgentRuntimes(runtimesOf)' = ListAgentRuntimes(runtimesOf)
        OBVIOUS
      <3>1. \A x \in {runtimesOf} \X RuntimeNo : rowStatus'[x] = rowStatus[x]
        BY <1>1, <2>1, <2>3 DEF RuntimeListTypeOK
      <3> QED BY <1>1, <2>1, <3>1, OtherRows DEF RuntimeListTypeOK
    <2>5. runtimeWrites' \in 0..MaxRuntimeWrites
      BY <1>1, <2>1 DEF RuntimeListTypeOK
    <2>6. ServerWritesOn
      BY <1>1, <2>1, <2>2, <2>3, <2>4, <2>5 DEF ServerWritesOn, RuntimeListTypeOK
    <2> QED BY <2>6, ServerKeepsList
  <1> QED BY <1>2, <1>3, <1>4, <1>5, <1>6

LEMMA ListsTyped ==
  ASSUME NEW w \in Shops, rowStatus \in [Shops \X RuntimeNo -> {"none", "online", "offline"}]
  PROVE  ListAgentRuntimes(w) \subseteq Row /\ \A x \in ListAgentRuntimes(w) : x.id[1] = w
  BY DEF ListAgentRuntimes, Row

LEMMA ListRead == ASSUME ListInv, FetchServed PROVE ListInv'
  <1>1. RuntimeListTypeOK
    BY DEF ListInv
  <1> PICK c \in fetches :
        /\ ~c.served
        /\ fetches' = (fetches \ {c}) \cup {[c EXCEPT !.served = TRUE, !.rows = ListAgentRuntimes(c.of)]}
        /\ UNCHANGED <<runtimeServer, runtimesOf, mounted, runtimeStore, daemonEvent, behind>>
    BY DEF FetchServed
  <1> PICK d : d = [c EXCEPT !.served = TRUE, !.rows = ListAgentRuntimes(c.of)]
    OBVIOUS
  <1>2. c \in FetchCall /\ FetchesTyped
    BY DEF ListInv, FetchesTyped
  <1>3. d \in FetchCall /\ d.of = c.of /\ d.rows = ListAgentRuntimes(c.of) /\ \A x \in d.rows : x.id[1] = d.of
    BY <1>1, <1>2, ListsTyped DEF FetchCall, RuntimeListTypeOK
  <1>4. fetches' = (fetches \ {c}) \cup {d}
    OBVIOUS
  <1>5. AtMost(fetches, MaxFetches)'
    BY <1>4, OneSwapped, ListBounds DEF ListInv
  <1>6. RuntimeListTypeOK'
    BY <1>1, <1>5 DEF RuntimeListTypeOK, AtMost, runtimeServer, runtimeStore
  <1>7. FetchesTyped'
    BY <1>2, <1>3, <1>4 DEF FetchesTyped
  <1>8. OneFetch'
    <2> SUFFICES ASSUME ~behind' PROVE \E e \in fetches' : fetches' = {e} /\ (mounted' => e.of = runtimesOf')
      BY DEF OneFetch
    <2>1. fetches = {c} /\ (mounted => c.of = runtimesOf)
      BY DEF ListInv, OneFetch
    <2> QED BY <1>3, <1>4, <2>1
  <1>9. Told' => \E e \in fetches' : Young(e)'
    <2> SUFFICES ASSUME Told PROVE \E e \in fetches' : Young(e)'
      BY DEF Told, runtimeServer
    <2>1. fetches = {c} /\ c.of = runtimesOf
      BY DEF ListInv, OneFetch, Told
    <2>2. ListAgentRuntimes(runtimesOf)' = ListAgentRuntimes(runtimesOf)
      BY DEF ListAgentRuntimes, runtimeServer
    <2> QED BY <1>3, <1>4, <2>1, <2>2 DEF Young
  <1>10. RuntimesConverge'
    BY <1>4 DEF ListInv, RuntimesConverge, runtimeStore
  <1> QED BY <1>5, <1>6, <1>7, <1>8, <1>9, <1>10 DEF ListInv, ListIsYoung

\* A fetch that begins.
LEMMA ListAsked ==
  ASSUME ListInv, Fetches(runtimesOf', fetches), runtimesOf' \in Shops, mounted' \in BOOLEAN,
         daemonEvent' \in BOOLEAN, UNCHANGED <<runtimeServer, fetching>>, runtimes' \subseteq Row,
         selectedRuntime' \in (Shops \X RuntimeNo) \cup {NoRuntime},
         (runtimes' = {} /\ selectedRuntime' = NoRuntime) \/ \E x \in runtimes' : x.id = selectedRuntime'
  PROVE  ListInv'
  <1>1. RuntimeListTypeOK /\ FetchesTyped
    BY DEF ListInv
  <1>2. fetches' = fetches \cup {Fetch(runtimesOf')} /\ behind' = (fetches # {}) /\ Cardinality(fetches) < MaxFetches
    BY DEF Fetches
  <1>3. AtMost(fetches, MaxFetches)'
    <2>1. IsFiniteSet(fetches)
      BY DEF ListInv, AtMost
    <2> QED BY <1>2, <2>1, OneMore, ListBounds
  <1>4. RuntimeListTypeOK'
    BY <1>1, <1>2, <1>3 DEF RuntimeListTypeOK, AtMost, runtimeServer
  <1>5. Fetch(runtimesOf') \in FetchCall /\ Fetch(runtimesOf').rows = {} /\ ~Fetch(runtimesOf').served
        /\ Fetch(runtimesOf').of = runtimesOf'
    BY DEF Fetch, FetchCall
  <1>6. FetchesTyped'
    BY <1>1, <1>2, <1>5 DEF FetchesTyped
  <1>7. OneFetch'
    BY <1>2, <1>5 DEF OneFetch
  <1>8. \E e \in fetches' : Young(e)'
    BY <1>2, <1>5 DEF Young
  <1>9. RuntimesConverge'
    BY <1>2 DEF RuntimesConverge
  <1> QED BY <1>3, <1>4, <1>6, <1>7, <1>8, <1>9 DEF ListInv, ListIsYoung

LEMMA PageMoves == ASSUME ListInv, OpenRuntimesPage \/ LeaveRuntimesPage \/ SwitchRuntimes \/ HandleDaemonEvent
                   PROVE  ListInv'
  <1>1. RuntimeListTypeOK /\ RuntimesConverge
    BY DEF ListInv
  <1>2. CASE OpenRuntimesPage
    BY <1>1, <1>2, ListAsked DEF OpenRuntimesPage, RuntimeListTypeOK, RuntimesConverge, runtimeStore
  <1>3. CASE HandleDaemonEvent
    BY <1>1, <1>3, ListAsked DEF HandleDaemonEvent, RuntimeListTypeOK, RuntimesConverge, runtimeStore
  <1>4. CASE SwitchRuntimes /\ mounted
    BY <1>1, <1>4, ListAsked DEF SwitchRuntimes, RuntimeListTypeOK, RuntimesConverge
  <1>5. CASE LeaveRuntimesPage \/ (SwitchRuntimes /\ ~mounted)
    <2>1. ~mounted' /\ UNCHANGED <<runtimeServer, fetches, behind, fetching>> /\ daemonEvent' = FALSE /\ runtimesOf' \in Shops
      BY <1>1, <1>5 DEF LeaveRuntimesPage, SwitchRuntimes, runtimeStore, RuntimeListTypeOK
    <2>2. \/ UNCHANGED <<runtimes, selectedRuntime>>
          \/ runtimes' = {} /\ selectedRuntime' = NoRuntime
      BY <1>5 DEF LeaveRuntimesPage, SwitchRuntimes, runtimeStore
    <2>3. mounted' = FALSE
      BY <1>5 DEF LeaveRuntimesPage, SwitchRuntimes, RuntimeListTypeOK, ListInv
    <2>4. RuntimeListTypeOK'
      BY <1>1, <2>1, <2>2, <2>3 DEF RuntimeListTypeOK, runtimeServer
    <2>5. OneFetch' /\ FetchesTyped' /\ AtMost(fetches, MaxFetches)'
      BY <2>1 DEF ListInv, OneFetch, FetchesTyped
    <2>6. RuntimesConverge' /\ ~Told'
      BY <1>1, <2>1, <2>2 DEF RuntimesConverge, Told
    <2> QED BY <2>4, <2>5, <2>6 DEF ListInv, ListIsYoung
  <1>6. CASE SwitchRuntimes
    <2>1. CASE mounted
      BY <1>4, <1>6, <2>1
    <2>2. CASE ~mounted
      BY <1>5, <1>6, <2>2
    <2> QED BY <2>1, <2>2
  <1>7. CASE LeaveRuntimesPage
    BY <1>5, <1>7
  <1> QED BY <1>2, <1>3, <1>6, <1>7

LEMMA FirstIsListed ==
  ASSUME NEW rows \in SUBSET Row, rows # {}
  PROVE  \E x \in rows : x.id = FirstRow(rows)
  <1> DEFINE Nos == {x.id[2] : x \in rows}
  <1>1. \A x \in rows : x.id[2] \in Nat
    BY ListBounds DEF Row, RuntimeNo
  <1>2. Nos \in SUBSET Nat /\ Nos # {}
    BY <1>1
  <1>3. PICK n \in Nos : \A m \in Nos : n <= m
    BY <1>2, LeastOfNaturals
  <1>4. \E x \in rows : \A y \in rows : x.id[2] <= y.id[2]
    BY <1>3
  <1> DEFINE z == CHOOSE x \in rows : \A y \in rows : x.id[2] <= y.id[2]
  <1>5. z \in rows
    BY <1>4
  <1>6. FirstRow(rows) = z.id
    BY DEF FirstRow
  <1> HIDE DEF z
  <1> QED BY <1>5, <1>6

LEMMA ListLands == ASSUME ListInv, FetchRuntimes \/ FetchFails PROVE ListInv'
  <1>1. RuntimeListTypeOK /\ FetchesTyped /\ RuntimesConverge
    BY DEF ListInv
  <1>2. PICK c \in fetches : /\ fetches' = fetches \ {c} /\ fetching' = FALSE
                             /\ UNCHANGED <<runtimeServer, runtimesOf, mounted, daemonEvent>>
                             /\ \/ behind' = TRUE /\ UNCHANGED <<runtimes, selectedRuntime>>
                                \/ /\ c.served /\ runtimes' = c.rows /\ selectedRuntime' = RowSelected(c.rows)
                                   /\ behind' = (behind \/ fetches' # {} \/ c.of # runtimesOf)
    BY DEF FetchRuntimes, FetchFails
  <1>3. c \in FetchCall
    BY <1>1 DEF FetchesTyped
  <1>4. AtMost(fetches, MaxFetches)' /\ FetchesTyped'
    <2>1. fetches' \subseteq fetches
      BY <1>2
    <2> QED BY <1>1, <2>1, PartAtMost, ListBounds DEF ListInv, FetchesTyped
  <1>5. /\ (runtimes' = {} /\ selectedRuntime' = NoRuntime) \/ \E x \in runtimes' : x.id = selectedRuntime'
        /\ runtimes' \subseteq Row
    <2>1. CASE UNCHANGED <<runtimes, selectedRuntime>>
      BY <1>1, <2>1 DEF RuntimesConverge, RuntimeListTypeOK
    <2>2. CASE runtimes' = c.rows /\ selectedRuntime' = RowSelected(c.rows)
      <3>1. c.rows \subseteq Row
        BY <1>3 DEF FetchCall
      <3>2. CASE c.rows = {}
        BY <2>2, <3>2 DEF RowSelected, FirstRow
      <3>3. CASE c.rows # {}
        BY <2>2, <3>1, <3>3, FirstIsListed DEF RowSelected
      <3> QED BY <2>2, <3>1, <3>2, <3>3
    <2> QED BY <1>2, <2>1, <2>2
  <1>6. selectedRuntime' \in (Shops \X RuntimeNo) \cup {NoRuntime}
    BY <1>5 DEF Row
  <1>7. RuntimeListTypeOK'
    <2>1. behind' \in BOOLEAN
      BY <1>2
    <2> QED BY <1>1, <1>2, <1>4, <1>5, <1>6, <2>1 DEF RuntimeListTypeOK, AtMost, runtimeServer
  <1>8. OneFetch'
    BY <1>2 DEF ListInv, OneFetch
  <1>9. Told' => fetches' = {} /\ runtimes' = ListAgentRuntimes(runtimesOf)'
    <2> SUFFICES ASSUME Told' PROVE fetches' = {} /\ runtimes' = ListAgentRuntimes(runtimesOf)'
      OBVIOUS
    <2>1. ~behind'
      BY DEF Told
    <2>2. c.served /\ runtimes' = c.rows /\ ~behind /\ fetches' = {} /\ c.of = runtimesOf
      BY <1>2, <2>1
    <2>3. Told
      BY <1>2, <2>2 DEF Told, runtimeServer
    <2>4. fetches = {c}
      BY <1>2, <2>2
    <2>5. Young(c)
      BY <2>3, <2>4 DEF ListInv, ListIsYoung
    <2>6. ListAgentRuntimes(runtimesOf)' = ListAgentRuntimes(runtimesOf)
      BY <1>2 DEF ListAgentRuntimes, runtimeServer
    <2> QED BY <2>2, <2>5, <2>6 DEF Young
  <1>10. RuntimesConverge'
    BY <1>5, <1>9 DEF RuntimesConverge, Told
  <1> QED BY <1>4, <1>7, <1>8, <1>9, <1>10 DEF ListInv, ListIsYoung

LEMMA RowChosen == ASSUME ListInv, \E r \in Shops \X RuntimeNo : SetSelectedId(r) PROVE ListInv'
  <1>1. /\ UNCHANGED <<runtimeServer, runtimesOf, mounted, fetching, runtimes, fetches, daemonEvent, behind>>
        /\ selectedRuntime' \in Shops \X RuntimeNo /\ \E x \in runtimes : x.id = selectedRuntime'
    BY DEF SetSelectedId
  <1>2. RuntimeListTypeOK'
    BY <1>1 DEF ListInv, RuntimeListTypeOK, runtimeServer
  <1>3. OneFetch' /\ FetchesTyped' /\ AtMost(fetches, MaxFetches)'
    BY <1>1 DEF ListInv, OneFetch, FetchesTyped
  <1>4. ListAgentRuntimes(runtimesOf)' = ListAgentRuntimes(runtimesOf) /\ (Told' => Told)
    BY <1>1 DEF ListAgentRuntimes, runtimeServer, Told
  <1>5. (\A c \in fetches : Young(c)' = Young(c)) /\ runtimes' = runtimes /\ fetches' = fetches
    BY <1>1, <1>4 DEF Young
  <1>6. ListIsYoung'
    BY <1>4, <1>5 DEF ListInv, ListIsYoung
  <1>7. RuntimesConverge'
    BY <1>1, <1>4 DEF ListInv, RuntimesConverge, runtimeServer
  <1> QED BY <1>2, <1>3, <1>6, <1>7 DEF ListInv

LEMMA ListMoves == ListInv /\ [RuntimeListNext]_listVars => ListInv'
  <1>1. ASSUME ListInv, UNCHANGED listVars PROVE ListInv'
    BY <1>1 DEF ListInv, listVars, RuntimeListTypeOK, FetchesTyped, OneFetch, ListIsYoung, RuntimesConverge, Told,
                Young, ListAgentRuntimes
  <1> QED BY <1>1, ServerSteps, ListRead, PageMoves, ListLands, RowChosen DEF RuntimeListNext

\* RuntimesPage: a list on its way is of its workspace, and is as young as what the
\* page has been told.
LEMMA RuntimeListInvariant == RuntimeListSpec => []ListInv
  BY ListStart, ListMoves, PTL DEF RuntimeListSpec

-----------------------------------------------------------------------------
(* The editor and its uploads *)

\* What is under way for an editor that is gone finds none, and nothing waits in it.
OnlyWhileEditing ==
  ~editing => /\ ~debouncing
              /\ \A c \in saves : ~c.here
              /\ \A u \in uploads : ~u.here
NumbersGiven == \A c \in saves : c.no <= savesMade
LastSave(c) == c \in saves /\ c.no = savesMade

\* Saved or on its way: the document as it is, while no change waits.
LastSaysDoc == editorKind = "description" /\ editing /\ ~debouncing =>
                 \A c \in saves : c.here /\ LastSave(c) => c.doc = doc
DocIsSaved == editorKind = "description" /\ editing /\ ~debouncing /\ ~outrun =>
                keptDoc = doc \/ \E c \in saves : LastSave(c) /\ ~c.landed

\* A preview in the document is of a picture that is being uploaded to it.
Uploading(f, us) == f \in Pictures /\ \E u \in us : u.here /\ u.file = f
PreviewsUpload(d, us) == \A f \in FileIds : d.file[f] = "preview" => Uploading(f, us)
PreviewsKnown == editing /\ ~abandoned => PreviewsUpload(doc, uploads)
\* The editor that was left had saved no preview, or its save is still on its way.
LeftClean == editorKind = "description" /\ ~editing /\ ~outrun /\ ~abandoned =>
               ~Previews(keptDoc) \/ \E c \in saves : LastSave(c) /\ ~c.landed
SentClean == editorKind = "comment" /\ ~abandoned =>
               ~Previews(keptDoc) /\ \A c \in saves : ~Previews(c.doc)

EditorInv ==
  /\ EditorTypeOK /\ OnlyWhileEditing /\ NumbersGiven /\ LastSaysDoc /\ DocIsSaved
  /\ PreviewsKnown /\ LeftClean /\ SentClean

LEMMA EditorShows == EditorInv => EditorTypeOK /\ DescriptionSaved /\ PreviewsReplaced
  <1> SUFFICES ASSUME EditorInv PROVE EditorTypeOK /\ DescriptionSaved /\ PreviewsReplaced
    OBVIOUS
  <1>1. DescriptionSaved
    BY DEF EditorInv, DescriptionSaved, DocIsSaved, Settled
  <1>2. PreviewsReplaced
    <2> SUFFICES ASSUME Settled, Previews(keptDoc), ~abandoned, ~outrun PROVE FALSE
      BY DEF PreviewsReplaced
    <2>1. uploads = {} /\ saves = {} /\ ~debouncing
      BY DEF Settled
    <2>2. CASE editorKind = "comment"
      BY <2>2 DEF EditorInv, SentClean
    <2>3. CASE editorKind = "description" /\ ~editing
      BY <2>1, <2>3 DEF EditorInv, LeftClean
    <2>4. CASE editorKind = "description" /\ editing
      <3>1. keptDoc = doc /\ PreviewsUpload(doc, uploads)
        BY <2>1, <2>4 DEF EditorInv, DocIsSaved, PreviewsKnown
      <3> QED BY <2>1, <3>1 DEF PreviewsUpload, Uploading, Previews
    <2> QED BY <2>2, <2>3, <2>4 DEF EditorInv, EditorTypeOK
  <1> QED BY <1>1, <1>2 DEF EditorInv

LEMMA EditorBounds == MaxPicks \in Nat /\ MaxKeys \in Nat /\ MaxSaves \in Nat /\ Pictures \cap Papers = {}
  BY EditorAssumption

LEMMA BlankDoc == Blank \in Doc /\ ~Previews(Blank) /\ \A us : PreviewsUpload(Blank, us)
  BY EditorBounds DEF Blank, Doc, Previews, PreviewsUpload

LEMMA EditorStart == EditorInit => EditorInv
  <1> SUFFICES ASSUME EditorInit PROVE EditorInv
    OBVIOUS
  <1>1. EditorTypeOK
    <2>1. keysTyped \in 0..MaxKeys /\ savesMade \in 0..MaxSaves /\ picks \in 0..MaxPicks
      BY EditorBounds DEF EditorInit
    <2>2. editing \in BOOLEAN /\ debouncing \in BOOLEAN /\ news \in BOOLEAN /\ outrun \in BOOLEAN /\ abandoned \in BOOLEAN
          /\ editorKind \in {"description", "comment"} /\ uploads = {} /\ saves = {}
      BY DEF EditorInit
    <2>3. doc \in Doc /\ keptDoc \in Doc /\ shownDoc \in Doc
      BY BlankDoc DEF EditorInit
    <2> QED BY <2>1, <2>2, <2>3 DEF EditorTypeOK
  <1> QED BY <1>1, BlankDoc DEF EditorInit, EditorInv, OnlyWhileEditing, NumbersGiven, LastSaysDoc, DocIsSaved,
                                PreviewsKnown, LeftClean, SentClean

\* A document put in place of another, with the uploads that stay under way.
LEMMA MovedUpload == \A u \in Upload : Moved(u) \in Upload /\ Moved(u).file = u.file /\ Moved(u).here = u.here
  BY DEF Moved, Upload

LEMMA ChangeMade ==
  ASSUME NEW d \in Doc, NEW us \in SUBSET Upload, Changes(d, us)
  PROVE  /\ doc' = d /\ debouncing' = (debouncing \/ d # doc) /\ uploads' \subseteq Upload
         /\ \A v \in uploads' : \E u \in us : v.here = u.here
         /\ \A u \in us : \E v \in uploads' : v.here = u.here /\ v.file = u.file
  BY MovedUpload DEF Changes

LEMMA EditStep ==
  ASSUME EditorInv, NEW d \in Doc, NEW us \in SUBSET Upload, Changes(d, us),
         UNCHANGED <<editorKind, editing, saves, keptVars, savesMade, outrun, abandoned>>,
         picks' \in 0..MaxPicks, keysTyped' \in 0..MaxKeys, d # doc => editing,
         editing /\ ~abandoned => PreviewsUpload(d, us),
         ~editing => \A u \in us : ~u.here
  PROVE  EditorInv'
  <1> USE DEF EditorInv
  <1>1. /\ doc' = d /\ debouncing' = (debouncing \/ d # doc) /\ uploads' \subseteq Upload
        /\ \A v \in uploads' : \E u \in us : v.here = u.here
        /\ \A u \in us : \E v \in uploads' : v.here = u.here /\ v.file = u.file
    BY ChangeMade
  <1>2. EditorTypeOK'
    BY <1>1 DEF EditorTypeOK, keptVars
  <1>3. OnlyWhileEditing'
    BY <1>1 DEF OnlyWhileEditing
  <1>4. NumbersGiven'
    BY DEF NumbersGiven
  <1>5. ~debouncing' => ~debouncing /\ doc' = doc
    BY <1>1
  <1>6. LastSaysDoc' /\ DocIsSaved'
    BY <1>5 DEF LastSaysDoc, DocIsSaved, LastSave, keptVars
  <1>7. PreviewsKnown'
    BY <1>1 DEF PreviewsKnown, PreviewsUpload, Uploading
  <1>8. LeftClean' /\ SentClean'
    BY DEF LeftClean, SentClean, LastSave, Previews, keptVars
  <1> QED BY <1>2, <1>3, <1>4, <1>6, <1>7, <1>8

LEMMA EditorTyping == ASSUME EditorInv, EditDocument \/ Erase PROVE EditorInv'
  <1>1. EditorTypeOK /\ OnlyWhileEditing /\ PreviewsKnown
    BY DEF EditorInv
  <1>2. doc \in Doc /\ uploads \in SUBSET Upload
    BY <1>1 DEF EditorTypeOK
  <1>3. CASE EditDocument
    <2> DEFINE d == [doc EXCEPT !.text = keysTyped']
    <2>1. /\ editing /\ keysTyped' \in 0..MaxKeys /\ Changes(d, uploads)
          /\ UNCHANGED <<editorKind, editing, picks, saves, keptVars, savesMade, outrun, abandoned>>
      BY <1>1, <1>3, EditorBounds DEF EditDocument, EditorTypeOK
    <2>2. d \in Doc /\ d.file = doc.file
      BY <1>2, <2>1 DEF Doc
    <2>3. picks' \in 0..MaxPicks
      BY <1>1, <2>1 DEF EditorTypeOK
    <2>4. ~abandoned => PreviewsUpload(d, uploads)
      BY <1>1, <2>1, <2>2 DEF PreviewsKnown, PreviewsUpload
    <2> HIDE DEF d
    <2> QED BY <1>2, <2>1, <2>2, <2>3, <2>4, EditStep
  <1>4. CASE Erase
    <2>1. /\ editing
          /\ UNCHANGED <<editorKind, editing, picks, saves, keptVars, keysTyped, savesMade, outrun, abandoned>>
      BY <1>4 DEF Erase
    <2>2. PICK d \in Doc : Changes(d, uploads) /\ \A f \in FileIds : d.file[f] = "preview" => doc.file[f] = "preview"
      <3>1. [doc EXCEPT !.text = 0] \in Doc /\ [doc EXCEPT !.text = 0].file = doc.file
        BY <1>2, EditorBounds DEF Doc
      <3>2. ASSUME NEW f \in FileIds
            PROVE  /\ [doc EXCEPT !.file[f] = "none"] \in Doc
                   /\ \A g \in FileIds : [doc EXCEPT !.file[f] = "none"].file[g] = "preview" => doc.file[g] = "preview"
        BY <1>2 DEF Doc
      <3> QED BY <1>4, <3>1, <3>2 DEF Erase
    <2>3. picks' \in 0..MaxPicks /\ keysTyped' \in 0..MaxKeys
      BY <1>1, <2>1 DEF EditorTypeOK
    <2>4. ~abandoned => PreviewsUpload(d, uploads)
      BY <1>1, <2>1, <2>2 DEF PreviewsKnown, PreviewsUpload
    <2> QED BY <1>2, <2>1, <2>2, <2>3, <2>4, EditStep
  <1> QED BY <1>3, <1>4

LEMMA PickStep == ASSUME EditorInv, PickFile PROVE EditorInv'
  <1>1. EditorTypeOK /\ PreviewsKnown
    BY DEF EditorInv
  <1>2. doc \in Doc /\ uploads \in SUBSET Upload
    BY <1>1 DEF EditorTypeOK
  <1>3. PICK f \in FileIds, at \in {"cursor", "end"} :
          /\ editing /\ doc.file[f] = "none" /\ picks < MaxPicks /\ picks' = picks + 1
          /\ Changes(IF f \in Pictures THEN [doc EXCEPT !.file[f] = "preview"] ELSE doc,
                     uploads \cup {[file |-> f, at |-> at, here |-> TRUE]})
          /\ UNCHANGED <<editorKind, editing, saves, keptVars, keysTyped, savesMade, outrun, abandoned>>
    BY DEF PickFile
  <1> DEFINE d == IF f \in Pictures THEN [doc EXCEPT !.file[f] = "preview"] ELSE doc
             n == [file |-> f, at |-> at, here |-> TRUE]
             us == uploads \cup {n}
  <1>4. d \in Doc /\ (\A g \in FileIds : d.file[g] = "preview" => doc.file[g] = "preview" \/ (g = f /\ f \in Pictures))
    BY <1>2 DEF Doc
  <1>5. n \in Upload /\ n.here /\ n.file = f
    BY DEF Upload
  <1>6. picks' \in 0..MaxPicks /\ keysTyped' \in 0..MaxKeys
    BY <1>1, <1>3, EditorBounds DEF EditorTypeOK
  <1> HIDE DEF d, n
  <1>7. us \in SUBSET Upload
    BY <1>2, <1>5
  <1>8. ~abandoned => PreviewsUpload(d, us)
    BY <1>1, <1>3, <1>4, <1>5 DEF PreviewsKnown, PreviewsUpload, Uploading
  <1>9. Changes(d, us) /\ editing
        /\ UNCHANGED <<editorKind, editing, saves, keptVars, keysTyped, savesMade, outrun, abandoned>>
    BY <1>3 DEF d, n
  <1> HIDE DEF us
  <1> QED BY <1>4, <1>6, <1>7, <1>8, <1>9, EditStep

\* What an answer makes of the document: its preview is gone.
LEMMA UploadDone ==
  ASSUME doc \in Doc, NEW u \in Upload, NEW stored \in BOOLEAN, NEW d \in AfterUpload(u, stored)
  PROVE  /\ d \in Doc
         /\ \A f \in FileIds : d.file[f] = "preview" => doc.file[f] = "preview" /\ (u.file = f => f \notin Pictures)
  <1>1. u.file \in FileIds
    BY DEF Upload
  <1>2. CASE u.file \in Pictures
    <2>1. d = (IF stored THEN SetNodeMarkup(doc, u.file) ELSE RemoveImageBySrc(doc, u.file))
      BY <1>2, EditorBounds DEF AfterUpload
    <2> QED BY <1>1, <2>1 DEF SetNodeMarkup, RemoveImageBySrc, Doc
  <1>3. CASE u.file \in Papers
    <2>1. d = [doc EXCEPT !.file[u.file] = "link"] \/ d = doc
      BY <1>3, EditorBounds DEF AfterUpload
    <2> QED BY <1>1, <1>3, <2>1, EditorBounds DEF Doc
  <1> QED BY <1>1, <1>2, <1>3 DEF FileIds

LEMMA UploadStep == ASSUME EditorInv, UploadEnds PROVE EditorInv'
  <1>1. EditorTypeOK /\ PreviewsKnown /\ OnlyWhileEditing
    BY DEF EditorInv
  <1>2. doc \in Doc /\ uploads \in SUBSET Upload
    BY <1>1 DEF EditorTypeOK
  <1>3. PICK u \in uploads, stored \in BOOLEAN :
          /\ \E d \in IF u.here THEN AfterUpload(u, stored) ELSE {doc} : Changes(d, uploads \ {u})
          /\ UNCHANGED <<editorKind, editing, picks, saves, keptVars, keysTyped, savesMade, outrun, abandoned>>
    BY DEF UploadEnds
  <1>4. PICK d : Changes(d, uploads \ {u}) /\ IF u.here THEN d \in AfterUpload(u, stored) ELSE d = doc
    BY <1>3
  <1>5. /\ d \in Doc /\ (d # doc => u.here)
        /\ \A f \in FileIds : d.file[f] = "preview" => doc.file[f] = "preview" /\ (u.here /\ u.file = f => f \notin Pictures)
    BY <1>2, <1>4, UploadDone
  <1>6. d # doc => editing
    BY <1>1, <1>5 DEF OnlyWhileEditing
  <1> DEFINE us == uploads \ {u}
  <1>7. us \in SUBSET Upload /\ us \subseteq uploads
    BY <1>2
  <1>8. editing /\ ~abandoned => PreviewsUpload(d, us)
    BY <1>1, <1>5 DEF PreviewsKnown, PreviewsUpload, Uploading
  <1>9. ~editing => \A v \in us : ~v.here
    BY <1>1, <1>7 DEF OnlyWhileEditing
  <1>10. picks' \in 0..MaxPicks /\ keysTyped' \in 0..MaxKeys
    BY <1>1, <1>3 DEF EditorTypeOK
  <1>11. Changes(d, us) /\ UNCHANGED <<editorKind, editing, saves, keptVars, savesMade, outrun, abandoned>>
    BY <1>3, <1>4
  <1> HIDE DEF us
  <1> QED BY <1>5, <1>6, <1>7, <1>8, <1>9, <1>10, <1>11, EditStep

LEMMA MountStep == ASSUME EditorInv, Mount PROVE EditorInv'
  <1> USE DEF EditorInv
  <1>1. /\ ~editing /\ editing' = TRUE /\ debouncing' = FALSE
        /\ doc' = IF editorKind = "description" THEN shownDoc ELSE Blank
        /\ outrun' = (keptDoc # shownDoc \/ saves # {}) /\ abandoned' = (abandoned \/ Previews(doc'))
        /\ UNCHANGED <<editorKind, uploads, picks, saves, keptVars, keysTyped, savesMade>>
    BY DEF Mount
  <1>2. EditorTypeOK'
    <2>1. doc' \in Doc /\ outrun' \in BOOLEAN /\ abandoned' \in BOOLEAN
      BY <1>1, BlankDoc DEF EditorTypeOK, Previews
    <2> QED BY <1>1, <2>1 DEF EditorTypeOK, keptVars
  <1>3. OnlyWhileEditing' /\ NumbersGiven' /\ LeftClean'
    BY <1>1 DEF OnlyWhileEditing, NumbersGiven, LeftClean
  <1>4. LastSaysDoc'
    BY <1>1 DEF OnlyWhileEditing, LastSaysDoc
  <1>5. DocIsSaved'
    BY <1>1 DEF DocIsSaved, keptVars
  <1>6. PreviewsKnown'
    BY <1>1 DEF PreviewsKnown, PreviewsUpload, Previews
  <1>7. SentClean'
    BY <1>1 DEF SentClean, Previews, keptVars
  <1> QED BY <1>2, <1>3, <1>4, <1>5, <1>6, <1>7

LEMMA UnmountStep == ASSUME EditorInv, Unmount PROVE EditorInv'
  <1> USE DEF EditorInv
  <1>1. /\ editing /\ editing' = FALSE /\ debouncing' = FALSE /\ doc' = Blank
        /\ abandoned' = (abandoned \/ debouncing \/ uploads # {})
        /\ uploads' = {[u EXCEPT !.here = FALSE] : u \in uploads}
        /\ saves' = {[c EXCEPT !.here = FALSE] : c \in saves}
        /\ UNCHANGED <<editorKind, picks, keptVars, keysTyped, savesMade, outrun>>
    BY DEF Unmount
  <1>2. \A u \in Upload : [u EXCEPT !.here = FALSE] \in Upload /\ ~[u EXCEPT !.here = FALSE].here
    BY DEF Upload
  <1>3. \A c \in Save : /\ [c EXCEPT !.here = FALSE] \in Save /\ ~[c EXCEPT !.here = FALSE].here
                        /\ [c EXCEPT !.here = FALSE].no = c.no /\ [c EXCEPT !.here = FALSE].landed = c.landed
                        /\ [c EXCEPT !.here = FALSE].doc = c.doc
    BY DEF Save
  <1>4. uploads \subseteq Upload /\ saves \subseteq Save
    BY DEF EditorTypeOK
  <1>5. uploads' \subseteq Upload /\ saves' \subseteq Save /\ (\A u \in uploads' : ~u.here) /\ (\A c \in saves' : ~c.here)
    BY <1>1, <1>2, <1>3, <1>4
  <1>6. \A c \in saves' : \E e \in saves : c.no = e.no /\ c.doc = e.doc
    <2> TAKE c \in saves'
    <2>1. PICK e \in saves : c = [e EXCEPT !.here = FALSE]
      BY <1>1
    <2>2. e \in Save
      BY <1>4
    <2> QED BY <1>3, <2>1, <2>2
  <1>7. \A e \in saves : \E c \in saves' : c.no = e.no /\ c.landed = e.landed
    BY <1>1, <1>3, <1>4
  <1>8. EditorTypeOK'
    <2>1. abandoned' \in BOOLEAN
      BY <1>1 DEF EditorTypeOK
    <2> QED BY <1>1, <1>5, <2>1, BlankDoc DEF EditorTypeOK, keptVars
  <1>9. OnlyWhileEditing' /\ NumbersGiven' /\ LastSaysDoc' /\ DocIsSaved' /\ PreviewsKnown'
    BY <1>1, <1>5, <1>6 DEF OnlyWhileEditing, NumbersGiven, LastSaysDoc, DocIsSaved, PreviewsKnown
  <1>10. LeftClean'
    <2> SUFFICES ASSUME editorKind = "description", ~outrun, ~abandoned'
                 PROVE  ~Previews(keptDoc) \/ \E c \in saves' : c.no = savesMade /\ ~c.landed
      BY <1>1 DEF LeftClean, LastSave, Previews, keptVars
    <2>1. ~abandoned /\ ~debouncing /\ uploads = {}
      BY <1>1
    <2>2. ~Previews(doc)
      BY <1>1, <2>1 DEF PreviewsKnown, PreviewsUpload, Uploading, Previews
    <2>3. keptDoc = doc \/ \E c \in saves : c.no = savesMade /\ ~c.landed
      BY <1>1, <2>1 DEF DocIsSaved, LastSave
    <2> QED BY <1>7, <2>2, <2>3
  <1>11. SentClean'
    <2>1. abandoned => abandoned'
      BY <1>1
    <2>2. \A c \in saves' : \E e \in saves : Previews(c.doc) = Previews(e.doc)
      BY <1>6
    <2> QED BY <1>1, <2>1, <2>2 DEF SentClean, Previews, keptVars
  <1> QED BY <1>8, <1>9, <1>10, <1>11

\* A save or a comment goes out.
LEMMA EditorAskStep ==
  ASSUME EditorInv, Asks, editing, editorKind = "description" => shownDoc' = doc,
         shownDoc' \in Doc, debouncing' \in BOOLEAN, abandoned' \in BOOLEAN, abandoned => abandoned',
         editorKind = "comment" /\ ~abandoned' => ~Previews(doc)
  PROVE  EditorInv'
  <1> USE DEF EditorInv
  <1> DEFINE n == [doc |-> doc, prev |-> shownDoc, no |-> savesMade + 1, here |-> TRUE, landed |-> FALSE]
  <1>1. /\ savesMade < MaxSaves /\ savesMade' = savesMade + 1 /\ saves' = saves \cup {n}
        /\ UNCHANGED <<editorKind, editing, doc, uploads, picks, keptDoc, news, keysTyped, outrun>>
    BY DEF Asks
  <1>2. savesMade \in Nat /\ savesMade' \in 0..MaxSaves /\ savesMade + 1 \in Nat
    BY <1>1, EditorBounds DEF EditorTypeOK
  <1>3. n \in Save /\ n.doc = doc /\ n.no = savesMade + 1 /\ ~n.landed
    BY <1>2 DEF Save, EditorTypeOK
  <1>4. \A c \in saves : c.no \in Nat /\ c.no <= savesMade
    BY DEF NumbersGiven, EditorTypeOK, Save
  <1> HIDE DEF n
  <1>5. EditorTypeOK'
    BY <1>1, <1>2, <1>3 DEF EditorTypeOK
  <1>6. NumbersGiven' /\ OnlyWhileEditing'
    BY <1>1, <1>2, <1>3, <1>4 DEF NumbersGiven, OnlyWhileEditing
  <1>7. \A c \in saves' : c.no = savesMade' => c = n
    BY <1>1, <1>2, <1>4
  <1>8. LastSaysDoc'
    BY <1>1, <1>3, <1>7 DEF LastSaysDoc, LastSave
  <1>9. DocIsSaved' /\ LeftClean'
    BY <1>1, <1>3 DEF DocIsSaved, LeftClean, LastSave
  <1>10. PreviewsKnown'
    BY <1>1 DEF PreviewsKnown
  <1>11. SentClean'
    BY <1>1, <1>3 DEF SentClean, Previews
  <1> QED BY <1>5, <1>6, <1>8, <1>9, <1>10, <1>11

LEMMA EditorSaveSteps == ASSUME EditorInv, SaveDescription \/ SubmitComment PROVE EditorInv'
  <1>1. EditorTypeOK /\ OnlyWhileEditing /\ PreviewsKnown
    BY DEF EditorInv
  <1>2. doc \in Doc /\ shownDoc \in Doc /\ debouncing \in BOOLEAN /\ abandoned \in BOOLEAN
    BY <1>1 DEF EditorTypeOK
  <1>3. CASE SaveDescription
    <2>1. Asks /\ editorKind = "description" /\ debouncing /\ debouncing' = FALSE /\ shownDoc' = doc /\ abandoned' = abandoned
      BY <1>3 DEF SaveDescription
    <2>2. editing
      BY <1>1, <2>1 DEF OnlyWhileEditing
    <2> QED BY <1>2, <2>1, <2>2, EditorAskStep
  <1>4. CASE SubmitComment
    <2>1. Asks /\ editorKind = "comment" /\ editing /\ debouncing' = debouncing /\ shownDoc' = shownDoc
          /\ abandoned' = (abandoned \/ uploads # {})
      BY <1>4 DEF SubmitComment
    <2>2. ~abandoned' => ~Previews(doc)
      BY <1>1, <2>1 DEF PreviewsKnown, PreviewsUpload, Uploading, Previews
    <2>3. abandoned' \in BOOLEAN /\ (abandoned => abandoned')
      BY <2>1
    <2> QED BY <1>2, <2>1, <2>2, <2>3, EditorAskStep
  <1> QED BY <1>3, <1>4

LEMMA KeepStep == ASSUME EditorInv, ServerKeeps PROVE EditorInv'
  <1> USE DEF EditorInv
  <1>1. PICK c \in saves :
    /\ ~c.landed /\ saves' = (saves \ {c}) \cup {[c EXCEPT !.landed = TRUE]}
    /\ keptDoc' = IF c.doc = Blank THEN keptDoc ELSE c.doc
    /\ news' = (news \/ editorKind = "description")
    /\ outrun' = (c.no # savesMade \/ c.doc = Blank \/ ~c.here)
    /\ UNCHANGED <<editorKind, editing, doc, debouncing, uploads, picks, shownDoc, keysTyped,
                   savesMade, abandoned>>
    BY DEF ServerKeeps
  <1> DEFINE d == [c EXCEPT !.landed = TRUE]
  <1>2. c \in Save /\ d \in Save /\ d.landed /\ d.no = c.no /\ d.doc = c.doc /\ d.here = c.here
    BY DEF EditorTypeOK, Save
  <1>3. saves' = (saves \ {c}) \cup {d}
    BY <1>1
  <1> HIDE DEF d
  <1>4. keptDoc' \in Doc /\ news' \in BOOLEAN /\ outrun' \in BOOLEAN /\ saves' \subseteq Save
    <2>1. c.doc \in Doc /\ c.here \in BOOLEAN
      BY <1>2 DEF Save
    <2> QED BY <1>1, <1>2, <1>3, <2>1 DEF EditorTypeOK
  <1>5. EditorTypeOK'
    BY <1>1, <1>4 DEF EditorTypeOK
  <1>6. OnlyWhileEditing' /\ NumbersGiven' /\ LastSaysDoc'
    BY <1>1, <1>2, <1>3 DEF OnlyWhileEditing, NumbersGiven, LastSaysDoc, LastSave
  <1>7. DocIsSaved'
    <2> SUFFICES ASSUME editorKind = "description", editing, ~debouncing, ~outrun' PROVE keptDoc' = doc
      BY <1>1 DEF DocIsSaved
    <2>1. c.no = savesMade /\ c.here /\ c.doc # Blank
      BY <1>1, <1>2 DEF Save
    <2> QED BY <1>1, <2>1 DEF LastSaysDoc, LastSave
  <1>8. LeftClean'
    BY <1>1 DEF LeftClean, OnlyWhileEditing
  <1>9. PreviewsKnown'
    BY <1>1 DEF PreviewsKnown
  <1>10. SentClean'
    <2> SUFFICES ASSUME editorKind = "comment", ~abandoned PROVE ~Previews(keptDoc') /\ \A e \in saves' : ~Previews(e.doc)
      BY <1>1 DEF SentClean, Previews
    <2>1. ~Previews(keptDoc) /\ \A e \in saves : ~Previews(e.doc)
      BY DEF SentClean
    <2>2. ~Previews(c.doc) /\ (keptDoc' = keptDoc \/ keptDoc' = c.doc)
      BY <1>1, <2>1
    <2> QED BY <1>2, <1>3, <2>1, <2>2
  <1> QED BY <1>5, <1>6, <1>7, <1>8, <1>9, <1>10

LEMMA AnswerStep == ASSUME EditorInv, SaveAnswered PROVE EditorInv'
  <1> USE DEF EditorInv
  <1>1. PICK c \in saves, ok \in BOOLEAN :
    /\ ok => c.landed
    /\ saves' = saves \ {c} /\ outrun' = (outrun \/ (~c.landed /\ c.no = savesMade))
    /\ shownDoc' = IF ok \/ editorKind = "comment" THEN shownDoc ELSE c.prev
    /\ IF editorKind = "comment" /\ c.here
         THEN Changes(Blank, uploads) ELSE UNCHANGED <<doc, debouncing, uploads>>
    /\ UNCHANGED <<editorKind, editing, picks, keptDoc, news, keysTyped, savesMade, abandoned>>
    BY DEF SaveAnswered
  <1>2. c \in Save /\ uploads \in SUBSET Upload /\ saves' \subseteq saves
    BY <1>1 DEF EditorTypeOK
  <1>3. \/ UNCHANGED <<doc, debouncing, uploads>>
        \/ /\ editorKind = "comment" /\ editing /\ doc' = Blank /\ debouncing' = (debouncing \/ Blank # doc)
           /\ uploads' \subseteq Upload
    <2>1. CASE editorKind = "comment" /\ c.here
      <3>1. editing
        BY <2>1 DEF OnlyWhileEditing
      <3>2. Changes(Blank, uploads)
        BY <1>1, <2>1
      <3> QED BY <1>2, <2>1, <3>1, <3>2, BlankDoc, ChangeMade
    <2>2. CASE ~(editorKind = "comment" /\ c.here)
      BY <1>1, <2>2
    <2> QED BY <2>1, <2>2
  <1>4. EditorTypeOK'
    <2>1. shownDoc' \in Doc /\ outrun' \in BOOLEAN /\ doc' \in Doc /\ debouncing' \in BOOLEAN /\ uploads' \subseteq Upload
      BY <1>1, <1>2, <1>3, BlankDoc DEF EditorTypeOK, Save
    <2> QED BY <1>1, <1>2, <2>1 DEF EditorTypeOK
  <1>5. OnlyWhileEditing' /\ NumbersGiven'
    BY <1>1, <1>2, <1>3 DEF OnlyWhileEditing, NumbersGiven
  <1>6. LastSaysDoc'
    BY <1>1, <1>2, <1>3, <1>4 DEF LastSaysDoc, LastSave, EditorTypeOK
  <1>7. ~outrun' => ~outrun /\ \A e \in saves : LastSave(e) /\ ~e.landed => e \in saves'
    BY <1>1 DEF LastSave
  <1>8. DocIsSaved'
    <2> SUFFICES ASSUME editorKind = "description", editing, ~debouncing', ~outrun'
                 PROVE  keptDoc = doc' \/ \E e \in saves' : e.no = savesMade /\ ~e.landed
      BY <1>1 DEF DocIsSaved, LastSave
    <2>1. doc' = doc /\ ~debouncing
      BY <1>3
    <2> QED BY <1>7, <2>1 DEF DocIsSaved, LastSave
  <1>9. LeftClean'
    <2> SUFFICES ASSUME editorKind = "description", ~editing, ~outrun', ~abandoned
                 PROVE  ~Previews(keptDoc) \/ \E e \in saves' : e.no = savesMade /\ ~e.landed
      BY <1>1 DEF LeftClean, LastSave, Previews
    <2> QED BY <1>7 DEF LeftClean, LastSave
  <1>10. PreviewsKnown'
    <2>1. CASE UNCHANGED <<doc, debouncing, uploads>>
      BY <1>1, <2>1 DEF PreviewsKnown
    <2>2. CASE doc' = Blank
      BY <2>2, BlankDoc DEF PreviewsKnown
    <2> QED BY <1>3, <2>1, <2>2
  <1>11. SentClean'
    BY <1>1 DEF SentClean, Previews
  <1> QED BY <1>4, <1>5, <1>6, <1>8, <1>9, <1>10, <1>11

LEMMA EditorOtherSteps == ASSUME EditorInv, CommentSettles \/ OthersDescribe \/ HearUpdate PROVE EditorInv'
  <1> USE DEF EditorInv
  <1>1. CASE CommentSettles
    <2>1. EditorTypeOK' /\ OnlyWhileEditing' /\ NumbersGiven'
      BY <1>1 DEF CommentSettles, EditorTypeOK, keptVars, OnlyWhileEditing, NumbersGiven
    <2>2. LastSaysDoc' /\ DocIsSaved' /\ PreviewsKnown' /\ LeftClean' /\ SentClean'
      BY <1>1 DEF CommentSettles, keptVars, LastSaysDoc, DocIsSaved, PreviewsKnown, LeftClean, SentClean, LastSave
    <2> QED BY <2>1, <2>2
  <1>2. CASE OthersDescribe
    <2> DEFINE d == [Blank EXCEPT !.text = keysTyped']
    <2>1. /\ editorKind = "description" /\ keysTyped' \in 0..MaxKeys /\ keptDoc' = d /\ news' = TRUE /\ outrun' = TRUE
          /\ UNCHANGED <<editorKind, editing, doc, debouncing, uploads, picks, saves, shownDoc, savesMade, abandoned>>
      BY <1>2, EditorBounds DEF OthersDescribe, EditorTypeOK
    <2>2. d \in Doc
      BY <2>1, BlankDoc DEF Doc
    <2>3. EditorTypeOK'
      BY <2>1, <2>2 DEF EditorTypeOK
    <2>4. OnlyWhileEditing' /\ NumbersGiven' /\ LastSaysDoc' /\ DocIsSaved' /\ PreviewsKnown' /\ LeftClean' /\ SentClean'
      BY <2>1 DEF OnlyWhileEditing, NumbersGiven, LastSaysDoc, DocIsSaved, PreviewsKnown, LeftClean, SentClean, LastSave
    <2> QED BY <2>3, <2>4
  <1>3. CASE HearUpdate
    <2>1. EditorTypeOK' /\ OnlyWhileEditing' /\ NumbersGiven'
      BY <1>3 DEF HearUpdate, EditorTypeOK, OnlyWhileEditing, NumbersGiven
    <2>2. LastSaysDoc' /\ DocIsSaved' /\ PreviewsKnown' /\ LeftClean' /\ SentClean'
      BY <1>3 DEF HearUpdate, LastSaysDoc, DocIsSaved, PreviewsKnown, LeftClean, SentClean, LastSave, Previews
    <2> QED BY <2>1, <2>2
  <1> QED BY <1>1, <1>2, <1>3

\* ContentEditor and its uploads: what is typed is in the document, in the update
\* that waits or in the last save sent, and every preview left is of an upload
\* still under way.
THEOREM EditorInvariant == EditorSpec => []EditorInv
  <1>1. ASSUME EditorInv, UNCHANGED editorVars PROVE EditorInv'
    BY <1>1 DEF editorVars, EditorInv, EditorTypeOK, OnlyWhileEditing, NumbersGiven, LastSaysDoc, DocIsSaved, PreviewsKnown,
                LeftClean, SentClean, LastSave, Previews
  <1>2. EditorInv /\ [EditorNext]_editorVars => EditorInv'
    BY <1>1, MountStep, UnmountStep, EditorTyping, PickStep, UploadStep, EditorSaveSteps, KeepStep, AnswerStep, EditorOtherSteps
       DEF EditorNext
  <1> QED BY <1>2, EditorStart, PTL DEF EditorSpec

-----------------------------------------------------------------------------
(* The agents *)

\* A list in which each agent's parts are its own.
RowsAtHome(list) == /\ list \in [AgentIds -> AgentRows]
                    /\ \A a \in AgentIds, p \in AgentParts : list[a].parts[p].for = a
AgentOps == {"update", "updated", "create", "created", "archive", "restore", "refresh", "tasks"}
AgentCallType ==
  [op : AgentOps, id : AgentIds, part : AgentParts \cup {"skills"}, value : AgentValue,
   skills : SUBSET Skills, list : {<<>>} \cup [AgentIds -> AgentRows], live : BOOLEAN]
\* A call writes to the agent it was typed for, and brings what is each one's.
CallsItsAgent(c) == /\ c \in AgentCallType
                    /\ c.op = "update" /\ c.part # "skills" => c.value.for = c.id
                    /\ c.list # <<>> => RowsAtHome(c.list)
TasksAsked(c) == c.op = "tasks" /\ c.live => c.id = selectedId

DraftAtHome == selectedId # 0 /\ tab \in AgentParts => draft.for = selectedId
TasksAtHome == tasksOf # 0 => tasksOf = selectedId
AgentShown == /\ RowsAtHome(agents) /\ selectedId \in 0..NAgents /\ showArchived \in BOOLEAN /\ tab \in AgentTabs
              /\ draft \in AgentValue /\ tasksOf \in 0..NAgents /\ DraftAtHome /\ TasksAtHome
AgentInv ==
  /\ RowsAtHome(atServer) /\ AgentShown /\ agentEdits \in 0..MaxAgentEdits
  /\ AtMost(agentCalls, MaxAgentCalls) /\ \A c \in agentCalls : CallsItsAgent(c) /\ TasksAsked(c)

LEMMA AgentShows == AgentInv => AgentTypeOK /\ AgentDraftsStayHome
  BY DEF AgentInv, AgentTypeOK, AgentDraftsStayHome, AgentShown, RowsAtHome, DraftAtHome, TasksAtHome, AtMost

LEMMA AgentBounds == NAgents \in Nat /\ NAgents >= 1 /\ MaxAgentCalls \in Nat /\ MaxAgentEdits \in Nat
                     /\ ListTabs \subseteq {"tools", "triggers"} /\ 1 \in AgentIds
  BY AgentAssumption DEF AgentIds

LEMMA RowOfItsOwn ==
  ASSUME NEW a \in AgentIds, NEW by \in {"first", "me", "other"}
  PROVE  /\ AgentRow(a, by) \in AgentRows /\ NotMade(a) \in AgentRows
         /\ \A p \in AgentParts : AgentRow(a, by).parts[p].for = a /\ NotMade(a).parts[p].for = a
  BY DEF AgentRow, NotMade, AgentRows, AgentValue

\* The selection is an agent, or none while there was none.
LEMMA Selected ==
  ASSUME NEW list, NEW archived, NEW picked \in 0..NAgents
  PROVE  /\ Selection(list, archived, picked) \in 0..NAgents
         /\ picked # 0 => Selection(list, archived, picked) # 0
  <1> DEFINE f == Filtered(list, archived)
  <1>1. f \in SUBSET Nat /\ f \subseteq 1..NAgents
    BY AgentBounds DEF Filtered, AgentIds
  <1> HIDE DEF f
  <1>2. ASSUME f # {} PROVE Min(f) \in f
    <2>1. \E x \in f : \A y \in f : x <= y
      BY <1>1, <1>2, LeastOfNaturals
    <2> QED BY <2>1 DEF Min
  <1>3. Selection(list, archived, picked) = IF f # {} /\ picked \notin f THEN Min(f) ELSE picked
    BY DEF Selection, f
  <1>4. CASE f # {} /\ picked \notin f
    <2>1. Selection(list, archived, picked) \in 1..NAgents
      BY <1>1, <1>2, <1>3, <1>4
    <2> QED BY <2>1, AgentBounds
  <1>5. CASE ~(f # {} /\ picked \notin f)
    BY <1>3, <1>5
  <1> QED BY <1>4, <1>5

LEMMA AgentStart == AgentInit => AgentInv
  <1> SUFFICES ASSUME AgentInit PROVE AgentInv
    OBVIOUS
  <1>1. PICK made \in SUBSET AgentIds :
          atServer = [a \in AgentIds |-> IF a \in made THEN AgentRow(a, "first") ELSE NotMade(a)]
    BY DEF AgentInit
  <1>2. RowsAtHome(atServer)
    BY <1>1, RowOfItsOwn DEF RowsAtHome
  <1>3. selectedId \in 0..NAgents
    <2> DEFINE f == Filtered(agents, FALSE)
    <2>1. f \in SUBSET Nat /\ f \subseteq 1..NAgents
      BY AgentBounds DEF Filtered, AgentIds
    <2>2. selectedId = IF f = {} THEN 0 ELSE Min(f)
      BY DEF AgentInit
    <2> HIDE DEF f
    <2>3. ASSUME f # {} PROVE Min(f) \in f
      <3>1. \E x \in f : \A y \in f : x <= y
        BY <2>1, <2>3, LeastOfNaturals
      <3> QED BY <3>1 DEF Min
    <2> QED BY <2>1, <2>2, <2>3, AgentBounds
  <1>4. draft \in AgentValue /\ (selectedId # 0 => draft.for = selectedId)
    <2>1. \A a \in AgentIds : FirstValue(a) \in AgentValue /\ FirstValue(a).for = a
      BY DEF FirstValue, AgentValue
    <2>2. draft = IF selectedId = 0 THEN FirstValue(1) ELSE FirstValue(selectedId)
      BY DEF AgentInit
    <2>3. selectedId # 0 => selectedId \in AgentIds
      BY <1>3, AgentBounds DEF AgentIds
    <2> QED BY <2>1, <2>2, <2>3, AgentBounds
  <1>5. agents = atServer /\ showArchived = FALSE /\ tab = "instructions" /\ tasksOf = 0 /\ agentCalls = {} /\ agentEdits = 0
    BY DEF AgentInit
  <1>6. AgentShown
    <2>1. tab \in AgentTabs
      BY <1>5 DEF AgentTabs, AgentParts
    <2>2. tasksOf \in 0..NAgents /\ showArchived \in BOOLEAN
      <3>1. 0 \in 0..NAgents
        BY AgentBounds
      <3> QED BY <1>5, <3>1, Zenon
    <2>3. RowsAtHome(agents)
      BY <1>2, <1>5
    <2> QED BY <1>3, <1>4, <1>5, <2>1, <2>2, <2>3 DEF AgentShown, DraftAtHome, TasksAtHome
  <1>7. AtMost({}, MaxAgentCalls) /\ 0 \in 0..MaxAgentEdits
    BY NoneAtMost, AgentBounds
  <1> QED BY <1>2, <1>5, <1>6, <1>7 DEF AgentInv

LEMMA RenderStep ==
  ASSUME AgentShown, NEW list, RowsAtHome(list), NEW archived \in BOOLEAN, NEW picked \in 0..NAgents, NEW new \in BOOLEAN,
         picked = 0 => selectedId = 0, Renders(list, archived, picked, new)
  PROVE  AgentShown'
  <1> DEFINE a == Selection(list, archived, picked)
  <1>1. a \in 0..NAgents /\ (a = 0 => selectedId = 0)
    BY Selected
  <1>2. /\ agents' = list /\ showArchived' = archived /\ selectedId' = a
        /\ IF a = 0 THEN UNCHANGED <<tab, draft, tasksOf>>
           ELSE IF a # selectedId
           THEN tab' = "instructions" /\ draft' = list[a].parts["instructions"] /\ tasksOf' = 0
           ELSE draft' = Synced(list, a, new) /\ UNCHANGED <<tab, tasksOf>>
    BY DEF Renders, Remounts
  <1> HIDE DEF a
  <1>3. RowsAtHome(agents)'
    BY <1>2 DEF RowsAtHome
  <1>4. \A b \in AgentIds, p \in AgentParts : list[b].parts[p] \in AgentValue /\ list[b].parts[p].for = b
    BY DEF RowsAtHome, AgentRows
  <1>5. "instructions" \in AgentParts /\ "instructions" \in AgentTabs /\ ListTabs \subseteq AgentParts
    BY DEF AgentParts, AgentTabs
  <1>6. CASE a = 0
    BY <1>1, <1>2, <1>3, <1>6 DEF AgentShown, DraftAtHome, TasksAtHome
  <1>7. CASE a # 0 /\ a # selectedId
    <2>1. a \in AgentIds
      BY <1>1, <1>7, AgentBounds DEF AgentIds
    <2>2. tab' = "instructions" /\ draft' = list[a].parts["instructions"] /\ tasksOf' = 0
      BY <1>2, <1>7
    <2>3. 0 \in 0..NAgents
      BY AgentBounds
    <2> QED BY <1>1, <1>2, <1>3, <1>4, <1>5, <2>1, <2>2, <2>3 DEF AgentShown, DraftAtHome, TasksAtHome
  <1>8. CASE a # 0 /\ a = selectedId
    <2>1. a \in AgentIds
      BY <1>1, <1>8, AgentBounds DEF AgentIds
    <2>2. tab' = tab /\ tasksOf' = tasksOf /\ draft' = Synced(list, a, new)
      BY <1>2, <1>8
    <2>3. draft' = draft \/ (tab \in AgentParts /\ draft' = list[a].parts[tab])
      BY <1>5, <2>2 DEF Synced
    <2> QED BY <1>1, <1>2, <1>3, <1>4, <1>8, <2>1, <2>2, <2>3 DEF AgentShown, DraftAtHome, TasksAtHome
  <1> QED BY <1>6, <1>7, <1>8

\* Where the tab is gone, none of its calls is awaited.
LEMMA Orphaned ==
  ASSUME NEW C \in SUBSET AgentCallType, \A c \in C : CallsItsAgent(c), NEW m \in Nat, AtMost(C, m)
  PROVE  /\ AtMost(Orphans(C), m)
         /\ \A d \in Orphans(C) : CallsItsAgent(d) /\ ~(d.op = "tasks" /\ d.live)
  <1> DEFINE Left(c) == IF c.op \in {"create", "created"} THEN c ELSE [c EXCEPT !.live = FALSE]
             f == [c \in C |-> Left(c)]
  <1>1. Orphans(C) = {Left(c) : c \in C}
    BY DEF Orphans
  <1>2. f \in [C -> {Left(c) : c \in C}] /\ \A y \in {Left(c) : c \in C} : \E x \in C : f[x] = y
    OBVIOUS
  <1> HIDE DEF f
  <1>3. AtMost(Orphans(C), m)
    <2> HIDE DEF Left
    <2>1. AtMost({Left(c) : c \in C}, m)
      BY <1>2, Renamed
    <2> QED BY <1>1, <2>1
  <1>4. ASSUME NEW c \in C
        PROVE  /\ Left(c) \in AgentCallType /\ Left(c).op = c.op /\ Left(c).id = c.id /\ Left(c).part = c.part
               /\ Left(c).value = c.value /\ Left(c).list = c.list /\ ~(Left(c).op = "tasks" /\ Left(c).live)
    BY DEF AgentCallType
  <1> HIDE DEF Left
  <1>5. ASSUME NEW c \in C PROVE CallsItsAgent(Left(c))
    BY <1>4 DEF CallsItsAgent
  <1> QED BY <1>1, <1>3, <1>4, <1>5

LEMMA StillAsked ==
  ASSUME AgentInv, NEW C \in SUBSET agentCalls, selectedId' \in 0..NAgents,
         agentCalls' = StillLive(selectedId', C)
  PROVE  AtMost(agentCalls, MaxAgentCalls)' /\ \A c \in agentCalls' : (CallsItsAgent(c) /\ TasksAsked(c))'
  <1>1. AtMost(C, MaxAgentCalls) /\ \A c \in C : CallsItsAgent(c) /\ TasksAsked(c)
    BY PartAtMost, AgentBounds DEF AgentInv
  <1>2. C \in SUBSET AgentCallType
    BY <1>1 DEF CallsItsAgent
  <1>3. CASE selectedId' # selectedId
    <2>1. agentCalls' = Orphans(C)
      BY <1>3 DEF StillLive, Remounts
    <2>2. \A c \in agentCalls' : CallsItsAgent(c) /\ ~(c.op = "tasks" /\ c.live)
      BY <1>1, <1>2, <2>1, Orphaned, AgentBounds
    <2> QED BY <1>1, <1>2, <2>1, <2>2, Orphaned, AgentBounds DEF TasksAsked
  <1>4. CASE selectedId' = selectedId
    <2>1. agentCalls' = C
      BY <1>4 DEF StillLive, Remounts
    <2> QED BY <1>1, <1>4, <2>1 DEF TasksAsked
  <1> QED BY <1>3, <1>4

LEMMA ShownAgain ==
  ASSUME AgentInv, NEW list, RowsAtHome(list), NEW archived \in BOOLEAN, NEW picked \in 0..NAgents, NEW new \in BOOLEAN,
         picked = 0 => selectedId = 0, Renders(list, archived, picked, new), NEW C \in SUBSET agentCalls,
         agentCalls' = StillLive(selectedId', C), UNCHANGED <<atServer, agentEdits>>
  PROVE  AgentInv'
  <1>1. AgentShown'
    BY RenderStep DEF AgentInv
  <1>2. AtMost(agentCalls, MaxAgentCalls)' /\ \A c \in agentCalls' : (CallsItsAgent(c) /\ TasksAsked(c))'
    BY <1>1, StillAsked DEF AgentShown
  <1>3. RowsAtHome(atServer)' /\ agentEdits' \in 0..MaxAgentEdits
    BY DEF AgentInv, RowsAtHome
  <1> QED BY <1>1, <1>2, <1>3 DEF AgentInv

\* The list is filtered, an agent selected, the list fetched again.
LEMMA ShowSteps == ASSUME AgentInv, SelectAgent \/ ShowArchived \/ AgentsLand PROVE AgentInv'
  <1>1. RowsAtHome(agents) /\ selectedId \in 0..NAgents /\ showArchived \in BOOLEAN
    BY DEF AgentInv, AgentShown
  <1>2. UNCHANGED <<atServer, agentEdits>>
    BY DEF SelectAgent, ShowArchived, AgentsLand
  <1>6. (~showArchived) \in BOOLEAN
    BY Zenon
  <1>3. CASE SelectAgent
    <2>1. PICK a \in Filtered(agents, showArchived) :
            Renders(agents, showArchived, a, FALSE) /\ agentCalls' = StillLive(selectedId', agentCalls)
      BY <1>3 DEF SelectAgent
    <2>2. a \in 0..NAgents /\ a # 0
      BY AgentBounds DEF Filtered, AgentIds
    <2> QED BY <1>1, <1>2, <2>1, <2>2, ShownAgain
  <1>4. CASE ShowArchived
    <2>1. Renders(agents, ~showArchived, selectedId, FALSE) /\ agentCalls' = StillLive(selectedId', agentCalls)
      BY <1>4 DEF ShowArchived
    <2> QED BY <1>1, <1>2, <1>6, <2>1, ShownAgain
  <1>5. CASE AgentsLand
    <2>1. PICK c \in agentCalls :
            /\ c.list # <<>>
            /\ Renders(c.list, showArchived, IF c.op = "created" THEN c.id ELSE selectedId, TRUE)
            /\ agentCalls' = StillLive(selectedId', agentCalls \ {c})
      BY <1>5 DEF AgentsLand
    <2>2. RowsAtHome(c.list) /\ c.id \in 0..NAgents /\ c.id # 0
      BY <2>1, AgentBounds DEF AgentInv, CallsItsAgent, AgentCallType, AgentIds
    <2> DEFINE w == IF c.op = "created" THEN c.id ELSE selectedId
    <2>3. w \in 0..NAgents /\ (w = 0 => selectedId = 0)
      BY <1>1, <2>2
    <2>4. Renders(c.list, showArchived, w, TRUE) /\ agentCalls \ {c} \in SUBSET agentCalls
      BY <2>1
    <2> HIDE DEF w
    <2> QED BY <1>1, <1>2, <2>1, <2>2, <2>3, <2>4, ShownAgain
  <1> QED BY <1>3, <1>4, <1>5

LEMMA NewAgentCall ==
  ASSUME NEW op \in AgentOps, NEW a \in AgentIds
  PROVE  /\ AgentCall(op, a) \in AgentCallType /\ AgentCall(op, a).op = op /\ AgentCall(op, a).id = a
         /\ AgentCall(op, a).value.for = a /\ AgentCall(op, a).list = <<>> /\ AgentCall(op, a).live
         /\ CallsItsAgent(AgentCall(op, a))
  BY DEF AgentCall, AgentCallType, AgentParts, AgentValue, FirstValue, CallsItsAgent

LEMMA TabStep == ASSUME AgentInv, OpenTab PROVE AgentInv'
  <1> USE DEF AgentInv
  <1>1. PICK t \in AgentTabs \ {tab} :
    /\ selectedId # 0
    /\ tab' = t /\ tasksOf' = 0
    /\ draft' = IF t \in AgentParts THEN agents[selectedId].parts[t] ELSE FirstValue(selectedId)
    /\ IF t = "tasks"
       THEN /\ Cardinality(agentCalls) < MaxAgentCalls
            /\ agentCalls' = Orphans(agentCalls) \cup {AgentCall("tasks", selectedId)}
       ELSE agentCalls' = Orphans(agentCalls)
    /\ UNCHANGED <<atServer, agents, selectedId, showArchived, agentEdits>>
    BY DEF OpenTab
  <1>2. selectedId \in AgentIds
    BY <1>1, AgentBounds DEF AgentShown, AgentIds
  <1>3. draft' \in AgentValue /\ draft'.for = selectedId
    <2>1. FirstValue(selectedId) \in AgentValue /\ FirstValue(selectedId).for = selectedId
      BY <1>2 DEF FirstValue, AgentValue
    <2>2. \A p \in AgentParts : agents[selectedId].parts[p] \in AgentValue /\ agents[selectedId].parts[p].for = selectedId
      BY <1>2 DEF AgentShown, RowsAtHome, AgentRows
    <2> QED BY <1>1, <2>1, <2>2
  <1>4. AgentShown'
    <2>1. 0 \in 0..NAgents
      BY AgentBounds
    <2> QED BY <1>1, <1>3, <2>1 DEF AgentShown, RowsAtHome, DraftAtHome, TasksAtHome
  <1>5. agentCalls \in SUBSET AgentCallType
    BY DEF CallsItsAgent
  <1>6. /\ AtMost(Orphans(agentCalls), MaxAgentCalls)
        /\ \A d \in Orphans(agentCalls) : CallsItsAgent(d) /\ ~(d.op = "tasks" /\ d.live)
    BY <1>5, Orphaned, AgentBounds
  <1> DEFINE n == AgentCall("tasks", selectedId)
  <1>7. CallsItsAgent(n) /\ n.id = selectedId
    BY <1>2, NewAgentCall DEF AgentOps
  <1>8. \/ agentCalls' = Orphans(agentCalls)
        \/ agentCalls' = Orphans(agentCalls) \cup {n} /\ Cardinality(agentCalls) < MaxAgentCalls
    BY <1>1
  <1> HIDE DEF n
  <1>9. \A c \in agentCalls' : (CallsItsAgent(c) /\ TasksAsked(c))'
    BY <1>1, <1>6, <1>7, <1>8 DEF TasksAsked
  <1>10. AtMost(agentCalls, MaxAgentCalls)'
    <2>1. CASE agentCalls' = Orphans(agentCalls)
      BY <1>6, <2>1
    <2>2. CASE agentCalls' = Orphans(agentCalls) \cup {n} /\ Cardinality(agentCalls) < MaxAgentCalls
      <3>1. AtMost(Orphans(agentCalls), MaxAgentCalls - 1) /\ MaxAgentCalls - 1 \in Nat
        <4>1. Cardinality(agentCalls) \in Nat /\ IsFiniteSet(agentCalls)
          BY FS_CardinalityType DEF AtMost
        <4>2. AtMost(agentCalls, MaxAgentCalls - 1) /\ MaxAgentCalls - 1 \in Nat
          BY <2>2, <4>1, AgentBounds DEF AtMost
        <4> QED BY <1>5, <4>2, Orphaned
      <3>2. AtMost(Orphans(agentCalls) \cup {n}, (MaxAgentCalls - 1) + 1)
        BY <3>1, AndOneMore
      <3>3. (MaxAgentCalls - 1) + 1 = MaxAgentCalls
        BY AgentBounds
      <3> QED BY <2>2, <3>2, <3>3
    <2> QED BY <1>8, <2>1, <2>2
  <1>11. RowsAtHome(atServer)' /\ agentEdits' \in 0..MaxAgentEdits
    BY <1>1 DEF RowsAtHome
  <1> QED BY <1>4, <1>9, <1>10, <1>11

\* Steps that leave the page as it is.
LEMMA PageStays ==
  ASSUME AgentInv, UNCHANGED shownVars, RowsAtHome(atServer)', agentEdits' \in 0..MaxAgentEdits,
         AtMost(agentCalls, MaxAgentCalls)',
         \A c \in agentCalls' : c \in agentCalls \/ (CallsItsAgent(c) /\ c.op # "tasks")
  PROVE  AgentInv'
  <1>1. AgentShown'
    BY DEF AgentInv, AgentShown, shownVars, RowsAtHome, DraftAtHome, TasksAtHome
  <1>2. selectedId' = selectedId
    BY DEF shownVars
  <1>3. \A c \in agentCalls' : (CallsItsAgent(c) /\ TasksAsked(c))'
    BY <1>2 DEF AgentInv, TasksAsked
  <1> QED BY <1>1, <1>3 DEF AgentInv

LEMMA AgentTypeSteps == ASSUME AgentInv, EditInstructions \/ EditList \/ EditSettings PROVE AgentInv'
  <1>1. PICK t : Types(t)
    BY DEF EditInstructions, EditList, EditSettings
  <1>2. /\ selectedId # 0 /\ draft' = [for |-> selectedId, by |-> "me"]
        /\ UNCHANGED <<atServer, agents, selectedId, showArchived, tab, tasksOf, agentCalls, agentEdits>>
    BY <1>1 DEF Types
  <1>3. selectedId \in AgentIds
    BY <1>2, AgentBounds DEF AgentInv, AgentShown, AgentIds
  <1>4. AgentShown'
    BY <1>2, <1>3 DEF AgentInv, AgentShown, RowsAtHome, DraftAtHome, TasksAtHome, AgentValue
  <1> QED BY <1>2, <1>4 DEF AgentInv, RowsAtHome, TasksAsked

LEMMA StartStep ==
  ASSUME AgentInv, UNCHANGED <<atServer, shownVars>>, NEW c, CallsItsAgent(c), c.op # "tasks", AgentStarts(c)
  PROVE  AgentInv'
  <1>1. /\ Cardinality(agentCalls) < MaxAgentCalls /\ agentCalls' = agentCalls \cup {c}
        /\ agentEdits < MaxAgentEdits /\ agentEdits' = agentEdits + 1
    BY DEF AgentStarts
  <1>2. AtMost(agentCalls, MaxAgentCalls)'
    <2>1. IsFiniteSet(agentCalls)
      BY DEF AgentInv, AtMost
    <2> QED BY <1>1, <2>1, OneMore, AgentBounds
  <1>3. agentEdits' \in 0..MaxAgentEdits
    BY <1>1, AgentBounds DEF AgentInv
  <1>4. RowsAtHome(atServer)'
    BY DEF AgentInv, RowsAtHome
  <1> QED BY <1>1, <1>2, <1>3, <1>4, PageStays

LEMMA StartSteps == ASSUME AgentInv, SaveTab \/ SetSkills \/ ArchiveOrRestore \/ CreateAgent PROVE AgentInv'
  <1>1. UNCHANGED <<atServer, shownVars>>
    BY DEF SaveTab, SetSkills, ArchiveOrRestore, CreateAgent
  <1>2. AgentShown /\ (selectedId # 0 => selectedId \in AgentIds)
    BY AgentBounds DEF AgentInv, AgentShown, AgentIds
  <1>3. CASE SaveTab
    <2> DEFINE c == [AgentCall("update", selectedId) EXCEPT !.part = tab, !.value = draft]
    <2>1. selectedId \in AgentIds /\ tab \in AgentParts /\ AgentStarts(c) /\ draft \in AgentValue /\ draft.for = selectedId
      BY <1>2, <1>3 DEF SaveTab, Dirty, AgentShown, DraftAtHome
    <2>2. /\ c \in AgentCallType /\ c.op = "update" /\ c.id = selectedId /\ c.value = draft /\ c.list = <<>>
      BY <2>1 DEF AgentCall, AgentCallType, AgentOps
    <2>3. CallsItsAgent(c)
      BY <2>1, <2>2 DEF CallsItsAgent
    <2> QED BY <1>1, <2>1, <2>2, <2>3, StartStep
  <1>4. CASE SetSkills
    <2>1. selectedId \in AgentIds
      BY <1>2, <1>4 DEF SetSkills
    <2>2. PICK S \in SUBSET Skills : AgentStarts([AgentCall("update", selectedId) EXCEPT !.part = "skills", !.skills = S])
      <3>1. agents[selectedId].skills \in SUBSET Skills
        BY <1>2, <2>1 DEF AgentShown, RowsAtHome, AgentRows
      <3>2. CASE \E s \in AvailableSkills : AgentStarts([AgentCall("update", selectedId) EXCEPT !.part = "skills",
                    !.skills = agents[selectedId].skills \cup {s}])
        <4>1. \A s \in AvailableSkills : agents[selectedId].skills \cup {s} \in SUBSET Skills
          BY <3>1 DEF AvailableSkills
        <4> QED BY <3>2, <4>1
      <3>3. CASE \E s \in agents[selectedId].skills : AgentStarts([AgentCall("update", selectedId) EXCEPT !.part = "skills",
                    !.skills = agents[selectedId].skills \ {s}])
        <4>1. \A s : agents[selectedId].skills \ {s} \in SUBSET Skills
          BY <3>1
        <4> QED BY <3>3, <4>1
      <3> QED BY <1>4, <3>2, <3>3 DEF SetSkills
    <2> DEFINE c == [AgentCall("update", selectedId) EXCEPT !.part = "skills", !.skills = S]
    <2>3. c \in AgentCallType /\ c.op = "update" /\ c.part = "skills" /\ c.list = <<>>
      BY <2>1 DEF AgentCall, AgentCallType, AgentOps, AgentValue, FirstValue
    <2>4. CallsItsAgent(c)
      BY <2>3 DEF CallsItsAgent
    <2> QED BY <1>1, <2>2, <2>3, <2>4, StartStep
  <1>5. CASE ArchiveOrRestore
    <2>1. selectedId \in AgentIds
      BY <1>2, <1>5 DEF ArchiveOrRestore
    <2>2. PICK op \in {"archive", "restore"} : AgentStarts([AgentCall(op, selectedId) EXCEPT !.live = FALSE])
      BY <1>5 DEF ArchiveOrRestore
    <2> DEFINE c == [AgentCall(op, selectedId) EXCEPT !.live = FALSE]
    <2>3. c \in AgentCallType /\ c.op = op /\ c.list = <<>>
      BY <2>1 DEF AgentCall, AgentCallType, AgentOps, AgentValue, FirstValue, AgentParts
    <2>4. CallsItsAgent(c)
      BY <2>3 DEF CallsItsAgent
    <2> QED BY <1>1, <2>2, <2>3, <2>4, StartStep
  <1>6. CASE CreateAgent
    <2>1. PICK a \in AgentIds : AgentStarts(AgentCall("create", a))
      BY <1>6 DEF CreateAgent
    <2> QED BY <1>1, <2>1, NewAgentCall, StartStep DEF AgentOps
  <1> QED BY <1>3, <1>4, <1>5, <1>6

\* What a call writes is of the agent it is for.
LEMMA WrittenAtHome ==
  ASSUME RowsAtHome(atServer), NEW c, CallsItsAgent(c), c.op \in Writes
  PROVE  Written(c) \in AgentRows /\ \A p \in AgentParts : Written(c).parts[p].for = c.id
  <1>1. /\ c \in AgentCallType /\ c.id \in AgentIds /\ atServer[c.id] \in AgentRows
        /\ \A p \in AgentParts : atServer[c.id].parts[p].for = c.id
    BY DEF CallsItsAgent, AgentCallType, RowsAtHome
  <1>2. CASE c.op = "update" /\ c.part = "skills"
    <2>1. Written(c) = [atServer[c.id] EXCEPT !.skills = c.skills]
      BY <1>2 DEF Written
    <2> QED BY <1>1, <2>1 DEF AgentRows, AgentCallType
  <1>3. CASE c.op = "update" /\ c.part # "skills"
    <2>1. Written(c) = [atServer[c.id] EXCEPT !.parts[c.part] = c.value]
      BY <1>3 DEF Written
    <2>2. c.part \in AgentParts /\ c.value \in AgentValue /\ c.value.for = c.id
      BY <1>1, <1>3 DEF CallsItsAgent, AgentCallType
    <2> QED BY <1>1, <2>1, <2>2 DEF AgentRows
  <1>4. CASE c.op = "archive"
    <2>1. Written(c) = [atServer[c.id] EXCEPT !.archived = TRUE]
      BY <1>4 DEF Written
    <2> QED BY <1>1, <2>1 DEF AgentRows
  <1>6. CASE c.op = "restore"
    <2>1. Written(c) = [atServer[c.id] EXCEPT !.archived = FALSE]
      BY <1>6 DEF Written
    <2> QED BY <1>1, <2>1 DEF AgentRows
  <1>5. CASE c.op = "create"
    <2>1. Written(c) = AgentRow(c.id, "me")
      BY <1>5 DEF Written
    <2> QED BY <1>1, <2>1, RowOfItsOwn
  <1> QED BY <1>2, <1>3, <1>4, <1>5, <1>6 DEF Writes

LEMMA RowRewritten ==
  ASSUME RowsAtHome(atServer), NEW a \in AgentIds, NEW row \in AgentRows,
         \A p \in AgentParts : row.parts[p].for = a, atServer' = [atServer EXCEPT ![a] = row]
  PROVE  RowsAtHome(atServer)'
  BY DEF RowsAtHome

LEMMA AgentWritten == ASSUME AgentInv, ServerWrites PROVE AgentInv'
  <1>1. PICK c \in agentCalls :
    /\ c.op \in Writes
    /\ atServer' = [atServer EXCEPT ![c.id] = Written(c)]
    /\ agentCalls' = (agentCalls \ {c}) \cup {After(c)}
    /\ UNCHANGED <<shownVars, agentEdits>>
    BY DEF ServerWrites
  <1>2. CallsItsAgent(c) /\ c.id \in AgentIds /\ c.live \in BOOLEAN
    BY DEF AgentInv, CallsItsAgent, AgentCallType
  <1>3. RowsAtHome(atServer)'
    <2>1. Written(c) \in AgentRows /\ \A p \in AgentParts : Written(c).parts[p].for = c.id
      BY <1>1, <1>2, WrittenAtHome DEF AgentInv
    <2> QED BY <1>1, <1>2, <2>1 DEF AgentInv, RowsAtHome
  <1>4. CallsItsAgent(After(c)) /\ After(c).op # "tasks"
    <2>1. PICK op \in {"updated", "created", "refresh"}, a \in AgentIds :
            After(c) = [AgentCall(op, a) EXCEPT !.live = c.live]
      BY <1>2, AgentBounds DEF After
    <2>2. After(c) \in AgentCallType /\ After(c).op = op /\ After(c).list = <<>>
      BY <1>2, <2>1 DEF AgentCall, AgentCallType, AgentOps, AgentValue, FirstValue, AgentParts
    <2> QED BY <2>2 DEF CallsItsAgent
  <1>5. AtMost(agentCalls, MaxAgentCalls)'
    BY <1>1, OneSwapped, AgentBounds DEF AgentInv
  <1> QED BY <1>1, <1>3, <1>4, <1>5, PageStays DEF AgentInv

LEMMA AgentOtherSteps == ASSUME AgentInv, OthersEdit \/ AgentsAnswered \/ RefreshAgents \/ AgentCallFails PROVE AgentInv'
  <1>1. UNCHANGED shownVars /\ RowsAtHome(atServer)
    BY DEF OthersEdit, AgentsAnswered, RefreshAgents, AgentCallFails, AgentInv
  <1>2. CASE OthersEdit
    <2>1. PICK a \in AgentIds :
            /\ agentEdits < MaxAgentEdits /\ agentEdits' = agentEdits + 1 /\ agentCalls' = agentCalls
            /\ \/ \E p \in AgentParts : atServer' = [atServer EXCEPT ![a].parts[p] = [for |-> a, by |-> "other"]]
               \/ atServer' = [atServer EXCEPT ![a].archived = ~@]
      BY <1>2 DEF OthersEdit
    <2>2. agentEdits' \in 0..MaxAgentEdits
      BY <2>1, AgentBounds DEF AgentInv
    <2>3. RowsAtHome(atServer)'
      <3> DEFINE old == atServer[a]
                 v == [for |-> a, by |-> "other"]
      <3>3. old \in AgentRows /\ (\A q \in AgentParts : old.parts[q].for = a) /\ atServer \in [AgentIds -> AgentRows]
        BY <1>1 DEF RowsAtHome
      <3>4. v \in AgentValue /\ v.for = a
        BY DEF AgentValue
      <3>1. CASE \E p \in AgentParts : atServer' = [atServer EXCEPT ![a].parts[p] = [for |-> a, by |-> "other"]]
        <4>1. PICK p \in AgentParts : atServer' = [atServer EXCEPT ![a].parts[p] = v]
          BY <3>1
        <4> DEFINE row == [old EXCEPT !.parts[p] = v]
        <4>2. atServer' = [atServer EXCEPT ![a] = row]
          BY <3>3, <4>1
        <4> HIDE DEF v, old
        <4>3. row \in AgentRows /\ \A q \in AgentParts : row.parts[q].for = a
          BY <3>3, <3>4 DEF AgentRows
        <4> HIDE DEF row
        <4> QED BY <1>1, <4>2, <4>3, RowRewritten
      <3>2. CASE atServer' = [atServer EXCEPT ![a].archived = ~@]
        <4> DEFINE row == [old EXCEPT !.archived = ~old.archived]
        <4>2. atServer' = [atServer EXCEPT ![a] = row]
          BY <3>2, <3>3
        <4>3. row \in AgentRows /\ \A q \in AgentParts : row.parts[q].for = a
          <5> HIDE DEF old
          <5>1. (~old.archived) \in BOOLEAN
            BY Zenon
          <5> QED BY <3>3, <5>1 DEF AgentRows
        <4> HIDE DEF row
        <4> QED BY <1>1, <4>2, <4>3, RowRewritten
      <3> QED BY <2>1, <3>1, <3>2
    <2> QED BY <1>1, <2>1, <2>2, <2>3, PageStays DEF AgentInv
  <1>3. CASE AgentsAnswered
    <2>1. PICK c \in agentCalls :
            /\ c.op \in {"updated", "created", "refresh"}
            /\ agentCalls' = (agentCalls \ {c}) \cup {[c EXCEPT !.list = atServer]}
            /\ UNCHANGED <<atServer, agentEdits>>
      BY <1>3 DEF AgentsAnswered
    <2> DEFINE d == [c EXCEPT !.list = atServer]
    <2>2. d \in AgentCallType /\ d.op = c.op /\ d.list = atServer /\ d.op # "update" /\ d.op # "tasks"
      BY <1>1, <2>1 DEF AgentInv, CallsItsAgent, AgentCallType, RowsAtHome
    <2>3. CallsItsAgent(d)
      BY <1>1, <2>2 DEF CallsItsAgent
    <2>4. AtMost(agentCalls, MaxAgentCalls)'
      BY <2>1, OneSwapped, AgentBounds DEF AgentInv
    <2> HIDE DEF d
    <2>5. RowsAtHome(atServer)' /\ agentEdits' \in 0..MaxAgentEdits
      BY <1>1, <2>1 DEF RowsAtHome, AgentInv
    <2>6. agentCalls' = (agentCalls \ {c}) \cup {d}
      BY <2>1 DEF d
    <2> QED BY <1>1, <2>2, <2>3, <2>4, <2>5, <2>6, PageStays
  <1>4. CASE RefreshAgents
    <2> DEFINE c == [AgentCall("refresh", 1) EXCEPT !.live = FALSE]
    <2>1. /\ Cardinality(agentCalls) < MaxAgentCalls /\ agentCalls' = agentCalls \cup {c} /\ UNCHANGED <<atServer, agentEdits>>
      BY <1>4 DEF RefreshAgents
    <2>2. c \in AgentCallType /\ c.op = "refresh" /\ c.list = <<>>
      BY AgentBounds DEF AgentCall, AgentCallType, AgentOps, AgentValue, FirstValue, AgentParts
    <2>3. CallsItsAgent(c)
      BY <2>2 DEF CallsItsAgent
    <2>4. AtMost(agentCalls, MaxAgentCalls)'
      <3>1. IsFiniteSet(agentCalls)
        BY DEF AgentInv, AtMost
      <3> QED BY <2>1, <3>1, OneMore, AgentBounds
    <2> HIDE DEF c
    <2>5. RowsAtHome(atServer)' /\ agentEdits' \in 0..MaxAgentEdits
      BY <1>1, <2>1 DEF RowsAtHome, AgentInv
    <2> QED BY <1>1, <2>1, <2>2, <2>3, <2>4, <2>5, PageStays
  <1>5. CASE AgentCallFails
    <2>1. agentCalls' \subseteq agentCalls /\ UNCHANGED <<atServer, agentEdits>>
      BY <1>5 DEF AgentCallFails
    <2>2. AtMost(agentCalls, MaxAgentCalls)'
      BY <2>1, PartAtMost, AgentBounds DEF AgentInv
    <2>3. RowsAtHome(atServer)' /\ agentEdits' \in 0..MaxAgentEdits
      BY <1>1, <2>1 DEF RowsAtHome, AgentInv
    <2> QED BY <1>1, <2>1, <2>2, <2>3, PageStays
  <1> QED BY <1>2, <1>3, <1>4, <1>5

LEMMA TasksStep == ASSUME AgentInv, TasksLand PROVE AgentInv'
  <1>1. PICK c \in agentCalls :
    /\ c.op = "tasks" /\ tasksOf' = (IF c.live THEN c.id ELSE tasksOf) /\ agentCalls' = agentCalls \ {c}
    /\ UNCHANGED <<atServer, agents, selectedId, showArchived, tab, draft, agentEdits>>
    BY DEF TasksLand
  <1>2. CallsItsAgent(c) /\ TasksAsked(c)
    BY DEF AgentInv
  <1>3. c.live => c.id = selectedId
    BY <1>1, <1>2 DEF TasksAsked
  <1>4. AgentShown'
    BY <1>1, <1>3 DEF AgentInv, AgentShown, RowsAtHome, DraftAtHome, TasksAtHome
  <1>5. agentCalls' \subseteq agentCalls
    BY <1>1
  <1>6. AtMost(agentCalls, MaxAgentCalls)'
    BY <1>5, PartAtMost, AgentBounds DEF AgentInv
  <1>7. \A d \in agentCalls' : (CallsItsAgent(d) /\ TasksAsked(d))'
    BY <1>1, <1>5 DEF AgentInv, TasksAsked
  <1> QED BY <1>1, <1>4, <1>6, <1>7 DEF AgentInv, RowsAtHome

\* AgentsPage: every row, draft and call is of the agent it was opened for, and the
\* tasks listed were asked for by the tab that is shown.
LEMMA AgentInvariant == AgentSpec => []AgentInv
  <1>1. ASSUME AgentInv, UNCHANGED agentVars PROVE AgentInv'
    BY <1>1 DEF agentVars, AgentInv, AgentShown, RowsAtHome, DraftAtHome, TasksAtHome, TasksAsked
  <1>2. AgentInv /\ [AgentNext]_agentVars => AgentInv'
    BY <1>1, ShowSteps, TabStep, AgentTypeSteps, StartSteps, AgentWritten, AgentOtherSteps, TasksStep DEF AgentNext
  <1> QED BY <1>2, AgentStart, PTL DEF AgentSpec

-----------------------------------------------------------------------------
(* The skills *)

SkillOps == {"get", "refresh", "update", "delete", "create"}
SkillList == [SkillIds -> Skill]
SkillCallType == [op : SkillOps, id : SkillIds, text : Text, files : SUBSET File, list : SkillList \cup {<<>>},
                  others : SUBSET SkillIds, live : BOOLEAN, done : BOOLEAN]

\* Texts and files of a list are of their skills, and its skills were made.
SkillHome(row, k) == row.text.for = k /\ \A f \in row.files : f.for = k
HomeList(list) == list \in SkillList /\ (\A k \in SkillIds : SkillHome(list[k], k)) /\ Listed(list) \subseteq used
\* Files of a skill, all that must be there -- or it was saved without them.
FilesOf(k)   == {f \in expected : f.for = k}
Covers(k, F) == k \in blind \/ FilesOf(k) \subseteq F

CallHome(c)  == /\ c \in SkillCallType /\ SkillHome(c, c.id)
                /\ c.op = "refresh" => HomeList(c.list)
CallKnown(c) == IF c.op = "create" /\ ~c.done THEN c.id \notin used ELSE c.op = "refresh" \/ c.id \in used
CallCovers(c) == (c.op = "update" /\ ~c.done) \/ (c.op = "get" /\ c.done) => Covers(c.id, c.files)
CallHere(c)  == c.op = "get" /\ c.live => c.id = selected
OneCreation(C) == \A c, d \in C : c.op = "create" /\ d.op = "create" => c = d
CallsFine == /\ AtMost(skillCalls, MaxSkillCalls) /\ OneCreation(skillCalls)
             /\ \A c \in skillCalls : CallHome(c) /\ CallKnown(c) /\ CallCovers(c) /\ CallHere(c)

ListsFine  == used \in SUBSET SkillIds /\ HomeList(held) /\ HomeList(skills)
StoredFine == /\ expected \in SUBSET File /\ blind \in SUBSET SkillIds /\ (\A f \in expected : f.for \in used)
              /\ \A k \in SkillIds : Covers(k, held[k].files)
DetailFine == /\ skillId \in 0..NSkills /\ text \in Text /\ files \in SUBSET File
              /\ loadingFiles \in BOOLEAN /\ whole \in BOOLEAN
              /\ selected # 0 => text.for = selected /\ \A f \in files : f.for = selected
              /\ selected # 0 /\ whole => Covers(selected, files)
EditsFine == skillEdits \in 0..MaxSkillEdits
SkillInv  == ListsFine /\ StoredFine /\ DetailFine /\ CallsFine /\ EditsFine

LEMMA SkillBounds == NSkills \in Nat \ {0} /\ MaxSkillCalls \in Nat /\ MaxSkillEdits \in Nat
  BY SkillAssumption

LEMMA SkillPlaces == 0 \notin SkillIds /\ SkillIds \subseteq 0..NSkills /\ 0 \in 0..NSkills /\ 1 \in SkillIds
  BY SkillBounds DEF SkillIds

LEMMA SelectedListed == selected # 0 => selected \in SkillIds /\ selected = skillId /\ skills[selected].made
  BY SkillPlaces DEF selected, Listed

LEMMA FirstSkill == ASSUME NEW S \in SUBSET SkillIds, S # {} PROVE Min(S) \in S
  <1>1. S \in SUBSET Nat
    BY SkillBounds DEF SkillIds
  <1>2. \E x \in S : \A y \in S : x <= y
    BY <1>1, LeastOfNaturals
  <1> QED BY <1>2 DEF Min

LEMMA NewText == ASSUME NEW k \in SkillIds PROVE FirstText(k) \in Text /\ FirstText(k).for = k
  BY DEF FirstText, Text

LEMMA NewRow == ASSUME NEW k \in SkillIds PROVE NoSkill(k) \in Skill /\ SkillHome(NoSkill(k), k) /\ ~NoSkill(k).made
  BY NewText DEF NoSkill, Skill, SkillHome

LEMMA SkillStarts == ASSUME SkillInit PROVE SkillInv
  <1>1. PICK made \in SUBSET SkillIds :
      held = [k \in SkillIds |-> [NoSkill(k) EXCEPT !.made = k \in made,
                 !.files = IF k \in made THEN [for : {k}, path : Paths] ELSE {}]]
    BY DEF SkillInit
  <1>2. ASSUME NEW k \in SkillIds PROVE held[k] \in Skill /\ SkillHome(held[k], k)
    <2> DEFINE F == IF k \in made THEN [for : {k}, path : Paths] ELSE {}
    <2>1. F \in SUBSET File /\ \A f \in F : f.for = k
      BY DEF File
    <2>2. held[k] = [NoSkill(k) EXCEPT !.made = k \in made, !.files = F]
      BY <1>1
    <2>3. (k \in made) \in BOOLEAN
      OBVIOUS
    <2> HIDE DEF F
    <2> PICK b \in BOOLEAN : b = (k \in made)
      BY <2>3
    <2>4. held[k] = [NoSkill(k) EXCEPT !.made = b, !.files = F]
      BY <2>2
    <2> QED BY <2>1, <2>4, NewRow DEF Skill, SkillHome
  <1>3. used = Listed(held) /\ used \in SUBSET SkillIds
    BY DEF SkillInit, Listed
  <1>4. HomeList(held)
    BY <1>1, <1>2, <1>3 DEF HomeList, SkillList
  <1>5. HomeList(skills)
    <2>1. skills = [k \in SkillIds |-> [held[k] EXCEPT !.files = {}]]
      BY DEF SkillInit
    <2>2. ASSUME NEW k \in SkillIds
          PROVE  skills[k] \in Skill /\ SkillHome(skills[k], k) /\ skills[k].made = held[k].made
      <3>1. skills[k] = [held[k] EXCEPT !.files = {}]
        BY <2>1
      <3> QED BY <1>2, <3>1 DEF Skill, SkillHome
    <2>3. skills \in SkillList
      BY <2>1, <2>2 DEF SkillList
    <2> QED BY <1>3, <2>2, <2>3 DEF HomeList, Listed
  <1>6. StoredFine
    <2>1. expected = UNION {held[k].files : k \in SkillIds} /\ blind = {}
      BY DEF SkillInit
    <2>2. ASSUME NEW f \in expected PROVE f \in File /\ f.for \in used /\ f \in held[f.for].files
      <3>1. PICK k \in SkillIds : f \in held[k].files
        BY <2>1
      <3>2. f \in File /\ f.for = k
        BY <1>2, <3>1 DEF Skill, SkillHome
      <3>3. k \in made
        BY <1>1, <3>1 DEF NoSkill
      <3>4. held[k].made
        BY <1>1, <3>3 DEF NoSkill
      <3> QED BY <1>3, <3>1, <3>2, <3>4 DEF Listed
    <2> QED BY <2>1, <2>2 DEF StoredFine, Covers, FilesOf
  <1>7. DetailFine
    <2>1. skillId = 0 /\ text = FirstText(1) /\ files = {} /\ loadingFiles = FALSE /\ whole = FALSE
      BY DEF SkillInit
    <2>2. selected = 0
      BY <2>1, SkillPlaces DEF selected
    <2> QED BY <2>1, <2>2, NewText, SkillPlaces DEF DetailFine
  <1>8. CallsFine
    <2>1. skillCalls = {}
      BY DEF SkillInit
    <2> QED BY <2>1, NoneAtMost, SkillBounds DEF CallsFine, OneCreation
  <1>9. EditsFine
    <2>1. skillEdits = 0
      BY DEF SkillInit
    <2>2. 0 \in 0..MaxSkillEdits
      BY SkillBounds
    <2> QED BY <2>1, <2>2, Zenon DEF EditsFine
  <1> QED BY <1>3, <1>4, <1>5, <1>6, <1>7, <1>8, <1>9 DEF SkillInv, ListsFine

-----------------------------------------------------------------------------
\* What of the calls a step leaves true.
LEMMA ListKept == ASSUME NEW list, HomeList(list), used \subseteq used' PROVE HomeList(list)'
  BY DEF HomeList

LEMMA CoversKept ==
  ASSUME NEW k, NEW F, Covers(k, F), blind \subseteq blind', FilesOf(k)' \subseteq FilesOf(k)
  PROVE  Covers(k, F)'
  BY DEF Covers

\* The detail left is gone: its calls stay.
LEMMA SkillDeparted ==
  ASSUME NEW C, NEW m \in Nat, AtMost(C, m), OneCreation(C),
         \A c \in C : CallHome(c) /\ CallKnown(c) /\ CallCovers(c)
  PROVE  /\ AtMost(Departed(C), m) /\ OneCreation(Departed(C))
         /\ \A d \in Departed(C) : CallHome(d) /\ CallKnown(d) /\ CallCovers(d) /\ ~d.live
  <1> DEFINE Left(c) == [c EXCEPT !.live = FALSE]
             f == [c \in C |-> Left(c)]
  <1>1. Departed(C) = {Left(c) : c \in C}
    BY DEF Departed
  <1>2. f \in [C -> {Left(c) : c \in C}] /\ \A y \in {Left(c) : c \in C} : \E x \in C : f[x] = y
    OBVIOUS
  <1> HIDE DEF f
  <1>3. AtMost(Departed(C), m)
    <2> HIDE DEF Left
    <2>1. AtMost({Left(c) : c \in C}, m)
      BY <1>2, Renamed
    <2> QED BY <1>1, <2>1
  <1>4. ASSUME NEW c \in C
        PROVE  /\ Left(c) \in SkillCallType /\ Left(c).op = c.op /\ Left(c).id = c.id /\ Left(c).text = c.text
               /\ Left(c).files = c.files /\ Left(c).list = c.list /\ Left(c).done = c.done /\ ~Left(c).live
    BY DEF CallHome, SkillCallType
  <1> HIDE DEF Left
  <1>5. OneCreation(Departed(C))
    BY <1>1, <1>4 DEF OneCreation
  <1>6. ASSUME NEW c \in C PROVE CallHome(Left(c)) /\ CallKnown(Left(c)) /\ CallCovers(Left(c))
    BY <1>4 DEF CallHome, SkillHome, CallKnown, CallCovers
  <1> QED BY <1>1, <1>3, <1>4, <1>5, <1>6

LEMMA NewSkillCall ==
  ASSUME NEW op \in SkillOps, NEW k \in SkillIds
  PROVE  /\ SkillCall(op, k) \in SkillCallType /\ SkillCall(op, k).op = op /\ SkillCall(op, k).id = k
         /\ SkillCall(op, k).list = <<>> /\ SkillCall(op, k).live /\ ~SkillCall(op, k).done
         /\ SkillHome(SkillCall(op, k), k) /\ (op # "refresh" => CallHome(SkillCall(op, k)))
  <1>1. SkillCall(op, k) \in SkillCallType
    BY NewText DEF SkillCall, SkillCallType
  <1>2. /\ SkillCall(op, k).op = op /\ SkillCall(op, k).id = k
        /\ SkillCall(op, k).list = <<>> /\ SkillCall(op, k).live /\ ~SkillCall(op, k).done
        /\ SkillCall(op, k).text = FirstText(k) /\ SkillCall(op, k).files = {}
    BY DEF SkillCall
  <1> QED BY <1>1, <1>2, NewText DEF SkillHome, CallHome

-----------------------------------------------------------------------------
\* A render.
PlaceShown(list, want) == LET w == Wanted(list, want) IN IF w \in Listed(list) THEN w ELSE 0

LEMMA PlaceIsOne ==
  ASSUME NEW list, NEW want \in 0..NSkills
  PROVE  /\ Wanted(list, want) \in 0..NSkills
         /\ PlaceShown(list, want) # 0 => PlaceShown(list, want) \in SkillIds /\ list[PlaceShown(list, want)].made
  <1> DEFINE S == Listed(list)
  <1>1. S \in SUBSET SkillIds /\ \A k \in S : list[k].made
    BY DEF Listed
  <1>2. Wanted(list, want) = IF want = 0 /\ S # {} THEN Min(S) ELSE want
    BY DEF Wanted
  <1> HIDE DEF S
  <1>3. Wanted(list, want) \in 0..NSkills
    BY <1>1, <1>2, FirstSkill, SkillPlaces
  <1>4. PlaceShown(list, want) # 0 => PlaceShown(list, want) \in S
    BY DEF PlaceShown, S
  <1> QED BY <1>1, <1>3, <1>4

\* What is shown after a render, and what of the calls is left.
LEMMA RenderDetail ==
  ASSUME ListsFine, DetailFine, NEW list, HomeList(list), NEW want \in 0..NSkills, NEW C,
         ShowsSkills(list, want, C), UNCHANGED <<expected, blind>>
  PROVE  DetailFine' /\ skills' = list /\ selected' = PlaceShown(list, want)
  <1> DEFINE k == PlaceShown(list, want)
  <1>1. /\ skills' = list /\ skillId' = Wanted(list, want)
        /\ IF k = 0 \/ k = selected
           THEN /\ text' = IF k # 0 /\ list[k].text # skills[k].text THEN list[k].text ELSE text
                /\ UNCHANGED <<files, loadingFiles, whole>>
           ELSE /\ text' = list[k].text /\ files' = list[k].files
                /\ loadingFiles' = TRUE /\ whole' = FALSE
    BY DEF ShowsSkills, PlaceShown, SameDetail
  <1>2. selected' = k
    BY <1>1 DEF selected, PlaceShown
  <1>3. skillId' \in 0..NSkills /\ (k # 0 => k \in SkillIds)
    BY <1>1, PlaceIsOne
  <1>4. k # 0 => list[k].text \in Text /\ list[k].text.for = k /\ list[k].files \in SUBSET File
                 /\ \A f \in list[k].files : f.for = k
    BY <1>3 DEF HomeList, SkillList, Skill, SkillHome
  <1> HIDE DEF k
  <1>5. CASE k = 0
    <2>1. text' = text /\ UNCHANGED <<files, loadingFiles, whole>>
      BY <1>1, <1>5
    <2> QED BY <1>1, <1>2, <1>3, <1>5, <2>1 DEF DetailFine, k
  <1>6. CASE k # 0 /\ k = selected
    <2>1. text' \in Text /\ text'.for = k
      BY <1>1, <1>4, <1>6 DEF DetailFine
    <2>2. UNCHANGED <<files, loadingFiles, whole>>
      BY <1>1, <1>6
    <2>3. whole' => Covers(selected', files')
      BY <1>2, <1>6, <2>2 DEF DetailFine, Covers, FilesOf
    <2>4. Covers(selected', files') <=> Covers(selected, files)'
      BY DEF Covers, FilesOf
    <2> QED BY <1>1, <1>2, <1>3, <1>6, <2>1, <2>2, <2>3, <2>4 DEF DetailFine, k
  <1>7. CASE k # 0 /\ k # selected
    <2>1. text' = list[k].text /\ files' = list[k].files /\ loadingFiles' = TRUE /\ whole' = FALSE
      BY <1>1, <1>7
    <2> QED BY <1>1, <1>2, <1>3, <1>4, <1>7, <2>1 DEF DetailFine, k
  <1> QED BY <1>5, <1>6, <1>7

LEMMA RenderCalls ==
  ASSUME CallsFine, ListsFine, NEW list, HomeList(list), NEW want \in 0..NSkills, NEW C \in SUBSET skillCalls,
         ShowsSkills(list, want, C), selected' = PlaceShown(list, want), UNCHANGED <<used, expected, blind>>
  PROVE  CallsFine'
  <1> DEFINE k == PlaceShown(list, want)
  <1>1. IF k = 0 \/ k = selected
        THEN skillCalls' = IF k = selected THEN C ELSE Departed(C)
        ELSE SkillSends(Departed(C), SkillCall("get", k))
    BY DEF ShowsSkills, PlaceShown, SameDetail
  <1>2. k # 0 => k \in SkillIds /\ k \in used
    BY PlaceIsOne DEF HomeList, Listed
  <1>3. AtMost(C, MaxSkillCalls) /\ OneCreation(C)
        /\ \A c \in C : CallHome(c) /\ CallKnown(c) /\ CallCovers(c) /\ CallHere(c)
    BY PartAtMost, SkillBounds DEF CallsFine, OneCreation
  <1>4. /\ AtMost(Departed(C), MaxSkillCalls) /\ OneCreation(Departed(C))
        /\ \A d \in Departed(C) : CallHome(d) /\ CallKnown(d) /\ CallCovers(d) /\ ~d.live
    BY <1>3, SkillDeparted, SkillBounds
  <1>5. ASSUME NEW c
        PROVE  /\ CallHome(c) => CallHome(c)' /\ (CallKnown(c) => CallKnown(c)') /\ (CallCovers(c) => CallCovers(c)')
    BY DEF CallHome, HomeList, CallKnown, CallCovers, Covers, FilesOf
  <1> HIDE DEF k
  <1>6. CASE k = selected
    <2>1. skillCalls' = C
      BY <1>1, <1>6
    <2>2. \A c \in C : CallHere(c)'
      BY <1>3, <1>6 DEF CallHere, k
    <2> QED BY <1>3, <1>5, <2>1, <2>2 DEF CallsFine
  <1>7. CASE k = 0 /\ k # selected
    <2>1. skillCalls' = Departed(C)
      BY <1>1, <1>7
    <2> QED BY <1>4, <1>5, <2>1 DEF CallsFine, CallHere
  <1>8. CASE k # 0 /\ k # selected
    <2> DEFINE g == SkillCall("get", k)
    <2>1. Cardinality(Departed(C)) < MaxSkillCalls /\ skillCalls' = Departed(C) \cup {g}
      BY <1>1, <1>8 DEF SkillSends
    <2>2. CallHome(g) /\ g.op = "get" /\ g.id = k /\ ~g.done
      BY <1>2, <1>8, NewSkillCall DEF SkillOps
    <2>3. CallKnown(g) /\ CallCovers(g)
      BY <1>2, <1>8, <2>2 DEF CallKnown, CallCovers
    <2>4. CallHere(g)'
      BY <2>2 DEF CallHere, k
    <2> HIDE DEF g
    <2>5. AtMost(Departed(C) \cup {g}, MaxSkillCalls)
      BY <1>4, <2>1, OneMore, SkillBounds DEF AtMost
    <2>6. OneCreation(Departed(C) \cup {g})
      BY <1>4, <2>2 DEF OneCreation
    <2> QED BY <1>4, <1>5, <2>1, <2>2, <2>3, <2>4, <2>5, <2>6 DEF CallsFine, CallHere
  <1> QED BY <1>6, <1>7, <1>8

LEMMA SkillShown ==
  ASSUME SkillInv, NEW list, HomeList(list), NEW want \in 0..NSkills, NEW C \in SUBSET skillCalls,
         ShowsSkills(list, want, C), UNCHANGED <<held, used, skillEdits, expected, blind>>
  PROVE  SkillInv'
  <1>1. DetailFine' /\ skills' = list /\ selected' = PlaceShown(list, want)
    BY RenderDetail DEF SkillInv
  <1>2. CallsFine'
    BY <1>1, RenderCalls DEF SkillInv
  <1>3. ListsFine'
    BY <1>1 DEF SkillInv, ListsFine, HomeList
  <1>4. StoredFine' /\ EditsFine'
    BY DEF SkillInv, StoredFine, EditsFine, Covers, FilesOf
  <1> QED BY <1>1, <1>2, <1>3, <1>4 DEF SkillInv

-----------------------------------------------------------------------------
\* What the user does.
LEMMA SelectStep == ASSUME SkillInv, SelectSkill PROVE SkillInv'
  <1>1. PICK k \in Listed(skills) \cup {0} :
          ShowsSkills(skills, k, skillCalls) /\ UNCHANGED <<held, used, skillEdits, expected, blind>>
    BY DEF SelectSkill
  <1>2. k \in 0..NSkills
    BY SkillPlaces DEF Listed
  <1>3. HomeList(skills)
    BY DEF SkillInv, ListsFine
  <1> QED BY <1>1, <1>2, <1>3, SkillShown

\* The calls, when nothing they depend on moves, and when one is sent.
LEMMA CallsStay ==
  ASSUME CallsFine, ListsFine, NEW C \in SUBSET skillCalls, skillCalls' = C, used' = used,
         selected' = selected, blind \subseteq blind', expected' \subseteq expected
  PROVE  CallsFine'
  <1>1. AtMost(C, MaxSkillCalls) /\ OneCreation(C)
    BY PartAtMost, SkillBounds DEF CallsFine, OneCreation
  <1>2. ASSUME NEW c
        PROVE  /\ CallHome(c) => CallHome(c)' /\ (CallKnown(c) => CallKnown(c)') /\ (CallCovers(c) => CallCovers(c)')
               /\ CallHere(c) => CallHere(c)'
    BY DEF CallHome, HomeList, CallKnown, CallCovers, Covers, FilesOf, CallHere
  <1> QED BY <1>1, <1>2 DEF CallsFine

LEMMA SkillSent ==
  ASSUME CallsFine, ListsFine, NEW c, SkillSends(skillCalls, c), used' = used,
         selected' = selected, blind \subseteq blind', expected' \subseteq expected,
         CallHome(c), CallKnown(c), CallHere(c), CallCovers(c)', c.op = "create" => ~\E d \in skillCalls : d.op = "create"
  PROVE  CallsFine'
  <1>1. IsFiniteSet(skillCalls) /\ OneCreation(skillCalls)
    BY DEF CallsFine, AtMost
  <1>2. Cardinality(skillCalls) < MaxSkillCalls /\ skillCalls' = skillCalls \cup {c}
    BY DEF SkillSends
  <1>3. AtMost(skillCalls \cup {c}, MaxSkillCalls)
    BY <1>1, <1>2, OneMore, SkillBounds
  <1>4. OneCreation(skillCalls \cup {c})
    BY <1>1 DEF OneCreation
  <1>5. ASSUME NEW d
        PROVE  /\ CallHome(d) => CallHome(d)' /\ (CallKnown(d) => CallKnown(d)') /\ (CallCovers(d) => CallCovers(d)')
               /\ CallHere(d) => CallHere(d)'
    BY DEF CallHome, HomeList, CallKnown, CallCovers, Covers, FilesOf, CallHere
  <1>6. \A d \in skillCalls' : (CallHome(d) /\ CallKnown(d) /\ CallCovers(d) /\ CallHere(d))'
    BY <1>2, <1>5 DEF CallsFine
  <1> QED BY <1>2, <1>3, <1>4, <1>6 DEF CallsFine

LEMMA ListsStay == ASSUME ListsFine, UNCHANGED <<held, used, skills>> PROVE ListsFine'
  BY DEF ListsFine, HomeList

LEMMA StoredStays ==
  ASSUME StoredFine, UNCHANGED <<held, used>>, expected' \subseteq expected, blind \subseteq blind',
         blind' \in SUBSET SkillIds
  PROVE  StoredFine'
  BY DEF StoredFine, Covers, FilesOf

LEMMA DetailStays ==
  ASSUME DetailFine, UNCHANGED <<skills, skillId, detailVars>>, expected' \subseteq expected, blind \subseteq blind'
  PROVE  DetailFine' /\ selected' = selected
  <1>1. selected' = selected
    BY DEF selected
  <1>2. Covers(selected, files) => Covers(selected, files)'
    BY <1>1 DEF Covers, FilesOf, detailVars
  <1> QED BY <1>1, <1>2 DEF DetailFine, detailVars

LEMMA SkillCounted == ASSUME EditsFine, SkillCounts PROVE EditsFine'
  BY SkillBounds DEF EditsFine, SkillCounts

LEMMA SkillTypeSteps == ASSUME SkillInv, EditText \/ AddFile \/ DeleteFile PROVE SkillInv'
  <1>1. UNCHANGED <<held, used, skills, skillId, loadingFiles, skillCalls, skillEdits, whole, blind>> /\ expected' \subseteq expected
    BY DEF EditText, AddFile, DeleteFile
  <1>2. selected' = selected /\ selected # 0 /\ selected \in SkillIds
    BY <1>1, SelectedListed DEF selected, EditText, AddFile, DeleteFile
  <1>3. ListsFine' /\ StoredFine' /\ CallsFine' /\ EditsFine'
    BY <1>1, <1>2, ListsStay, StoredStays, CallsStay DEF SkillInv, StoredFine, EditsFine
  <1>4. CASE EditText
    <2>1. text' \in Text /\ text'.for = selected /\ UNCHANGED <<files, expected>>
      BY <1>2, <1>4 DEF EditText, Text
    <2>2. Covers(selected, files) => Covers(selected, files)'
      BY <1>1, <1>2, <2>1 DEF Covers, FilesOf
    <2>3. DetailFine'
      BY <1>1, <1>2, <2>1, <2>2 DEF SkillInv, DetailFine
    <2> QED BY <1>3, <2>3 DEF SkillInv
  <1>5. CASE AddFile
    <2>1. PICK p \in Paths : files' = files \cup {[for |-> selected, path |-> p]}
      BY <1>5 DEF AddFile
    <2>2. files' \in SUBSET File /\ (\A f \in files' : f.for = selected) /\ files \subseteq files'
      BY <1>2, <2>1 DEF SkillInv, DetailFine, File
    <2>3. UNCHANGED <<text, expected>>
      BY <1>5 DEF AddFile
    <2>4. Covers(selected, files) => Covers(selected, files)'
      BY <1>1, <1>2, <2>2, <2>3 DEF Covers, FilesOf
    <2>5. DetailFine'
      BY <1>1, <1>2, <2>2, <2>3, <2>4 DEF SkillInv, DetailFine
    <2> QED BY <1>3, <2>5 DEF SkillInv
  <1>6. CASE DeleteFile
    <2>1. PICK g \in files : files' = files \ {g} /\ expected' = expected \ {g} /\ text' = text
      BY <1>6 DEF DeleteFile
    <2>2. files' \in SUBSET File /\ (\A f \in files' : f.for = selected)
      BY <1>2, <2>1 DEF SkillInv, DetailFine
    <2>4. Covers(selected, files) => Covers(selected, files)'
      BY <1>1, <1>2, <2>1 DEF Covers, FilesOf
    <2>5. DetailFine'
      BY <1>1, <1>2, <2>1, <2>2, <2>4 DEF SkillInv, DetailFine
    <2> QED BY <1>3, <2>5 DEF SkillInv
  <1> QED BY <1>4, <1>5, <1>6

LEMMA SaveStep == ASSUME SkillInv, SaveSkill PROVE SkillInv'
  <1> PICK c : c = [SkillCall("update", selected) EXCEPT !.text = text, !.files = files]
    OBVIOUS
  <1>1. /\ selected # 0 /\ SkillCounts /\ SkillSends(skillCalls, c)
        /\ blind' = (IF whole THEN blind ELSE blind \cup {selected})
        /\ UNCHANGED <<held, used, skills, skillId, detailVars, expected>>
    BY DEF SaveSkill
  <1>2. selected \in SkillIds /\ selected \in used
    BY <1>1, SelectedListed DEF SkillInv, ListsFine, HomeList, Listed
  <1>3. blind \subseteq blind' /\ blind' \in SUBSET SkillIds
    BY <1>1, <1>2 DEF SkillInv, StoredFine
  <1>4. DetailFine' /\ selected' = selected
    BY <1>1, <1>3, DetailStays DEF SkillInv
  <1>5. ListsFine' /\ StoredFine' /\ EditsFine'
    BY <1>1, <1>3, ListsStay, StoredStays, SkillCounted DEF SkillInv
  <1>6. c \in SkillCallType /\ c.op = "update" /\ c.id = selected /\ c.text = text /\ c.files = files
    <2>1. text \in Text /\ files \in SUBSET File
      BY DEF SkillInv, DetailFine
    <2> QED BY <1>2, <2>1, NewText DEF SkillCall, SkillOps, SkillCallType
  <1>7. CallHome(c) /\ CallKnown(c) /\ CallHere(c)
    BY <1>1, <1>2, <1>6 DEF CallHome, SkillHome, CallKnown, CallHere, SkillInv, DetailFine
  <1>8. CallCovers(c)'
    <2>1. whole => Covers(selected, files)
      BY <1>1 DEF SkillInv, DetailFine
    <2>2. CASE whole
      BY <1>1, <1>6, <2>1, <2>2 DEF CallCovers, Covers, FilesOf
    <2>3. CASE ~whole
      BY <1>1, <1>6, <2>3 DEF CallCovers, Covers
    <2> QED BY <2>2, <2>3
  <1>9. CallsFine'
    BY <1>1, <1>3, <1>4, <1>6, <1>7, <1>8, SkillSent DEF SkillInv
  <1> QED BY <1>4, <1>5, <1>9 DEF SkillInv

LEMMA SkillSendSteps == ASSUME SkillInv, DeleteSkill \/ CreateSkill \/ RefreshSkills PROVE SkillInv'
  <1>1. UNCHANGED <<held, used, skills, skillId, detailVars, expected, blind>> /\ EditsFine'
    BY SkillCounted DEF DeleteSkill, CreateSkill, RefreshSkills, SkillInv, EditsFine
  <1>2. DetailFine' /\ selected' = selected /\ ListsFine' /\ StoredFine'
    BY <1>1, DetailStays, ListsStay, StoredStays DEF SkillInv, StoredFine
  <1>3. CASE DeleteSkill
    <2> PICK c : c = [SkillCall("delete", selected) EXCEPT !.live = FALSE, !.others = Listed(skills) \ {selected}]
      OBVIOUS
    <2>1. selected # 0 /\ SkillSends(skillCalls, c)
      BY <1>3 DEF DeleteSkill
    <2>2. selected \in SkillIds /\ selected \in used /\ Listed(skills) \ {selected} \in SUBSET SkillIds
      BY <2>1, SelectedListed DEF SkillInv, ListsFine, HomeList, Listed
    <2>3. c \in SkillCallType /\ c.op = "delete" /\ c.id = selected /\ SkillHome(c, selected)
      BY <2>2, NewText DEF SkillCall, SkillOps, SkillCallType, SkillHome
    <2>4. CallHome(c) /\ CallKnown(c) /\ CallHere(c) /\ CallCovers(c)'
      BY <2>2, <2>3 DEF CallHome, CallKnown, CallHere, CallCovers
    <2>5. CallsFine'
      BY <1>1, <1>2, <2>1, <2>3, <2>4, SkillSent DEF SkillInv
    <2> QED BY <1>1, <1>2, <2>5 DEF SkillInv
  <1>4. CASE CreateSkill
    <2>1. PICK k \in SkillIds \ used, imported \in SUBSET Paths :
            SkillSends(skillCalls, [SkillCall("create", k) EXCEPT !.live = FALSE, !.files = [for : {k}, path : imported]])
      BY <1>4 DEF CreateSkill
    <2> DEFINE F == [for : {k}, path : imported]
    <2> PICK c : c = [SkillCall("create", k) EXCEPT !.live = FALSE, !.files = F]
      OBVIOUS
    <2>2. SkillSends(skillCalls, c) /\ ~\E d \in skillCalls : d.op = "create"
      BY <1>4, <2>1 DEF CreateSkill
    <2>3. F \in SUBSET File /\ \A f \in F : f.for = k
      BY DEF File
    <2> HIDE DEF F
    <2>4. c \in SkillCallType /\ c.op = "create" /\ c.id = k /\ SkillHome(c, k) /\ ~c.done
      BY <2>3, NewText DEF SkillCall, SkillOps, SkillCallType, SkillHome
    <2>5. CallHome(c) /\ CallKnown(c) /\ CallHere(c) /\ CallCovers(c)'
      BY <2>4 DEF CallHome, CallKnown, CallHere, CallCovers
    <2>6. CallsFine'
      BY <1>1, <1>2, <2>2, <2>4, <2>5, SkillSent DEF SkillInv
    <2> QED BY <1>1, <1>2, <2>6 DEF SkillInv
  <1>5. CASE RefreshSkills
    <2> PICK c : c = [SkillCall("refresh", 1) EXCEPT !.live = FALSE, !.list = skills]
      OBVIOUS
    <2>1. SkillSends(skillCalls, c)
      BY <1>5 DEF RefreshSkills
    <2>2. HomeList(skills)
      BY DEF SkillInv, ListsFine
    <2>3. c \in SkillCallType /\ c.op = "refresh" /\ c.id = 1 /\ SkillHome(c, 1) /\ c.list = skills
      BY <2>2, SkillPlaces, NewText DEF SkillCall, SkillOps, SkillCallType, SkillHome, HomeList
    <2>4. CallHome(c) /\ CallKnown(c) /\ CallHere(c) /\ CallCovers(c)'
      BY <2>2, <2>3 DEF CallHome, CallKnown, CallHere, CallCovers
    <2>5. CallsFine'
      BY <1>1, <1>2, <2>1, <2>3, <2>4, SkillSent DEF SkillInv
    <2> QED BY <1>1, <1>2, <2>5 DEF SkillInv
  <1> QED BY <1>3, <1>4, <1>5

-----------------------------------------------------------------------------
\* The server, and the others.
LEMMA RewriteStep == ASSUME SkillInv, OthersRewrite PROVE SkillInv'
  <1>1. PICK k \in Listed(held) : held' = [held EXCEPT ![k].text.by = "other"]
    BY DEF OthersRewrite
  <1>2. UNCHANGED <<used, skills, skillId, detailVars, skillCalls, expected, blind>> /\ EditsFine'
    BY SkillCounted DEF OthersRewrite, SkillInv
  <1>3. k \in SkillIds
    BY DEF Listed
  <1>4. HomeList(held)' /\ \A j \in SkillIds : held'[j].files = held[j].files
    <2>1. held[k] \in Skill /\ SkillHome(held[k], k)
      BY <1>3 DEF SkillInv, ListsFine, HomeList, SkillList
    <2> PICK t : t = [held[k].text EXCEPT !.by = "other"]
      OBVIOUS
    <2> PICK row : row = [held[k] EXCEPT !.text = t]
      OBVIOUS
    <2>2. t \in Text /\ t.for = k
      BY <2>1 DEF Skill, SkillHome, Text
    <2>3. row \in Skill /\ SkillHome(row, k) /\ row.files = held[k].files /\ row.made = held[k].made
      BY <2>1, <2>2 DEF Skill, SkillHome
    <2>4. held' = [held EXCEPT ![k] = row]
      BY <1>1, <1>3 DEF SkillInv, ListsFine, HomeList, SkillList
    <2> QED BY <1>2, <1>3, <2>3, <2>4 DEF SkillInv, ListsFine, HomeList, SkillList, Listed
  <1>5. ListsFine'
    BY <1>2, <1>4 DEF SkillInv, ListsFine, HomeList
  <1>6. StoredFine'
    BY <1>2, <1>4 DEF SkillInv, StoredFine, Covers, FilesOf
  <1>7. DetailFine' /\ selected' = selected
    BY <1>2, DetailStays DEF SkillInv
  <1>8. CallsFine'
    BY <1>2, <1>7, CallsStay DEF SkillInv
  <1> QED BY <1>2, <1>5, <1>6, <1>7, <1>8 DEF SkillInv

LEMMA SkillFailStep == ASSUME SkillInv, SkillFails PROVE SkillInv'
  <1>1. PICK c \in skillCalls :
    /\ skillCalls' = skillCalls \ {c} /\ loadingFiles' = (loadingFiles /\ ~(c.op = "get" /\ c.live))
    /\ UNCHANGED <<held, used, skills, skillId, text, files, whole, skillEdits, expected, blind>>
    BY DEF SkillFails
  <1>2. selected' = selected
    BY <1>1 DEF selected
  <1>3. ListsFine' /\ StoredFine' /\ EditsFine'
    BY <1>1, ListsStay, StoredStays DEF SkillInv, StoredFine, EditsFine
  <1>4. CallsFine'
    BY <1>1, <1>2, CallsStay DEF SkillInv
  <1>5. DetailFine'
    <2>1. loadingFiles' \in BOOLEAN
      BY <1>1, Zenon
    <2>2. Covers(selected, files) => Covers(selected, files)'
      BY <1>1, <1>2 DEF Covers, FilesOf
    <2> QED BY <1>1, <1>2, <2>1, <2>2 DEF SkillInv, DetailFine
  <1> QED BY <1>3, <1>4, <1>5 DEF SkillInv

\* The call answered is another; those of the others keep what they promise.
LEMMA OneAnswered ==
  ASSUME CallsFine, NEW c \in skillCalls, NEW d, d.op = c.op, skillCalls' = (skillCalls \ {c}) \cup {d},
         (CallHome(d) /\ CallKnown(d) /\ CallCovers(d) /\ CallHere(d))',
         used \subseteq used', used' = used \/ (c.op = "create" /\ used' = used \cup {c.id}),
         selected' = selected, blind' = blind, \A k \in used : FilesOf(k)' \subseteq FilesOf(k)
  PROVE  CallsFine'
  <1>1. AtMost((skillCalls \ {c}) \cup {d}, MaxSkillCalls)
    BY OneSwapped, SkillBounds DEF CallsFine
  <1>2. OneCreation((skillCalls \ {c}) \cup {d})
    BY DEF CallsFine, OneCreation
  <1>3. ASSUME NEW e \in skillCalls \ {c} PROVE (CallHome(e) /\ CallKnown(e) /\ CallCovers(e) /\ CallHere(e))'
    <2>1. CallHome(e) /\ CallKnown(e) /\ CallCovers(e) /\ CallHere(e)
      BY DEF CallsFine
    <2>2. CallHome(e)'
      BY <2>1, ListKept DEF CallHome
    <2>3. e.op = "create" => used' = used
      BY DEF CallsFine, OneCreation
    <2>4. CallKnown(e)'
      BY <2>1, <2>3 DEF CallKnown
    <2>5. CallCovers(e)'
      BY <2>1, CoversKept DEF CallKnown, CallCovers
    <2>6. CallHere(e)'
      BY <2>1 DEF CallHere
    <2> QED BY <2>2, <2>4, <2>5, <2>6
  <1> QED BY <1>1, <1>2, <1>3 DEF CallsFine

LEMMA SelectedGiven == ASSUME ListsFine, selected # 0 PROVE selected \in used
  BY SelectedListed DEF ListsFine, HomeList, Listed

LEMMA ServedRefresh ==
  ASSUME SkillInv, NEW c \in skillCalls, c.op = "refresh", held' = held,
         skillCalls' = (skillCalls \ {c}) \cup {[c EXCEPT !.done = TRUE,
                 !.list = [k \in SkillIds |-> [held[k] EXCEPT !.files = c.list[k].files]]]},
         UNCHANGED <<used, expected, skills, skillId, detailVars, skillEdits, blind>>
  PROVE  SkillInv'
  <1>1. DetailFine' /\ selected' = selected /\ ListsFine' /\ StoredFine' /\ EditsFine'
    BY DetailStays, ListsStay, StoredStays DEF SkillInv, StoredFine, EditsFine
  <1> PICK list : list = [k \in SkillIds |-> [held[k] EXCEPT !.files = c.list[k].files]]
    OBVIOUS
  <1> PICK d : d = [c EXCEPT !.done = TRUE, !.list = list]
    OBVIOUS
  <1>2. CallHome(c) /\ CallKnown(c) /\ CallHere(c) /\ HomeList(c.list) /\ HomeList(held)
    BY DEF SkillInv, CallsFine, ListsFine, CallHome
  <1>3. HomeList(list)
    <2>1. ASSUME NEW k \in SkillIds
          PROVE  list[k] \in Skill /\ SkillHome(list[k], k) /\ list[k].made = held[k].made
      <3>1. list[k] = [held[k] EXCEPT !.files = c.list[k].files]
        OBVIOUS
      <3>2. held[k] \in Skill /\ c.list[k] \in Skill /\ SkillHome(held[k], k) /\ SkillHome(c.list[k], k)
        BY <1>2 DEF HomeList, SkillList
      <3> QED BY <3>1, <3>2 DEF Skill, SkillHome
    <2>2. list \in SkillList
      BY <2>1 DEF SkillList
    <2> QED BY <1>2, <2>1, <2>2 DEF HomeList, Listed
  <1>4. d \in SkillCallType /\ d.op = "refresh" /\ d.id = c.id /\ d.text = c.text /\ d.files = c.files /\ d.list = list
    BY <1>2, <1>3 DEF CallHome, SkillCallType, HomeList
  <1>5. (CallHome(d) /\ CallKnown(d) /\ CallCovers(d) /\ CallHere(d))'
    <2>1. CallHome(d)
      BY <1>2, <1>3, <1>4 DEF CallHome, SkillHome
    <2>2. CallHome(d)'
      BY <2>1, ListKept DEF CallHome
    <2> QED BY <1>4, <2>2 DEF CallKnown, CallCovers, CallHere
  <1>6. skillCalls' = (skillCalls \ {c}) \cup {d} /\ \A k \in used : FilesOf(k)' \subseteq FilesOf(k)
    BY DEF FilesOf
  <1>7. CallsFine'
    BY <1>1, <1>4, <1>5, <1>6, OneAnswered DEF SkillInv
  <1> QED BY <1>1, <1>7 DEF SkillInv

ServedRow(c) ==
  CASE c.op = "get" -> held[c.id]
    [] c.op \in {"update", "create"} -> [made |-> TRUE, text |-> c.text, files |-> c.files]
    [] c.op = "delete" -> NoSkill(c.id)

LEMMA ServedOther ==
  ASSUME SkillInv, NEW c \in skillCalls, c.op # "refresh", ~c.done,
         held' = [held EXCEPT ![c.id] = ServedRow(c)], skillCalls' = (skillCalls \ {c}) \cup {SkillAnswer(c)},
         used' = IF c.op = "create" THEN used \cup {c.id} ELSE used,
         expected' = CASE c.op = "delete" -> {f \in expected : f.for # c.id}
                       [] c.op = "create" -> expected \cup c.files
                       [] OTHER           -> expected,
         UNCHANGED <<skills, skillId, detailVars, skillEdits, blind>>
  PROVE  SkillInv'
  <1> PICK row : row = ServedRow(c)
    OBVIOUS
  <1>1. CallHome(c) /\ CallKnown(c) /\ CallCovers(c) /\ CallHere(c) /\ c.id \in SkillIds
    BY DEF SkillInv, CallsFine, CallHome, SkillCallType
  <1>2. /\ c.op \in {"get", "update", "delete", "create"} /\ c.text \in Text /\ c.files \in SUBSET File
        /\ SkillHome(c, c.id)
    BY <1>1 DEF CallHome, SkillCallType, SkillOps
  <1>3. held \in SkillList /\ HomeList(held) /\ used \in SUBSET SkillIds
    BY DEF SkillInv, ListsFine, HomeList
  <1>4. row \in Skill /\ SkillHome(row, c.id) /\ (row.made => c.id \in used')
    <2>1. CASE c.op = "get"
      <3>1. row = held[c.id] /\ used' = used
        BY <2>1 DEF ServedRow
      <3> QED BY <1>1, <1>3, <3>1 DEF HomeList, SkillList, Listed
    <2>2. CASE c.op \in {"update", "create"}
      <3>1. row = [made |-> TRUE, text |-> c.text, files |-> c.files]
        BY <2>2 DEF ServedRow
      <3>2. c.id \in used'
        BY <1>1, <2>2 DEF CallKnown
      <3> QED BY <1>2, <3>1, <3>2 DEF Skill, SkillHome
    <2>3. CASE c.op = "delete"
      <3>1. row = NoSkill(c.id)
        BY <2>3 DEF ServedRow
      <3> QED BY <1>1, <3>1, NewRow
    <2> QED BY <1>2, <2>1, <2>2, <2>3
  <1>5. used \subseteq used' /\ used' \in SUBSET SkillIds
    BY <1>1, <1>3
  <1>6. held'[c.id] = row /\ (\A k \in SkillIds : k # c.id => held'[k] = held[k])
    BY <1>1, <1>3 DEF SkillList
  <1>7. ListsFine'
    <2>1. HomeList(held)'
      BY <1>1, <1>3, <1>4, <1>5, <1>6 DEF HomeList, SkillList, Listed
    <2>2. HomeList(skills)'
      BY <1>5 DEF SkillInv, ListsFine, HomeList
    <2> QED BY <1>5, <2>1, <2>2 DEF ListsFine
  <1>8. /\ expected' \in SUBSET File /\ (\A f \in expected' : f.for \in used')
        /\ \A k : k # c.id \/ c.op # "create" => FilesOf(k)' \subseteq FilesOf(k)
    <2>1. expected \in SUBSET File /\ \A f \in expected : f.for \in used
      BY DEF SkillInv, StoredFine
    <2>2. CASE c.op = "create"
      <3>1. expected' = expected \cup c.files /\ used' = used \cup {c.id}
        BY <2>2
      <3> QED BY <1>2, <2>1, <2>2, <3>1 DEF SkillHome, FilesOf
    <2>3. CASE c.op # "create"
      <3>1. expected' \subseteq expected /\ used' = used
        BY <1>2, <2>3
      <3> QED BY <2>1, <2>3, <3>1 DEF FilesOf
    <2> QED BY <2>2, <2>3
  <1>9. \A k \in used : FilesOf(k)' \subseteq FilesOf(k)
    BY <1>1, <1>8 DEF CallKnown
  <1>10. Covers(c.id, row.files)'
    <2>1. Covers(c.id, held[c.id].files)
      BY <1>1 DEF SkillInv, StoredFine
    <2>2. CASE c.op = "get"
      <3>1. row = held[c.id]
        BY <2>2 DEF ServedRow
      <3>2. Covers(c.id, row.files)
        BY <2>1, <3>1
      <3> QED BY <1>8, <2>2, <3>2, CoversKept
    <2>3. CASE c.op = "update"
      <3>1. row.files = c.files
        BY <2>3 DEF ServedRow
      <3>2. Covers(c.id, row.files)
        BY <1>1, <2>3, <3>1 DEF CallCovers
      <3> QED BY <1>8, <2>3, <3>2, CoversKept
    <2>4. CASE c.op = "create"
      <3>1. row.files = c.files /\ expected' = expected \cup c.files
        BY <2>4 DEF ServedRow
      <3>2. c.id \notin used /\ \A f \in expected : f.for \in used
        BY <1>1, <2>4 DEF CallKnown, SkillInv, StoredFine
      <3> QED BY <3>1, <3>2 DEF Covers, FilesOf
    <2>5. CASE c.op = "delete"
      <3>1. expected' = {f \in expected : f.for # c.id}
        BY <2>5
      <3> QED BY <3>1 DEF Covers, FilesOf
    <2> QED BY <1>2, <2>2, <2>3, <2>4, <2>5
  <1>11. StoredFine'
    <2>1. ASSUME NEW k \in SkillIds PROVE Covers(k, held[k].files)'
      <3>1. CASE k = c.id
        <4>1. held'[k].files = row.files
          BY <1>6, <3>1
        <4> QED BY <1>10, <3>1, <4>1 DEF Covers, FilesOf
      <3>2. CASE k # c.id
        <4>1. held'[k] = held[k] /\ Covers(k, held[k].files) /\ FilesOf(k)' \subseteq FilesOf(k)
          BY <1>6, <1>8, <3>2 DEF SkillInv, StoredFine
        <4> QED BY <4>1 DEF Covers
      <3> QED BY <3>1, <3>2
    <2> QED BY <1>8, <2>1 DEF SkillInv, StoredFine
  <1>12. DetailFine' /\ selected' = selected
    <2>1. selected' = selected
      BY DEF selected
    <2>2. selected # 0 => (Covers(selected, files) => Covers(selected, files)')
      <3>1. selected # 0 => FilesOf(selected)' \subseteq FilesOf(selected)
        BY <1>9, <2>1, SelectedGiven DEF SkillInv, FilesOf
      <3> QED BY <2>1, <3>1 DEF Covers, detailVars
    <2> QED BY <2>1, <2>2 DEF SkillInv, DetailFine, detailVars
  <1> PICK d : d = [c EXCEPT !.done = TRUE, !.text = row.text, !.files = row.files]
    OBVIOUS
  <1>13. skillCalls' = (skillCalls \ {c}) \cup {d}
    BY <1>6 DEF SkillAnswer
  <1>14. /\ d \in SkillCallType /\ d.op = c.op /\ d.id = c.id /\ d.text = row.text /\ d.files = row.files
         /\ d.done /\ d.live = c.live
    BY <1>1, <1>4 DEF CallHome, SkillCallType, Skill
  <1>15. (CallHome(d) /\ CallKnown(d) /\ CallCovers(d) /\ CallHere(d))'
    <2>1. CallHome(d)'
      BY <1>4, <1>14 DEF CallHome, SkillHome
    <2>2. CallKnown(d)'
      BY <1>1, <1>14 DEF CallKnown
    <2>3. CallCovers(d)'
      BY <1>10, <1>14 DEF CallCovers
    <2>4. CallHere(d)'
      BY <1>1, <1>12, <1>14 DEF CallHere
    <2> QED BY <2>1, <2>2, <2>3, <2>4
  <1>16. CallsFine'
    BY <1>5, <1>9, <1>12, <1>13, <1>14, <1>15, OneAnswered DEF SkillInv
  <1>17. EditsFine'
    BY DEF SkillInv, EditsFine
  <1> QED BY <1>7, <1>11, <1>12, <1>16, <1>17 DEF SkillInv

LEMMA ServedStep == ASSUME SkillInv, SkillServed PROVE SkillInv'
  <1>1. PICK c \in skillCalls :
    /\ ~c.done
    /\ IF c.op = "refresh"
       THEN /\ held' = held
            /\ skillCalls' = (skillCalls \ {c}) \cup {[c EXCEPT !.done = TRUE,
                 !.list = [k \in SkillIds |-> [held[k] EXCEPT !.files = c.list[k].files]]]}
       ELSE /\ held' = [held EXCEPT ![c.id] =
                 CASE c.op = "get" -> @
                   [] c.op \in {"update", "create"} -> [made |-> TRUE, text |-> c.text, files |-> c.files]
                   [] c.op = "delete" -> NoSkill(c.id)]
            /\ skillCalls' = (skillCalls \ {c}) \cup {SkillAnswer(c)}
    /\ used' = (IF c.op = "create" THEN used \cup {c.id} ELSE used)
    /\ expected' = (CASE c.op = "delete" -> {f \in expected : f.for # c.id}
                      [] c.op = "create" -> expected \cup c.files
                      [] OTHER           -> expected)
    /\ UNCHANGED <<skills, skillId, detailVars, skillEdits, blind>>
    BY DEF SkillServed
  <1>2. CASE c.op = "refresh"
    BY <1>1, <1>2, ServedRefresh
  <1>3. CASE c.op # "refresh"
    <2>1. held' = [held EXCEPT ![c.id] = ServedRow(c)]
      BY <1>1, <1>3 DEF ServedRow
    <2> QED BY <1>1, <1>3, <2>1, ServedOther
  <1> QED BY <1>2, <1>3

-----------------------------------------------------------------------------
\* Answers land.
LEMMA UpsertedHome ==
  ASSUME ListsFine, NEW c, CallHome(c), c.id \in used
  PROVE  HomeList(Upserted(c)) /\ Upserted(c)[c.id].made /\ \A k \in SkillIds : k # c.id => Upserted(c)[k] = skills[k]
  <1> DEFINE row == [made |-> TRUE, text |-> c.text, files |-> c.files]
  <1>1. c.id \in SkillIds /\ c.text \in Text /\ c.files \in SUBSET File /\ SkillHome(c, c.id) /\ skills \in SkillList
    BY DEF CallHome, SkillCallType, ListsFine, HomeList
  <1>2. row \in Skill /\ SkillHome(row, c.id) /\ row.made
    BY <1>1 DEF Skill, SkillHome
  <1>3. Upserted(c) = [skills EXCEPT ![c.id] = row]
    BY DEF Upserted
  <1> HIDE DEF row
  <1> QED BY <1>1, <1>2, <1>3 DEF ListsFine, HomeList, SkillList, Listed

LEMMA LandSteps == ASSUME SkillInv, WholeLands \/ SavedLands \/ SkillsLand \/ DeletedLands PROVE SkillInv'
  <1>0. UNCHANGED <<held, used, skillEdits, expected, blind>> /\ skillId \in 0..NSkills
    BY DEF SkillInv, DetailFine, WholeLands, SavedLands, SkillsLand, DeletedLands
  <1>1. ASSUME NEW c \in skillCalls
        PROVE  CallHome(c) /\ CallKnown(c) /\ CallCovers(c) /\ CallHere(c) /\ c.id \in SkillIds /\ c.others \in SUBSET SkillIds
    BY DEF SkillInv, CallsFine, CallHome, SkillCallType
  <1>2. CASE WholeLands
    <2>1. PICK c \in skillCalls :
      /\ c.op = "get" /\ c.done
      /\ IF c.live
         THEN /\ skills' = Upserted(c) /\ files' = c.files /\ loadingFiles' = FALSE /\ whole' = TRUE
              /\ text' = (IF c.text # skills[c.id].text THEN c.text ELSE text)
              /\ skillCalls' = skillCalls \ {c} /\ UNCHANGED skillId
         ELSE ShowsSkills(Upserted(c), skillId, skillCalls \ {c})
      BY <1>2 DEF WholeLands
    <2>2. CallHome(c) /\ c.id \in used /\ c.id \in SkillIds
      BY <1>1, <2>1 DEF CallKnown
    <2>3. HomeList(Upserted(c)) /\ Upserted(c)[c.id].made
      BY <2>2, UpsertedHome DEF SkillInv
    <2>4. CASE ~c.live
      BY <1>0, <2>1, <2>3, <2>4, SkillShown
    <2>5. CASE c.live
      <3>1. c.id = selected /\ selected # 0 /\ selected = skillId
        BY <1>1, <2>1, <2>2, <2>5, SkillPlaces, SelectedListed DEF CallHere
      <3>2. selected' = selected
        BY <2>1, <2>2, <2>3, <2>5, <3>1 DEF selected, Listed
      <3>3. text' \in Text /\ text'.for = selected /\ files' \in SUBSET File /\ (\A f \in files' : f.for = selected)
        BY <2>1, <2>2, <2>5, <3>1 DEF SkillInv, DetailFine, CallHome, SkillHome, SkillCallType
      <3>4. Covers(selected, files)'
        <4>1. Covers(c.id, c.files)
          BY <1>1, <2>1 DEF CallCovers
        <4> QED BY <1>0, <2>1, <2>5, <3>1, <3>2, <4>1 DEF Covers, FilesOf
      <3>5. DetailFine'
        BY <1>0, <2>1, <2>5, <3>2, <3>3, <3>4 DEF DetailFine
      <3>6. CallsFine'
        BY <1>0, <2>1, <2>5, <3>2, CallsStay DEF SkillInv
      <3>7. ListsFine'
        BY <1>0, <2>1, <2>3, <2>5 DEF SkillInv, ListsFine, HomeList
      <3>8. StoredFine' /\ EditsFine'
        BY <1>0, StoredStays DEF SkillInv, StoredFine, EditsFine
      <3> QED BY <3>5, <3>6, <3>7, <3>8 DEF SkillInv
    <2> QED BY <2>4, <2>5
  <1>3. CASE SavedLands
    <2>1. PICK c \in skillCalls :
      /\ c.op \in {"update", "create"} /\ c.done
      /\ ShowsSkills(Upserted(c), IF c.op = "create" THEN c.id ELSE skillId, skillCalls \ {c})
      BY <1>3 DEF SavedLands
    <2>2. CallHome(c) /\ c.id \in used /\ c.id \in SkillIds
      BY <1>1, <2>1 DEF CallKnown
    <2>3. HomeList(Upserted(c))
      BY <2>2, UpsertedHome DEF SkillInv
    <2>4. PICK w : w = IF c.op = "create" THEN c.id ELSE skillId
      OBVIOUS
    <2>5. w \in 0..NSkills
      BY <1>0, <2>2, <2>4, SkillPlaces
    <2> QED BY <1>0, <2>1, <2>3, <2>4, <2>5, SkillShown
  <1>4. CASE SkillsLand
    <2>1. PICK c \in skillCalls : c.op = "refresh" /\ ShowsSkills(c.list, skillId, skillCalls \ {c})
      BY <1>4 DEF SkillsLand
    <2>2. HomeList(c.list)
      BY <1>1, <2>1 DEF CallHome
    <2> QED BY <1>0, <2>1, <2>2, SkillShown
  <1>5. CASE DeletedLands
    <2>1. PICK c \in skillCalls :
      ShowsSkills([skills EXCEPT ![c.id] = NoSkill(c.id)], IF c.others = {} THEN 0 ELSE Min(c.others), skillCalls \ {c})
      BY <1>5 DEF DeletedLands
    <2>2. PICK list : list = [skills EXCEPT ![c.id] = NoSkill(c.id)]
      OBVIOUS
    <2>3. HomeList(list)
      <3>1. NoSkill(c.id) \in Skill /\ SkillHome(NoSkill(c.id), c.id) /\ ~NoSkill(c.id).made /\ c.id \in SkillIds
        BY <1>1, NewRow
      <3> QED BY <2>2, <3>1 DEF SkillInv, ListsFine, HomeList, SkillList, Listed
    <2>4. PICK w : w = IF c.others = {} THEN 0 ELSE Min(c.others)
      OBVIOUS
    <2>5. w \in 0..NSkills
      BY <1>1, <2>4, FirstSkill, SkillPlaces
    <2> QED BY <1>0, <2>1, <2>2, <2>3, <2>4, <2>5, SkillShown
  <1> QED BY <1>2, <1>3, <1>4, <1>5

LEMMA SkillStands == ASSUME SkillInv, UNCHANGED skillVars PROVE SkillInv'
  <1>1. UNCHANGED <<held, used, skills, skillId, detailVars, skillCalls, skillEdits, expected, blind>>
    BY DEF skillVars, detailVars
  <1>2. DetailFine' /\ selected' = selected
    BY <1>1, DetailStays DEF SkillInv
  <1>3. CallsFine'
    BY <1>1, <1>2, CallsStay DEF SkillInv
  <1>4. ListsFine' /\ StoredFine' /\ EditsFine'
    BY <1>1, ListsStay, StoredStays DEF SkillInv, StoredFine, EditsFine
  <1> QED BY <1>2, <1>3, <1>4 DEF SkillInv

\* SkillsPage and its detail: every text, file and call is of its skill, and what a
\* save sends or a fetch brings holds every file stored and not deleted -- unless
\* the skill was saved when its files had not come.
THEOREM SkillInvariant == SkillSpec => []SkillInv
  <1>1. SkillInit => SkillInv
    BY SkillStarts
  <1>2. SkillInv /\ [SkillNext]_skillVars => SkillInv'
    BY SelectStep, SkillTypeSteps, SaveStep, SkillSendSteps, ServedStep, SkillFailStep, RewriteStep, LandSteps, SkillStands
       DEF SkillNext
  <1> QED BY <1>1, <1>2, PTL DEF SkillSpec

LEMMA SkillShows == ASSUME SkillInv PROVE SkillTypeOK /\ SkillFilesStayHome /\ SkillFilesKept
  <1>1. SkillTypeOK
    BY DEF SkillInv, ListsFine, HomeList, SkillList, StoredFine, DetailFine, CallsFine, AtMost, EditsFine, SkillTypeOK
  <1>2. SkillFilesStayHome
    BY DEF SkillInv, ListsFine, HomeList, SkillHome, Listed, DetailFine, SkillFilesStayHome
  <1>3. SkillFilesKept
    <2>1. ASSUME NEW f \in expected PROVE f.for \in blind \/ f \in held[f.for].files
      <3>1. f.for \in SkillIds
        BY DEF SkillInv, StoredFine, ListsFine
      <3>2. Covers(f.for, held[f.for].files)
        BY <3>1 DEF SkillInv, StoredFine
      <3> QED BY <3>2 DEF Covers, FilesOf
    <2> QED BY <2>1 DEF SkillFilesKept
  <1> QED BY <1>1, <1>2, <1>3

-----------------------------------------------------------------------------
(* The modals *)

ModalCallType == [op : {"create", "created", "workspace"}, ws : 1..2, assignee : Assignees, live : BOOLEAN, no : Nat]

\* The form is the draft, but for a description that has not settled.
FormFollows ==
  IF modal = "issue"
  THEN /\ formIssue.title = issueDraft.title /\ formIssue.assignee = issueDraft.assignee
       /\ descPending \/ formIssue.desc = issueDraft.desc
  ELSE formIssue = EmptyDraft /\ descPending = FALSE

Kept == IF modal = "issue" THEN formIssue ELSE issueDraft
TypedKept == wanted \in IssueDraft /\ Kept.title = wanted.title /\ Kept.desc = wanted.desc

\* An assignee elsewhere was taken along.
Taken(a, ws) == a # "none" /\ ws # 1 => carried
AllTaken ==
  /\ carried \in BOOLEAN /\ Taken(issueDraft.assignee, inWs)
  /\ \A c \in modalCalls : c \in ModalCallType /\ Taken(c.assignee, c.ws)
FormTypes ==
  /\ modal \in {"none", "issue", "workspace"} /\ formIssue \in IssueDraft /\ issueDraft \in IssueDraft
  /\ descPending \in BOOLEAN /\ submitting \in BOOLEAN /\ inWs \in 1..2
  /\ typedTexts \in 0..MaxTyped /\ callsMade \in 0..MaxModalCalls
RightsTypes == rights \in Rights /\ knownRights \in Rights
MadeAtHome == madeIssues \subseteq [ws : 1..2, assignee : Assignees] /\ AssigneesAtHome
ModalInv == FormTypes /\ RightsTypes /\ FormFollows /\ TypedKept /\ AllTaken /\ MadeAtHome

LEMMA ModalBounds == MaxTyped \in Nat /\ MaxModalCalls \in Nat
  BY ModalAssumption

LEMMA NothingIsTyped == EmptyDraft \in IssueDraft
  <1>1. 0 \in 0..MaxTyped
    BY ModalBounds
  <1> QED BY <1>1 DEF EmptyDraft, IssueDraft, Assignees, Bots

LEMMA ModalStarts == ASSUME ModalInit PROVE ModalInv
  <1>1. FormTypes
    <2>1. 0 \in 0..MaxTyped /\ 0 \in 0..MaxModalCalls /\ 1 \in 1..2
      BY ModalBounds
    <2>2. typedTexts \in 0..MaxTyped /\ callsMade \in 0..MaxModalCalls /\ inWs \in 1..2
      BY <2>1, Zenon DEF ModalInit
    <2>3. descPending \in BOOLEAN /\ submitting \in BOOLEAN
      BY DEF ModalInit
    <2> QED BY <2>2, <2>3, NothingIsTyped DEF ModalInit, FormTypes
  <1>2. RightsTypes
    BY DEF ModalInit, RightsTypes, Rights
  <1>3. FormFollows
    BY DEF ModalInit, FormFollows, EmptyDraft
  <1>4. TypedKept
    BY NothingIsTyped DEF ModalInit, TypedKept, Kept, EmptyDraft
  <1>5. AllTaken /\ MadeAtHome
    BY DEF ModalInit, AllTaken, Taken, MadeAtHome, AssigneesAtHome
  <1> QED BY <1>1, <1>2, <1>3, <1>4, <1>5 DEF ModalInv

\* A step that leaves the form and what was typed; one that leaves the issues.
LEMMA FormStays ==
  ASSUME FormTypes, FormFollows, TypedKept, UNCHANGED <<screenVars, inWs, typedTexts, callsMade, wanted>>
  PROVE  FormTypes' /\ FormFollows' /\ TypedKept'
  BY DEF FormTypes, FormFollows, TypedKept, Kept, screenVars

LEMMA MadeStays ==
  ASSUME MadeAtHome, carried => carried', UNCHANGED madeIssues
  PROVE  MadeAtHome'
  BY DEF MadeAtHome, AssigneesAtHome

LEMMA RightsStay == ASSUME RightsTypes, UNCHANGED rightsVars PROVE RightsTypes'
  BY DEF RightsTypes, rightsVars

\* The modal closes.
LEMMA Closed ==
  ASSUME FormTypes, Closes, inWs' \in 1..2, issueDraft' \in IssueDraft, UNCHANGED <<typedTexts, callsMade>>,
         wanted' \in IssueDraft, wanted'.title = issueDraft'.title, wanted'.desc = issueDraft'.desc
  PROVE  FormTypes' /\ FormFollows' /\ TypedKept'
  <1>1. FormTypes'
    BY NothingIsTyped DEF FormTypes, Closes
  <1>2. FormFollows' /\ TypedKept'
    BY DEF Closes, FormFollows, TypedKept, Kept
  <1> QED BY <1>1, <1>2

LEMMA ShutKeeps ==
  ASSUME FormTypes, FormFollows, TypedKept,
         wanted' = IF descPending THEN [wanted EXCEPT !.desc = issueDraft.desc] ELSE wanted
  PROVE  wanted' \in IssueDraft /\ wanted'.title = issueDraft.title /\ wanted'.desc = issueDraft.desc
  BY DEF FormTypes, FormFollows, TypedKept, Kept, IssueDraft

LEMMA UnmountedTaken ==
  ASSUME NEW C, \A c \in C : c \in ModalCallType /\ Taken(c.assignee, c.ws)
  PROVE  \A c \in Unmounted(C) : c \in ModalCallType /\ Taken(c.assignee, c.ws)
  BY DEF Unmounted, ModalCallType, Taken

LEMMA RightsStep == ASSUME ModalInv, RightsChange \/ RightsKnown PROVE ModalInv'
  <1>1. FormTypes' /\ FormFollows' /\ TypedKept' /\ MadeAtHome'
    BY FormStays, MadeStays DEF ModalInv, RightsChange, RightsKnown
  <1>2. AllTaken'
    BY DEF ModalInv, AllTaken, Taken, RightsChange, RightsKnown, screenVars
  <1>3. RightsTypes'
    BY DEF ModalInv, RightsTypes, RightsChange, RightsKnown, Rights, Bots
  <1> QED BY <1>1, <1>2, <1>3 DEF ModalInv

LEMMA OpenSteps == ASSUME ModalInv, OpenIssueModal \/ OpenWorkspaceModal PROVE ModalInv'
  <1>1. FormTypes'
    BY DEF ModalInv, FormTypes, OpenIssueModal, OpenWorkspaceModal
  <1>2. FormFollows'
    BY DEF ModalInv, FormFollows, OpenIssueModal, OpenWorkspaceModal
  <1>3. TypedKept'
    BY DEF ModalInv, TypedKept, Kept, OpenIssueModal, OpenWorkspaceModal
  <1>4. AllTaken'
    BY DEF ModalInv, AllTaken, Taken, OpenIssueModal, OpenWorkspaceModal
  <1>5. MadeAtHome' /\ RightsTypes'
    BY MadeStays, RightsStay DEF ModalInv, OpenIssueModal, OpenWorkspaceModal
  <1> QED BY <1>1, <1>2, <1>3, <1>4, <1>5 DEF ModalInv

LEMMA TypingSteps == ASSUME ModalInv, TypeTitle \/ TypeDescription \/ DescriptionSettles PROVE ModalInv'
  <1>0. typedTexts' \in 0..MaxTyped
    BY ModalBounds DEF ModalInv, FormTypes, TypeTitle, TypeDescription, DescriptionSettles, Typing
  <1>1. FormTypes'
    BY <1>0 DEF ModalInv, FormTypes, TypeTitle, TypeDescription, DescriptionSettles, Typing, IssueDraft
  <1>2. FormFollows'
    BY DEF ModalInv, FormTypes, FormFollows, TypeTitle, TypeDescription, DescriptionSettles, Typing, IssueDraft
  <1>3. TypedKept'
    BY <1>0 DEF ModalInv, FormTypes, FormFollows, TypedKept, Kept, TypeTitle, TypeDescription, DescriptionSettles, Typing,
                IssueDraft
  <1>4. AllTaken'
    BY DEF ModalInv, FormTypes, AllTaken, Taken, TypeTitle, TypeDescription, DescriptionSettles, Typing, IssueDraft
  <1>5. MadeAtHome' /\ RightsTypes'
    BY MadeStays, RightsStay DEF ModalInv, TypeTitle, TypeDescription, DescriptionSettles, Typing
  <1> QED BY <1>1, <1>2, <1>3, <1>4, <1>5 DEF ModalInv

LEMMA AssigneeStep == ASSUME ModalInv, UpdateAssignee PROVE ModalInv'
  <1>1. PICK a \in Assignees :
    /\ modal = "issue" /\ ModalOffers(a)
    /\ formIssue' = [formIssue EXCEPT !.assignee = a] /\ issueDraft' = [issueDraft EXCEPT !.assignee = a]
    /\ UNCHANGED <<modal, descPending, submitting, inWs, modalCalls, madeIssues, rightsVars,
                   typedTexts, callsMade, wanted, carried>>
    BY DEF UpdateAssignee
  <1>2. FormTypes' /\ FormFollows'
    BY <1>1 DEF ModalInv, FormTypes, FormFollows, IssueDraft
  <1>3. TypedKept'
    BY <1>1 DEF ModalInv, FormTypes, TypedKept, Kept, IssueDraft
  <1>4. AllTaken'
    BY <1>1 DEF ModalInv, FormTypes, AllTaken, Taken, ModalOffers, IssueDraft
  <1>5. MadeAtHome' /\ RightsTypes'
    BY <1>1, MadeStays, RightsStay DEF ModalInv
  <1> QED BY <1>2, <1>3, <1>4, <1>5 DEF ModalInv

\* The modal sends what its form says, in the workspace shown.
LEMMA SubmitSteps == ASSUME ModalInv, SubmitIssue \/ SubmitWorkspace PROVE ModalInv'
  <1>1. PICK op \in {"create", "workspace"} : Calls(op)
    BY DEF SubmitIssue, SubmitWorkspace
  <1> DEFINE c == [op |-> op, ws |-> inWs, assignee |-> formIssue.assignee, live |-> TRUE, no |-> callsMade]
  <1>2. /\ callsMade < MaxModalCalls /\ callsMade' = callsMade + 1 /\ submitting' = TRUE
        /\ modalCalls' = modalCalls \cup {c}
        /\ UNCHANGED <<modal, formIssue, descPending, issueDraft, inWs, madeIssues, rightsVars, typedTexts,
                       wanted, carried>>
    BY <1>1 DEF Calls
  <1>3. c \in ModalCallType /\ Taken(c.assignee, c.ws)
    <2>1. inWs \in 1..2 /\ formIssue.assignee \in Assignees /\ callsMade \in Nat
      BY ModalBounds DEF ModalInv, FormTypes, IssueDraft
    <2>2. c \in ModalCallType
      BY <2>1 DEF ModalCallType
    <2>3. formIssue.assignee = issueDraft.assignee \/ formIssue.assignee = "none"
      BY DEF ModalInv, FormFollows, EmptyDraft
    <2> QED BY <2>2, <2>3 DEF ModalInv, AllTaken, Taken
  <1> HIDE DEF c
  <1>4. FormTypes'
    <2>1. callsMade' \in 0..MaxModalCalls
      BY <1>2, ModalBounds DEF ModalInv, FormTypes
    <2> QED BY <1>2, <2>1 DEF ModalInv, FormTypes
  <1>5. FormFollows' /\ TypedKept'
    BY <1>2 DEF ModalInv, FormFollows, TypedKept, Kept
  <1>6. AllTaken'
    BY <1>2, <1>3 DEF ModalInv, AllTaken, Taken
  <1>7. MadeAtHome' /\ RightsTypes'
    BY <1>2, MadeStays, RightsStay DEF ModalInv
  <1> QED BY <1>4, <1>5, <1>6, <1>7 DEF ModalInv

LEMMA CreatesStep == ASSUME ModalInv, ServerCreatesIssue PROVE ModalInv'
  <1>1. PICK c \in modalCalls :
    /\ c.op = "create" /\ ServerTakes(c.assignee, c.ws)
    /\ madeIssues' = madeIssues \cup {[ws |-> c.ws, assignee |-> c.assignee]}
    /\ modalCalls' = (modalCalls \ {c}) \cup {[c EXCEPT !.op = "created"]}
    /\ UNCHANGED <<screenVars, inWs, rightsVars, typedTexts, callsMade, wanted, crossed, carried>>
    BY DEF ServerCreatesIssue
  <1>2. c \in ModalCallType /\ Taken(c.assignee, c.ws)
    BY DEF ModalInv, AllTaken
  <1>3. FormTypes' /\ FormFollows' /\ TypedKept' /\ RightsTypes'
    BY <1>1, FormStays, RightsStay DEF ModalInv
  <1>4. AllTaken'
    <2> DEFINE d == [c EXCEPT !.op = "created"]
    <2>1. d \in ModalCallType /\ d.assignee = c.assignee /\ d.ws = c.ws
      BY <1>2 DEF ModalCallType
    <2>2. modalCalls' = (modalCalls \ {c}) \cup {d}
      BY <1>1
    <2> HIDE DEF d
    <2> QED BY <1>1, <1>2, <2>1, <2>2 DEF ModalInv, AllTaken, Taken, screenVars
  <1>5. MadeAtHome'
    <2>1. c.ws \in 1..2 /\ c.assignee \in Assignees
      BY <1>2 DEF ModalCallType
    <2>2. c.assignee # "none" /\ c.ws # 1 => c.assignee = "peer" /\ carried
      BY <1>1, <1>2, <2>1 DEF Taken, ServerTakes, Assignees
    <2> QED BY <1>1, <2>1, <2>2 DEF ModalInv, MadeAtHome, AssigneesAtHome
  <1> QED BY <1>3, <1>4, <1>5 DEF ModalInv

LEMMA ShutStep == ASSUME ModalInv, Shut PROVE ModalInv'
  <1>1. /\ Closes /\ modalCalls' = Unmounted(modalCalls)
        /\ wanted' = IF descPending THEN [wanted EXCEPT !.desc = issueDraft.desc] ELSE wanted
        /\ UNCHANGED <<issueDraft, inWs, madeIssues, rightsVars, typedTexts, callsMade, crossed, carried>>
    BY DEF Shut
  <1>2. FormTypes' /\ FormFollows' /\ TypedKept'
    <2>1. inWs \in 1..2 /\ issueDraft \in IssueDraft
      BY DEF ModalInv, FormTypes
    <2> QED BY <1>1, <2>1, ShutKeeps, Closed DEF ModalInv
  <1>3. AllTaken'
    <2>1. \A c \in modalCalls' : c \in ModalCallType /\ Taken(c.assignee, c.ws)
      BY <1>1, UnmountedTaken DEF ModalInv, AllTaken
    <2> QED BY <1>1, <2>1 DEF ModalInv, AllTaken, Taken
  <1>4. MadeAtHome' /\ RightsTypes'
    BY <1>1, MadeStays, RightsStay DEF ModalInv
  <1> QED BY <1>2, <1>3, <1>4 DEF ModalInv

LEMMA CreatedStep == ASSUME ModalInv, IssueCreated PROVE ModalInv'
  <1>1. PICK c \in modalCalls :
    /\ Closes /\ issueDraft' = EmptyDraft /\ modalCalls' = Unmounted(modalCalls \ {c}) /\ wanted' = EmptyDraft
    /\ UNCHANGED <<inWs, madeIssues, rightsVars, typedTexts, callsMade, carried>>
    BY DEF IssueCreated
  <1>2. FormTypes' /\ FormFollows' /\ TypedKept'
    <2>1. inWs \in 1..2
      BY DEF ModalInv, FormTypes
    <2> QED BY <1>1, <2>1, NothingIsTyped, Closed DEF ModalInv
  <1>3. AllTaken'
    <2>1. \A d \in modalCalls' : d \in ModalCallType /\ Taken(d.assignee, d.ws)
      BY <1>1, UnmountedTaken DEF ModalInv, AllTaken
    <2> QED BY <1>1, <2>1 DEF ModalInv, AllTaken, Taken, EmptyDraft
  <1>4. MadeAtHome' /\ RightsTypes'
    BY <1>1, MadeStays, RightsStay DEF ModalInv
  <1> QED BY <1>2, <1>3, <1>4 DEF ModalInv

LEMMA FailStep == ASSUME ModalInv, ModalCallFails PROVE ModalInv'
  <1>1. PICK c \in modalCalls :
    /\ modalCalls' = modalCalls \ {c} /\ submitting' = (submitting /\ ~c.live) /\ issueDraft' = issueDraft
    /\ UNCHANGED <<modal, formIssue, descPending, inWs, madeIssues, rightsVars, typedTexts, callsMade, wanted, carried>>
    BY DEF ModalCallFails, AfterFailure
  <1>2. submitting' \in BOOLEAN
    BY <1>1, Zenon
  <1>3. FormTypes' /\ FormFollows' /\ TypedKept'
    BY <1>1, <1>2 DEF ModalInv, FormTypes, FormFollows, TypedKept, Kept
  <1>4. AllTaken' /\ MadeAtHome' /\ RightsTypes'
    BY <1>1, MadeStays, RightsStay DEF ModalInv, AllTaken, Taken
  <1> QED BY <1>3, <1>4 DEF ModalInv

\* Another workspace: what is taken along is noted.
LEMMA ElsewhereTaken ==
  ASSUME AllTaken, NEW C \in SUBSET modalCalls, modalCalls' = C \/ modalCalls' = Unmounted(C),
         carried' = (carried \/ issueDraft.assignee # "none"), issueDraft' = issueDraft
  PROVE  AllTaken'
  <1>1. carried' \in BOOLEAN /\ (carried => carried')
    BY DEF AllTaken
  <1>2. \A c \in modalCalls' : c \in ModalCallType /\ Taken(c.assignee, c.ws)
    BY UnmountedTaken DEF AllTaken
  <1> QED BY <1>1, <1>2 DEF AllTaken, Taken

LEMMA SwitchSteps == ASSUME ModalInv, WorkspaceCreated \/ SwitchesWorkspace PROVE ModalInv'
  <1>1. inWs' \in 1..2
    <2>1. inWs' = 3 - inWs
      BY DEF WorkspaceCreated, SwitchesWorkspace
    <2>2. inWs \in 1..2
      BY DEF ModalInv, FormTypes
    <2> QED BY <2>1, <2>2
  <1>2. CASE WorkspaceCreated
    <2>1. PICK c \in modalCalls :
      /\ Closes /\ modalCalls' = Unmounted(modalCalls \ {c})
      /\ wanted' = IF descPending THEN [wanted EXCEPT !.desc = issueDraft.desc] ELSE wanted
      /\ carried' = (carried \/ issueDraft.assignee # "none")
      /\ UNCHANGED <<issueDraft, madeIssues, rightsVars, typedTexts, callsMade, crossed>>
      BY <1>2 DEF WorkspaceCreated
    <2>2. FormTypes' /\ FormFollows' /\ TypedKept'
      <3>1. issueDraft \in IssueDraft
        BY DEF ModalInv, FormTypes
      <3> QED BY <1>1, <2>1, <3>1, ShutKeeps, Closed DEF ModalInv
    <2>3. AllTaken'
      BY <2>1, ElsewhereTaken DEF ModalInv
    <2>4. MadeAtHome' /\ RightsTypes'
      BY <2>1, MadeStays, RightsStay DEF ModalInv
    <2> QED BY <2>2, <2>3, <2>4 DEF ModalInv
  <1>3. CASE SwitchesWorkspace
    <2>1. /\ callsMade < MaxModalCalls /\ callsMade' = callsMade + 1
          /\ carried' = (carried \/ issueDraft.assignee # "none")
          /\ UNCHANGED <<screenVars, modalCalls, madeIssues, rightsVars, typedTexts, wanted, crossed>>
      BY <1>3 DEF SwitchesWorkspace
    <2>2. callsMade' \in 0..MaxModalCalls
      BY <2>1, ModalBounds DEF ModalInv, FormTypes
    <2>3. FormTypes' /\ FormFollows' /\ TypedKept'
      BY <1>1, <2>1, <2>2 DEF ModalInv, FormTypes, FormFollows, TypedKept, Kept, screenVars
    <2>4. AllTaken'
      BY <2>1, ElsewhereTaken DEF ModalInv, screenVars
    <2>5. MadeAtHome' /\ RightsTypes'
      BY <2>1, MadeStays, RightsStay DEF ModalInv
    <2> QED BY <2>3, <2>4, <2>5 DEF ModalInv
  <1> QED BY <1>2, <1>3

LEMMA ModalStands == ASSUME ModalInv, UNCHANGED modalVars PROVE ModalInv'
  <1>1. FormTypes' /\ FormFollows' /\ TypedKept'
    BY FormStays DEF ModalInv, modalVars, screenVars
  <1>2. AllTaken'
    BY DEF ModalInv, AllTaken, Taken, modalVars
  <1>3. MadeAtHome' /\ RightsTypes'
    BY DEF ModalInv, MadeAtHome, AssigneesAtHome, RightsTypes, modalVars
  <1> QED BY <1>1, <1>2, <1>3 DEF ModalInv

\* However modals are closed, reopened and replaced.
\* CreateIssueModal and the draft store: the form is the draft but for a description
\* that has not settled, both hold what was typed last, and an assignee elsewhere
\* was taken along.
LEMMA ModalInvariant == ModalSpec => []ModalInv
  <1>1. ModalInit => ModalInv
    BY ModalStarts
  <1>2. ModalInv /\ [ModalNext]_modalVars => ModalInv'
    BY RightsStep, OpenSteps, TypingSteps, AssigneeStep, SubmitSteps, CreatesStep, ShutStep, CreatedStep, FailStep,
       SwitchSteps, ModalStands DEF ModalNext, ModalSteps, RightsSteps
  <1> QED BY <1>1, <1>2, PTL DEF ModalSpec

LEMMA ModalShows == ASSUME ModalInv PROVE ModalTypeOK /\ NothingTypedLost /\ AssigneesAtHome /\ PickerAgrees
  <1>1. ModalTypeOK
    BY DEF ModalInv, FormTypes, RightsTypes, MadeAtHome, ModalTypeOK
  <1>2. NothingTypedLost /\ AssigneesAtHome
    BY DEF ModalInv, TypedKept, Kept, NothingTypedLost, MadeAtHome
  <1>3. PickerAgrees
    BY DEF PickerAgrees, Picker, ServerTakes, Bots
  <1> QED BY <1>1, <1>2, <1>3

-----------------------------------------------------------------------------
(* The parts together *)

\* One part moves at a time, so that each keeps what is proved of it alone.
LEMMA PartsStart ==
  PagesInit => /\ AgentInit /\ SkillInit /\ SettingInit /\ MemberInit /\ TalkInit
               /\ ModalInit /\ LoginInit /\ RuntimeListInit /\ EditorInit
  BY DEF PagesInit

LEMMA PartsMove ==
  [PagesNext]_pagesVars =>
    /\ [AgentNext]_agentVars /\ [SkillNext]_skillVars /\ [SettingNext]_settingVars
    /\ [MemberNext]_memberVars /\ [TalkNext]_talkVars /\ [ModalNext]_modalVars
    /\ [LoginNext]_loginVars /\ [RuntimeListNext]_listVars /\ [EditorNext]_editorVars
  <1>1. CASE UNCHANGED pagesVars
    BY <1>1 DEF pagesVars
  <1>2. CASE MovesAgents
    BY <1>2 DEF MovesAgents
  <1>3. CASE MovesSkills
    BY <1>3 DEF MovesSkills
  <1>4. CASE MovesSettings
    BY <1>4 DEF MovesSettings
  <1>5. CASE MovesMembers
    BY <1>5 DEF MovesMembers
  <1>6. CASE MovesTools \/ MovesContext
    BY <1>6 DEF MovesTools, MovesContext, TalkNext
  <1>7. CASE MovesModals \/ MovesRights
    BY <1>7 DEF MovesModals, MovesRights, ModalNext
  <1>8. CASE MovesSignIns \/ MovesLoginPage
    BY <1>8 DEF MovesSignIns, MovesLoginPage, LoginNext, SignInSteps, SignPageSteps
  <1>9. CASE MovesRuntimes
    BY <1>9 DEF MovesRuntimes
  <1>10. CASE MovesEditor
    BY <1>10 DEF MovesEditor
  <1> QED BY <1>1, <1>2, <1>3, <1>4, <1>5, <1>6, <1>7, <1>8, <1>9, <1>10 DEF PagesNext

LEMMA PagesAreEach ==
  PagesSpec => /\ AgentSpec /\ SkillSpec /\ SettingSpec /\ MemberSpec /\ TalkSpec
               /\ ModalSpec /\ LoginSpec /\ RuntimeListSpec /\ EditorSpec
  BY PartsStart, PartsMove, PTL DEF PagesSpec, AgentSpec, SkillSpec, SettingSpec, MemberSpec, TalkSpec,
     ModalSpec, LoginSpec, RuntimeListSpec, EditorSpec

\* SendCode, VerifyCode, findOrCreateUser and the login page, whichever page
\* moves: a code admits once, to an account with one workspace of its own at
\* most, and as the address the page shows.
THEOREM PagesSignInsAreWhole == PagesSpec => []SignInsAreWhole
  <1>1. CodesAdmitOnce /\ OneHomeEach /\ PageMeansItsEmail => SignInsAreWhole
    BY DEF SignInsAreWhole
  <1> QED BY <1>1, PagesAreEach, LoginWhole, PTL

\* agentmesh_listen, the chats and agentmesh_share_context, however the calls
\* end and whichever requests fail: messages are handed to the host in order and
\* once, an answer ends the turn it answers and no other, and what was shared with
\* a session stays in its context unless two writes crossed.
THEOREM PagesToolsKeepOrder == PagesSpec => []ToolsKeepOrder
  <1>1. TalkInv => ToolsKeepOrder
    BY DEF TalkInv, ToolsKeepOrder
  <1> QED BY <1>1, PagesAreEach, TalkInvariant, PTL

\* The agents, skills, settings and modals, however fast rows are selected, saved,
\* archived and removed and calls fail or are late: what is typed or sent is never
\* shown in, or saved to, another row, a file leaves the server only when the user
\* deleted it or saved without it, and a modal's draft is neither lost nor assigned
\* to an agent of elsewhere; and every part's variables keep their types.
THEOREM PagesDraftsStayHome == PagesSpec => []DraftsStayHome
  <1>1. AgentInv /\ SkillInv /\ SettingInv /\ MemberListInv /\ TalkInv /\ ModalInv /\ LoginTypeOK
        /\ ListInv /\ EditorInv => DraftsStayHome
    <2>1. MemberListInv => MemberTypeOK
      BY DEF MemberListInv
    <2>2. TalkInv => TalkTypeOK
      BY DEF TalkInv
    <2>3. ListInv => RuntimeListTypeOK
      BY DEF ListInv
    <2> QED BY <2>1, <2>2, <2>3, AgentShows, SkillShows, SettingShows, ModalShows, EditorShows
            DEF DraftsStayHome, PagesTypeOK
  <1> QED BY <1>1, PagesAreEach, AgentInvariant, SkillInvariant, SettingInvariant, MemberListInvariant, TalkInvariant,
             ModalInvariant, LoginTyped, RuntimeListInvariant, EditorInvariant, PTL

\* The lists of members, tokens and runtimes and the description in the editor:
\* when nothing is on its way they show what the server holds -- unless requests
\* failed or overtook one another -- and no preview of an upload is left.
THEOREM PagesListsConverge == PagesSpec => []ListsConverge
  <1>1. SettingInv /\ MemberListInv /\ ListInv /\ EditorInv => ListsConverge
    <2>1. ListInv => RuntimesConverge
      BY DEF ListInv
    <2> QED BY <2>1, SeatsShow, SettingShows, EditorShows DEF ListsConverge
  <1> QED BY <1>1, PagesAreEach, SettingInvariant, MemberListInvariant, RuntimeListInvariant, EditorInvariant, PTL
=============================================================================

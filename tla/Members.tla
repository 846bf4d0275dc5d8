------------------------------- MODULE Members ------------------------------
(***************************************************************************)
(* The members of a workspace and their roles: the handlers, each a row of  *)
(* statements with nothing locked in between, and the page on which one     *)
(* member -- Me -- sees the list and changes it.                            *)
(***************************************************************************)
EXTENDS Naturals, FiniteSets

CONSTANTS People, Me,
          MaxMemberCalls,   \* bound on the requests under way
          MaxMemberWrites   \* bound on the requests made

ASSUME MemberAssumption ==
  IsFiniteSet(People) /\ Me \in People /\ MaxMemberCalls \in Nat /\ MaxMemberWrites \in Nat

VARIABLES roles,            \* the member table: a role, or "out"
          memberCalls,      \* requests the server works on, and lists on the way
          memberWrites,
          seats,            \* the list the page shows
          memberDue,        \* an event of a change is on its way to the page
          raced,            \* a request wrote after another had since it was admitted
          usurped,          \* the owner role was given or taken by one who is no owner
          overtaken         \* a list landed after a later one, or not at all

memberVars == <<roles, memberCalls, memberWrites, seats, memberDue, raced, usurped, overtaken>>

MemberRole == {"owner", "admin", "member"}
Seats      == [People -> MemberRole \cup {"out"}]
Owners     == {p \in People : roles[p] = "owner"}

(* A request goes through the middleware's read of the requester, the       *)
(* handler's read of the target, the count of the owners, the write.        *)
MemberCall(op, by, target, role) ==
  [op |-> op, by |-> by, target |-> target, role |-> role, at |-> "sent",
   mine |-> "out", had |-> "out", stale |-> FALSE, list |-> <<>>]
ListCall == MemberCall("list", Me, Me, "member")
CallMoves(c, d) == memberCalls' = (memberCalls \ {c}) \cup {d}
Requested   == {c \in memberCalls : c.op # "list"}

MemberInit ==
  /\ \E o \in People : roles \in {r \in [People -> {"owner", "out"}] : r[o] = "owner"}
  /\ seats = roles
  /\ memberCalls = {} /\ memberWrites = 0 /\ memberDue = FALSE
  /\ raced = FALSE /\ usurped = FALSE /\ overtaken = FALSE

----------------------------------------------------------------------------
(* MembersTab: what the row's menu and the form offer, by the list shown.   *)
canManage       == seats[Me] \in {"owner", "admin"}
canManageOwners == seats[Me] = "owner"
canEdit(p)      == canManage /\ p # Me /\ (seats[p] # "owner" \/ canManageOwners)
RoleChoices     == IF canManageOwners THEN MemberRole ELSE MemberRole \ {"owner"}
memberActionBusy == \E c \in Requested : c.by = Me

MemberAsks(c) ==
  /\ Cardinality(Requested) < MaxMemberCalls /\ memberWrites < MaxMemberWrites
  /\ c \notin memberCalls /\ ~\E d \in Requested : d.by = c.by
  /\ memberCalls' = memberCalls \cup {c} /\ memberWrites' = memberWrites + 1
  /\ UNCHANGED <<roles, seats, memberDue, raced, usurped, overtaken>>

RoleChange   == \E p \in People, r \in RoleChoices :
                  seats[p] # "out" /\ canEdit(p) /\ MemberAsks(MemberCall("role", Me, p, r))
RemoveMember == \E p \in People :
                  seats[p] # "out" /\ canEdit(p) /\ MemberAsks(MemberCall("remove", Me, p, "member"))
AddMember    == \E p \in People, r \in RoleChoices :
                  canManage /\ MemberAsks(MemberCall("add", Me, p, r))
LeaveIt      == MemberAsks(MemberCall("leave", Me, Me, "member"))

(* The others' pages, lists of their own, and clients that are no page.     *)
OthersAsk ==
  \E q \in People \ {Me}, p \in People, r \in MemberRole :
    \/ MemberAsks(MemberCall("role", q, p, r))
    \/ MemberAsks(MemberCall("remove", q, p, "member"))
    \/ MemberAsks(MemberCall("add", q, p, r))
    \/ p = q /\ MemberAsks(MemberCall("leave", q, q, "member"))

----------------------------------------------------------------------------
(* The server.  RequireWorkspaceMember and RequireWorkspaceRole.            *)
Allowed(op) == IF op = "leave" THEN MemberRole ELSE {"owner", "admin"}
Admitted ==
  \E c \in Requested :
    /\ c.at = "sent" /\ roles[c.by] \in Allowed(c.op)
    /\ CallMoves(c, [c EXCEPT !.at = "admitted", !.mine = roles[c.by]])
    /\ UNCHANGED <<roles, memberWrites, seats, memberDue, raced, usurped, overtaken>>

(* The target is read, its role and the new one weighed.                    *)
TakesOwner(c) == c.had = "owner" /\ ~(c.op = "role" /\ c.role = "owner")
GivesOwner(c) == c.op \in {"role", "add"} /\ c.role = "owner"
Forbids(c)    == (c.had = "owner" \/ GivesOwner(c)) /\ c.mine # "owner"
Weighed ==
  \E c \in Requested :
    /\ c.at = "admitted"
    /\ LET d == [c EXCEPT !.had = IF c.op = "leave" THEN c.mine
                                  ELSE IF c.op = "add" THEN "out" ELSE roles[c.target]] IN
       /\ c.op \in {"role", "remove"} => roles[c.target] # "out"
       /\ ~Forbids(d)
       /\ CallMoves(c, [d EXCEPT !.at = IF TakesOwner(d) THEN "counting" ELSE "writing"])
    /\ UNCHANGED <<roles, memberWrites, seats, memberDue, raced, usurped, overtaken>>

(* countOwners.                                                             *)
EnoughIf == Cardinality(Owners) >= 1  \* mutant of Enough: off by one
Enough == Cardinality(Owners) > 1
Counted ==
  \E c \in Requested :
    /\ c.at = "counting" /\ Enough
    /\ CallMoves(c, [c EXCEPT !.at = "writing"])
    /\ UNCHANGED <<roles, memberWrites, seats, memberDue, raced, usurped, overtaken>>

Outcome(c) == CASE c.op = "add"  -> IF roles[c.target] = "out" THEN c.role ELSE roles[c.target]
                [] c.op = "role" -> IF roles[c.target] = "out" THEN "out" ELSE c.role
                [] OTHER         -> "out"
(* The write publishes the event; a page's own is followed by a refresh.    *)
WritesMember ==
  \E c \in Requested :
    LET new == Outcome(c) IN
    /\ c.at = "writing"
    /\ roles' = [roles EXCEPT ![c.target] = new]
    /\ memberCalls' = {IF roles' # roles /\ d.at # "sent" /\ d.op # "list"
                       THEN [d EXCEPT !.stale = TRUE] ELSE d : d \in memberCalls \ {c}}
                      \cup (IF c.by = Me /\ c.op # "leave" THEN {ListCall} ELSE {})
    /\ memberDue' = TRUE
    /\ raced' = (raced \/ c.stale)
    /\ usurped' = (usurped \/ (new # roles[c.target] /\ "owner" \in {new, roles[c.target]}
                               /\ c.mine # "owner"))
    /\ UNCHANGED <<memberWrites, seats, overtaken>>

(* Every refusal, and a call that fails: a toast.                           *)
Refuses ==
  \E c \in Requested :
    /\ memberCalls' = memberCalls \ {c}
    /\ UNCHANGED <<roles, memberWrites, seats, memberDue, raced, usurped, overtaken>>

----------------------------------------------------------------------------
(* The page's list: an event makes useRealtimeSync refresh it.              *)
MemberHeard ==
  /\ memberDue /\ memberDue' = FALSE
  /\ memberCalls' = memberCalls \cup {ListCall}
  /\ UNCHANGED <<roles, memberWrites, seats, raced, usurped, overtaken>>
ListsMembers ==
  \E c \in memberCalls :
    /\ c.op = "list" /\ c.list = <<>> /\ roles[Me] # "out"
    /\ CallMoves(c, [c EXCEPT !.list = roles])
    /\ UNCHANGED <<roles, memberWrites, seats, memberDue, raced, usurped, overtaken>>
ListRefused ==
  \E c \in memberCalls :
    /\ c.op = "list" /\ c.list = <<>>
    /\ memberCalls' = memberCalls \ {c} /\ overtaken' = TRUE
    /\ UNCHANGED <<roles, memberWrites, seats, memberDue, raced, usurped>>
MembersLand ==
  \E c \in memberCalls :
    /\ c.op = "list" /\ c.list # <<>> /\ seats' = c.list
    /\ overtaken' = (overtaken \/ \E d \in memberCalls \ {c} : d.op = "list")
    /\ memberCalls' = memberCalls \ {c}
    /\ UNCHANGED <<roles, memberWrites, memberDue, raced, usurped>>

MemberNext ==
  \/ RoleChange \/ RemoveMember \/ AddMember \/ LeaveIt \/ OthersAsk
  \/ Admitted \/ Weighed \/ Counted \/ WritesMember \/ Refuses
  \/ MemberHeard \/ ListsMembers \/ ListRefused \/ MembersLand

MemberSpec == MemberInit /\ [][MemberNext]_memberVars

----------------------------------------------------------------------------
(* Type correctness.                                                        *)
MemberTypeOK ==
  /\ roles \in Seats /\ seats \in Seats /\ memberWrites \in 0..MaxMemberWrites
  /\ Cardinality(Requested) <= MaxMemberCalls
  /\ {memberDue, raced, usurped, overtaken} \subseteq BOOLEAN

(* "workspace must have at least one owner": what the handlers refuse to    *)
(* break, one request at a time.                                            *)
OwnerRemains == Owners # {}

(* Requests that do not overlap in the server leave an owner, and the owner *)
(* role is given and taken by owners alone.                                 *)
OwnersGuarded == raced \/ (OwnerRemains /\ ~usurped)

(* The page's list is the table's when nothing is on its way -- unless two  *)
(* lists crossed, or one failed.                                            *)
SeatsConverge == ~memberDue /\ memberCalls = {} /\ ~overtaken => seats = roles
=============================================================================

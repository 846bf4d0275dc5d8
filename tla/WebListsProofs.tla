---------------------------- MODULE WebListsProofs ----------------------------
(***************************************************************************)
(* Proofs about the lists a tab keeps of the server: the issues, the        *)
(* reactions and subscribers of an issue, the inbox, and the thread of an   *)
(* issue. Each shows what the server has once all is answered and heard.    *)
(***************************************************************************)
EXTENDS IssueCache, IssueMarks, InboxView, IssueTimeline, SeqFilterProofs, SequenceTheorems

-------------------------------------------------------------------------------
(***************************************************************************)
(* The issue list follows the server.                                       *)
(***************************************************************************)

Kinds == {"created", "updated", "deleted"}
IssueEvent == [kind : Kinds, id : Issues, row : IssueRow]

\* Between events k and l of the channel there is none of issue i.
NoneBetween(i, k, l) == \A m \in DOMAIN issueChannel :
                          k < m /\ m < l => issueChannel[m].id # i
NoneAfter(i, k) == \A m \in DOMAIN issueChannel : k < m => issueChannel[m].id # i

\* The events of an issue are a part of its history that ends with what the
\* server has.
EventTrue(e, k) ==
    /\ e.row.there <=> e.kind # "deleted"
    /\ NoneAfter(e.id, k) => e.row = issueServer[e.id]
    /\ \A l \in DOMAIN issueChannel :
         k < l /\ issueChannel[l].id = e.id /\ NoneBetween(e.id, k, l) =>
           (issueChannel[l].kind = "created" <=> e.kind = "deleted")
ChannelTrue == \A k \in DOMAIN issueChannel : EventTrue(issueChannel[k], k)

\* An event on its way that will change, or confirm, what the cache has of i.
Corrects(e, i) == e.id = i /\ \/ e.kind = "deleted"
                              \/ e.kind = "updated" /\ cache[i].there
                              \/ e.kind = "created" /\ ~cache[i].there
Corrected(i) == \E k \in DOMAIN issueChannel : Corrects(issueChannel[k], i)

\* What is known of an issue, and whether it is known to be there.
Known(i)     == cache[i] = issueServer[i] \/ Corrected(i)
Placed(i)    == (cache[i].there <=> issueServer[i].there) \/ Corrected(i)
Written(i)   == \E r \in requests : r.id = i /\ r.op \in {"field", "move"} /\ r.st # "done"
ListComes    == \E r \in requests : r.op = "list"

FreshAnswers == \A r \in requests : r.st = "done" /\ ~r.old =>
    /\ r.op = "list" => r.rows = issueServer
    /\ r.op \in {"get", "create"} => r.rows[r.id] = issueServer[r.id]

InTouch == linked /\ ~issueStrayed =>
    ListComes \/ \A i \in Issues : Placed(i) /\ (Known(i) \/ Written(i))

IssueInv ==
    /\ IssueTypeOK /\ issueChannel \in Seq(IssueEvent)
    /\ linked \/ issueChannel = <<>>
    /\ ChannelTrue /\ FreshAnswers /\ InTouch

-----------------------------------------------------------------------------
LEMMA RowFacts ==
  /\ Gone \in IssueRow /\ ~Gone.there
  /\ \A f \in Fields : Here(f) \in IssueRow /\ Here(f).there
  /\ \A x \in IssueRow : ~x.there => x = Gone
  /\ \A x \in IssueRow, p \in Patches :
       IssuePatched(x, p) \in IssueRow /\ (IssuePatched(x, p).there <=> x.there)
  <1>1. Gone \in IssueRow /\ ~Gone.there
    BY DEF Gone, IssueRow
  <1>2. \A f \in Fields : Here(f) \in IssueRow /\ Here(f).there /\ Here(f).f = f
    BY DEF Here, IssueRow
  <1>3. ASSUME NEW x \in IssueRow
        PROVE  x = Gone \/ \E f \in Fields : x = Here(f)
    BY DEF IssueRow
  <1>4. \A x \in IssueRow : ~x.there => x = Gone
    BY <1>2, <1>3
  <1>5. ASSUME NEW x \in IssueRow, NEW p \in Patches
        PROVE  IssuePatched(x, p) \in IssueRow /\ (IssuePatched(x, p).there <=> x.there)
    <2>1. CASE x = Gone
      BY <1>1, <2>1 DEF IssuePatched
    <2>2. CASE x # Gone
      <3>1. PICK f \in Fields : x = Here(f)
        BY <1>3, <2>2
      <3>2. p.field \in FieldNames /\ p.value \in Values
        BY DEF Patches
      <3>3. [f EXCEPT ![p.field] = p.value] \in Fields
        BY <3>2 DEF Fields
      <3>4. IssuePatched(x, p) = Here([f EXCEPT ![p.field] = p.value])
        BY <1>2, <3>1 DEF IssuePatched
      <3> QED BY <1>2, <3>1, <3>3, <3>4
    <2> QED BY <2>1, <2>2
  <1> QED BY <1>1, <1>2, <1>4, <1>5

\* The server changes an issue: the event that it sends will correct the cache.
LEMMA ServerChanges ==
  ASSUME IssueInv, NEW i \in Issues, NEW kind \in Kinds, NEW x \in IssueRow,
         Publish(kind, i, x), cache' = cache, linked' = linked,
         kind = "created" <=> ~issueServer[i].there, x.there <=> kind # "deleted"
  PROVE  /\ issueServer' \in IssueRows /\ issueServer'[i] = x
         /\ issueChannel' \in Seq(IssueEvent) /\ Len(issueChannel') <= MaxIssueEvents
         /\ linked' \/ issueChannel' = <<>>
         /\ ChannelTrue'
         /\ linked => \A j \in Issues : /\ Placed(j) => Placed(j)'
                                        /\ Known(j) => Known(j)'
                                        /\ j = i /\ Placed(j) => Known(j)'
  <1> PICK e : e = [kind |-> kind, id |-> i, row |-> x]
    OBVIOUS
  <1>1. e \in IssueEvent /\ e.kind = kind /\ e.id = i /\ e.row = x
    BY DEF IssueEvent
  <1>2. issueServer' \in IssueRows /\ issueServer'[i] = x
        /\ \A j \in Issues : j # i => issueServer'[j] = issueServer[j]
    BY DEF IssueInv, IssueTypeOK, IssueRows, Publish
  <1>3. CASE ~linked
    <2>1. issueChannel' = <<>> /\ issueChannel = <<>>
      BY <1>3 DEF Publish, IssueInv
    <2>2. ChannelTrue' /\ issueChannel' \in Seq(IssueEvent)
      BY <2>1 DEF ChannelTrue
    <2>3. Len(issueChannel') <= MaxIssueEvents
      BY <2>1 DEF IssueInv, IssueTypeOK
    <2> QED BY <1>2, <1>3, <2>1, <2>2, <2>3
  <1>4. CASE linked
    <2> PICK n \in Nat : n = Len(issueChannel)
      BY DEF IssueInv
    <2>1. issueChannel' = Append(issueChannel, e) /\ n < MaxIssueEvents
      BY <1>4 DEF Publish
    <2>2. /\ DOMAIN issueChannel = 1..n /\ DOMAIN issueChannel' = 1..(n + 1)
          /\ issueChannel'[n + 1] = e
          /\ \A k \in 1..n : issueChannel'[k] = issueChannel[k] /\ issueChannel[k] \in IssueEvent
      BY <1>1, <2>1 DEF IssueInv
    <2>3. Len(issueChannel') <= MaxIssueEvents /\ issueChannel' \in Seq(IssueEvent)
      BY <1>1, <2>1, CacheAssumption DEF IssueInv
    <2>4. ChannelTrue'
      <3> SUFFICES ASSUME NEW k \in 1..(n + 1)
                   PROVE  EventTrue(issueChannel[k], k)'
        BY <2>2 DEF ChannelTrue
      <3>1. CASE k = n + 1
        BY <1>1, <1>2, <2>2, <3>1 DEF EventTrue
      <3>2. CASE k \in 1..n
        <4> PICK d : d = issueChannel[k]
          OBVIOUS
        <4>1. issueChannel'[k] = d /\ d \in IssueEvent /\ d.id \in Issues
          BY <2>2, <3>2 DEF IssueEvent
        <4>2. /\ d.row.there <=> d.kind # "deleted"
              /\ NoneAfter(d.id, k) => d.row = issueServer[d.id]
              /\ \A l \in 1..n : k < l /\ issueChannel[l].id = d.id /\ NoneBetween(d.id, k, l) =>
                   (issueChannel[l].kind = "created" <=> d.kind = "deleted")
          BY <2>2, <3>2 DEF IssueInv, ChannelTrue, EventTrue
        <4>3. NoneAfter(d.id, k)' => NoneAfter(d.id, k) /\ d.id # i
          BY <1>1, <2>2, <3>2 DEF NoneAfter
        <4>4. \A l \in 1..n : NoneBetween(d.id, k, l)' => NoneBetween(d.id, k, l)
          BY <2>2, <3>2 DEF NoneBetween
        <4>5. NoneBetween(d.id, k, n + 1)' => NoneAfter(d.id, k)
          BY <2>2, <3>2 DEF NoneBetween, NoneAfter
        <4>6. d.id = i /\ NoneBetween(d.id, k, n + 1)' => (e.kind = "created" <=> d.kind = "deleted")
          BY <1>1, <4>2, <4>5
        <4>7. NoneAfter(d.id, k)' => d.row = issueServer'[d.id]
          BY <1>2, <4>1, <4>2, <4>3
        <4>8. ASSUME NEW l \in 1..(n + 1), k < l, issueChannel'[l].id = d.id, NoneBetween(d.id, k, l)'
              PROVE  issueChannel'[l].kind = "created" <=> d.kind = "deleted"
          <5>1. CASE l = n + 1
            BY <1>1, <2>2, <4>6, <4>8, <5>1
          <5>2. CASE l \in 1..n
            BY <2>2, <4>2, <4>4, <4>8, <5>2
          <5> QED BY <5>1, <5>2
        <4> QED BY <2>2, <4>1, <4>2, <4>7, <4>8 DEF EventTrue
      <3> QED BY <3>1, <3>2
    <2>5. \A j : Corrected(j) => Corrected(j)'
      BY <2>2 DEF Corrected, Corrects
    <2>6. Placed(i) => Corrected(i)'
      <3>1. CASE Corrected(i)
        BY <2>5, <3>1
      <3>2. CASE cache[i].there <=> issueServer[i].there
        <4>1. Corrects(e, i)'
          BY <1>1, <3>2 DEF Corrects, Kinds
        <4> QED BY <2>2, <4>1 DEF Corrected
      <3> QED BY <3>1, <3>2 DEF Placed
    <2>7. Known(i) => Placed(i)
      BY DEF Known, Placed
    <2>8. ASSUME NEW j \in Issues, j # i
          PROVE  (Placed(j) => Placed(j)') /\ (Known(j) => Known(j)')
      BY <1>2, <2>5, <2>8 DEF Placed, Known
    <2>9. Corrected(i)' => Placed(i)' /\ Known(i)'
      BY DEF Placed, Known
    <2> QED BY <1>2, <1>4, <2>3, <2>4, <2>6, <2>7, <2>8, <2>9
  <1> QED BY <1>3, <1>4

\* The store takes what the server has when it hears the last event of an issue;
\* before that, another event that corrects it is still to come.
LEMMA Hears ==
  ASSUME IssueInv, HandleIssueEvent
  PROVE  /\ cache' \in IssueRows
         /\ issueChannel' \in Seq(IssueEvent) /\ Len(issueChannel') <= MaxIssueEvents
         /\ linked' \/ issueChannel' = <<>>
         /\ ChannelTrue'
         /\ \A j \in Issues : (Placed(j) => Placed(j)') /\ (Known(j) => Known(j)')
  <1> PICK n \in Nat : n = Len(issueChannel)
    BY DEF IssueInv
  <1> PICK e : e = issueChannel[1]
    OBVIOUS
  <1>1. /\ n > 0 /\ e = Head(issueChannel) /\ issueChannel' = Tail(issueChannel)
        /\ issueServer' = issueServer /\ linked' = linked /\ linked
    BY DEF HandleIssueEvent, IssueInv
  <1>2. /\ DOMAIN issueChannel = 1..n /\ DOMAIN issueChannel' = 1..(n - 1)
        /\ \A k \in 1..(n - 1) : issueChannel'[k] = issueChannel[k + 1]
        /\ \A k \in 1..n : issueChannel[k] \in IssueEvent
    BY <1>1 DEF IssueInv
  <1>3. e \in IssueEvent /\ e.kind \in Kinds /\ e.id \in Issues /\ e.row \in IssueRow
    BY <1>1, <1>2 DEF IssueEvent
  <1>4. Len(issueChannel') <= MaxIssueEvents /\ issueChannel' \in Seq(IssueEvent)
    BY <1>1, CacheAssumption DEF IssueInv, IssueTypeOK
  <1>5. ChannelTrue'
    <2> SUFFICES ASSUME NEW k \in 1..(n - 1)
                 PROVE  EventTrue(issueChannel[k], k)'
      BY <1>2 DEF ChannelTrue
    <2> PICK d : d = issueChannel[k + 1]
      OBVIOUS
    <2>1. EventTrue(d, k + 1)
      BY <1>2 DEF IssueInv, ChannelTrue
    <2>2. NoneAfter(d.id, k)' => NoneAfter(d.id, k + 1)
      <3> SUFFICES ASSUME NoneAfter(d.id, k)', NEW m \in 1..n, k + 1 < m
                   PROVE  issueChannel[m].id # d.id
        BY <1>2 DEF NoneAfter
      <3>1. m - 1 \in 1..(n - 1) /\ k < m - 1 /\ issueChannel'[m - 1] = issueChannel[m]
        BY <1>2
      <3> QED BY <1>2, <3>1 DEF NoneAfter
    <2>3. ASSUME NEW l \in 1..(n - 1), NoneBetween(d.id, k, l)'
          PROVE  NoneBetween(d.id, k + 1, l + 1)
      <3> SUFFICES ASSUME NEW m \in 1..n, k + 1 < m, m < l + 1
                   PROVE  issueChannel[m].id # d.id
        BY <1>2 DEF NoneBetween
      <3>1. m - 1 \in 1..(n - 1) /\ k < m - 1 /\ m - 1 < l /\ issueChannel'[m - 1] = issueChannel[m]
        BY <1>2
      <3> QED BY <1>2, <2>3, <3>1 DEF NoneBetween
    <2>4. ASSUME NEW l \in 1..(n - 1), k < l, issueChannel'[l].id = d.id, NoneBetween(d.id, k, l)'
          PROVE  issueChannel'[l].kind = "created" <=> d.kind = "deleted"
      <3>1. l + 1 \in 1..n /\ k + 1 < l + 1 /\ issueChannel'[l] = issueChannel[l + 1]
        BY <1>2, <2>4
      <3>2. NoneBetween(d.id, k + 1, l + 1)
        BY <2>3, <2>4
      <3> QED BY <1>2, <2>1, <2>4, <3>1, <3>2 DEF EventTrue
    <2>5. issueChannel'[k] = d
      BY <1>2
    <2> QED BY <1>1, <1>2, <2>1, <2>2, <2>4, <2>5 DEF EventTrue
  <1>6. /\ e.kind = "deleted" => cache' = [cache EXCEPT ![e.id] = Gone]
        /\ e.kind = "updated" /\ cache[e.id].there => cache' = [cache EXCEPT ![e.id] = e.row]
        /\ e.kind = "created" /\ ~cache[e.id].there => cache' = [cache EXCEPT ![e.id] = e.row]
        /\ ~Corrects(e, e.id) => cache' = cache
    BY <1>1, <1>3 DEF HandleIssueEvent, UpdateIssue, AddIssue, RemoveIssue, Corrects, Kinds
  <1>7. cache \in [Issues -> IssueRow] /\ Gone \in IssueRow /\ ~Gone.there
    BY RowFacts DEF IssueInv, IssueTypeOK, IssueRows
  <1>8. EventTrue(e, 1)
    BY <1>1, <1>2 DEF IssueInv, ChannelTrue
  <1>9. cache' \in IssueRows /\ \A j \in Issues : j # e.id => cache'[j] = cache[j]
    BY <1>3, <1>6, <1>7 DEF Corrects, Kinds, IssueRows
  <1>10. Corrects(e, e.id) => Known(e.id)'
    <2> SUFFICES ASSUME Corrects(e, e.id) PROVE Known(e.id)'
      OBVIOUS
    <2>1. (cache'[e.id].there <=> e.kind # "deleted") /\ (~NoneAfter(e.id, 1) \/ cache'[e.id] = issueServer[e.id])
      <3>1. e.row.there <=> e.kind # "deleted"
        BY <1>8 DEF EventTrue
      <3>2. NoneAfter(e.id, 1) => e.row = issueServer[e.id]
        BY <1>8 DEF EventTrue
      <3>3. e.kind = "deleted" => e.row = Gone
        BY <1>3, <3>1, RowFacts
      <3>4. cache'[e.id] = e.row
        BY <1>3, <1>6, <1>7, <3>3 DEF Corrects
      <3> QED BY <3>1, <3>2, <3>4
    <2>2. CASE NoneAfter(e.id, 1)
      BY <1>1, <2>1, <2>2 DEF Known
    <2>3. CASE ~NoneAfter(e.id, 1)
      <3> DEFINE T == {y \in 2..n : issueChannel[y].id = e.id}
      <3> PICK m \in 1..n : 1 < m /\ issueChannel[m].id = e.id
        BY <1>2, <2>3 DEF NoneAfter
      <3>0. m \in T
        OBVIOUS
      <3>1. T # {} /\ T \in SUBSET Nat
        BY <3>0
      <3>2. PICK l \in T : \A y \in T : l <= y
        BY <3>1, LeastOfNaturals
      <3>3. l \in 2..n /\ issueChannel[l].id = e.id /\ \A y \in 2..n : issueChannel[y].id = e.id => l <= y
        BY <3>2
      <3>4. NoneBetween(e.id, 1, l)
        BY <1>2, <3>3 DEF NoneBetween
      <3>5. issueChannel[l].kind = "created" <=> e.kind = "deleted"
        BY <1>2, <1>8, <3>3, <3>4 DEF EventTrue
      <3>6. issueChannel[l].kind \in Kinds
        BY <1>2, <3>3 DEF IssueEvent
      <3> PICK d : d = issueChannel[l]
        OBVIOUS
      <3>7. Corrects(d, e.id)'
        BY <2>1, <3>3, <3>5, <3>6 DEF Corrects, Kinds
      <3>8. l - 1 \in 1..(n - 1) /\ issueChannel'[l - 1] = d
        BY <1>2, <3>3
      <3>9. Corrected(e.id)'
        BY <1>2, <3>7, <3>8 DEF Corrected
      <3> QED BY <3>9 DEF Known
    <2> QED BY <2>2, <2>3
  <1>11. ASSUME NEW j \in Issues, Corrected(j), j # e.id \/ ~Corrects(e, e.id)
         PROVE  Corrected(j)'
    <2>1. PICK k \in 1..n : Corrects(issueChannel[k], j)
      BY <1>2, <1>11 DEF Corrected
    <2> PICK d : d = issueChannel[k]
      OBVIOUS
    <2>2. k # 1
      BY <1>11, <2>1 DEF Corrects
    <2>3. k - 1 \in 1..(n - 1) /\ issueChannel'[k - 1] = d
      BY <1>2, <2>2
    <2>4. cache'[j] = cache[j]
      BY <1>6, <1>9, <1>11
    <2>5. Corrects(d, j)'
      BY <2>1, <2>4 DEF Corrects
    <2> QED BY <1>2, <2>3, <2>5 DEF Corrected
  <1>12. ASSUME NEW j \in Issues
         PROVE  (Placed(j) => Placed(j)') /\ (Known(j) => Known(j)')
    <2>1. CASE j = e.id /\ Corrects(e, e.id)
      BY <1>10, <2>1 DEF Known, Placed
    <2>2. CASE ~(j = e.id /\ Corrects(e, e.id))
      <3>1. cache'[j] = cache[j]
        BY <1>6, <1>9, <2>2
      <3> QED BY <1>1, <1>11, <2>2, <3>1 DEF Known, Placed
    <2> QED BY <2>1, <2>2
  <1> QED BY <1>1, <1>4, <1>5, <1>9, <1>12

-----------------------------------------------------------------------------
(* What happens to the requests *)

LEMMA AskedTyped ==
  ASSUME IssueInv
  PROVE  /\ \A op \in Ops, i \in Issues, p \in Patches :
              LET r == AskIssue(op, i, p) IN
              r \in IssueRequest /\ r.op = op /\ r.id = i /\ r.patch = p /\ r.st = "sent"
         /\ NoPatch \in Patches /\ AskList \in IssueRequest /\ AskList.op = "list" /\ AskList.st = "sent"
  <1>1. ASSUME NEW op \in Ops, NEW i \in Issues, NEW p \in Patches
        PROVE  LET r == AskIssue(op, i, p) IN
               r \in IssueRequest /\ r.op = op /\ r.id = i /\ r.patch = p /\ r.st = "sent"
    <2>1. Gone \in IssueRow /\ cache[i] \in IssueRow
      BY RowFacts DEF IssueInv, IssueTypeOK, IssueRows
    <2> QED BY <2>1 DEF AskIssue, IssueRequest, IssueRows
  <1>2. NoPatch \in Patches
    <2> PICK n \in FieldNames, v \in Values : TRUE
      BY CacheAssumption
    <2>1. [field |-> n, value |-> v] \in Patches
      BY DEF Patches
    <2> QED BY <2>1 DEF NoPatch
  <1>3. (CHOOSE i \in Issues : TRUE) \in Issues
    BY CacheAssumption
  <1>4. "list" \in Ops
    BY DEF Ops
  <1> QED BY <1>1, <1>2, <1>3, <1>4 DEF AskList

\* A change on the server leaves no answer of before that counts as fresh.
LEMMA IssueOutdatedTyped ==
  ASSUME NEW R \in SUBSET IssueRequest
  PROVE  /\ IssueOutdated(R) \subseteq IssueRequest
         /\ \A x \in IssueOutdated(R) : x.st = "done" /\ x.op \in {"list", "get", "create"} => x.old
         /\ \A r \in R : \E x \in IssueOutdated(R) : x.op = r.op /\ x.id = r.id /\ x.st = r.st
  <1> DEFINE Out(r) == IF r.st = "done" /\ r.op \in {"list", "get", "create"}
                       THEN [r EXCEPT !.old = TRUE] ELSE r
  <1>1. ASSUME NEW r \in R
        PROVE  /\ Out(r) \in IssueRequest /\ Out(r).op = r.op /\ Out(r).id = r.id /\ Out(r).st = r.st
               /\ Out(r).st = "done" /\ Out(r).op \in {"list", "get", "create"} => Out(r).old
    BY DEF IssueRequest
  <1>2. IssueOutdated(R) = {Out(r) : r \in R}
    BY DEF IssueOutdated
  <1> HIDE DEF Out
  <1> QED BY <1>1, <1>2

\* A request is sent.
LEMMA IssueAsked ==
  ASSUME IssueInv, NEW r \in IssueRequest, r.st = "sent",
         requests' = requests \cup {r}, issueServer' = issueServer
  PROVE  /\ requests' \subseteq IssueRequest /\ FreshAnswers'
         /\ \A j : Written(j) => Written(j)'
         /\ ListComes \/ r.op = "list" => ListComes'
         /\ r.op \in {"field", "move"} => Written(r.id)'
  BY DEF IssueInv, IssueTypeOK, FreshAnswers, Written, ListComes

\* The server has answered a request, and nothing has changed.
LEMMA AnsweredAsIs ==
  ASSUME IssueInv, NEW r \in requests, NEW x \in IssueRequest, r.st = "sent",
         x.op = r.op, x.id = r.id, x.op \in {"field", "move"} => x.st # "done",
         x.st = "done" /\ x.op = "list" => x.rows = issueServer,
         x.st = "done" /\ x.op \in {"get", "create"} => x.rows[x.id] = issueServer[x.id],
         requests' = (requests \ {r}) \cup {x}, issueServer' = issueServer
  PROVE  /\ requests' \subseteq IssueRequest /\ FreshAnswers'
         /\ \A j : Written(j) => Written(j)'
         /\ ListComes => ListComes'
  BY DEF IssueInv, IssueTypeOK, FreshAnswers, Written, ListComes

\* The server has carried a request out.
LEMMA AnsweredAfter ==
  ASSUME IssueInv, NEW r \in requests, NEW x \in IssueRequest, r.op # "list",
         x.op = r.op, x.id = r.id,
         x.st = "done" /\ x.op \in {"get", "create"} => x.rows[x.id] = issueServer'[x.id],
         requests' = IssueOutdated(requests \ {r}) \cup {x}
  PROVE  /\ requests' \subseteq IssueRequest /\ FreshAnswers'
         /\ \A j : j # r.id /\ Written(j) => Written(j)'
         /\ ListComes => ListComes'
  <1>1. requests \ {r} \in SUBSET IssueRequest
    BY DEF IssueInv, IssueTypeOK
  <1>2. requests' \subseteq IssueRequest
    BY <1>1, IssueOutdatedTyped
  <1>3. FreshAnswers'
    <2> SUFFICES ASSUME NEW y \in requests', y.st = "done", ~y.old
                 PROVE  /\ y.op = "list" => y.rows = issueServer'
                        /\ y.op \in {"get", "create"} => y.rows[y.id] = issueServer'[y.id]
      BY DEF FreshAnswers
    <2> QED BY <1>1, IssueOutdatedTyped
  <1>4. ASSUME NEW q \in requests, q # r
        PROVE  \E y \in requests' : y.op = q.op /\ y.id = q.id /\ y.st = q.st
    BY <1>1, <1>4, IssueOutdatedTyped
  <1>5. \A j : j # r.id /\ Written(j) => Written(j)'
    BY <1>4 DEF Written
  <1>6. ListComes => ListComes'
    BY <1>4 DEF ListComes
  <1> QED BY <1>2, <1>3, <1>5, <1>6

\* The tab has taken an answer in.
LEMMA Taken ==
  ASSUME IssueInv, NEW r \in requests, requests' = requests \ {r}, issueServer' = issueServer
  PROVE  /\ requests' \subseteq IssueRequest /\ FreshAnswers'
         /\ \A j : Written(j) => Written(j)' \/ (r.op \in {"field", "move"} /\ r.st # "done" /\ j = r.id)
         /\ ListComes => ListComes' \/ r.op = "list"
  BY DEF IssueInv, IssueTypeOK, FreshAnswers, Written, ListComes

-----------------------------------------------------------------------------
(* The steps *)

LEMMA IssueStart == IssueInit => IssueInv
  <1> SUFFICES ASSUME IssueInit PROVE IssueInv
    OBVIOUS
  <1>1. (CHOOSE f \in Fields : TRUE) \in Fields
    <2> PICK v \in Values : TRUE
      BY CacheAssumption
    <2>1. [n \in FieldNames |-> v] \in Fields
      BY DEF Fields
    <2> QED BY <2>1
  <1>2. issueServer \in IssueRows /\ cache \in IssueRows
    BY <1>1, RowFacts DEF IssueInit, IssueRows
  <1>3. AskList \in IssueRequest /\ AskList.op = "list" /\ AskList.st = "sent"
    <2>1. NoPatch \in Patches
      <3> PICK n \in FieldNames, v \in Values : TRUE
        BY CacheAssumption
      <3>1. [field |-> n, value |-> v] \in Patches
        BY DEF Patches
      <3> QED BY <3>1 DEF NoPatch
    <2>2. (CHOOSE i \in Issues : TRUE) \in Issues
      BY CacheAssumption
    <2>3. Gone \in IssueRow
      BY RowFacts
    <2> QED BY <2>1, <2>2, <2>3 DEF AskList, AskIssue, IssueRequest, IssueRows, Ops
  <1>4. IssueTypeOK /\ issueChannel \in Seq(IssueEvent)
    <2>1. issueChannel = <<>> /\ Len(issueChannel) <= MaxIssueEvents
      BY CacheAssumption DEF IssueInit
    <2>2. issueChannel \in Seq(IssueEvent)
      BY <2>1
    <2>3. linked \in BOOLEAN /\ issueStrayed \in BOOLEAN
      BY DEF IssueInit
    <2>4. requests \subseteq IssueRequest
      BY <1>3 DEF IssueInit
    <2> QED BY <1>2, <2>1, <2>2, <2>3, <2>4 DEF IssueTypeOK
  <1>5. ChannelTrue /\ FreshAnswers /\ InTouch
    BY <1>3 DEF IssueInit, ChannelTrue, FreshAnswers, InTouch, ListComes
  <1> QED BY <1>4, <1>5 DEF IssueInv, IssueInit

\* What is known of the issues stays known in a step after which each is in the
\* cache as it was, or better.
LEMMA IssueFrame ==
  ASSUME IssueInv,
         issueServer' \in IssueRows, cache' \in IssueRows, linked' \in BOOLEAN, issueStrayed' \in BOOLEAN,
         Len(issueChannel') <= MaxIssueEvents, requests' \subseteq IssueRequest,
         issueChannel' \in Seq(IssueEvent), linked' \/ issueChannel' = <<>>,
         ChannelTrue', FreshAnswers',
         linked' /\ ~issueStrayed' =>
           \/ ListComes'
           \/ /\ linked /\ ~issueStrayed /\ ~ListComes
              /\ \A j \in Issues : Placed(j) /\ (Known(j) \/ Written(j)) =>
                                     Placed(j)' /\ (Known(j)' \/ Written(j)')
  PROVE  IssueInv'
  BY DEF IssueInv, IssueTypeOK, InTouch

LEMMA IssueOthersStep == ASSUME IssueInv, OthersWrite PROVE IssueInv'
  <1>1. PICK i \in Issues, kind \in Kinds, x \in IssueRow :
          /\ Publish(kind, i, x)
          /\ kind = "created" <=> ~issueServer[i].there
          /\ x.there <=> kind # "deleted"
    <2>1. PICK i \in Issues :
            \/ /\ ~issueServer[i].there
               /\ \E f \in Fields : Publish("created", i, Here(f))
            \/ /\ issueServer[i].there
               /\ \/ \E p \in Patches : Publish("updated", i, IssuePatched(issueServer[i], p))
                  \/ Publish("deleted", i, Gone)
      BY DEF OthersWrite
    <2>2. issueServer[i] \in IssueRow
      BY DEF IssueInv, IssueTypeOK, IssueRows
    <2> QED BY <2>1, <2>2, RowFacts DEF Kinds
  <1>2. /\ requests' = IssueOutdated(requests) /\ cache' = cache /\ linked' = linked
        /\ issueStrayed' = issueStrayed
    BY DEF OthersWrite
  <1>3. /\ issueServer' \in IssueRows
        /\ issueChannel' \in Seq(IssueEvent) /\ Len(issueChannel') <= MaxIssueEvents
        /\ linked' \/ issueChannel' = <<>>
        /\ ChannelTrue'
        /\ linked => \A j \in Issues : (Placed(j) => Placed(j)') /\ (Known(j) => Known(j)')
    BY <1>1, <1>2, ServerChanges
  <1>4. requests \in SUBSET IssueRequest
    BY DEF IssueInv, IssueTypeOK
  <1>5. requests' \subseteq IssueRequest /\ FreshAnswers'
    BY <1>2, <1>4, IssueOutdatedTyped DEF FreshAnswers
  <1>6. \A j : Written(j) => Written(j)'
    BY <1>2, <1>4, IssueOutdatedTyped DEF Written
  <1>7. ListComes => ListComes'
    BY <1>2, <1>4, IssueOutdatedTyped DEF ListComes
  <1>8. cache' \in IssueRows /\ linked' \in BOOLEAN /\ issueStrayed' \in BOOLEAN
    BY <1>2 DEF IssueInv, IssueTypeOK
  <1>9. linked' /\ ~issueStrayed' =>
           \/ ListComes'
           \/ /\ linked /\ ~issueStrayed /\ ~ListComes
              /\ \A j \in Issues : Placed(j) /\ (Known(j) \/ Written(j)) =>
                                     Placed(j)' /\ (Known(j)' \/ Written(j)')
    BY <1>2, <1>3, <1>6, <1>7
  <1> QED BY <1>3, <1>5, <1>8, <1>9, IssueFrame

LEMMA IssueEventStep == ASSUME IssueInv, HandleIssueEvent PROVE IssueInv'
  <1>1. /\ issueServer' = issueServer /\ linked' = linked /\ requests' = requests
        /\ issueStrayed' = issueStrayed
    BY DEF HandleIssueEvent
  <1>2. /\ cache' \in IssueRows
        /\ issueChannel' \in Seq(IssueEvent) /\ Len(issueChannel') <= MaxIssueEvents
        /\ linked' \/ issueChannel' = <<>>
        /\ ChannelTrue'
        /\ \A j \in Issues : (Placed(j) => Placed(j)') /\ (Known(j) => Known(j)')
    BY Hears
  <1>3. FreshAnswers' /\ (ListComes' <=> ListComes) /\ \A j : Written(j)' <=> Written(j)
    BY <1>1 DEF IssueInv, FreshAnswers, ListComes, Written
  <1>4. /\ issueServer' \in IssueRows /\ linked' \in BOOLEAN /\ issueStrayed' \in BOOLEAN
        /\ requests' \subseteq IssueRequest
    BY <1>1 DEF IssueInv, IssueTypeOK
  <1>5. linked' /\ ~issueStrayed' =>
           \/ ListComes'
           \/ /\ linked /\ ~issueStrayed /\ ~ListComes
              /\ \A j \in Issues : Placed(j) /\ (Known(j) \/ Written(j)) =>
                                     Placed(j)' /\ (Known(j)' \/ Written(j)')
    BY <1>1, <1>2, <1>3
  <1> QED BY <1>2, <1>3, <1>4, <1>5, IssueFrame

LEMMA IssueDropStep == ASSUME IssueInv, IssueLinkDrops PROVE IssueInv'
  <1>1. /\ linked' = FALSE /\ issueChannel' = <<>> /\ issueServer' = issueServer /\ cache' = cache
        /\ requests' = requests /\ issueStrayed' = issueStrayed
    BY DEF IssueLinkDrops
  <1>2. ChannelTrue' /\ issueChannel' \in Seq(IssueEvent) /\ Len(issueChannel') <= MaxIssueEvents
    BY <1>1, CacheAssumption DEF ChannelTrue
  <1>3. FreshAnswers'
    BY <1>1 DEF IssueInv, FreshAnswers
  <1>4. /\ issueServer' \in IssueRows /\ cache' \in IssueRows /\ linked' \in BOOLEAN
        /\ issueStrayed' \in BOOLEAN /\ requests' \subseteq IssueRequest
    BY <1>1 DEF IssueInv, IssueTypeOK
  <1> QED BY <1>1, <1>2, <1>3, <1>4, IssueFrame

\* The channel stays as it is, and so does the server.
LEMMA ChannelStays ==
  ASSUME IssueInv, UNCHANGED <<issueServer, issueChannel, linked>>
  PROVE  /\ ChannelTrue' /\ issueChannel' \in Seq(IssueEvent) /\ Len(issueChannel') <= MaxIssueEvents
         /\ linked' \/ issueChannel' = <<>>
         /\ issueServer' \in IssueRows /\ linked' \in BOOLEAN
  <1>1. ChannelTrue'
    BY DEF IssueInv, ChannelTrue, EventTrue, NoneAfter, NoneBetween
  <1> QED BY <1>1 DEF IssueInv, IssueTypeOK

LEMMA CacheStays ==
  ASSUME UNCHANGED <<issueServer, issueChannel, cache>>
  PROVE  \A j : (Placed(j)' <=> Placed(j)) /\ (Known(j)' <=> Known(j))
  BY DEF Placed, Known, Corrected, Corrects

LEMMA AskStep ==
  ASSUME IssueInv, NEW r \in IssueRequest, r.st = "sent", SendIssue(r),
         UNCHANGED <<issueServer, cache, linked, issueChannel, issueStrayed>>
  PROVE  IssueInv'
  <1>1. /\ requests' \subseteq IssueRequest /\ FreshAnswers'
        /\ (\A j : Written(j) => Written(j)') /\ (ListComes => ListComes')
    BY IssueAsked DEF SendIssue
  <1>2. cache' \in IssueRows /\ issueStrayed' \in BOOLEAN
    BY DEF IssueInv, IssueTypeOK
  <1>3. linked' /\ ~issueStrayed' =>
           \/ ListComes'
           \/ /\ linked /\ ~issueStrayed /\ ~ListComes
              /\ \A j \in Issues : Placed(j) /\ (Known(j) \/ Written(j)) =>
                                     Placed(j)' /\ (Known(j)' \/ Written(j)')
    BY <1>1, CacheStays
  <1> QED BY <1>1, <1>2, <1>3, ChannelStays, IssueFrame

LEMMA ReconnectStep == ASSUME IssueInv, IssueReconnects PROVE IssueInv'
  <1>1. /\ linked' = TRUE /\ issueChannel' = issueChannel /\ issueServer' = issueServer
        /\ cache' = cache /\ issueStrayed' = issueStrayed /\ requests' = requests \cup {AskList}
    BY DEF IssueReconnects, SendIssue
  <1>2. requests' \subseteq IssueRequest /\ FreshAnswers' /\ ListComes'
    BY <1>1, AskedTyped, IssueAsked
  <1>3. ChannelTrue'
    BY <1>1 DEF IssueInv, ChannelTrue, EventTrue, NoneAfter, NoneBetween
  <1>4. /\ issueChannel' \in Seq(IssueEvent) /\ Len(issueChannel') <= MaxIssueEvents
        /\ issueServer' \in IssueRows /\ linked' \in BOOLEAN
        /\ cache' \in IssueRows /\ issueStrayed' \in BOOLEAN
    BY <1>1 DEF IssueInv, IssueTypeOK
  <1> QED BY <1>1, <1>2, <1>3, <1>4, IssueFrame

\* What the user asks for and the store does not do ahead of the server.
LEMMA PageSteps ==
  ASSUME IssueInv, OpenDetail \/ BatchUpdate \/ BatchDelete \/ DeleteIssue \/ CreateIssue
  PROVE  IssueInv'
  <1>1. \A op \in {"get", "batch", "batchRemove", "remove", "create"} : op \in Ops
    BY DEF Ops
  <1>2. \E op \in {"get", "batch", "batchRemove", "remove", "create"}, i \in Issues, p \in Patches :
          /\ SendIssue(AskIssue(op, i, p))
          /\ UNCHANGED <<issueServer, cache, linked, issueChannel, issueStrayed>>
    BY AskedTyped DEF OpenDetail, BatchUpdate, BatchDelete, DeleteIssue, CreateIssue, WriteLater
  <1> QED BY <1>1, <1>2, AskedTyped, AskStep

LEMMA IssueWriteStep ==
  ASSUME IssueInv, NEW op \in {"field", "move"}, NEW i \in Issues, NEW p \in Patches,
         WriteThrough(op, i, p)
  PROVE  IssueInv'
  <1> PICK r : r = AskIssue(op, i, p)
    OBVIOUS
  <1>1. r \in IssueRequest /\ r.op = op /\ r.id = i /\ r.st = "sent"
    BY AskedTyped DEF Ops
  <1>2. /\ cache[i].there /\ requests' = requests \cup {r} /\ issueServer' = issueServer
        /\ cache' = [cache EXCEPT ![i] = IssuePatched(cache[i], p)]
        /\ issueStrayed' = issueStrayed /\ linked' = linked /\ issueChannel' = issueChannel
    BY DEF WriteThrough, SendIssue, UpdateIssue
  <1>3. /\ requests' \subseteq IssueRequest /\ FreshAnswers'
        /\ (\A j : Written(j) => Written(j)') /\ (ListComes => ListComes') /\ Written(i)'
    BY <1>1, <1>2, IssueAsked
  <1>4. /\ cache' \in IssueRows /\ \A j \in Issues : j # i => cache'[j] = cache[j]
        /\ \A j \in Issues : cache'[j].there <=> cache[j].there
    BY <1>2, RowFacts DEF IssueInv, IssueTypeOK, IssueRows
  <1>5. \A j \in Issues : Corrected(j) <=> Corrected(j)'
    BY <1>2, <1>4 DEF Corrected, Corrects
  <1>6. \A j \in Issues : Placed(j) => Placed(j)'
    BY <1>2, <1>4, <1>5 DEF Placed
  <1>7. \A j \in Issues : j # i => (Known(j) => Known(j)')
    BY <1>2, <1>4, <1>5 DEF Known
  <1>8. linked' /\ ~issueStrayed' =>
           \/ ListComes'
           \/ /\ linked /\ ~issueStrayed /\ ~ListComes
              /\ \A j \in Issues : Placed(j) /\ (Known(j) \/ Written(j)) =>
                                     Placed(j)' /\ (Known(j)' \/ Written(j)')
    BY <1>2, <1>3, <1>6, <1>7
  <1>9. issueStrayed' \in BOOLEAN
    BY <1>2 DEF IssueInv, IssueTypeOK
  <1> QED BY <1>2, <1>3, <1>4, <1>8, <1>9, ChannelStays, IssueFrame

\* The server carries a request out: what it publishes corrects the cache, also
\* of what the page wrote ahead.
LEMMA CarriedOut ==
  ASSUME IssueInv, NEW r \in requests, NEW y \in IssueRequest, r.op \notin {"list", "get"},
         y.op = r.op, y.id = r.id,
         y.st = "done" /\ y.op = "create" => y.rows[y.id] = issueServer'[y.id],
         requests' = IssueOutdated(requests \ {r}) \cup {y},
         NEW kind \in Kinds, NEW x \in IssueRow, Publish(kind, r.id, x),
         kind = "created" <=> ~issueServer[r.id].there, x.there <=> kind # "deleted",
         UNCHANGED <<cache, linked, issueStrayed>>
  PROVE  IssueInv'
  <1>1. r.id \in Issues
    BY DEF IssueInv, IssueTypeOK, IssueRequest
  <1>2. /\ issueServer' \in IssueRows
        /\ issueChannel' \in Seq(IssueEvent) /\ Len(issueChannel') <= MaxIssueEvents
        /\ linked' \/ issueChannel' = <<>>
        /\ ChannelTrue'
        /\ linked => \A j \in Issues : /\ Placed(j) => Placed(j)'
                                       /\ Known(j) => Known(j)'
                                       /\ j = r.id /\ Placed(j) => Known(j)'
    BY <1>1, ServerChanges
  <1>3. /\ requests' \subseteq IssueRequest /\ FreshAnswers'
        /\ \A j : j # r.id /\ Written(j) => Written(j)'
        /\ ListComes => ListComes'
    BY AnsweredAfter
  <1>4. cache' \in IssueRows /\ linked' \in BOOLEAN /\ issueStrayed' \in BOOLEAN
    BY DEF IssueInv, IssueTypeOK
  <1>5. linked' /\ ~issueStrayed' =>
           \/ ListComes'
           \/ /\ linked /\ ~issueStrayed /\ ~ListComes
              /\ \A j \in Issues : Placed(j) /\ (Known(j) \/ Written(j)) =>
                                     Placed(j)' /\ (Known(j)' \/ Written(j)')
    BY <1>2, <1>3
  <1> QED BY <1>2, <1>3, <1>4, <1>5, IssueFrame

\* The server answers, and nothing has changed.
LEMMA IssueAnswerStep ==
  ASSUME IssueInv, NEW r \in requests, NEW x \in IssueRequest, r.st = "sent",
         x.op = r.op, x.id = r.id, x.op \in {"field", "move"} => x.st # "done",
         x.st = "done" /\ x.op = "list" => x.rows = issueServer,
         x.st = "done" /\ x.op \in {"get", "create"} => x.rows[x.id] = issueServer[x.id],
         requests' = (requests \ {r}) \cup {x},
         UNCHANGED <<issueServer, cache, linked, issueChannel, issueStrayed>>
  PROVE  IssueInv'
  <1>1. /\ requests' \subseteq IssueRequest /\ FreshAnswers'
        /\ (\A j : Written(j) => Written(j)') /\ (ListComes => ListComes')
    BY AnsweredAsIs
  <1>2. cache' \in IssueRows /\ issueStrayed' \in BOOLEAN
    BY DEF IssueInv, IssueTypeOK
  <1>3. linked' /\ ~issueStrayed' =>
           \/ ListComes'
           \/ /\ linked /\ ~issueStrayed /\ ~ListComes
              /\ \A j \in Issues : Placed(j) /\ (Known(j) \/ Written(j)) =>
                                     Placed(j)' /\ (Known(j)' \/ Written(j)')
    BY <1>1, CacheStays
  <1> QED BY <1>1, <1>2, <1>3, ChannelStays, IssueFrame

LEMMA IssueServeStep == ASSUME IssueInv, ServeIssue PROVE IssueInv'
  <1>1. PICK r \in requests, st \in {"done", "failed"} :
    /\ r.st = "sent"
    /\ \/ /\ r.op \in {"list", "get"}
          /\ requests' = (requests \ {r}) \cup
               {[r EXCEPT !.st = IF r.op = "get" /\ ~issueServer[r.id].there THEN "failed" ELSE st,
                          !.rows = issueServer]}
          /\ UNCHANGED <<issueServer, issueChannel>>
       \/ /\ r.op \in {"field", "move", "batch"} /\ issueServer[r.id].there
          /\ Publish("updated", r.id, IssuePatched(issueServer[r.id], r.patch))
          /\ requests' = IssueAnswer(r, st)
       \/ /\ r.op \in {"remove", "batchRemove"} /\ issueServer[r.id].there
          /\ Publish("deleted", r.id, Gone)
          /\ requests' = IssueAnswer(r, st)
       \/ /\ r.op = "create" /\ ~issueServer[r.id].there
          /\ \E f \in Fields :
               /\ Publish("created", r.id, Here(f))
               /\ requests' = IssueOutdated(requests \ {r}) \cup
                    {[r EXCEPT !.st = st, !.rows = [@ EXCEPT ![r.id] = Here(f)]]}
       \/ /\ r.op \notin {"list", "get"}
          /\ requests' = (requests \ {r}) \cup
               {[r EXCEPT !.st = IF r.op \in {"batch", "batchRemove"} THEN st ELSE "failed"]}
          /\ UNCHANGED <<issueServer, issueChannel>>
    BY ZenonT(60) DEF ServeIssue
  <1>2. UNCHANGED <<cache, linked, issueStrayed>>
    BY DEF ServeIssue
  <1>3. /\ r \in IssueRequest /\ r.op \in Ops /\ r.id \in Issues /\ r.patch \in Patches
        /\ issueServer \in [Issues -> IssueRow] /\ issueServer \in IssueRows
        /\ r.rows \in [Issues -> IssueRow]
    BY DEF IssueInv, IssueTypeOK, IssueRequest, IssueRows
  <1>4. CASE /\ r.op \in {"list", "get"}
             /\ requests' = (requests \ {r}) \cup
                  {[r EXCEPT !.st = IF r.op = "get" /\ ~issueServer[r.id].there THEN "failed" ELSE st,
                             !.rows = issueServer]}
             /\ UNCHANGED <<issueServer, issueChannel>>
    <2> PICK s \in {"done", "failed"} : s = IF r.op = "get" /\ ~issueServer[r.id].there THEN "failed" ELSE st
      OBVIOUS
    <2> PICK x : x = [r EXCEPT !.st = s, !.rows = issueServer]
      OBVIOUS
    <2>1. x \in IssueRequest /\ x.op = r.op /\ x.id = r.id /\ x.st = s /\ x.rows = issueServer
      BY <1>3 DEF IssueRequest
    <2>2. requests' = (requests \ {r}) \cup {x}
      BY <1>4
    <2> QED BY <1>1, <1>2, <1>4, <2>1, <2>2, IssueAnswerStep
  <1>5. CASE /\ r.op \in {"field", "move", "batch"} /\ issueServer[r.id].there
             /\ Publish("updated", r.id, IssuePatched(issueServer[r.id], r.patch))
             /\ requests' = IssueAnswer(r, st)
    <2> PICK y : y = [r EXCEPT !.st = st]
      OBVIOUS
    <2>1. y \in IssueRequest /\ y.op = r.op /\ y.id = r.id
      BY <1>3 DEF IssueRequest
    <2>2. requests' = IssueOutdated(requests \ {r}) \cup {y}
      BY <1>5 DEF IssueAnswer
    <2> PICK x : x = IssuePatched(issueServer[r.id], r.patch)
      OBVIOUS
    <2>3. x \in IssueRow /\ x.there
      BY <1>3, <1>5, RowFacts
    <2>4. "updated" \in Kinds
      BY DEF Kinds
    <2> QED BY <1>1, <1>2, <1>5, <2>1, <2>2, <2>3, <2>4, CarriedOut
  <1>6. CASE /\ r.op \in {"remove", "batchRemove"} /\ issueServer[r.id].there
             /\ Publish("deleted", r.id, Gone)
             /\ requests' = IssueAnswer(r, st)
    <2> PICK y : y = [r EXCEPT !.st = st]
      OBVIOUS
    <2>1. y \in IssueRequest /\ y.op = r.op /\ y.id = r.id
      BY <1>3 DEF IssueRequest
    <2>2. requests' = IssueOutdated(requests \ {r}) \cup {y}
      BY <1>6 DEF IssueAnswer
    <2>3. "deleted" \in Kinds
      BY DEF Kinds
    <2> QED BY <1>1, <1>2, <1>6, <2>1, <2>2, <2>3, RowFacts, CarriedOut
  <1>7. CASE /\ r.op = "create" /\ ~issueServer[r.id].there
             /\ \E f \in Fields :
                  /\ Publish("created", r.id, Here(f))
                  /\ requests' = IssueOutdated(requests \ {r}) \cup
                       {[r EXCEPT !.st = st, !.rows = [@ EXCEPT ![r.id] = Here(f)]]}
    <2>1. PICK f \in Fields :
                  /\ Publish("created", r.id, Here(f))
                  /\ requests' = IssueOutdated(requests \ {r}) \cup
                       {[r EXCEPT !.st = st, !.rows = [@ EXCEPT ![r.id] = Here(f)]]}
      BY <1>7
    <2> PICK x : x = Here(f)
      OBVIOUS
    <2> PICK y : y = [r EXCEPT !.st = st, !.rows = [@ EXCEPT ![r.id] = x]]
      OBVIOUS
    <2>2. x \in IssueRow /\ x.there
      BY RowFacts
    <2>3. y \in IssueRequest /\ y.op = r.op /\ y.id = r.id /\ y.rows[r.id] = x
      BY <1>3, <2>2 DEF IssueRequest, IssueRows
    <2>4. requests' = IssueOutdated(requests \ {r}) \cup {y} /\ Publish("created", r.id, x)
      BY <2>1
    <2>5. issueServer'[r.id] = x
      BY <1>3, <2>4 DEF Publish
    <2>6. "created" \in Kinds
      BY DEF Kinds
    <2>7. r.op = "create" /\ ~issueServer[r.id].there
      BY <1>7
    <2>8. y.rows[y.id] = issueServer'[y.id] /\ r.op \notin {"list", "get"}
      BY <2>3, <2>5, <2>7
    <2> QED BY <1>2, <2>2, <2>3, <2>4, <2>6, <2>7, <2>8, CarriedOut
  <1>8. CASE /\ r.op \notin {"list", "get"}
             /\ requests' = (requests \ {r}) \cup
                  {[r EXCEPT !.st = IF r.op \in {"batch", "batchRemove"} THEN st ELSE "failed"]}
             /\ UNCHANGED <<issueServer, issueChannel>>
    <2> PICK s \in {"done", "failed"} : s = IF r.op \in {"batch", "batchRemove"} THEN st ELSE "failed"
      OBVIOUS
    <2> PICK x : x = [r EXCEPT !.st = s]
      OBVIOUS
    <2>1. x \in IssueRequest /\ x.op = r.op /\ x.id = r.id /\ x.st = s
      BY <1>3 DEF IssueRequest
    <2>2. requests' = (requests \ {r}) \cup {x}
      BY <1>8
    <2> QED BY <1>1, <1>2, <1>8, <2>1, <2>2, IssueAnswerStep
  <1> QED BY <1>1, <1>4, <1>5, <1>6, <1>7, <1>8

\* The tab takes an answer in: the cache of one issue, at most, changes, and
\* then to what the server has.
LEMMA TakeStep ==
  ASSUME IssueInv, NEW r \in requests, requests' = requests \ {r},
         UNCHANGED <<issueServer, linked, issueChannel>>,
         cache' \in IssueRows, issueStrayed' \in BOOLEAN,
         ~issueStrayed' =>
           /\ ~issueStrayed /\ r.op # "list"
           /\ r.op \in {"field", "move"} /\ r.st # "done" => cache'[r.id] = issueServer[r.id]
           /\ \A j \in Issues : cache'[j] = cache[j] \/ cache'[j] = issueServer[j]
  PROVE  IssueInv'
  <1>1. /\ requests' \subseteq IssueRequest /\ FreshAnswers'
        /\ \A j : Written(j) => Written(j)' \/ (r.op \in {"field", "move"} /\ r.st # "done" /\ j = r.id)
        /\ ListComes => ListComes' \/ r.op = "list"
    BY Taken
  <1>2. ASSUME NEW j \in Issues, cache'[j] = cache[j]
        PROVE  (Placed(j) => Placed(j)') /\ (Known(j) => Known(j)')
    BY <1>2 DEF Placed, Known, Corrected, Corrects
  <1>3. ASSUME NEW j \in Issues, cache'[j] = issueServer[j]
        PROVE  Placed(j)' /\ Known(j)'
    BY <1>3 DEF Placed, Known
  <1>4. linked' /\ ~issueStrayed' =>
           \/ ListComes'
           \/ /\ linked /\ ~issueStrayed /\ ~ListComes
              /\ \A j \in Issues : Placed(j) /\ (Known(j) \/ Written(j)) =>
                                     Placed(j)' /\ (Known(j)' \/ Written(j)')
    BY <1>1, <1>2, <1>3
  <1> QED BY <1>1, <1>4, ChannelStays, IssueFrame

LEMMA LandStep == ASSUME IssueInv, IssuesLand PROVE IssueInv'
  <1>1. PICK r \in requests :
    /\ r.st = "done" /\ r.op \in {"list", "get", "create"}
    /\ cache' = IF r.op = "list" THEN r.rows ELSE AddIssue(cache, r.id, r.rows[r.id])
    /\ requests' = requests \ {r}
    /\ issueStrayed' = (issueStrayed \/ r.old)
    /\ UNCHANGED <<issueServer, linked, issueChannel>>
    BY DEF IssuesLand, IssueStrays
  <1>2. /\ r.id \in Issues /\ r.rows \in [Issues -> IssueRow] /\ r.old \in BOOLEAN
        /\ cache \in [Issues -> IssueRow] /\ issueStrayed \in BOOLEAN
    BY DEF IssueInv, IssueTypeOK, IssueRequest, IssueRows
  <1>3. cache' \in IssueRows /\ issueStrayed' \in BOOLEAN
    BY <1>1, <1>2 DEF AddIssue, IssueRows
  <1>4. ~r.old => /\ r.op = "list" => r.rows = issueServer
                  /\ r.op \in {"get", "create"} => r.rows[r.id] = issueServer[r.id]
    BY <1>1 DEF IssueInv, FreshAnswers
  <1>5. CASE r.op = "list"
    <2>1. /\ requests' \subseteq IssueRequest /\ FreshAnswers'
      BY <1>1, Taken
    <2>2. ~r.old => \A j \in Issues : Placed(j)' /\ Known(j)'
      BY <1>1, <1>4, <1>5 DEF Placed, Known
    <2>3. linked' /\ ~issueStrayed' => \A j \in Issues : Placed(j)' /\ Known(j)'
      BY <1>1, <2>2
    <2>4. InTouch'
      BY <2>3 DEF InTouch
    <2>5. IssueTypeOK'
      BY <1>1, <1>3, <2>1, ChannelStays DEF IssueTypeOK
    <2> QED BY <1>1, <2>1, <2>4, <2>5, ChannelStays DEF IssueInv
  <1>6. CASE r.op # "list"
    <2>1. ~issueStrayed' => \A j \in Issues : cache'[j] = cache[j] \/ cache'[j] = issueServer[j]
      BY <1>1, <1>2, <1>4, <1>6 DEF AddIssue
    <2>2. ~issueStrayed' => ~issueStrayed
      BY <1>1
    <2> QED BY <1>1, <1>3, <1>6, <2>1, <2>2, TakeStep
  <1> QED BY <1>5, <1>6

LEMMA FetchStep == ASSUME IssueInv, FetchFails PROVE IssueInv'
  <1>1. PICK r \in requests :
    /\ r.st = "failed" /\ r.op \in {"list", "get", "create", "remove"}
    /\ requests' = requests \ {r}
    /\ issueStrayed' = (issueStrayed \/ r.op = "list")
    /\ UNCHANGED <<issueServer, cache, linked, issueChannel>>
    BY DEF FetchFails, IssueStrays
  <1>2. cache' \in IssueRows /\ issueStrayed' \in BOOLEAN
    BY <1>1 DEF IssueInv, IssueTypeOK
  <1>3. ~issueStrayed' => ~issueStrayed /\ r.op # "list"
    BY <1>1
  <1> QED BY <1>1, <1>2, <1>3, TakeStep

LEMMA IssueSuccessStep == ASSUME IssueInv, WriteSucceeds PROVE IssueInv'
  <1>1. PICK r \in requests :
    /\ r.st = "done" /\ r.op \in {"field", "move", "batch", "remove", "batchRemove"}
    /\ cache' = CASE r.op \in {"field", "move"} -> cache
                  [] r.op = "batch" -> UpdateIssue(cache, r.id, IssuePatched(cache[r.id], r.patch))
                  [] OTHER -> RemoveIssue(cache, r.id)
    /\ requests' = requests \ {r}
    /\ issueStrayed' = (issueStrayed \/ (/\ r.op \in {"batch", "remove", "batchRemove"}
                                         /\ cache'[r.id] # issueServer[r.id]))
    /\ UNCHANGED <<issueServer, linked, issueChannel>>
    BY DEF WriteSucceeds, IssueStrays
  <1>2. r.id \in Issues /\ r.patch \in Patches /\ cache \in [Issues -> IssueRow]
    BY DEF IssueInv, IssueTypeOK, IssueRequest, IssueRows
  <1>3. IssuePatched(cache[r.id], r.patch) \in IssueRow /\ Gone \in IssueRow
    BY <1>2, RowFacts
  <1>4. /\ cache' \in IssueRows /\ \A j \in Issues : j # r.id => cache'[j] = cache[j]
        /\ r.op \in {"field", "move"} => cache' = cache
    <2>1. CASE r.op \in {"field", "move"}
      BY <1>1, <1>2, <2>1 DEF IssueRows
    <2>2. CASE r.op = "batch"
      <3>1. cache' = UpdateIssue(cache, r.id, IssuePatched(cache[r.id], r.patch))
        BY <1>1, <2>2
      <3> QED BY <1>2, <1>3, <2>2, <3>1 DEF UpdateIssue, IssueRows
    <2>3. CASE r.op \in {"remove", "batchRemove"}
      <3>1. cache' = RemoveIssue(cache, r.id)
        BY <1>1, <2>3
      <3> QED BY <1>2, <1>3, <2>3, <3>1 DEF RemoveIssue, IssueRows
    <2> QED BY <1>1, <2>1, <2>2, <2>3
  <1>5. issueStrayed' \in BOOLEAN
    BY <1>1 DEF IssueInv, IssueTypeOK
  <1>6. ~issueStrayed' => /\ ~issueStrayed
                          /\ r.op \in {"batch", "remove", "batchRemove"} => cache'[r.id] = issueServer[r.id]
    BY <1>1
  <1>7. ~issueStrayed' => \A j \in Issues : cache'[j] = cache[j] \/ cache'[j] = issueServer[j]
    BY <1>1, <1>4, <1>6
  <1>8. r.op # "list" /\ r.st = "done"
    BY <1>1
  <1> QED BY <1>1, <1>4, <1>5, <1>6, <1>7, <1>8, TakeStep

LEMMA IssueUndoStep == ASSUME IssueInv, FieldFails PROVE IssueInv'
  <1>1. PICK r \in requests :
    /\ r.st = "failed" /\ r.op = "field"
    /\ cache' = UpdateIssue(cache, r.id, r.prev)
    /\ requests' = requests \ {r}
    /\ issueStrayed' = (issueStrayed \/ cache'[r.id] # issueServer[r.id])
    /\ UNCHANGED <<issueServer, linked, issueChannel>>
    BY DEF FieldFails, IssueStrays
  <1>2. r.id \in Issues /\ r.prev \in IssueRow /\ cache \in [Issues -> IssueRow]
    BY DEF IssueInv, IssueTypeOK, IssueRequest, IssueRows
  <1>3. cache' \in IssueRows /\ \A j \in Issues : j # r.id => cache'[j] = cache[j]
    BY <1>1, <1>2 DEF UpdateIssue, IssueRows
  <1>4. issueStrayed' \in BOOLEAN
    BY <1>1 DEF IssueInv, IssueTypeOK
  <1>5. ~issueStrayed' => ~issueStrayed /\ cache'[r.id] = issueServer[r.id]
    BY <1>1
  <1>6. ~issueStrayed' => \A j \in Issues : cache'[j] = cache[j] \/ cache'[j] = issueServer[j]
    BY <1>3, <1>5
  <1>7. r.op # "list"
    BY <1>1
  <1> QED BY <1>1, <1>3, <1>4, <1>5, <1>6, <1>7, TakeStep

LEMMA MoveStep == ASSUME IssueInv, MoveFails PROVE IssueInv'
  <1>1. PICK r \in requests :
    /\ requests' = (requests \ {r}) \cup {AskList}
    /\ UNCHANGED <<issueServer, cache, linked, issueChannel, issueStrayed>>
    BY DEF MoveFails, Recovers
  <1>2. AskList \in IssueRequest /\ AskList.op = "list" /\ AskList.st = "sent"
    BY AskedTyped
  <1>3. requests' \subseteq IssueRequest /\ FreshAnswers' /\ ListComes'
    BY <1>1, <1>2 DEF IssueInv, IssueTypeOK, FreshAnswers, ListComes
  <1>4. cache' \in IssueRows /\ issueStrayed' \in BOOLEAN
    BY <1>1 DEF IssueInv, IssueTypeOK
  <1> QED BY <1>1, <1>3, <1>4, ChannelStays, IssueFrame

LEMMA IssueStep == IssueInv /\ [IssueNext]_issueVars => IssueInv'
  <1> SUFFICES ASSUME IssueInv, [IssueNext]_issueVars PROVE IssueInv'
    OBVIOUS
  <1>1. CASE UNCHANGED issueVars
    <2>1. UNCHANGED <<issueServer, cache, linked, issueChannel, requests, issueStrayed>>
      BY <1>1 DEF issueVars
    <2>2. FreshAnswers' /\ InTouch'
      BY <2>1, CacheStays DEF IssueInv, FreshAnswers, InTouch, ListComes, Written
    <2>3. IssueTypeOK'
      BY <2>1 DEF IssueInv, IssueTypeOK
    <2> QED BY <2>1, <2>2, <2>3, ChannelStays DEF IssueInv
  <1>2. CASE UpdateField \/ UpdateCard \/ MoveIssue
    BY <1>2, IssueWriteStep DEF UpdateField, UpdateCard, MoveIssue
  <1>3. CASE OpenDetail \/ BatchUpdate \/ BatchDelete \/ DeleteIssue \/ CreateIssue
    BY <1>3, PageSteps
  <1> QED BY <1>1, <1>2, <1>3, IssueOthersStep, IssueEventStep, IssueDropStep, ReconnectStep, IssueServeStep,
             LandStep, FetchStep, IssueSuccessStep, IssueUndoStep, MoveStep DEF IssueNext

\* The invariant of the issue list: what is known of an issue on its row, in an
\* answer or behind an event on its way is what the server has, unless a request
\* that brings it again is on its way or the copy strayed.
THEOREM IssueInvariant == IssueSpec => []IssueInv
  BY IssueStart, IssueStep, PTL DEF IssueSpec

\* The issue store (useIssueStore, its sync and the optimistic writes of the
\* pages): once every answer and event has come and nothing strayed, every row
\* shows what the server has, for any issues, fields and values.
THEOREM IssuesConverge == IssueSpec => []Converges
  <1>1. IssueInv => Converges
    <2> SUFFICES ASSUME IssueInv, IssueSettled, ~issueStrayed PROVE cache = issueServer
      BY DEF Converges
    <2>1. \A i \in Issues : ~Corrected(i) /\ ~Written(i)
      BY DEF IssueSettled, Corrected, Written
    <2>2. ~ListComes
      BY DEF IssueSettled, ListComes
    <2>3. \A i \in Issues : cache[i] = issueServer[i]
      BY <2>1, <2>2 DEF IssueInv, InTouch, IssueSettled, Known
    <2> QED BY <2>3 DEF IssueInv, IssueTypeOK, IssueRows
  <1> QED BY <1>1, IssueInvariant, PTL

-------------------------------------------------------------------------------
(***************************************************************************)
(* Reactions and subscribers follow the server.                             *)
(***************************************************************************)

MarkEvent   == [kind : {"added", "removed"}, mark : Mark]
MarkRequest == [op : {"load", "add", "remove"}, who : Actors, undo : Seq(Mark),
                st : {"sent", "done", "failed"}, got : Seq(Mark), old : BOOLEAN]
MarkTyped ==
    /\ markKind \in {"reaction", "subscriber"} /\ marks \subseteq Mark /\ markMinted \in 0..MaxMinted
    /\ markRow \in Seq(Mark) /\ markWire \in Seq(MarkEvent) /\ markCalls \subseteq MarkRequest
    /\ markHears \in BOOLEAN /\ markStrayed \in BOOLEAN

\* An actor's events on the way.
About(k, kind, who) == k \in DOMAIN markWire /\ markWire[k].kind = kind /\ markWire[k].mark.by = who
Leaves(who) == \E k \in DOMAIN markWire : About(k, "removed", who)
Arrives(who) == \E k \in DOMAIN markWire : About(k, "added", who)

\* What the server has, and what the events on their way say of it: the last
\* one about an actor says what it has of this actor.
OnePerActor(S) == \A x, y \in S : x.by = y.by => x = y
ServerTrue ==
    /\ OnePerActor(marks)
    /\ \A k \in DOMAIN markWire, who \in Actors :
         /\ About(k, "added", who) =>
              markWire[k].mark \in marks \/ \E l \in DOMAIN markWire : k < l /\ About(l, "removed", who)
         /\ About(k, "removed", who) =>
              ~HasMark(marks, who) \/ \E l \in DOMAIN markWire : k < l /\ About(l, "added", who)
    /\ markHears \/ markWire = <<>>

\* The marks there are or were: a number stands for one, and a subscriber has none.
Told == marks \cup {markWire[k].mark : k \in {j \in DOMAIN markWire : markWire[j].kind = "added"}}
NumbersTrue ==
    IF markKind = "reaction"
    THEN /\ \A x \in Told : x.id \in 1..markMinted
         /\ \A x, y \in Told : x.id = y.id => x = y
    ELSE \A x \in Told \cup MarkShown(markRow) : x.id = Temp

CallsTrue == \A c \in markCalls :
    /\ c.op # "load" /\ markKind = "reaction" => c.who = "me"
    /\ c.op = "add" /\ c.st = "done" => c.got # <<>>
    /\ markKind = "subscriber" => \A x \in MarkShown(c.got) \cup MarkShown(c.undo) : x.id = Temp
    /\ c.op = "load" /\ c.st = "done" /\ ~c.old => Matches(c.got, marks)

Toggles == {c \in markCalls : c.op # "load"}
LoadComes == \E c \in markCalls : c.op = "load"
Undoes == \E c \in Toggles : c.st = "failed"

\* Unless an event will take it away, what the row has of an actor the server
\* has, and what it lacks an event will bring.
FollowsWire(who) == ~Leaves(who) =>
    /\ \A x \in MarkShown(markRow) : x.by = who => x \in marks
    /\ HasMark(marks, who) => HasMark(MarkShown(markRow), who) \/ Arrives(who)

\* One's own reaction, whose events are skipped.
OwnIs(S) == \A x \in Mark : x.by = "me" => (x \in MarkShown(markRow) <=> x \in S)
OwnMark ==
    /\ Toggles = {} => OwnIs(marks)
    /\ \A c \in Toggles :
         /\ c.op = "add" => OwnIs({[by |-> "me", id |-> Temp]})
         /\ c.op = "add" /\ c.st = "done" => c.got[1] \in marks /\ c.got[1].by = "me"
         /\ c.op = "remove" => OwnIs({})
         /\ c.op = "remove" /\ c.st = "done" => ~HasMark(marks, "me")

EachOnce(held) == \A j, k \in DOMAIN held : held[j] = held[k] => j = k
RowNumbers    == \A x \in MarkShown(markRow) : x.id <= markMinted /\ \A y \in Told : x.id = y.id => x = y
RowAgrees ==
    /\ EachOnce(markRow)
    /\ \A c, d \in Toggles : c.who = d.who => c = d
    /\ IF markKind = "reaction"
       THEN OwnMark /\ FollowsWire("other") /\ RowNumbers
       ELSE \A who \in Actors : (\E c \in Toggles : c.who = who /\ c.st = "sent") \/ FollowsWire(who)

MarksTouch == markHears /\ ~markStrayed => LoadComes \/ Undoes \/ RowAgrees

MarkInv == MarkTyped /\ ServerTrue /\ NumbersTrue /\ CallsTrue /\ MarksTouch

-----------------------------------------------------------------------------
(* Rows of marks as sequences.                                              *)

LEMMA ShownOf ==
  ASSUME NEW S, NEW s \in Seq(S)
  PROVE  /\ MarkShown(s) \subseteq S
         /\ \A x \in S : MarkShown(Append(s, x)) = MarkShown(s) \cup {x}
         /\ \A x \in S : EachOnce(s) /\ x \notin MarkShown(s) => EachOnce(Append(s, x))
  <1>1. MarkShown(s) \subseteq S
    BY DEF MarkShown
  <1>2. ASSUME NEW x \in S PROVE MarkShown(Append(s, x)) = MarkShown(s) \cup {x}
    <2>1. /\ Len(s) \in Nat /\ DOMAIN s = 1..Len(s) /\ DOMAIN Append(s, x) = 1..(Len(s) + 1)
          /\ \A k \in 1..Len(s) : Append(s, x)[k] = s[k]
          /\ Append(s, x)[Len(s) + 1] = x
      OBVIOUS
    <2>2. MarkShown(Append(s, x)) \subseteq MarkShown(s) \cup {x}
      BY <2>1 DEF MarkShown
    <2>3. MarkShown(s) \subseteq MarkShown(Append(s, x)) /\ x \in MarkShown(Append(s, x))
      BY <2>1 DEF MarkShown
    <2> QED BY <2>2, <2>3
  <1>3. ASSUME NEW x \in S, EachOnce(s), x \notin MarkShown(s) PROVE EachOnce(Append(s, x))
    <2>1. /\ Len(s) \in Nat /\ DOMAIN s = 1..Len(s) /\ DOMAIN Append(s, x) = 1..(Len(s) + 1)
          /\ \A k \in 1..Len(s) : Append(s, x)[k] = s[k] /\ s[k] # x
          /\ Append(s, x)[Len(s) + 1] = x
      BY <1>3 DEF MarkShown
    <2> QED BY <1>3, <2>1 DEF EachOnce
  <1> QED BY <1>1, <1>2, <1>3

LEMMA JoinedShows ==
  ASSUME NEW S, NEW s \in Seq(S), NEW t \in Seq(S)
  PROVE  s \o t \in Seq(S) /\ MarkShown(s \o t) \subseteq MarkShown(s) \cup MarkShown(t)
  <1>1. /\ s \o t \in Seq(S) /\ Len(s) \in Nat /\ Len(t) \in Nat /\ DOMAIN s = 1..Len(s) /\ DOMAIN t = 1..Len(t)
        /\ DOMAIN (s \o t) = 1..(Len(s) + Len(t))
        /\ \A k \in 1..(Len(s) + Len(t)) : (s \o t)[k] = IF k <= Len(s) THEN s[k] ELSE t[k - Len(s)]
    OBVIOUS
  <1>2. ASSUME NEW k \in 1..(Len(s) + Len(t)) PROVE (s \o t)[k] \in MarkShown(s) \cup MarkShown(t)
    <2>1. CASE k <= Len(s)
      BY <1>1, <2>1 DEF MarkShown
    <2>2. CASE ~(k <= Len(s))
      <3>1. k - Len(s) \in 1..Len(t)
        BY <1>1, <2>2
      <3> QED BY <1>1, <2>2, <3>1 DEF MarkShown
    <2> QED BY <2>1, <2>2
  <1>3. MarkShown(s \o t) = {(s \o t)[k] : k \in 1..(Len(s) + Len(t))}
    BY <1>1 DEF MarkShown
  <1> QED BY <1>1, <1>2, <1>3

LEMMA OnlyShows ==
  ASSUME NEW S, NEW s \in Seq(S), NEW T
  PROVE  /\ Only(s, T) \in Seq(S) /\ MarkShown(Only(s, T)) = MarkShown(s) \cap T
         /\ EachOnce(s) => EachOnce(Only(s, T))
  <1> PICK q : q = Only(s, T)
    OBVIOUS
  <1>1. /\ q \in Seq(S)
        /\ \A x : (\E k \in DOMAIN q : q[k] = x) <=> (x \in T /\ \E k \in DOMAIN s : s[k] = x)
        /\ (\A j, k \in DOMAIN s : s[j] = s[k] => j = k) => \A j, k \in DOMAIN q : q[j] = q[k] => j = k
    BY OnlyFacts
  <1>2. \A x : x \in MarkShown(q) <=> x \in MarkShown(s) /\ x \in T
    BY <1>1 DEF MarkShown
  <1> QED BY <1>1, <1>2 DEF EachOnce

\* A row without repetition is as long as the set it shows, and the converse.
LEMMA OnceIsLength ==
  ASSUME NEW S, NEW s \in Seq(S)
  PROVE  EachOnce(s) <=> Len(s) = Cardinality(MarkShown(s))
  <1> PICK n : n = Len(s)
    OBVIOUS
  <1> PICK T : T = MarkShown(s)
    OBVIOUS
  <1>1. n \in Nat /\ DOMAIN s = 1..n /\ s \in [1..n -> T] /\ \A x \in T : \E k \in 1..n : s[k] = x
    BY DEF MarkShown
  <1>2. s \in Surjection(1..n, T)
    BY <1>1 DEF Surjection
  <1>3. IsFiniteSet(1..n) /\ Cardinality(1..n) = n
    <2>1. n \in Int /\ 1 \in Int
      BY <1>1
    <2>2. IsFiniteSet(1..n) /\ Cardinality(1..n) = IF 1 > n THEN 0 ELSE n - 1 + 1
      BY <2>1, FS_Interval
    <2> QED BY <1>1, <2>2
  <1>4. Cardinality(T) = n <=> s \in Injection(1..n, T)
    BY <1>2, <1>3, FS_Surjection
  <1>5. s \in Injection(1..n, T) <=> EachOnce(s)
    BY <1>1 DEF Injection, IsInjective, EachOnce
  <1> QED BY <1>4, <1>5

\* At most one mark of an actor: they can be listed.
LEMMA MarksListed ==
  ASSUME NEW S \in SUBSET Mark, OnePerActor(S)
  PROVE  RowOf(S) \in Seq(S) /\ Matches(RowOf(S), S)
  <1> DEFINE f == [x \in S |-> x.by]
  <1>1. f \in Injection(S, Actors)
    BY DEF Injection, IsInjective, OnePerActor, Mark
  <1>2. IsFiniteSet(Actors)
    <2>1. IsFiniteSet({"me"})
      BY FS_Singleton
    <2>2. IsFiniteSet({"me"} \cup {"other"})
      BY <2>1, FS_AddElement
    <2>3. Actors = {"me"} \cup {"other"}
      BY DEF Actors
    <2> QED BY <2>2, <2>3
  <1>3. IsFiniteSet(S)
    <2> HIDE DEF f
    <2> QED BY <1>1, <1>2, FS_Injection
  <1>4. PICK n \in Nat : ExistsBijection(1..n, S)
    BY <1>3, FS_NatBijection
  <1>5. PICK b \in Bijection(1..n, S) : TRUE
    BY <1>4 DEF ExistsBijection
  <1>6. Cardinality(S) = n
    BY <1>4, FS_CountingElements
  <1>7. b \in [1..n -> S] /\ MarkShown(b) = S
    BY <1>5 DEF Bijection, Injection, Surjection, MarkShown
  <1> PICK held : held = RowOf(S)
    OBVIOUS
  <1>8. held \in [1..n -> S] /\ MarkShown(held) = S
    BY <1>6, <1>7 DEF RowOf
  <1>9. held \in Seq(S) /\ Len(held) = n
    BY <1>8
  <1> QED BY <1>6, <1>8, <1>9 DEF Matches

-----------------------------------------------------------------------------
(* The server's act on an actor's mark, and the event it sends.             *)

LEMMA MarkFields ==
  /\ \A x \in Mark : x.by \in Actors /\ x.id \in 0..MaxMinted
  /\ \A b \in Actors, i \in 0..MaxMinted : [by |-> b, id |-> i] \in Mark
  /\ \A x \in Mark : x = [by |-> x.by, id |-> x.id]
  /\ Temp = 0 /\ "me" \in Actors /\ "other" \in Actors /\ (\A b \in Actors : b \in {"me", "other"})
  BY DEF Mark, Actors, Temp

LEMMA Emitted ==
  ASSUME MarkTyped, ServerTrue, NEW ev \in MarkEvent, Emit(ev)
  PROVE  /\ markWire' \in Seq(MarkEvent)
         /\ ~markHears => markWire = <<>> /\ markWire' = <<>>
         /\ markHears => /\ DOMAIN markWire' = 1..(Len(markWire) + 1) /\ markWire'[Len(markWire) + 1] = ev
                         /\ Len(markWire) + 1 \notin DOMAIN markWire
         /\ \A k \in DOMAIN markWire : k \in DOMAIN markWire' /\ markWire'[k] = markWire[k]
         /\ DOMAIN markWire = 1..Len(markWire) /\ Len(markWire) \in Nat
  <1>1. markWire \in Seq(MarkEvent) /\ markHears \in BOOLEAN /\ (markHears \/ markWire = <<>>)
        /\ markWire' = (IF markHears THEN Append(markWire, ev) ELSE markWire)
    BY DEF MarkTyped, ServerTrue, Emit
  <1>2. CASE markHears
    BY <1>1, <1>2
  <1>3. CASE ~markHears
    BY <1>1, <1>3
  <1> QED BY <1>2, <1>3

\* The two acts.
Puts(who) == /\ HasMark(marks', who) /\ MarkOf(marks', who) \in marks' /\ MarkOf(marks', who).by = who
             /\ Emit([kind |-> "added", mark |-> MarkOf(marks', who)])
             /\ \/ marks' = marks /\ markMinted' = markMinted
                \/ /\ ~HasMark(marks, who) /\ markMinted < MaxMinted /\ markMinted' = markMinted + 1
                   /\ marks' = marks \cup {MarkOf(marks', who)} /\ MarkOf(marks', who) = [by |-> who, id |-> NewId]
Drops(who) == /\ marks' = {x \in marks : x.by # who} /\ markMinted' = markMinted
              /\ Emit([kind |-> "removed", mark |-> [by |-> who, id |-> Temp]])

LEMMA TheyPut ==
  ASSUME MarkTyped, NEW who \in Actors, PutMark(who)
  PROVE  Puts(who) /\ marks' \subseteq Mark /\ markMinted' \in 0..MaxMinted
  <1>1. CASE HasMark(marks, who)
    <2>1. marks' = marks /\ markMinted' = markMinted /\ Emit([kind |-> "added", mark |-> MarkOf(marks, who)])
      BY <1>1 DEF PutMark
    <2>2. MarkOf(marks, who) \in marks /\ MarkOf(marks, who).by = who
      BY <1>1 DEF HasMark, MarkOf
    <2>3. HasMark(marks', who) /\ MarkOf(marks', who) = MarkOf(marks, who)
      BY <1>1, <2>1
    <2> QED BY <2>1, <2>2, <2>3 DEF Puts, MarkTyped
  <1>2. CASE ~HasMark(marks, who)
    <2> DEFINE m == [by |-> who, id |-> NewId]
    <2>1. /\ markMinted < MaxMinted /\ markMinted' = markMinted + 1 /\ marks' = marks \cup {m}
          /\ Emit([kind |-> "added", mark |-> m])
      BY <1>2 DEF PutMark
    <2>2. m \in marks' /\ m.by = who /\ \A x \in marks' : x.by = who => x = m
      BY <1>2, <2>1 DEF HasMark
    <2>3. HasMark(marks', who) /\ MarkOf(marks', who) = m
      BY <2>2 DEF HasMark, MarkOf
    <2>4. markMinted' \in 0..MaxMinted /\ NewId \in 0..MaxMinted
      BY <2>1, MarkAssumption DEF MarkTyped, NewId, Temp
    <2>5. m \in Mark
      BY <2>4, MarkFields
    <2> QED BY <1>2, <2>1, <2>2, <2>3, <2>4, <2>5 DEF Puts, MarkTyped
  <1> QED BY <1>1, <1>2

LEMMA TheyDrop ==
  ASSUME MarkTyped, NEW who \in Actors, DropMark(who)
  PROVE  Drops(who) /\ marks' \subseteq Mark /\ markMinted' \in 0..MaxMinted
  BY DEF DropMark, Drops, MarkTyped

LEMMA PutKeeps ==
  ASSUME MarkTyped, ServerTrue, NumbersTrue, NEW who \in Actors, Puts(who), marks' \subseteq Mark,
         markHears' = markHears, markKind' = markKind, markRow' = markRow
  PROVE  /\ markWire' \in Seq(MarkEvent) /\ ServerTrue' /\ NumbersTrue'
         /\ RowNumbers /\ markKind = "reaction" => RowNumbers'
         /\ markHears => \A b \in Actors : FollowsWire(b) => FollowsWire(b)'
         /\ markHears /\ markKind = "subscriber" => FollowsWire(who)'
         /\ \A x \in Mark : x.by # who => (x \in marks' <=> x \in marks)
  <1> PICK m : m = MarkOf(marks', who)
    OBVIOUS
  <1> DEFINE ev == [kind |-> "added", mark |-> m]
  <1> PICK n : n = Len(markWire)
    OBVIOUS
  <1>1. /\ m \in marks' /\ m.by = who /\ m \in Mark /\ ev \in MarkEvent /\ Emit(ev)
        /\ marks' = marks \/ (marks' = marks \cup {m} /\ ~HasMark(marks, who))
    BY DEF Puts, MarkEvent
  <1>2. /\ markWire' \in Seq(MarkEvent) /\ DOMAIN markWire = 1..n /\ n \in Nat
        /\ ~markHears => markWire = <<>> /\ markWire' = <<>>
        /\ markHears => DOMAIN markWire' = 1..(n + 1) /\ markWire'[n + 1] = ev
        /\ \A k \in 1..n : k \in DOMAIN markWire' /\ markWire'[k] = markWire[k]
        /\ markHears \in BOOLEAN
    <2>1. ev \in MarkEvent /\ Emit(ev)
      BY <1>1
    <2> HIDE DEF ev
    <2> QED BY <2>1, Emitted DEF MarkTyped
  <1>3. \A x \in Mark : x.by # who => (x \in marks' <=> x \in marks)
    BY <1>1
  <1>4. \A x \in marks' : x \in marks \/ x = m
    BY <1>1
  \* What the events say.
  <1>5. \A k, kind, b : About(k, kind, b)' =>
            About(k, kind, b) \/ (k = n + 1 /\ markHears /\ kind = "added" /\ b = who)
    BY <1>1, <1>2 DEF About
  <1>6. \A k, kind, b : About(k, kind, b) => About(k, kind, b)' /\ k \in 1..n
    BY <1>2 DEF About
  <1>7. markHears => About(n + 1, "added", who)'
    BY <1>1, <1>2 DEF About
  <1>8. ServerTrue'
    <2>1. OnePerActor(marks')
      BY <1>1 DEF ServerTrue, OnePerActor, HasMark
    <2>2. markHears' \/ markWire' = <<>>
      BY <1>2
    <2>3. ASSUME NEW k \in DOMAIN markWire', NEW b \in Actors, About(k, "added", b)'
          PROVE  markWire'[k].mark \in marks' \/ \E l \in DOMAIN markWire' : k < l /\ About(l, "removed", b)'
      <3>1. CASE About(k, "added", b)
        <4>1. k \in 1..n /\ markWire'[k] = markWire[k]
          BY <1>2, <1>6, <3>1
        <4>2. markWire[k].mark \in marks \/ \E l \in DOMAIN markWire : k < l /\ About(l, "removed", b)
          BY <1>2, <3>1, <4>1 DEF ServerTrue
        <4>3. marks \subseteq marks'
          BY <1>1
        <4> QED BY <1>2, <1>6, <4>1, <4>2, <4>3
      <3>2. CASE k = n + 1 /\ markHears
        BY <1>1, <1>2, <3>2
      <3> QED BY <1>5, <2>3, <3>1, <3>2
    <2>4. ASSUME NEW k \in DOMAIN markWire', NEW b \in Actors, About(k, "removed", b)'
          PROVE  ~HasMark(marks', b) \/ \E l \in DOMAIN markWire' : k < l /\ About(l, "added", b)'
      <3>1. About(k, "removed", b) /\ k \in 1..n /\ markHears
        BY <1>2, <1>5, <1>6, <2>4
      <3>2. CASE b = who
        BY <1>2, <1>7, <3>1, <3>2
      <3>3. CASE b # who
        <4>1. ~HasMark(marks, b) \/ \E l \in DOMAIN markWire : k < l /\ About(l, "added", b)
          BY <1>2, <3>1 DEF ServerTrue
        <4>2. ~HasMark(marks, b) => ~HasMark(marks', b)
          BY <1>1, <1>4, <3>3 DEF HasMark
        <4> QED BY <1>2, <1>6, <4>1, <4>2
      <3> QED BY <3>2, <3>3
    <2> QED BY <2>1, <2>2, <2>3, <2>4 DEF ServerTrue
  \* Numbers.
  <1>9. \A x \in Told' : x \in Told \/ x = m
    <2>1. \A k \in DOMAIN markWire' : markWire'[k].kind = "added" =>
             markWire'[k].mark = m \/ (k \in DOMAIN markWire /\ markWire[k].kind = "added" /\ markWire'[k].mark = markWire[k].mark)
      <3>1. \A k \in DOMAIN markWire' : k \in 1..n \/ (markHears /\ k = n + 1)
        BY <1>2
      <3> QED BY <1>2, <3>1
    <2> QED BY <1>4, <2>1 DEF Told
  <1>10. m \in Told \/ (m = [by |-> who, id |-> NewId] /\ markMinted' = markMinted + 1)
    BY <1>1 DEF Puts, Told
  <1>11. /\ markMinted \in Nat /\ markMinted' \in Nat /\ markMinted <= markMinted'
         /\ (m.id = NewId /\ markMinted' = markMinted + 1) \/ m \in Told
    BY <1>10, MarkAssumption DEF MarkTyped, Puts
  <1>12. NumbersTrue'
    <2>1. CASE markKind = "reaction"
      <3>1. /\ \A x \in Told : x.id \in 1..markMinted
            /\ \A x, y \in Told : x.id = y.id => x = y
        BY <2>1 DEF NumbersTrue
      <3>2. m \in Told \/ (m.id = markMinted + 1 /\ markMinted' = markMinted + 1)
        BY <1>11, <2>1 DEF NewId
      <3>3. \A x \in Told' : x.id \in 1..markMinted'
        BY <1>9, <1>11, <3>1, <3>2
      <3>4. \A x, y \in Told' : x.id = y.id => x = y
        BY <1>9, <1>11, <3>1, <3>2
      <3> QED BY <2>1, <3>3, <3>4 DEF NumbersTrue
    <2>2. CASE markKind = "subscriber"
      <3>1. \A x \in Told \cup MarkShown(markRow) : x.id = Temp
        BY <2>2 DEF NumbersTrue
      <3>2. m.id = Temp
        BY <1>11, <2>2, <3>1 DEF NewId
      <3> QED BY <1>9, <2>2, <3>1, <3>2 DEF NumbersTrue
    <2> QED BY <2>1, <2>2 DEF MarkTyped
  <1>13. ASSUME RowNumbers, markKind = "reaction" PROVE RowNumbers'
    <2>1. \A x \in MarkShown(markRow) : x.id <= markMinted /\ x.id \in Nat /\ \A y \in Told : x.id = y.id => x = y
      <3>1. MarkShown(markRow) \subseteq Mark
        BY ShownOf DEF MarkTyped
      <3>2. \A x \in MarkShown(markRow) : x.id \in Nat
        BY <3>1, MarkFields, MarkAssumption
      <3> QED BY <1>13, <3>2 DEF RowNumbers
    <2>2. m \in Told \/ (m.id = markMinted + 1 /\ markMinted' = markMinted + 1)
      BY <1>11, <1>13 DEF NewId
    <2>3. \A x \in MarkShown(markRow) : x.id <= markMinted' /\ \A y \in Told' : x.id = y.id => x = y
      BY <1>9, <1>11, <2>1, <2>2
    <2> QED BY <2>3 DEF RowNumbers
  \* The row and the wire.
  <1>14. ASSUME markHears, NEW b \in Actors, FollowsWire(b) PROVE FollowsWire(b)'
    <2>1. SUFFICES ASSUME ~Leaves(b)'
                   PROVE  /\ \A x \in MarkShown(markRow) : x.by = b => x \in marks'
                          /\ HasMark(marks', b) => HasMark(MarkShown(markRow), b) \/ Arrives(b)'
      BY DEF FollowsWire
    <2>2. ~Leaves(b)
      BY <1>2, <1>6, <2>1 DEF Leaves
    <2>3. /\ \A x \in MarkShown(markRow) : x.by = b => x \in marks
          /\ HasMark(marks, b) => HasMark(MarkShown(markRow), b) \/ Arrives(b)
      BY <1>14, <2>2 DEF FollowsWire
    <2>4. marks \subseteq marks' /\ (Arrives(b) => Arrives(b)')
      BY <1>1, <1>2, <1>6 DEF Arrives
    <2>5. CASE b = who
      <3>1. n + 1 \in DOMAIN markWire'
        BY <1>2, <1>14
      <3>2. Arrives(b)'
        BY <1>7, <1>14, <2>5, <3>1 DEF Arrives
      <3> QED BY <2>3, <2>4, <3>2
    <2>6. CASE b # who
      <3>1. HasMark(marks', b) => HasMark(marks, b)
        BY <1>1, <1>4, <2>6 DEF HasMark
      <3> QED BY <2>3, <2>4, <3>1
    <2> QED BY <2>5, <2>6
  <1>15. ASSUME markHears, markKind = "subscriber" PROVE FollowsWire(who)'
    <2>1. n + 1 \in DOMAIN markWire'
      BY <1>2, <1>15
    <2>2. Arrives(who)'
      BY <1>7, <1>15, <2>1 DEF Arrives
    <2>3. \A x \in MarkShown(markRow) : x.by = who => x = m
      <3>1. MarkShown(markRow) \subseteq Mark
        BY ShownOf DEF MarkTyped
      <3>2. \A x \in MarkShown(markRow) : x.id = Temp
        BY <1>15 DEF NumbersTrue
      <3>3. m.id = Temp
        BY <1>1, <1>12, <1>15 DEF NumbersTrue, Told
      <3> QED BY <1>1, <3>1, <3>2, <3>3, MarkFields
    <2> QED BY <1>1, <2>2, <2>3 DEF FollowsWire
  <1> QED BY <1>2, <1>3, <1>8, <1>12, <1>13, <1>14, <1>15

LEMMA DropKeeps ==
  ASSUME MarkTyped, ServerTrue, NumbersTrue, NEW who \in Actors, Drops(who),
         markHears' = markHears, markKind' = markKind, markRow' = markRow
  PROVE  /\ markWire' \in Seq(MarkEvent) /\ ServerTrue' /\ NumbersTrue'
         /\ RowNumbers /\ markKind = "reaction" => RowNumbers'
         /\ markHears => \A b \in Actors : FollowsWire(b) => FollowsWire(b)'
         /\ markHears /\ markKind = "subscriber" => FollowsWire(who)'
         /\ \A x \in Mark : x.by # who => (x \in marks' <=> x \in marks)
         /\ ~HasMark(marks', who)
  <1> PICK m : m = [by |-> who, id |-> Temp]
    OBVIOUS
  <1> DEFINE ev == [kind |-> "removed", mark |-> m]
  <1> PICK n : n = Len(markWire)
    OBVIOUS
  <1>1. /\ m.by = who /\ m \in Mark /\ ev \in MarkEvent /\ Emit(ev)
        /\ marks' = {x \in marks : x.by # who}
    <2>1. m \in Mark
      BY MarkFields, MarkAssumption
    <2> QED BY <2>1 DEF Drops, MarkEvent
  <1>2. /\ markWire' \in Seq(MarkEvent) /\ DOMAIN markWire = 1..n /\ n \in Nat
        /\ ~markHears => markWire = <<>> /\ markWire' = <<>>
        /\ markHears => DOMAIN markWire' = 1..(n + 1) /\ markWire'[n + 1] = ev
        /\ \A k \in 1..n : k \in DOMAIN markWire' /\ markWire'[k] = markWire[k]
        /\ markHears \in BOOLEAN
    <2>1. ev \in MarkEvent /\ Emit(ev)
      BY <1>1
    <2> HIDE DEF ev
    <2> QED BY <2>1, Emitted DEF MarkTyped
  <1>3. /\ \A x \in Mark : x.by # who => (x \in marks' <=> x \in marks)
        /\ ~HasMark(marks', who)
    BY <1>1 DEF HasMark
  <1>5. \A k, kind, b : About(k, kind, b)' =>
            About(k, kind, b) \/ (k = n + 1 /\ markHears /\ kind = "removed" /\ b = who)
    BY <1>1, <1>2 DEF About
  <1>6. \A k, kind, b : About(k, kind, b) => About(k, kind, b)' /\ k \in 1..n
    BY <1>2 DEF About
  <1>7. markHears => About(n + 1, "removed", who)'
    BY <1>1, <1>2 DEF About
  <1>8. ServerTrue'
    <2>1. OnePerActor(marks')
      BY <1>1 DEF ServerTrue, OnePerActor
    <2>2. markHears' \/ markWire' = <<>>
      BY <1>2
    <2>3. ASSUME NEW k \in DOMAIN markWire', NEW b \in Actors, About(k, "added", b)'
          PROVE  markWire'[k].mark \in marks' \/ \E l \in DOMAIN markWire' : k < l /\ About(l, "removed", b)'
      <3>1. About(k, "added", b) /\ k \in 1..n /\ markHears
        BY <1>2, <1>5, <1>6, <2>3
      <3>2. CASE b = who
        BY <1>2, <1>7, <3>1, <3>2
      <3>3. CASE b # who
        <4>1. markWire'[k] = markWire[k] /\ markWire[k].mark.by = b
          BY <1>2, <3>1 DEF About
        <4>2. markWire[k].mark \in marks \/ \E l \in DOMAIN markWire : k < l /\ About(l, "removed", b)
          BY <1>2, <3>1 DEF ServerTrue
        <4>3. markWire[k].mark \in marks => markWire'[k].mark \in marks'
          BY <1>1, <3>3, <4>1
        <4> QED BY <1>2, <1>6, <4>2, <4>3
      <3> QED BY <3>2, <3>3
    <2>4. ASSUME NEW k \in DOMAIN markWire', NEW b \in Actors, About(k, "removed", b)'
          PROVE  ~HasMark(marks', b) \/ \E l \in DOMAIN markWire' : k < l /\ About(l, "added", b)'
      <3>1. CASE b = who
        BY <1>3, <3>1
      <3>2. CASE b # who
        <4>1. About(k, "removed", b) /\ k \in 1..n
          BY <1>5, <1>6, <2>4, <3>2
        <4>2. ~HasMark(marks, b) \/ \E l \in DOMAIN markWire : k < l /\ About(l, "added", b)
          BY <1>2, <4>1 DEF ServerTrue
        <4>3. ~HasMark(marks, b) => ~HasMark(marks', b)
          BY <1>1 DEF HasMark
        <4> QED BY <1>2, <1>6, <4>2, <4>3
      <3> QED BY <3>1, <3>2
    <2> QED BY <2>1, <2>2, <2>3, <2>4 DEF ServerTrue
  <1>9. Told' \subseteq Told /\ markMinted' = markMinted
    <2>1. \A k \in DOMAIN markWire' : markWire'[k].kind = "added" =>
             k \in DOMAIN markWire /\ markWire[k].kind = "added" /\ markWire'[k].mark = markWire[k].mark
      <3>1. \A k \in DOMAIN markWire' : k \in 1..n \/ (markHears /\ k = n + 1)
        BY <1>2
      <3>2. ev.kind # "added"
        OBVIOUS
      <3> HIDE DEF ev
      <3> QED BY <1>2, <3>1, <3>2
    <2> QED BY <1>1, <2>1 DEF Told, Drops
  <1>12. NumbersTrue'
    BY <1>9 DEF NumbersTrue
  <1>13. RowNumbers => RowNumbers'
    BY <1>9 DEF RowNumbers
  <1>14. ASSUME markHears, NEW b \in Actors, FollowsWire(b) \/ b = who PROVE FollowsWire(b)'
    <2>1. SUFFICES ASSUME ~Leaves(b)'
                   PROVE  /\ \A x \in MarkShown(markRow) : x.by = b => x \in marks'
                          /\ HasMark(marks', b) => HasMark(MarkShown(markRow), b) \/ Arrives(b)'
      BY DEF FollowsWire
    <2>2. b # who
      <3>1. n + 1 \in DOMAIN markWire'
        BY <1>2, <1>14
      <3>2. Leaves(who)'
        BY <1>7, <1>14, <3>1 DEF Leaves
      <3> QED BY <2>1, <3>2
    <2>3. ~Leaves(b)
      BY <1>2, <1>6, <2>1 DEF Leaves
    <2>4. /\ \A x \in MarkShown(markRow) : x.by = b => x \in marks
          /\ HasMark(marks, b) => HasMark(MarkShown(markRow), b) \/ Arrives(b)
      BY <1>14, <2>2, <2>3 DEF FollowsWire
    <2>5. (Arrives(b) => Arrives(b)') /\ (HasMark(marks', b) => HasMark(marks, b))
      BY <1>1, <1>2, <1>6 DEF Arrives, HasMark
    <2>6. \A x \in MarkShown(markRow) : x.by = b => x \in marks'
      BY <1>1, <2>2, <2>4
    <2> QED BY <2>4, <2>5, <2>6
  <1> QED BY <1>2, <1>3, <1>8, <1>12, <1>13, <1>14

\* Either of them, to a mark that an actor may have.
Acts(who) == (Puts(who) \/ Drops(who)) /\ marks' \subseteq Mark /\ markMinted' \in 0..MaxMinted

LEMMA ActKeeps ==
  ASSUME MarkTyped, ServerTrue, NumbersTrue, NEW who \in Actors, Acts(who),
         markHears' = markHears, markKind' = markKind, markRow' = markRow
  PROVE  /\ markWire' \in Seq(MarkEvent) /\ ServerTrue' /\ NumbersTrue'
         /\ RowNumbers /\ markKind = "reaction" => RowNumbers'
         /\ markHears => \A b \in Actors : FollowsWire(b) => FollowsWire(b)'
         /\ markHears /\ markKind = "subscriber" => FollowsWire(who)'
         /\ \A x \in Mark : x.by # who => (x \in marks' <=> x \in marks)
  BY PutKeeps, DropKeeps DEF Acts

\* An actor's mark is untouched in the row.
LEMMA RowOfOthers ==
  ASSUME NEW b, FollowsWire(b), marks' = marks, markWire' = markWire,
         \A x : x.by = b => (x \in MarkShown(markRow') <=> x \in MarkShown(markRow))
  PROVE  FollowsWire(b)'
  <1>1. (Leaves(b)' <=> Leaves(b)) /\ (Arrives(b)' <=> Arrives(b))
    BY DEF Leaves, Arrives, About
  <1>2. HasMark(MarkShown(markRow'), b) <=> HasMark(MarkShown(markRow), b)
    BY DEF HasMark
  <1> QED BY <1>1, <1>2 DEF FollowsWire

-----------------------------------------------------------------------------
(* Requests.                                                                *)

\* Nothing a request carries changes when the server does, but for its age.
LEMMA OvertakenAlike ==
  ASSUME NEW C \in SUBSET MarkRequest
  PROVE  /\ \A d \in Overtaken(C) :
              /\ d \in MarkRequest /\ (d.st = "done" => d.old)
              /\ \E c \in C : /\ d.op = c.op /\ d.who = c.who /\ d.undo = c.undo /\ d.st = c.st /\ d.got = c.got
                              /\ d = IF c.st = "done" THEN [c EXCEPT !.old = TRUE] ELSE c
         /\ \A c \in C : \E d \in Overtaken(C) :
              d.op = c.op /\ d.who = c.who /\ d.undo = c.undo /\ d.st = c.st /\ d.got = c.got
  <1> DEFINE Over(c) == IF c.st = "done" THEN [c EXCEPT !.old = TRUE] ELSE c
  <1>1. ASSUME NEW c \in C
        PROVE  /\ Over(c) \in MarkRequest /\ (Over(c).st = "done" => Over(c).old)
               /\ Over(c).op = c.op /\ Over(c).who = c.who /\ Over(c).undo = c.undo
               /\ Over(c).st = c.st /\ Over(c).got = c.got
    BY DEF MarkRequest
  <1>2. Overtaken(C) = {Over(c) : c \in C}
    BY DEF Overtaken
  <1> QED BY <1>1, <1>2

\* What is asked of a request in every state.
CallTrue(c) ==
    /\ c.op # "load" /\ markKind = "reaction" => c.who = "me"
    /\ c.op = "add" /\ c.st = "done" => c.got # <<>>
    /\ markKind = "subscriber" => \A x \in MarkShown(c.got) \cup MarkShown(c.undo) : x.id = Temp
    /\ c.op = "load" /\ c.st = "done" /\ ~c.old => Matches(c.got, marks)

LEMMA EachCall == CallsTrue <=> \A c \in markCalls : CallTrue(c)
  BY DEF CallsTrue, CallTrue

LEMMA MarkOthersStep ==
  ASSUME MarkInv, OthersToggle
  PROVE  MarkInv'
  <1>1. /\ markCalls' = Overtaken(markCalls) /\ markCalls \subseteq MarkRequest
        /\ markKind' = markKind /\ markRow' = markRow /\ markHears' = markHears /\ markStrayed' = markStrayed
    BY DEF OthersToggle, MarkInv, MarkTyped
  <1>2. PICK who \in Whose("other") : IF HasMark(marks, who) THEN DropMark(who) ELSE PutMark(who)
    BY DEF OthersToggle
  <1>3. who \in Actors /\ (markKind = "reaction" => who = "other")
    BY MarkFields DEF Whose
  <1>4. Acts(who)
    BY <1>2, <1>3, TheyPut, TheyDrop DEF Acts, MarkInv
  <1>5. /\ markWire' \in Seq(MarkEvent) /\ ServerTrue' /\ NumbersTrue'
        /\ RowNumbers /\ markKind = "reaction" => RowNumbers'
        /\ markHears => \A b \in Actors : FollowsWire(b) => FollowsWire(b)'
        /\ \A x \in Mark : x.by # who => (x \in marks' <=> x \in marks)
    BY <1>1, <1>3, <1>4, ActKeeps DEF MarkInv
  <1>6. /\ \A d \in markCalls' :
             /\ d \in MarkRequest /\ (d.st = "done" => d.old)
             /\ \E c \in markCalls : /\ d.op = c.op /\ d.who = c.who /\ d.undo = c.undo /\ d.st = c.st /\ d.got = c.got
                                     /\ d = IF c.st = "done" THEN [c EXCEPT !.old = TRUE] ELSE c
        /\ \A c \in markCalls : \E d \in markCalls' :
             d.op = c.op /\ d.who = c.who /\ d.undo = c.undo /\ d.st = c.st /\ d.got = c.got
    BY <1>1, OvertakenAlike
  <1>7. MarkTyped'
    BY <1>1, <1>4, <1>5, <1>6 DEF MarkInv, MarkTyped, Acts
  <1>8. CallsTrue'
    BY <1>1, <1>6 DEF MarkInv, CallsTrue
  <1>9. MarksTouch'
    <2>1. SUFFICES ASSUME markHears, ~markStrayed, ~LoadComes', ~Undoes' PROVE RowAgrees'
      BY <1>1 DEF MarksTouch
    <2>2. ~LoadComes /\ ~Undoes
      BY <1>6, <2>1 DEF LoadComes, Undoes, Toggles
    <2>3. RowAgrees
      BY <2>1, <2>2 DEF MarkInv, MarksTouch
    <2>4. ASSUME NEW c \in Toggles', NEW d \in Toggles', c.who = d.who PROVE c = d
      <3>1. PICK c0 \in markCalls : c.op = c0.op /\ c.who = c0.who /\ c = IF c0.st = "done" THEN [c0 EXCEPT !.old = TRUE] ELSE c0
        BY <1>6 DEF Toggles
      <3>2. PICK d0 \in markCalls : d.op = d0.op /\ d.who = d0.who /\ d = IF d0.st = "done" THEN [d0 EXCEPT !.old = TRUE] ELSE d0
        BY <1>6 DEF Toggles
      <3>3. c0 \in Toggles /\ d0 \in Toggles /\ c0.who = d0.who
        BY <2>4, <3>1, <3>2 DEF Toggles
      <3>4. c0 = d0
        BY <2>3, <3>3 DEF RowAgrees
      <3> QED BY <3>1, <3>2, <3>4
    <2>5. CASE markKind = "reaction"
      <3>1. OwnMark /\ FollowsWire("other") /\ RowNumbers /\ who = "other"
        BY <1>3, <2>3, <2>5 DEF RowAgrees
      <3>2. FollowsWire("other")' /\ RowNumbers'
        BY <1>5, <2>1, <2>5, <3>1, MarkFields
      <3>3. \A x \in Mark : x.by = "me" => (x \in marks' <=> x \in marks)
        BY <1>5, <3>1
      <3>4. Toggles' = {} => OwnIs(marks)'
        <4>1. Toggles' = {} => Toggles = {}
          BY <1>6 DEF Toggles
        <4> QED BY <1>1, <3>1, <3>3, <4>1 DEF OwnMark, OwnIs
      <3>5. ASSUME NEW d \in Toggles'
            PROVE  /\ d.op = "add" => OwnIs({[by |-> "me", id |-> Temp]})'
                   /\ d.op = "add" /\ d.st = "done" => d.got[1] \in marks' /\ d.got[1].by = "me"
                   /\ d.op = "remove" => OwnIs({})'
                   /\ d.op = "remove" /\ d.st = "done" => ~HasMark(marks', "me")
        <4>1. PICK c \in markCalls : c.op = d.op /\ c.st = d.st /\ c.got = d.got
          BY <1>6 DEF Toggles
        <4>2. c \in Toggles
          BY <4>1 DEF Toggles
        <4>3. /\ c.op = "add" => OwnIs({[by |-> "me", id |-> Temp]})
              /\ c.op = "add" /\ c.st = "done" => c.got[1] \in marks /\ c.got[1].by = "me"
              /\ c.op = "remove" => OwnIs({})
              /\ c.op = "remove" /\ c.st = "done" => ~HasMark(marks, "me")
          BY <3>1, <4>2 DEF OwnMark
        <4>4. ~HasMark(marks, "me") => ~HasMark(marks', "me")
          BY <1>4, <3>3 DEF HasMark, Acts
        <4>5. \A S : OwnIs(S) => OwnIs(S)'
          BY <1>1 DEF OwnIs
        <4>6. marks \subseteq Mark
          BY DEF MarkInv, MarkTyped
        <4> QED BY <1>1, <3>3, <4>1, <4>3, <4>4, <4>6 DEF OwnIs
      <3>6. OwnMark'
        BY <3>4, <3>5 DEF OwnMark
      <3> QED BY <1>1, <2>3, <2>4, <2>5, <3>2, <3>6 DEF RowAgrees
    <2>6. CASE markKind = "subscriber"
      <3>1. \A b \in Actors : (\E c \in Toggles : c.who = b /\ c.st = "sent") \/ FollowsWire(b)
        BY <2>3, <2>6 DEF RowAgrees
      <3>2. \A b \in Actors : (\E c \in Toggles' : c.who = b /\ c.st = "sent") \/ FollowsWire(b)'
        BY <1>5, <1>6, <2>1, <3>1 DEF Toggles
      <3> QED BY <1>1, <2>3, <2>4, <2>6, <3>2 DEF RowAgrees
    <2> QED BY <1>1, <1>7, <2>5, <2>6 DEF MarkTyped
  <1> QED BY <1>5, <1>7, <1>8, <1>9 DEF MarkInv

-----------------------------------------------------------------------------
(* The tab hears an event, or no longer does.                               *)

LEMMA MarkHearStep ==
  ASSUME MarkInv, HearMark
  PROVE  MarkInv'
  <1> PICK ev : ev = Head(markWire)
    OBVIOUS
  <1> PICK m : m = ev.mark
    OBVIOUS
  <1> PICK n : n = Len(markWire)
    OBVIOUS
  <1>1. /\ markWire # <<>> /\ markWire' = Tail(markWire)
        /\ marks' = marks /\ markMinted' = markMinted /\ markKind' = markKind /\ markHears' = markHears
        /\ markCalls' = markCalls /\ markStrayed' = markStrayed
        /\ markRow' = IF Skips(ev) THEN markRow
                      ELSE IF ev.kind = "added" THEN WithMark(markRow, m)
                      ELSE WithoutActor(markRow, m.by)
    BY DEF HearMark
  <1>2. /\ n \in Nat /\ n > 0 /\ DOMAIN markWire = 1..n /\ ev = markWire[1] /\ ev \in MarkEvent
        /\ markWire' \in Seq(MarkEvent) /\ DOMAIN markWire' = 1..(n - 1)
        /\ \A k \in 1..(n - 1) : markWire'[k] = markWire[k + 1]
    <2>1. markWire \in Seq(MarkEvent)
      BY DEF MarkInv, MarkTyped
    <2> QED BY <1>1, <2>1
  <1>3. m \in Mark /\ m.by \in Actors /\ ev.kind \in {"added", "removed"}
    BY <1>2, MarkFields DEF MarkEvent
  <1>4. markRow \in Seq(Mark) /\ markRow' \in Seq(Mark)
    BY <1>1, <1>3, OnlyShows DEF MarkInv, MarkTyped, WithMark, WithoutActor
  <1>5. \A k, kind, b : About(k, kind, b)' => About(k + 1, kind, b) /\ k \in Nat
    BY <1>2 DEF About
  <1>6. \A k, kind, b : About(k, kind, b) => (k = 1 /\ ev.kind = kind /\ m.by = b) \/ (k > 1 /\ About(k - 1, kind, b)')
    BY <1>2 DEF About
  <1>7. About(1, ev.kind, m.by)
    BY <1>2 DEF About
  <1>8. Told' \subseteq Told /\ (ev.kind = "added" => m \in Told)
    <2>1. \A k \in DOMAIN markWire' : k + 1 \in DOMAIN markWire /\ markWire'[k] = markWire[k + 1]
      BY <1>2
    <2>2. 1 \in DOMAIN markWire
      BY <1>2
    <2> QED BY <1>1, <1>2, <2>1, <2>2 DEF Told
  <1>9. ServerTrue'
    <2>1. OnePerActor(marks') /\ (markHears' \/ markWire' = <<>>)
      <3>1. markHears
        BY <1>1 DEF MarkInv, ServerTrue
      <3> QED BY <1>1, <3>1 DEF MarkInv, ServerTrue
    <2>2. ASSUME NEW k \in DOMAIN markWire', NEW b \in Actors
          PROVE  /\ About(k, "added", b)' =>
                      markWire'[k].mark \in marks' \/ \E l \in DOMAIN markWire' : k < l /\ About(l, "removed", b)'
                 /\ About(k, "removed", b)' =>
                      ~HasMark(marks', b) \/ \E l \in DOMAIN markWire' : k < l /\ About(l, "added", b)'
      <3>1. k + 1 \in DOMAIN markWire /\ k \in Nat /\ markWire'[k] = markWire[k + 1]
        BY <1>2
      <3>2. /\ About(k + 1, "added", b) =>
                 markWire[k + 1].mark \in marks \/ \E l \in DOMAIN markWire : k + 1 < l /\ About(l, "removed", b)
            /\ About(k + 1, "removed", b) =>
                 ~HasMark(marks, b) \/ \E l \in DOMAIN markWire : k + 1 < l /\ About(l, "added", b)
        BY <3>1 DEF MarkInv, ServerTrue
      <3>3. ASSUME NEW kind, NEW l \in DOMAIN markWire, k + 1 < l, About(l, kind, b)
            PROVE  \E j \in DOMAIN markWire' : k < j /\ About(j, kind, b)'
        <4>1. l - 1 \in DOMAIN markWire' /\ k < l - 1 /\ l # 1
          BY <1>2, <3>1, <3>3
        <4> QED BY <1>6, <3>3, <4>1
      <3>4. About(k, "added", b)' => About(k + 1, "added", b)
        BY <1>5
      <3>5. About(k, "removed", b)' => About(k + 1, "removed", b)
        BY <1>5
      <3> QED BY <1>1, <3>1, <3>2, <3>3, <3>4, <3>5
    <2> QED BY <2>1, <2>2 DEF ServerTrue
  <1>10. /\ MarkShown(markRow) \subseteq Mark
         /\ MarkShown(markRow') = MarkShown(markRow) \/
              (ev.kind = "added" /\ ~Skips(ev) /\ ~Present(markRow, m) /\ MarkShown(markRow') = MarkShown(markRow) \cup {m}) \/
              (ev.kind = "removed" /\ ~Skips(ev) /\ MarkShown(markRow') = {x \in MarkShown(markRow) : x.by # m.by})
         /\ ev.kind = "removed" /\ ~Skips(ev) => MarkShown(markRow') = {x \in MarkShown(markRow) : x.by # m.by}
         /\ ev.kind = "added" /\ ~Skips(ev) /\ ~Present(markRow, m) => MarkShown(markRow') = MarkShown(markRow) \cup {m}
    <2>1. MarkShown(markRow) \subseteq Mark /\ MarkShown(Append(markRow, m)) = MarkShown(markRow) \cup {m}
      BY <1>3, <1>4, ShownOf
    <2>2. MarkShown(WithoutActor(markRow, m.by)) = {x \in MarkShown(markRow) : x.by # m.by}
      BY <1>4, OnlyShows DEF WithoutActor
    <2> QED BY <1>1, <1>3, <2>1, <2>2 DEF WithMark
  <1>11. NumbersTrue'
    <2>1. CASE markKind = "reaction"
      BY <1>1, <1>8, <2>1 DEF MarkInv, NumbersTrue
    <2>2. CASE markKind = "subscriber"
      <3>1. \A x \in Told \cup MarkShown(markRow) : x.id = Temp
        BY <2>2 DEF MarkInv, NumbersTrue
      <3>2. MarkShown(markRow') \subseteq Told \cup MarkShown(markRow)
        BY <1>8, <1>10
      <3>3. \A x \in Told' \cup MarkShown(markRow') : x.id = Temp
        BY <1>8, <3>1, <3>2
      <3> QED BY <1>1, <2>2, <3>3 DEF NumbersTrue
    <2> QED BY <2>1, <2>2 DEF MarkInv, MarkTyped
  <1>12. MarkTyped' /\ CallsTrue'
    <2>1. MarkTyped'
      BY <1>1, <1>2, <1>4 DEF MarkInv, MarkTyped
    <2>2. CallsTrue'
      BY <1>1 DEF MarkInv, CallsTrue
    <2> QED BY <2>1, <2>2
  <1>13. MarksTouch'
    <2>1. SUFFICES ASSUME RowAgrees PROVE RowAgrees'
      <3>1. (LoadComes' <=> LoadComes) /\ (Undoes' <=> Undoes)
        BY <1>1 DEF LoadComes, Undoes, Toggles
      <3> QED BY <1>1, <2>1, <3>1 DEF MarkInv, MarksTouch
    <2>2. Toggles' = Toggles /\ \A c, d \in Toggles' : c.who = d.who => c = d
      BY <1>1, <2>1 DEF RowAgrees, Toggles
    <2>3. EachOnce(markRow')
      <3>1. CASE ~Skips(ev) /\ ev.kind = "added" /\ ~Present(markRow, m)
        <4>1. m \notin MarkShown(markRow)
          BY <3>1 DEF Present, HasMark
        <4>2. markRow' = Append(markRow, m)
          BY <1>1, <3>1 DEF WithMark
        <4> QED BY <1>3, <1>4, <2>1, <4>1, <4>2, ShownOf DEF RowAgrees
      <3>2. CASE ~Skips(ev) /\ ev.kind = "removed"
        <4>1. markRow' = Only(markRow, {x \in MarkShown(markRow) : x.by # m.by})
          BY <1>1, <3>2 DEF WithoutActor
        <4> QED BY <1>4, <2>1, <4>1, OnlyShows DEF RowAgrees
      <3>3. CASE Skips(ev) \/ (ev.kind = "added" /\ Present(markRow, m))
        BY <1>1, <2>1, <3>3 DEF RowAgrees, WithMark
      <3> QED BY <1>3, <3>1, <3>2, <3>3
    <2>4. ASSUME NEW b \in Actors, b # m.by, FollowsWire(b) PROVE FollowsWire(b)'
      <3>1. SUFFICES ASSUME ~Leaves(b)'
                     PROVE  /\ \A x \in MarkShown(markRow') : x.by = b => x \in marks'
                            /\ HasMark(marks', b) => HasMark(MarkShown(markRow'), b) \/ Arrives(b)'
        BY DEF FollowsWire
      <3>2. \A kind : (\E k \in DOMAIN markWire : About(k, kind, b)) => \E k \in DOMAIN markWire' : About(k, kind, b)'
        <4>1. ASSUME NEW kind, NEW k \in DOMAIN markWire, About(k, kind, b) PROVE About(k - 1, kind, b)' /\ k - 1 \in DOMAIN markWire'
          <5>1. k > 1 /\ About(k - 1, kind, b)'
            BY <1>6, <2>4, <4>1
          <5> QED BY <1>2, <5>1
        <4> QED BY <4>1
      <3>3. ~Leaves(b) /\ (Arrives(b) => Arrives(b)')
        BY <3>1, <3>2 DEF Leaves, Arrives
      <3>4. /\ \A x \in MarkShown(markRow) : x.by = b => x \in marks
            /\ HasMark(marks, b) => HasMark(MarkShown(markRow), b) \/ Arrives(b)
        BY <2>4, <3>3 DEF FollowsWire
      <3>5. \A x : x.by = b => (x \in MarkShown(markRow') <=> x \in MarkShown(markRow))
        BY <1>10, <2>4
      <3> QED BY <1>1, <3>3, <3>4, <3>5 DEF HasMark
    <2>5. ASSUME ~Skips(ev), FollowsWire(m.by) \/ ev.kind = "removed", markKind = "reaction" => RowNumbers
          PROVE  FollowsWire(m.by)'
      <3>1. SUFFICES ASSUME ~Leaves(m.by)'
                     PROVE  /\ \A x \in MarkShown(markRow') : x.by = m.by => x \in marks'
                            /\ HasMark(marks', m.by) => HasMark(MarkShown(markRow'), m.by) \/ Arrives(m.by)'
        BY DEF FollowsWire
      <3>2. \A kind, k : k \in DOMAIN markWire /\ k > 1 /\ About(k, kind, m.by)
                           => \E j \in DOMAIN markWire' : About(j, kind, m.by)'
        <4>1. ASSUME NEW kind, NEW k \in DOMAIN markWire, k > 1, About(k, kind, m.by)
              PROVE  About(k - 1, kind, m.by)' /\ k - 1 \in DOMAIN markWire'
          <5>1. About(k - 1, kind, m.by)'
            BY <1>6, <4>1
          <5> QED BY <1>2, <4>1, <5>1
        <4> QED BY <4>1
      <3>3. \A k \in DOMAIN markWire : k > 1 => ~About(k, "removed", m.by)
        BY <3>1, <3>2 DEF Leaves
      <3>4. CASE ev.kind = "removed"
        <4>1. MarkShown(markRow') = {x \in MarkShown(markRow) : x.by # m.by}
          BY <1>10, <2>5, <3>4
        <4>2. ~HasMark(marks, m.by) \/ \E l \in DOMAIN markWire : 1 < l /\ About(l, "added", m.by)
          <5>1. 1 \in DOMAIN markWire
            BY <1>2
          <5> QED BY <1>3, <1>7, <3>4, <5>1 DEF MarkInv, ServerTrue
        <4>3. (\E l \in DOMAIN markWire : 1 < l /\ About(l, "added", m.by)) => Arrives(m.by)'
          BY <1>2, <3>2 DEF Arrives
        <4> QED BY <1>1, <4>1, <4>2, <4>3
      <3>5. CASE ev.kind = "added"
        <4>1. m \in marks
          <5>1. 1 \in DOMAIN markWire
            BY <1>2
          <5>2. m \in marks \/ \E l \in DOMAIN markWire : 1 < l /\ About(l, "removed", m.by)
            BY <1>2, <1>3, <1>7, <3>5, <5>1 DEF MarkInv, ServerTrue
          <5> QED BY <1>2, <3>3, <5>2
        <4>2. ~Leaves(m.by)
          <5>1. ~About(1, "removed", m.by)
            BY <1>2, <3>5 DEF About
          <5>2. \A k \in DOMAIN markWire : k = 1 \/ k > 1
            BY <1>2
          <5> QED BY <3>3, <5>1, <5>2 DEF Leaves
        <4>3. \A x \in MarkShown(markRow) : x.by = m.by => x \in marks
          BY <2>5, <3>5, <4>2 DEF FollowsWire
        <4>4. CASE Present(markRow, m)
          <5>1. MarkShown(markRow') = MarkShown(markRow)
            BY <1>10, <3>5, <4>4
          <5>2. HasMark(MarkShown(markRow), m.by)
            <6>1. CASE markKind = "reaction"
              <7>1. PICK x \in MarkShown(markRow) : x.id = m.id
                BY <4>4, <6>1 DEF Present
              <7>2. m \in Told
                BY <1>8, <3>5
              <7>3. x = m
                BY <2>5, <6>1, <7>1, <7>2 DEF RowNumbers
              <7> QED BY <7>1, <7>3 DEF HasMark
            <6>2. CASE markKind = "subscriber"
              BY <4>4, <6>2 DEF Present
            <6> QED BY <6>1, <6>2 DEF MarkInv, MarkTyped
          <5> QED BY <1>1, <4>3, <5>1, <5>2
        <4>5. CASE ~Present(markRow, m)
          <5>1. MarkShown(markRow') = MarkShown(markRow) \cup {m}
            BY <1>10, <2>5, <3>5, <4>5
          <5> QED BY <1>1, <4>1, <4>3, <5>1 DEF HasMark
        <4> QED BY <4>4, <4>5
      <3> QED BY <1>3, <3>4, <3>5
    <2>6. CASE markKind = "reaction"
      <3>1. OwnMark /\ FollowsWire("other") /\ RowNumbers
        BY <2>1, <2>6 DEF RowAgrees
      <3>2. RowNumbers'
        <4>1. MarkShown(markRow') \subseteq MarkShown(markRow) \cup {x \in {m} : ev.kind = "added"}
          BY <1>10
        <4>2. ev.kind = "added" => m.id <= markMinted /\ \A y \in Told : m.id = y.id => m = y
          <5>1. \A x \in Told : x.id \in 1..markMinted
            BY <2>6 DEF MarkInv, NumbersTrue
          <5>2. \A x, y \in Told : x.id = y.id => x = y
            BY <2>6 DEF MarkInv, NumbersTrue
          <5>3. markMinted \in Nat
            BY MarkAssumption DEF MarkInv, MarkTyped
          <5> QED BY <1>8, <5>1, <5>2, <5>3
        <4> QED BY <1>1, <1>8, <3>1, <4>1, <4>2 DEF RowNumbers
      <3>3. m.by = "me" => Skips(ev)
        BY <2>6 DEF Skips
      <3>4. FollowsWire("other")'
        <4>1. CASE m.by = "me"
          BY <2>4, <3>1, <4>1, MarkFields
        <4>2. CASE m.by = "other"
          <5>1. ~Skips(ev)
            BY <4>2 DEF Skips
          <5> QED BY <2>5, <3>1, <4>2, <5>1
        <4> QED BY <1>3, <4>1, <4>2, MarkFields
      <3>5. \A x \in Mark : x.by = "me" => (x \in MarkShown(markRow') <=> x \in MarkShown(markRow))
        <4>1. m.by = "me" => markRow' = markRow
          BY <1>1, <3>3
        <4> QED BY <1>10, <4>1
      <3>6. OwnMark'
        <4>1. \A S : OwnIs(S) => OwnIs(S)'
          BY <3>5 DEF OwnIs
        <4>2. OwnIs(marks) => OwnIs(marks)'
          BY <1>1, <3>5 DEF OwnIs
        <4> QED BY <1>1, <2>2, <3>1, <4>1, <4>2 DEF OwnMark, HasMark, OwnIs
      <3> QED BY <1>1, <2>2, <2>3, <2>6, <3>2, <3>4, <3>6 DEF RowAgrees
    <2>7. CASE markKind = "subscriber"
      <3>1. \A b \in Actors : (\E c \in Toggles : c.who = b /\ c.st = "sent") \/ FollowsWire(b)
        BY <2>1, <2>7 DEF RowAgrees
      <3>2. ~Skips(ev) /\ markKind # "reaction"
        BY <2>7 DEF Skips
      <3>3. ASSUME NEW b \in Actors, FollowsWire(b) PROVE FollowsWire(b)'
        BY <2>4, <2>5, <3>2, <3>3
      <3> QED BY <1>1, <2>2, <2>3, <2>7, <3>1, <3>3 DEF RowAgrees
    <2> QED BY <2>6, <2>7 DEF MarkInv, MarkTyped
  <1> QED BY <1>9, <1>11, <1>12, <1>13 DEF MarkInv

LEMMA LinkStep ==
  ASSUME MarkInv, MarkLinkDrops
  PROVE  MarkInv'
  <1>1. /\ markHears' = FALSE /\ markWire' = <<>> /\ marks' = marks /\ markMinted' = markMinted
        /\ markKind' = markKind /\ markRow' = markRow /\ markCalls' = markCalls /\ markStrayed' = markStrayed
    BY DEF MarkLinkDrops
  <1>2. Told' \subseteq Told
    BY <1>1 DEF Told
  <1>3. MarkTyped'
    <2>1. markHears' \in BOOLEAN
      BY <1>1
    <2> QED BY <1>1, <2>1 DEF MarkInv, MarkTyped
  <1>4. ServerTrue'
    BY <1>1 DEF MarkInv, ServerTrue
  <1>5. NumbersTrue' /\ CallsTrue'
    <2>1. NumbersTrue'
      BY <1>1, <1>2 DEF MarkInv, NumbersTrue
    <2>2. CallsTrue'
      BY <1>1 DEF MarkInv, CallsTrue
    <2> QED BY <2>1, <2>2
  <1>6. MarksTouch'
    BY <1>1 DEF MarksTouch
  <1> QED BY <1>3, <1>4, <1>5, <1>6 DEF MarkInv

\* A new request.
Fresh(op, who, undo) == [op |-> op, who |-> who, undo |-> undo, st |-> "sent", got |-> <<>>, old |-> FALSE]

LEMMA FreshTyped ==
  ASSUME NEW op \in {"load", "add", "remove"}, NEW who \in Actors, NEW undo \in Seq(Mark)
  PROVE  /\ Fresh(op, who, undo) \in MarkRequest /\ MarkShown(<<>>) = {}
         /\ AskMark(op, who, undo) => markCalls' = markCalls \cup {Fresh(op, who, undo)}
  <1>1. <<>> \in Seq(Mark)
    OBVIOUS
  <1>2. Fresh(op, who, undo) \in MarkRequest
    BY <1>1 DEF Fresh, MarkRequest
  <1>3. MarkShown(<<>>) = {}
    BY DEF MarkShown
  <1> QED BY <1>2, <1>3 DEF AskMark, Fresh

LEMMA BackStep ==
  ASSUME MarkInv, MarkReconnects
  PROVE  MarkInv'
  <1> PICK c : c = Fresh("load", "me", <<>>)
    OBVIOUS
  <1>1. /\ markHears' = TRUE /\ markWire' = markWire /\ marks' = marks /\ markMinted' = markMinted
        /\ markKind' = markKind /\ markRow' = markRow /\ markStrayed' = markStrayed
        /\ AskMark("load", "me", <<>>)
    BY DEF MarkReconnects
  <1>2. "me" \in Actors /\ <<>> \in Seq(Mark) /\ "load" \in {"load", "add", "remove"}
    BY MarkFields
  <1>3. markCalls' = markCalls \cup {c} /\ c \in MarkRequest /\ MarkShown(<<>>) = {}
    BY <1>1, <1>2, FreshTyped
  <1>4. c.op = "load" /\ c.st = "sent" /\ c.got = <<>> /\ c.undo = <<>>
    BY DEF Fresh
  <1>5. MarkTyped'
    <2>1. markHears' \in BOOLEAN
      BY <1>1
    <2> QED BY <1>1, <1>3, <2>1 DEF MarkInv, MarkTyped
  <1>6. ServerTrue'
    <2>1. markHears' \/ markWire' = <<>>
      BY <1>1
    <2> QED BY <1>1, <2>1 DEF MarkInv, ServerTrue, About
  <1>7. NumbersTrue' /\ CallsTrue'
    <2>1. NumbersTrue'
      BY <1>1 DEF MarkInv, NumbersTrue, Told
    <2>2. CallsTrue'
      BY <1>1, <1>3, <1>4 DEF MarkInv, CallsTrue
    <2> QED BY <2>1, <2>2
  <1>8. MarksTouch'
    BY <1>3, <1>4 DEF MarksTouch, LoadComes
  <1> QED BY <1>5, <1>6, <1>7, <1>8 DEF MarkInv

-----------------------------------------------------------------------------
(* The click.                                                               *)

LEMMA ToggleStep ==
  ASSUME MarkInv, Toggle
  PROVE  MarkInv'
  <1>1. /\ marks' = marks /\ markMinted' = markMinted /\ markKind' = markKind
        /\ markWire' = markWire /\ markHears' = markHears /\ ~markStrayed
    BY DEF Toggle
  <1>2. PICK who \in Whose("me") :
          /\ IF HasMark(MarkShown(markRow), who)
             THEN /\ AskMark("remove", who, <<MarkOf(MarkShown(markRow), who)>>)
                  /\ markRow' = WithoutActor(markRow, who)
             ELSE /\ AskMark("add", who, <<>>)
                  /\ markRow' = Append(markRow, [by |-> who, id |-> Temp])
          /\ markStrayed' = (\E c \in markCalls : c.op # "load" /\ c.who = who)
    BY DEF Toggle
  <1>3. who \in Actors /\ (markKind = "reaction" => who = "me")
    BY <1>2, MarkFields DEF Whose
  <1>4. markRow \in Seq(Mark) /\ MarkShown(markRow) \subseteq Mark
    BY ShownOf DEF MarkInv, MarkTyped
  <1>5. [by |-> who, id |-> Temp] \in Mark
    BY <1>3, MarkFields, MarkAssumption
  <1> PICK t : t = [by |-> who, id |-> Temp]
    OBVIOUS
  <1>6. /\ markRow' \in Seq(Mark)
        /\ EachOnce(markRow) => EachOnce(markRow')
        /\ HasMark(MarkShown(markRow), who) => MarkShown(markRow') = {x \in MarkShown(markRow) : x.by # who}
        /\ ~HasMark(MarkShown(markRow), who) => MarkShown(markRow') = MarkShown(markRow) \cup {t}
    <2>1. CASE HasMark(MarkShown(markRow), who)
      <3>1. markRow' = Only(markRow, {x \in MarkShown(markRow) : x.by # who})
        BY <1>2, <2>1 DEF WithoutActor
      <3> QED BY <1>4, <2>1, <3>1, OnlyShows
    <2>2. CASE ~HasMark(MarkShown(markRow), who)
      <3>1. t \notin MarkShown(markRow) /\ t \in Mark
        BY <1>5, <2>2 DEF HasMark
      <3>2. markRow' = Append(markRow, t)
        BY <1>2, <2>2
      <3> QED BY <1>4, <2>2, <3>1, <3>2, ShownOf
    <2> QED BY <2>1, <2>2
  <1>7. PICK c \in MarkRequest :
          /\ markCalls' = markCalls \cup {c} /\ c.who = who /\ c.st = "sent" /\ MarkShown(c.got) = {}
          /\ c.op = IF HasMark(MarkShown(markRow), who) THEN "remove" ELSE "add"
          /\ MarkShown(c.undo) \subseteq MarkShown(markRow)
    <2>1. MarkShown(<<>>) = {} /\ <<>> \in Seq(Mark)
      BY DEF MarkShown
    <2>2. CASE HasMark(MarkShown(markRow), who)
      <3> PICK u : u = MarkOf(MarkShown(markRow), who)
        OBVIOUS
      <3>1. u \in MarkShown(markRow) /\ u \in Mark
        BY <1>4, <2>2 DEF HasMark, MarkOf
      <3>2. <<u>> \in Seq(Mark) /\ MarkShown(<<u>>) = {u}
        BY <3>1 DEF MarkShown
      <3>3. Fresh("remove", who, <<u>>) \in MarkRequest /\ markCalls' = markCalls \cup {Fresh("remove", who, <<u>>)}
        <4>1. AskMark("remove", who, <<u>>) /\ "remove" \in {"load", "add", "remove"}
          BY <1>2, <2>2
        <4> QED BY <1>3, <3>2, <4>1, FreshTyped
      <3>4. /\ Fresh("remove", who, <<u>>).who = who /\ Fresh("remove", who, <<u>>).st = "sent"
            /\ Fresh("remove", who, <<u>>).got = <<>> /\ Fresh("remove", who, <<u>>).op = "remove"
            /\ Fresh("remove", who, <<u>>).undo = <<u>>
        BY DEF Fresh
      <3> QED BY <2>1, <2>2, <3>1, <3>2, <3>3, <3>4
    <2>3. CASE ~HasMark(MarkShown(markRow), who)
      <3>1. Fresh("add", who, <<>>) \in MarkRequest /\ markCalls' = markCalls \cup {Fresh("add", who, <<>>)}
        <4>1. AskMark("add", who, <<>>) /\ "add" \in {"load", "add", "remove"}
          BY <1>2, <2>3
        <4> QED BY <1>3, <2>1, <4>1, FreshTyped
      <3>2. /\ Fresh("add", who, <<>>).who = who /\ Fresh("add", who, <<>>).st = "sent"
            /\ Fresh("add", who, <<>>).got = <<>> /\ Fresh("add", who, <<>>).op = "add"
            /\ Fresh("add", who, <<>>).undo = <<>>
        BY DEF Fresh
      <3> QED BY <2>1, <2>3, <3>1, <3>2
    <2> QED BY <2>2, <2>3
  <1>8. MarkTyped'
    <2>1. markStrayed' \in BOOLEAN
      BY <1>2
    <2> QED BY <1>1, <1>6, <1>7, <2>1 DEF MarkInv, MarkTyped
  <1>9. ServerTrue'
    BY <1>1 DEF MarkInv, ServerTrue, About
  <1>10. Told' = Told
    BY <1>1 DEF Told
  <1>11. \A x \in MarkShown(markRow') : x \in MarkShown(markRow) \/ x = t
    BY <1>6
  <1>12. NumbersTrue'
    <2>1. CASE markKind = "reaction"
      BY <1>1, <1>10, <2>1 DEF MarkInv, NumbersTrue
    <2>2. CASE markKind = "subscriber"
      BY <1>1, <1>10, <1>11, <2>2 DEF MarkInv, NumbersTrue
    <2> QED BY <2>1, <2>2 DEF MarkInv, MarkTyped
  <1>13. CallsTrue'
    <2>1. CallTrue(c)'
      <3>1. c.op # "load" /\ c.st # "done"
        BY <1>7
      <3>2. markKind = "subscriber" => \A x \in MarkShown(c.undo) : x.id = Temp
        BY <1>7 DEF MarkInv, NumbersTrue
      <3> QED BY <1>1, <1>3, <1>7, <3>1, <3>2 DEF CallTrue
    <2>2. \A d \in markCalls : CallTrue(d)'
      BY <1>1 DEF MarkInv, CallsTrue, CallTrue
    <2> QED BY <1>7, <2>1, <2>2 DEF CallsTrue, CallTrue
  <1>14. MarksTouch'
    <2>1. SUFFICES ASSUME RowAgrees, markStrayed' = FALSE PROVE RowAgrees'
      <3>1. (LoadComes => LoadComes') /\ (Undoes => Undoes')
        BY <1>7 DEF LoadComes, Undoes, Toggles
      <3>2. markStrayed' \in BOOLEAN
        BY <1>2
      <3> QED BY <1>1, <2>1, <3>1, <3>2 DEF MarkInv, MarksTouch
    <2>2. \A d \in markCalls : d.op # "load" => d.who # who
      BY <1>2, <2>1
    <2>3. Toggles' = Toggles \cup {c} /\ c.op # "load" /\ \A d \in Toggles : d.who # who
      BY <1>7, <2>2 DEF Toggles
    <2>4. EachOnce(markRow') /\ \A d, e \in Toggles' : d.who = e.who => d = e
      BY <1>6, <1>7, <2>1, <2>3 DEF RowAgrees
    <2>5. ASSUME NEW b \in Actors, b # who, FollowsWire(b) PROVE FollowsWire(b)'
      <3>1. \A x : x.by = b => (x \in MarkShown(markRow') <=> x \in MarkShown(markRow))
        BY <1>6, <2>5
      <3> QED BY <1>1, <2>5, <3>1, RowOfOthers
    <2>6. CASE markKind = "reaction"
      <3>1. OwnMark /\ FollowsWire("other") /\ RowNumbers /\ who = "me"
        BY <1>3, <2>1, <2>6 DEF RowAgrees
      <3>2. Toggles = {}
        <4>1. \A d \in Toggles : d.who = "me"
          BY <2>6 DEF MarkInv, CallsTrue, Toggles
        <4> QED BY <2>3, <3>1, <4>1
      <3>3. FollowsWire("other")'
        BY <2>5, <3>1, MarkFields
      <3>4. RowNumbers'
        <4>1. \A x \in Told : x.id \in 1..markMinted /\ x.id # 0
          BY <2>6 DEF MarkInv, NumbersTrue
        <4>2. t.id = 0 /\ 0 <= markMinted
          BY MarkAssumption, MarkFields DEF MarkInv, MarkTyped
        <4>3. \A x \in MarkShown(markRow') : x.id <= markMinted /\ \A y \in Told : x.id = y.id => x = y
          BY <1>11, <3>1, <4>1, <4>2 DEF RowNumbers
        <4> QED BY <1>1, <1>10, <4>3 DEF RowNumbers
      <3>5. OwnMark'
        <4>1. Toggles' # {} /\ \A d \in Toggles' : d = c
          BY <2>3, <3>2
        <4>2. CASE HasMark(MarkShown(markRow), who)
          <5>1. c.op = "remove" /\ c.st = "sent" /\ OwnIs({})'
            BY <1>6, <1>7, <3>1, <4>2 DEF OwnIs
          <5> QED BY <4>1, <5>1 DEF OwnMark
        <4>3. CASE ~HasMark(MarkShown(markRow), who)
          <5>1. c.op = "add" /\ c.st = "sent"
            BY <1>7, <4>3
          <5>2. OwnIs({[by |-> "me", id |-> Temp]})'
            <6>1. MarkShown(markRow') = MarkShown(markRow) \cup {t}
              BY <1>6, <4>3
            <6>2. \A x \in MarkShown(markRow) : x.by # "me"
              BY <3>1, <4>3 DEF HasMark
            <6> QED BY <3>1, <6>1, <6>2 DEF OwnIs
          <5> QED BY <4>1, <5>1, <5>2 DEF OwnMark
        <4> QED BY <4>2, <4>3
      <3> QED BY <1>1, <2>4, <2>6, <3>3, <3>4, <3>5 DEF RowAgrees
    <2>7. CASE markKind = "subscriber"
      <3>1. \A b \in Actors : (\E d \in Toggles : d.who = b /\ d.st = "sent") \/ FollowsWire(b)
        BY <2>1, <2>7 DEF RowAgrees
      <3>2. ASSUME NEW b \in Actors PROVE (\E d \in Toggles' : d.who = b /\ d.st = "sent") \/ FollowsWire(b)'
        BY <1>7, <2>3, <2>5, <3>1, <3>2
      <3> QED BY <1>1, <2>4, <2>7, <3>2 DEF RowAgrees
    <2> QED BY <2>6, <2>7 DEF MarkInv, MarkTyped
  <1> QED BY <1>8, <1>9, <1>12, <1>13, <1>14 DEF MarkInv

-----------------------------------------------------------------------------
(* The server answers.                                                      *)

LEMMA LoadServed ==
  ASSUME MarkInv, NEW c \in markCalls, NEW st \in {"done", "failed"}, c.st = "sent", c.op = "load",
         markCalls' = (markCalls \ {c}) \cup {[c EXCEPT !.st = st, !.got = RowOf(marks)]},
         UNCHANGED <<marks, markMinted, markWire>>, UNCHANGED <<markKind, markRow, markHears, markStrayed>>
  PROVE  MarkInv'
  <1> PICK d : d = [c EXCEPT !.st = st, !.got = RowOf(marks)]
    OBVIOUS
  <1>1. RowOf(marks) \in Seq(Mark) /\ Matches(RowOf(marks), marks)
    <2>1. marks \in SUBSET Mark /\ OnePerActor(marks)
      BY DEF MarkInv, MarkTyped, ServerTrue
    <2> QED BY <2>1, MarksListed
  <1>2. c \in MarkRequest
    BY DEF MarkInv, MarkTyped
  <1>3. d \in MarkRequest /\ d.op = "load" /\ d.st = st /\ d.got = RowOf(marks) /\ d.undo = c.undo
    BY <1>1, <1>2 DEF MarkRequest
  <1>4. MarkTyped'
    BY <1>3 DEF MarkInv, MarkTyped
  <1>5. ServerTrue'
    BY DEF MarkInv, ServerTrue, About
  <1>6. NumbersTrue'
    BY DEF MarkInv, NumbersTrue, Told
  <1>7. CallsTrue'
    <2>1. \A x \in markCalls : CallTrue(x)'
      BY DEF MarkInv, CallsTrue, CallTrue
    <2>2. CallTrue(d)'
      <3>1. markKind = "subscriber" => \A x \in MarkShown(c.undo) : x.id = Temp
        BY DEF MarkInv, CallsTrue
      <3>2. markKind = "subscriber" => \A x \in MarkShown(d.got) : x.id = Temp
        BY <1>1, <1>3 DEF MarkInv, NumbersTrue, Told, Matches
      <3> QED BY <1>1, <1>3, <3>1, <3>2 DEF CallTrue
    <2> QED BY <2>1, <2>2 DEF CallsTrue, CallTrue
  <1>8. MarksTouch'
    BY <1>3 DEF MarksTouch, LoadComes
  <1> QED BY <1>4, <1>5, <1>6, <1>7, <1>8 DEF MarkInv

LEMMA MarkRequestFails ==
  ASSUME MarkInv, NEW c \in markCalls, c.st = "sent", c.op # "load",
         markCalls' = (markCalls \ {c}) \cup {[c EXCEPT !.st = "failed"]},
         UNCHANGED <<marks, markMinted, markWire>>, UNCHANGED <<markKind, markRow, markHears, markStrayed>>
  PROVE  MarkInv'
  <1> PICK d : d = [c EXCEPT !.st = "failed"]
    OBVIOUS
  <1>1. d \in MarkRequest /\ d.op = c.op /\ d.st = "failed" /\ d.got = c.got /\ d.undo = c.undo /\ d.who = c.who
    BY DEF MarkInv, MarkTyped, MarkRequest
  <1>2. MarkTyped'
    BY <1>1 DEF MarkInv, MarkTyped
  <1>3. ServerTrue' /\ NumbersTrue'
    <2>1. ServerTrue'
      BY DEF MarkInv, ServerTrue, About
    <2>2. NumbersTrue'
      BY DEF MarkInv, NumbersTrue, Told
    <2> QED BY <2>1, <2>2
  <1>4. CallsTrue'
    <2>1. \A x \in markCalls : CallTrue(x)'
      BY DEF MarkInv, CallsTrue, CallTrue
    <2>2. CallTrue(d)'
      BY <1>1 DEF MarkInv, CallsTrue, CallTrue
    <2> QED BY <2>1, <2>2 DEF CallsTrue, CallTrue
  <1>5. MarksTouch'
    BY <1>1 DEF MarksTouch, Undoes, Toggles
  <1> QED BY <1>2, <1>3, <1>4, <1>5 DEF MarkInv

\* The toggle carried out: d is its answer.
LEMMA ToggleServed ==
  ASSUME MarkInv, NEW c \in markCalls, c.st = "sent", c.op # "load", NEW d \in MarkRequest,
         d.op = c.op, d.who = c.who, d.undo = c.undo, d.st \in {"done", "failed"}, Acts(c.who),
         MarkShown(d.got) \subseteq MarkShown(c.got) \cup marks',
         d.op = "add" => d.got # <<>> /\ d.got[1] \in marks' /\ d.got[1].by = c.who,
         d.op = "remove" => ~HasMark(marks', c.who),
         markCalls' = Overtaken(markCalls \ {c}) \cup {d},
         UNCHANGED <<markKind, markRow, markHears, markStrayed>>
  PROVE  MarkInv'
  <1>1. c \in MarkRequest /\ c.who \in Actors /\ markCalls \ {c} \in SUBSET MarkRequest
        /\ c.op \in {"add", "remove"}
    BY DEF MarkInv, MarkTyped, MarkRequest
  <1>2. markKind = "reaction" => c.who = "me"
    BY DEF MarkInv, CallsTrue
  <1>3. /\ markWire' \in Seq(MarkEvent) /\ ServerTrue' /\ NumbersTrue'
        /\ RowNumbers /\ markKind = "reaction" => RowNumbers'
        /\ markHears => \A b \in Actors : FollowsWire(b) => FollowsWire(b)'
        /\ markHears /\ markKind = "subscriber" => FollowsWire(c.who)'
    BY <1>1, ActKeeps DEF MarkInv
  <1>4. /\ \A e \in Overtaken(markCalls \ {c}) :
             /\ e \in MarkRequest /\ (e.st = "done" => e.old)
             /\ \E x \in markCalls \ {c} :
                  /\ e.op = x.op /\ e.who = x.who /\ e.undo = x.undo /\ e.st = x.st /\ e.got = x.got
                  /\ e = IF x.st = "done" THEN [x EXCEPT !.old = TRUE] ELSE x
        /\ \A x \in markCalls \ {c} : \E e \in Overtaken(markCalls \ {c}) :
             e.op = x.op /\ e.who = x.who /\ e.undo = x.undo /\ e.st = x.st /\ e.got = x.got
    BY <1>1, OvertakenAlike
  <1> PICK O : O = Overtaken(markCalls \ {c})
    OBVIOUS
  <1>5. MarkTyped'
    <2>1. markCalls' \subseteq MarkRequest
      BY <1>4
    <2> QED BY <1>3, <2>1 DEF MarkInv, MarkTyped, Acts
  <1>6. CallsTrue'
    <2>1. ASSUME NEW e \in O PROVE CallTrue(e)'
      <3>1. PICK x \in markCalls : e.op = x.op /\ e.who = x.who /\ e.undo = x.undo /\ e.st = x.st /\ e.got = x.got
        BY <1>4
      <3>2. CallTrue(x) /\ (e.st = "done" => e.old)
        BY <1>4, EachCall DEF MarkInv
      <3> QED BY <3>1, <3>2 DEF CallTrue
    <2>2. CallTrue(d)'
      <3>1. CallTrue(c)
        BY EachCall DEF MarkInv
      <3>2. markKind = "subscriber" => \A x \in MarkShown(d.got) : x.id = Temp
        <4>1. markKind = "subscriber" => \A x \in marks' : x.id = Temp
          BY <1>3 DEF NumbersTrue, Told
        <4> QED BY <3>1, <4>1 DEF CallTrue
      <3> QED BY <1>2, <3>1, <3>2 DEF CallTrue
    <2> QED BY <2>1, <2>2 DEF CallsTrue, CallTrue
  <1>7. MarksTouch'
    <2>1. SUFFICES ASSUME markHears, ~markStrayed, ~LoadComes', ~Undoes' PROVE RowAgrees'
      BY DEF MarksTouch
    <2>2. ~LoadComes /\ ~Undoes
      <3>1. ASSUME NEW x \in markCalls, x # c PROVE \E e \in markCalls' : e.op = x.op /\ e.st = x.st
        BY <1>4, <3>1
      <3>2. ~LoadComes
        <4>1. \A x \in markCalls : x.op = "load" => x # c
          OBVIOUS
        <4> QED BY <2>1, <3>1, <4>1 DEF LoadComes
      <3>3. ~Undoes
        <4>1. SUFFICES ASSUME NEW x \in markCalls, x.op # "load", x.st = "failed" PROVE FALSE
          BY DEF Undoes, Toggles
        <4>2. PICK e \in markCalls' : e.op = x.op /\ e.st = x.st
          <5>1. x # c
            BY <4>1
          <5> QED BY <3>1, <5>1
        <4>3. e \in Toggles' /\ e.st = "failed"
          BY <4>1, <4>2 DEF Toggles
        <4> QED BY <2>1, <4>3 DEF Undoes
      <3> QED BY <3>2, <3>3
    <2>3. RowAgrees /\ d.st = "done"
      <3>1. d \in Toggles'
        BY DEF Toggles
      <3> QED BY <2>1, <2>2, <3>1 DEF MarkInv, MarksTouch, Undoes
    <2>4. c \in Toggles /\ \A e \in Toggles : e.who = c.who => e = c
      BY <2>3 DEF RowAgrees, Toggles
    <2>5. \A e \in Toggles' : e = d \/ (e \in O /\ e.who # c.who)
      <3>1. ASSUME NEW e \in Toggles', e # d PROVE e \in O /\ e.who # c.who
        <4>1. e \in O
          BY <3>1 DEF Toggles
        <4>2. PICK x \in markCalls \ {c} : e.op = x.op /\ e.who = x.who
          BY <1>4, <4>1
        <4>3. x \in Toggles /\ x # c
          BY <3>1, <4>2 DEF Toggles
        <4> QED BY <2>4, <4>1, <4>2, <4>3
      <3> QED BY <3>1
    <2>6. ASSUME NEW e \in Toggles', NEW f \in Toggles', e.who = f.who PROVE e = f
      <3>1. CASE e = d \/ f = d
        BY <2>5, <2>6, <3>1
      <3>2. CASE e # d /\ f # d
        <4>1. e \in O /\ f \in O
          BY <2>5, <3>2
        <4>2. PICK x \in markCalls : e.op = x.op /\ e.who = x.who /\ e = IF x.st = "done" THEN [x EXCEPT !.old = TRUE] ELSE x
          BY <1>4, <4>1
        <4>3. PICK y \in markCalls : f.op = y.op /\ f.who = y.who /\ f = IF y.st = "done" THEN [y EXCEPT !.old = TRUE] ELSE y
          BY <1>4, <4>1
        <4>4. x \in Toggles /\ y \in Toggles /\ x.who = y.who
          BY <2>6, <4>2, <4>3 DEF Toggles
        <4>5. x = y
          BY <2>3, <4>4 DEF RowAgrees
        <4> QED BY <4>2, <4>3, <4>5
      <3> QED BY <3>1, <3>2
    <2>7. CASE markKind = "reaction"
      <3>1. OwnMark /\ FollowsWire("other") /\ RowNumbers /\ c.who = "me"
        BY <1>2, <2>3, <2>7 DEF RowAgrees
      <3>2. FollowsWire("other")' /\ RowNumbers'
        BY <1>3, <2>1, <2>7, <3>1, MarkFields
      <3>3. \A e \in Toggles' : e = d
        <4>1. \A e \in Toggles' : e.who = "me"
          <5>1. \A e \in markCalls' : CallTrue(e)'
            BY <1>6 DEF CallsTrue, CallTrue
          <5> QED BY <2>7, <5>1 DEF CallTrue, Toggles
        <4> QED BY <2>5, <3>1, <4>1
      <3>4. d \in Toggles'
        BY DEF Toggles
      <3>5. \A S : OwnIs(S) => OwnIs(S)'
        BY DEF OwnIs
      <3>6. OwnMark'
        <4>1. (d.op = "add" => OwnIs({[by |-> "me", id |-> Temp]})) /\ (d.op = "remove" => OwnIs({}))
          BY <2>4, <3>1 DEF OwnMark
        <4>2. d.op = "add" => OwnIs({[by |-> "me", id |-> Temp]})'
          BY <4>1, <3>5
        <4>3. d.op = "remove" => OwnIs({})'
          BY <4>1, <3>5
        <4> QED BY <3>1, <3>3, <3>4, <4>2, <4>3 DEF OwnMark
      <3> QED BY <2>3, <2>6, <2>7, <3>2, <3>6 DEF RowAgrees
    <2>8. CASE markKind = "subscriber"
      <3>1. \A b \in Actors : (\E e \in Toggles : e.who = b /\ e.st = "sent") \/ FollowsWire(b)
        BY <2>3, <2>8 DEF RowAgrees
      <3>2. ASSUME NEW b \in Actors PROVE (\E e \in Toggles' : e.who = b /\ e.st = "sent") \/ FollowsWire(b)'
        <4>1. CASE b = c.who
          BY <1>3, <2>1, <2>8, <4>1
        <4>2. CASE b # c.who /\ FollowsWire(b)
          BY <1>3, <2>1, <4>2
        <4>3. CASE b # c.who /\ \E e \in Toggles : e.who = b /\ e.st = "sent"
          <5>1. PICK e \in markCalls \ {c} : e.op # "load" /\ e.who = b /\ e.st = "sent"
            BY <4>3 DEF Toggles
          <5>2. PICK f \in O : f.op = e.op /\ f.who = e.who /\ f.st = e.st
            BY <1>4, <5>1
          <5> QED BY <5>1, <5>2 DEF Toggles
        <4> QED BY <3>1, <4>1, <4>2, <4>3
      <3> QED BY <2>3, <2>6, <2>8, <3>2 DEF RowAgrees
    <2> QED BY <2>7, <2>8 DEF MarkInv, MarkTyped
  <1> QED BY <1>3, <1>5, <1>6, <1>7 DEF MarkInv

LEMMA MarkServeStep ==
  ASSUME MarkInv, ServeMark
  PROVE  MarkInv'
  <1>1. PICK c \in markCalls, st \in {"done", "failed"} :
          /\ c.st = "sent"
          /\ \/ /\ c.op = "load"
                /\ markCalls' = (markCalls \ {c}) \cup {[c EXCEPT !.st = st, !.got = RowOf(marks)]}
                /\ UNCHANGED <<marks, markMinted, markWire>>
             \/ /\ c.op = "add" /\ PutMark(c.who)
                /\ markCalls' = Overtaken(markCalls \ {c}) \cup
                     {[c EXCEPT !.st = st, !.got = <<MarkOf(marks', c.who)>>]}
             \/ /\ c.op = "remove" /\ DropMark(c.who)
                /\ markCalls' = Overtaken(markCalls \ {c}) \cup {[c EXCEPT !.st = st]}
             \/ /\ c.op # "load"
                /\ markCalls' = (markCalls \ {c}) \cup {[c EXCEPT !.st = "failed"]}
                /\ UNCHANGED <<marks, markMinted, markWire>>
          /\ UNCHANGED <<markKind, markRow, markHears, markStrayed>>
    BY DEF ServeMark
  <1>2. c \in MarkRequest /\ c.who \in Actors
    BY DEF MarkInv, MarkTyped, MarkRequest
  <1>3. CASE c.op = "load"
    BY <1>1, <1>3, LoadServed
  <1>4. CASE /\ c.op = "add" /\ PutMark(c.who)
             /\ markCalls' = Overtaken(markCalls \ {c}) \cup
                  {[c EXCEPT !.st = st, !.got = <<MarkOf(marks', c.who)>>]}
    <2>1. Acts(c.who) /\ Puts(c.who) /\ marks' \subseteq Mark
      BY <1>2, <1>4, TheyPut DEF Acts, MarkInv
    <2> PICK m : m = MarkOf(marks', c.who)
      OBVIOUS
    <2>2. m \in marks' /\ m.by = c.who /\ m \in Mark /\ <<m>> \in Seq(Mark) /\ MarkShown(<<m>>) = {m}
      BY <2>1 DEF Puts, MarkShown
    <2> PICK d : d = [c EXCEPT !.st = st, !.got = <<m>>]
      OBVIOUS
    <2>3. /\ d \in MarkRequest /\ d.op = c.op /\ d.who = c.who /\ d.undo = c.undo /\ d.st = st
          /\ d.got = <<m>>
      BY <1>2, <2>2 DEF MarkRequest
    <2>4. markCalls' = Overtaken(markCalls \ {c}) \cup {d}
      BY <1>4
    <2>5. d.op = "add" => d.got # <<>> /\ d.got[1] \in marks' /\ d.got[1].by = c.who
      BY <2>2, <2>3
    <2>6. MarkShown(d.got) \subseteq MarkShown(c.got) \cup marks'
      BY <2>2, <2>3
    <2>7. d.op # "remove" /\ d.st \in {"done", "failed"} /\ c.op # "load"
      BY <1>4, <2>3
    <2> QED BY <1>1, <2>1, <2>3, <2>4, <2>5, <2>6, <2>7, ToggleServed
  <1>5. CASE /\ c.op = "remove" /\ DropMark(c.who)
             /\ markCalls' = Overtaken(markCalls \ {c}) \cup {[c EXCEPT !.st = st]}
    <2>1. Acts(c.who) /\ Drops(c.who)
      BY <1>2, <1>5, TheyDrop DEF Acts, MarkInv
    <2> PICK d : d = [c EXCEPT !.st = st]
      OBVIOUS
    <2>2. /\ d \in MarkRequest /\ d.op = c.op /\ d.who = c.who /\ d.undo = c.undo /\ d.st = st
          /\ d.got = c.got
      BY <1>2 DEF MarkRequest
    <2>3. ~HasMark(marks', c.who)
      BY <2>1 DEF Drops, HasMark
    <2>4. markCalls' = Overtaken(markCalls \ {c}) \cup {d}
      BY <1>5
    <2>5. d.op # "add" /\ d.st \in {"done", "failed"} /\ c.op # "load"
      BY <1>5, <2>2
    <2> QED BY <1>1, <2>1, <2>2, <2>3, <2>4, <2>5, ToggleServed
  <1>6. CASE /\ c.op # "load"
             /\ markCalls' = (markCalls \ {c}) \cup {[c EXCEPT !.st = "failed"]}
             /\ UNCHANGED <<marks, markMinted, markWire>>
    BY <1>1, <1>6, MarkRequestFails
  <1> QED BY <1>1, <1>3, <1>4, <1>5, <1>6

-----------------------------------------------------------------------------
(* The answer reaches the tab.                                              *)

\* Once the row shows the server's marks and nothing is asked, it agrees.
LEMMA RowIsServers ==
  ASSUME MarkTyped', ServerTrue', NumbersTrue', Toggles' = {}, Matches(markRow', marks')
  PROVE  RowAgrees'
  <1>1. markRow' \in Seq(Mark) /\ MarkShown(markRow') = marks' /\ Len(markRow') = Cardinality(MarkShown(markRow'))
    BY DEF MarkTyped, Matches
  <1>2. EachOnce(markRow')
    BY <1>1, OnceIsLength
  <1>3. \A b : FollowsWire(b)'
    BY <1>1 DEF FollowsWire
  <1>4. \A c, d \in Toggles' : c.who = d.who => c = d
    OBVIOUS
  <1>5. ASSUME markKind' = "reaction" PROVE OwnMark' /\ RowNumbers'
    <2>1. OwnIs(marks)'
      BY <1>1 DEF OwnIs
    <2>2. OwnMark'
      BY <2>1 DEF OwnMark
    <2>3. /\ \A x \in Told' : x.id \in 1..markMinted'
          /\ \A x, y \in Told' : x.id = y.id => x = y
      BY <1>5 DEF NumbersTrue
    <2>4. marks' \subseteq Told' /\ markMinted' \in Nat
      BY MarkAssumption DEF Told, MarkTyped
    <2>5. \A x \in MarkShown(markRow') : x.id <= markMinted' /\ \A y \in Told' : x.id = y.id => x = y
      BY <1>1, <2>3, <2>4
    <2> QED BY <2>2, <2>5 DEF RowNumbers
  <1> QED BY <1>2, <1>3, <1>4, <1>5 DEF RowAgrees

\* What answering leaves alone.
LEMMA AnswerLeaves ==
  ASSUME MarkInv, NEW c \in markCalls, markCalls' = markCalls \ {c}, markRow' \in Seq(Mark),
         markStrayed' \in BOOLEAN, markKind = "subscriber" => \A x \in MarkShown(markRow') : x.id = Temp,
         UNCHANGED <<markKind, marks, markMinted, markWire, markHears>>
  PROVE  MarkTyped' /\ ServerTrue' /\ NumbersTrue' /\ CallsTrue' /\ Told' = Told
  <1>1. MarkTyped'
    BY DEF MarkInv, MarkTyped
  <1>2. ServerTrue'
    BY DEF MarkInv, ServerTrue, About
  <1>3. Told' = Told
    BY DEF Told
  <1>4. NumbersTrue'
    <2>1. CASE markKind = "reaction"
      BY <1>3, <2>1 DEF MarkInv, NumbersTrue
    <2>2. CASE markKind = "subscriber"
      BY <1>3, <2>2 DEF MarkInv, NumbersTrue
    <2> QED BY <2>1, <2>2 DEF MarkInv, MarkTyped
  <1>5. CallsTrue'
    BY DEF MarkInv, CallsTrue
  <1> QED BY <1>1, <1>2, <1>3, <1>4, <1>5

LEMMA LoadSettles ==
  ASSUME MarkInv, NEW c \in markCalls, c.st = "done", c.op = "load", markRow' = c.got,
         markCalls' = markCalls \ {c}, markStrayed' = (c.old \/ Clashes(c)),
         UNCHANGED <<markKind, marks, markMinted, markWire, markHears>>
  PROVE  MarkInv'
  <1>1. c \in MarkRequest /\ c.old \in BOOLEAN /\ c.got \in Seq(Mark)
    BY DEF MarkInv, MarkTyped, MarkRequest
  <1>2. CallTrue(c)
    BY EachCall DEF MarkInv
  <1>3. MarkTyped' /\ ServerTrue' /\ NumbersTrue' /\ CallsTrue'
    <2>1. markKind = "subscriber" => \A x \in MarkShown(markRow') : x.id = Temp
      BY <1>2 DEF CallTrue
    <2>2. markStrayed' \in BOOLEAN
      BY <1>1 DEF Clashes
    <2> QED BY <1>1, <2>1, <2>2, AnswerLeaves
  <1>4. MarksTouch'
    <2>1. SUFFICES ASSUME ~markStrayed' PROVE RowAgrees'
      BY DEF MarksTouch
    <2>2. ~c.old /\ Toggles' = {}
      BY <2>1 DEF Clashes, Toggles
    <2>3. Matches(markRow', marks')
      BY <1>2, <2>2 DEF CallTrue
    <2> QED BY <1>3, <2>2, <2>3, RowIsServers
  <1> QED BY <1>3, <1>4 DEF MarkInv

\* The temporary reaction becomes the real one.
Real(held, who, m) == [k \in DOMAIN held |-> IF held[k] = [by |-> who, id |-> Temp] THEN m ELSE held[k]]

LEMMA RealTyped ==
  ASSUME NEW held \in Seq(Mark), NEW who \in Actors, NEW m \in Mark
  PROVE  Real(held, who, m) \in Seq(Mark)
  BY DEF Real

LEMMA RealRow ==
  ASSUME NEW held \in Seq(Mark), NEW who \in Actors, NEW m \in Mark
  PROVE  /\ \A x : x.by # who /\ m.by = who => (x \in MarkShown(Real(held, who, m)) <=> x \in MarkShown(held))
         /\ \A x \in MarkShown(Real(held, who, m)) : x = m \/ x \in MarkShown(held)
         /\ [by |-> who, id |-> Temp] \in MarkShown(held) => m \in MarkShown(Real(held, who, m))
         /\ \A x \in MarkShown(Real(held, who, m)) :
              (x \in MarkShown(held) /\ x # [by |-> who, id |-> Temp]) \/ x = m
         /\ EachOnce(held) /\ (\A x \in MarkShown(held) : x.by = who => x = [by |-> who, id |-> Temp]) /\ m.by = who
              => EachOnce(Real(held, who, m))
  <1> PICK t : t = [by |-> who, id |-> Temp]
    OBVIOUS
  <1> PICK r : r = Real(held, who, m)
    OBVIOUS
  <1>1. /\ t.by = who /\ DOMAIN r = DOMAIN held /\ DOMAIN held = 1..Len(held) /\ Len(held) \in Nat
        /\ \A k \in DOMAIN held : r[k] = (IF held[k] = t THEN m ELSE held[k]) /\ held[k] \in Mark
        /\ r \in Seq(Mark)
    BY DEF Real
  <1>2. MarkShown(r) = {r[k] : k \in DOMAIN held} /\ MarkShown(held) = {held[k] : k \in DOMAIN held}
    BY <1>1 DEF MarkShown
  <1>3. \A x \in MarkShown(r) : (x \in MarkShown(held) /\ x # t) \/ x = m
    BY <1>1, <1>2
  <1>4. t \in MarkShown(held) => m \in MarkShown(r)
    BY <1>1, <1>2
  <1>5. \A x \in MarkShown(held) : x = t \/ x \in MarkShown(r)
    BY <1>1, <1>2
  <1>6. ASSUME EachOnce(held), \A x \in MarkShown(held) : x.by = who => x = t, m.by = who,
               NEW j \in DOMAIN r, NEW k \in DOMAIN r, r[j] = r[k]
        PROVE  j = k
    <2>1. held[j] \in MarkShown(held) /\ held[k] \in MarkShown(held)
      BY <1>1, <1>2
    <2>2. held[j] = held[k]
      BY <1>1, <1>6, <2>1
    <2> QED BY <1>1, <1>6, <2>2 DEF EachOnce
  <1>7. \A x : x.by # who /\ m.by = who => (x \in MarkShown(r) <=> x \in MarkShown(held))
    BY <1>1, <1>3, <1>5
  <1> QED BY <1>1, <1>3, <1>4, <1>6, <1>7 DEF EachOnce

LEMMA ToggleSettles ==
  ASSUME MarkInv, NEW c \in markCalls, c.st = "done", c.op # "load", markRow' = MarkSettled(c),
         markCalls' = markCalls \ {c}, markStrayed' = markStrayed,
         UNCHANGED <<markKind, marks, markMinted, markWire, markHears>>
  PROVE  MarkInv'
  <1>1. c \in MarkRequest /\ c.who \in Actors /\ c.op \in {"add", "remove"} /\ c.got \in Seq(Mark) /\ CallTrue(c)
    BY EachCall DEF MarkInv, MarkTyped, MarkRequest
  <1>2. /\ markKind = "reaction" => c.who = "me"
        /\ c.op = "add" => c.got # <<>> /\ c.got[1] \in Mark
    BY <1>1 DEF CallTrue
  <1> PICK m : m = c.got[1]
    OBVIOUS
  <1>3. markRow \in Seq(Mark)
    BY DEF MarkInv, MarkTyped
  <1>4. /\ c.op = "add" /\ markKind = "reaction" => markRow' = Real(markRow, c.who, m)
        /\ ~(c.op = "add" /\ markKind = "reaction") => markRow' = markRow
    BY DEF MarkSettled, Real
  <1>5. markRow' \in Seq(Mark)
    <2>1. CASE c.op = "add" /\ markKind = "reaction"
      <3>1. m \in Mark /\ markRow' = Real(markRow, c.who, m)
        BY <1>2, <1>4, <2>1
      <3>2. Real(markRow, c.who, m) \in Seq(Mark)
        BY <1>1, <1>3, <3>1, RealTyped
      <3> QED BY <3>1, <3>2
    <2>2. CASE ~(c.op = "add" /\ markKind = "reaction")
      BY <1>3, <1>4, <2>2
    <2> QED BY <2>1, <2>2
  <1>6. MarkTyped' /\ ServerTrue' /\ NumbersTrue' /\ CallsTrue' /\ Told' = Told
    <2>1. markKind = "subscriber" => \A x \in MarkShown(markRow') : x.id = Temp
      BY <1>4 DEF MarkInv, NumbersTrue
    <2>2. markStrayed' \in BOOLEAN
      BY DEF MarkInv, MarkTyped
    <2> QED BY <1>5, <2>1, <2>2, AnswerLeaves
  <1>7. MarksTouch'
    <2>1. SUFFICES ASSUME RowAgrees PROVE RowAgrees'
      <3>1. (LoadComes => LoadComes') /\ (Undoes => Undoes')
        BY DEF LoadComes, Undoes, Toggles
      <3> QED BY <2>1, <3>1 DEF MarkInv, MarksTouch
    <2>2. Toggles' = Toggles \ {c} /\ c \in Toggles /\ \A e, f \in Toggles' : e.who = f.who => e = f
      BY <2>1 DEF RowAgrees, Toggles
    <2>3. CASE markKind = "reaction"
      <3>1. OwnMark /\ FollowsWire("other") /\ RowNumbers /\ c.who = "me"
        BY <1>2, <2>1, <2>3 DEF RowAgrees
      <3>2. Toggles' = {}
        <4>1. \A e \in Toggles : e.who = "me"
          BY <2>3 DEF MarkInv, CallsTrue, Toggles
        <4> QED BY <2>1, <2>2, <3>1, <4>1 DEF RowAgrees
      <3>3. OnePerActor(marks) /\ marks \subseteq Mark
        BY DEF MarkInv, MarkTyped, ServerTrue
      <3>4. CASE c.op = "remove"
        <4>1. markRow' = markRow /\ EachOnce(markRow') /\ FollowsWire("other")' /\ RowNumbers'
          <5>1. markRow' = markRow
            BY <1>4, <3>4
          <5>2. RowNumbers' /\ EachOnce(markRow')
            BY <1>6, <2>1, <3>1, <5>1 DEF RowNumbers, RowAgrees
          <5> QED BY <3>1, <5>1, <5>2, RowOfOthers
        <4>2. OwnIs({}) /\ ~HasMark(marks, "me")
          BY <2>2, <3>1, <3>4 DEF OwnMark
        <4>3. OwnIs(marks)'
          BY <3>3, <4>1, <4>2 DEF OwnIs, HasMark
        <4>4. OwnMark'
          BY <3>2, <4>3 DEF OwnMark
        <4> QED BY <2>2, <2>3, <4>1, <4>4 DEF RowAgrees
      <3>5. CASE c.op = "add"
        <4> PICK t : t = [by |-> "me", id |-> Temp]
          OBVIOUS
        <4>1. OwnIs({t}) /\ m \in marks /\ m.by = "me" /\ m \in Mark /\ t.by = "me" /\ t \in Mark
          <5>1. t \in Mark
            BY MarkFields, MarkAssumption
          <5> QED BY <2>2, <3>1, <3>3, <3>5, <5>1 DEF OwnMark
        <4>2. markRow' = Real(markRow, "me", m)
          BY <1>4, <2>3, <3>1, <3>5
        <4>3. MarkShown(markRow) \subseteq Mark
          BY <1>3, ShownOf
        <4>4. t \in MarkShown(markRow) /\ \A x \in MarkShown(markRow) : x.by = "me" => x = t
          BY <4>1, <4>3 DEF OwnIs
        <4>5. /\ EachOnce(markRow')
              /\ \A x : x.by # "me" => (x \in MarkShown(markRow') <=> x \in MarkShown(markRow))
              /\ \A x \in MarkShown(markRow') : x = m \/ (x \in MarkShown(markRow) /\ x # t)
              /\ m \in MarkShown(markRow')
          <5>1. EachOnce(markRow) /\ "me" \in Actors
            BY <2>1, MarkFields DEF RowAgrees
          <5>2. m \in Mark /\ m.by = "me"
            BY <4>1
          <5> PICK q : q = Real(markRow, "me", m)
            OBVIOUS
          <5>3. /\ \A x : x.by # "me" => (x \in MarkShown(q) <=> x \in MarkShown(markRow))
                /\ t \in MarkShown(markRow) => m \in MarkShown(q)
            BY <1>3, <5>1, <5>2, RealRow
          <5>4. \A x \in MarkShown(q) : x = m \/ (x \in MarkShown(markRow) /\ x # t)
            BY <1>3, <5>1, <5>2, RealRow
          <5>5. EachOnce(q)
            BY <1>3, <4>4, <5>1, <5>2, RealRow
          <5> QED BY <4>2, <4>4, <5>3, <5>4, <5>5
        <4>6. OwnIs(marks)'
          <5>1. \A x \in marks : x.by = "me" => x = m
            BY <3>3, <4>1 DEF OnePerActor
          <5>2. \A x \in MarkShown(markRow') : x.by = "me" => x = m
            BY <4>4, <4>5
          <5> QED BY <4>1, <4>5, <5>1, <5>2 DEF OwnIs
        <4>7. OwnMark'
          BY <3>2, <4>6 DEF OwnMark
        <4>8. FollowsWire("other")'
          BY <3>1, <4>5, RowOfOthers
        <4>9. RowNumbers'
          <5>1. m \in Told
            BY <4>1 DEF Told
          <5>2. /\ \A x \in Told : x.id \in 1..markMinted
                /\ \A x, y \in Told : x.id = y.id => x = y
            BY <2>3 DEF MarkInv, NumbersTrue
          <5>3. markMinted \in Nat
            BY MarkAssumption DEF MarkInv, MarkTyped
          <5>4. m.id <= markMinted /\ \A y \in Told : m.id = y.id => m = y
            BY <5>1, <5>2, <5>3
          <5> QED BY <1>6, <3>1, <4>5, <5>4 DEF RowNumbers
        <4> QED BY <2>2, <2>3, <4>5, <4>7, <4>8, <4>9 DEF RowAgrees
      <3> QED BY <1>1, <3>4, <3>5
    <2>4. CASE markKind = "subscriber"
      <3>1. \A b \in Actors : (\E e \in Toggles : e.who = b /\ e.st = "sent") \/ FollowsWire(b)
        BY <2>1, <2>4 DEF RowAgrees
      <3>2. markRow' = markRow
        BY <1>4, <2>4
      <3>3. ASSUME NEW b \in Actors PROVE (\E e \in Toggles' : e.who = b /\ e.st = "sent") \/ FollowsWire(b)'
        <4>1. CASE FollowsWire(b)
          BY <3>2, <4>1, RowOfOthers
        <4>2. CASE \E e \in Toggles : e.who = b /\ e.st = "sent"
          BY <2>2, <4>2
        <4> QED BY <3>1, <4>1, <4>2
      <3>4. EachOnce(markRow')
        BY <2>1, <3>2 DEF RowAgrees
      <3> QED BY <2>2, <2>4, <3>3, <3>4 DEF RowAgrees
    <2> QED BY <2>3, <2>4 DEF MarkInv, MarkTyped
  <1> QED BY <1>6, <1>7 DEF MarkInv

LEMMA SettleStep ==
  ASSUME MarkInv, MarkSettles
  PROVE  MarkInv'
  <1>1. PICK c \in markCalls :
          /\ c.st = "done" /\ markRow' = MarkSettled(c) /\ markCalls' = markCalls \ {c}
          /\ markStrayed' = IF c.op = "load" THEN c.old \/ Clashes(c) ELSE markStrayed
          /\ UNCHANGED <<markKind, marks, markMinted, markWire, markHears>>
    BY DEF MarkSettles
  <1>2. CASE c.op = "load"
    <2>1. markRow' = c.got /\ markStrayed' = (c.old \/ Clashes(c))
      BY <1>1, <1>2 DEF MarkSettled
    <2> QED BY <1>1, <1>2, <2>1, LoadSettles
  <1>3. CASE c.op # "load"
    BY <1>1, <1>3, ToggleSettles
  <1> QED BY <1>2, <1>3

LEMMA MarkUndoStep ==
  ASSUME MarkInv, MarkFails
  PROVE  MarkInv'
  <1>1. PICK c \in markCalls :
          /\ c.st = "failed" /\ markRow' = Undo(c) /\ markCalls' = markCalls \ {c}
          /\ markStrayed' = (markStrayed \/ c.op = "load" \/ markWire # <<>> \/ markCalls' # {}
                              \/ ~Matches(markRow', marks))
          /\ UNCHANGED <<markKind, marks, markMinted, markWire, markHears>>
    BY DEF MarkFails
  <1>2. c \in MarkRequest /\ c.undo \in Seq(Mark) /\ CallTrue(c) /\ markRow \in Seq(Mark)
    BY EachCall DEF MarkInv, MarkTyped, MarkRequest
  <1>3. markRow' \in Seq(Mark) /\ MarkShown(markRow') \subseteq MarkShown(markRow) \cup MarkShown(c.undo)
    <2>1. CASE c.op = "remove"
      <3>1. markRow' = markRow \o c.undo
        BY <1>1, <2>1 DEF Undo
      <3> QED BY <1>2, <3>1, JoinedShows
    <2>2. CASE c.op = "add"
      <3>1. markRow' = Only(markRow, {x \in MarkShown(markRow) : ~(x.by = c.who /\ x.id = Temp)})
        BY <1>1, <2>2 DEF Undo
      <3> QED BY <1>2, <3>1, OnlyShows
    <2>3. CASE c.op = "load"
      <3>1. markRow' = markRow
        BY <1>1, <2>3 DEF Undo
      <3> QED BY <1>2, <3>1
    <2> QED BY <1>2, <2>1, <2>2, <2>3 DEF MarkRequest
  <1>4. MarkTyped' /\ ServerTrue' /\ NumbersTrue' /\ CallsTrue'
    <2>1. markKind = "subscriber" => \A x \in MarkShown(markRow') : x.id = Temp
      BY <1>2, <1>3 DEF MarkInv, NumbersTrue, CallTrue
    <2>2. markStrayed' \in BOOLEAN
      <3>1. markStrayed \in BOOLEAN
        BY DEF MarkInv, MarkTyped
      <3> QED BY <1>1, <3>1
    <2> QED BY <1>1, <1>3, <2>1, <2>2, AnswerLeaves
  <1>5. MarksTouch'
    <2>1. SUFFICES ASSUME ~markStrayed' PROVE RowAgrees'
      BY DEF MarksTouch
    <2>2. Toggles' = {} /\ Matches(markRow', marks')
      BY <1>1, <2>1 DEF Toggles
    <2> QED BY <1>4, <2>2, RowIsServers
  <1> QED BY <1>4, <1>5 DEF MarkInv

LEMMA MarksStart == MarkInit => MarkInv
  <1> SUFFICES ASSUME MarkInit PROVE MarkInv
    OBVIOUS
  <1>1. /\ markKind \in {"reaction", "subscriber"} /\ marks = {} /\ markMinted = 0 /\ markRow = <<>>
        /\ markWire = <<>> /\ markHears = TRUE /\ markStrayed = FALSE
        /\ markCalls = {Fresh("load", "me", <<>>)}
    BY DEF MarkInit, Fresh
  <1>2. Fresh("load", "me", <<>>) \in MarkRequest /\ MarkShown(<<>>) = {}
    <2>1. "me" \in Actors /\ <<>> \in Seq(Mark) /\ "load" \in {"load", "add", "remove"}
      BY MarkFields
    <2> QED BY <2>1, FreshTyped
  <1>3. Told = {}
    BY <1>1 DEF Told
  <1>4. MarkTyped
    <2>1. markHears \in BOOLEAN /\ markStrayed \in BOOLEAN
      BY <1>1
    <2>2. markRow \in Seq(Mark) /\ markWire \in Seq(MarkEvent) /\ markCalls \subseteq MarkRequest
      BY <1>1, <1>2
    <2> QED BY <1>1, <2>1, <2>2, MarkAssumption DEF MarkTyped
  <1>5. ServerTrue
    BY <1>1 DEF ServerTrue, OnePerActor
  <1>6. NumbersTrue
    BY <1>1, <1>2, <1>3 DEF NumbersTrue
  <1>7. CallsTrue
    BY <1>1, <1>2 DEF CallsTrue, Fresh
  <1>8. MarksTouch
    BY <1>1 DEF MarksTouch, LoadComes, Fresh
  <1> QED BY <1>4, <1>5, <1>6, <1>7, <1>8 DEF MarkInv

LEMMA MarkStep ==
  ASSUME MarkInv, [MarkNext]_markVars
  PROVE  MarkInv'
  <1>1. CASE OthersToggle
    BY <1>1, MarkOthersStep
  <1>2. CASE HearMark
    BY <1>2, MarkHearStep
  <1>3. CASE MarkLinkDrops
    BY <1>3, LinkStep
  <1>4. CASE MarkReconnects
    BY <1>4, BackStep
  <1>5. CASE Toggle
    BY <1>5, ToggleStep
  <1>6. CASE ServeMark
    BY <1>6, MarkServeStep
  <1>7. CASE MarkSettles
    BY <1>7, SettleStep
  <1>8. CASE MarkFails
    BY <1>8, MarkUndoStep
  <1>9. CASE UNCHANGED markVars
    BY <1>9 DEF markVars, MarkInv, MarkTyped, ServerTrue, NumbersTrue, CallsTrue, MarksTouch, About, Told,
       LoadComes, Undoes, Toggles, RowAgrees, RowNumbers, OwnMark, OwnIs, FollowsWire, Leaves, Arrives
  <1> QED BY <1>1, <1>2, <1>3, <1>4, <1>5, <1>6, <1>7, <1>8, <1>9 DEF MarkNext

(* The invariant of a row of marks: the server has one mark of an actor, the *)
(* last event on its way about an actor says what it has, an answered load  *)
(* is what it has unless it grew old, and the row agrees up to what is still *)
(* to be answered or heard.                                                 *)
THEOREM MarkInvariant == MarkSpec => []MarkInv
  BY MarksStart, MarkStep, PTL DEF MarkSpec

(* The row of reactions or subscribers a tab shows is the server's once all *)
(* has been answered and heard.                                             *)
THEOREM MarksFollowServer == MarkSpec => []MarksConverge
  <1>1. ASSUME MarkInv PROVE MarksConverge
    <2>1. SUFFICES ASSUME markHears, markWire = <<>>, markCalls = {}, ~markStrayed PROVE Matches(markRow, marks)
      BY DEF MarksConverge
    <2>2. RowAgrees
      BY <1>1, <2>1 DEF MarkInv, MarksTouch, LoadComes, Undoes, Toggles
    <2>3. markRow \in Seq(Mark) /\ marks \subseteq Mark /\ MarkShown(markRow) \subseteq Mark /\ OnePerActor(marks)
      BY <1>1, ShownOf DEF MarkInv, MarkTyped, ServerTrue
    <2>4. Toggles = {} /\ \A b : ~Leaves(b) /\ ~Arrives(b)
      BY <2>1 DEF Toggles, Leaves, Arrives
    <2>5. ASSUME NEW b \in Actors, FollowsWire(b)
          PROVE  \A x \in Mark : x.by = b => (x \in MarkShown(markRow) <=> x \in marks)
      <3>1. /\ \A x \in MarkShown(markRow) : x.by = b => x \in marks
            /\ HasMark(marks, b) => HasMark(MarkShown(markRow), b)
        BY <2>4, <2>5 DEF FollowsWire
      <3> QED BY <2>3, <3>1 DEF HasMark, OnePerActor
    <2>6. \A x \in Mark : x \in MarkShown(markRow) <=> x \in marks
      <3>1. CASE markKind = "reaction"
        <4>1. OwnMark /\ FollowsWire("other")
          BY <2>2, <3>1 DEF RowAgrees
        <4>2. \A x \in Mark : x.by = "me" => (x \in MarkShown(markRow) <=> x \in marks)
          BY <2>4, <4>1 DEF OwnMark, OwnIs
        <4> QED BY <2>5, <4>1, <4>2, MarkFields
      <3>2. CASE markKind = "subscriber"
        <4>1. \A b \in Actors : FollowsWire(b)
          BY <2>2, <2>4, <3>2 DEF RowAgrees
        <4> QED BY <2>5, <4>1, MarkFields
      <3> QED BY <1>1, <3>1, <3>2 DEF MarkInv, MarkTyped
    <2>7. MarkShown(markRow) = marks
      BY <2>3, <2>6
    <2>8. Len(markRow) = Cardinality(MarkShown(markRow))
      BY <2>2, <2>3, OnceIsLength DEF RowAgrees
    <2> QED BY <2>7, <2>8 DEF Matches
  <1> QED BY <1>1, MarkInvariant, PTL

(* Type correctness of the row and of the server's marks.                   *)
THEOREM MarkTypeCorrect == MarkSpec => []MarkTypeOK
  <1>1. ASSUME MarkInv PROVE MarkTypeOK
    <2>1. MarkShown(markRow) \subseteq Mark
      BY <1>1, ShownOf DEF MarkInv, MarkTyped
    <2>2. \A c \in markCalls : c.op \in {"load", "add", "remove"} /\ c.st \in {"sent", "done", "failed"}
      BY <1>1 DEF MarkInv, MarkTyped, MarkRequest
    <2>3. markHears \in BOOLEAN /\ markStrayed \in BOOLEAN
      BY <1>1 DEF MarkInv, MarkTyped
    <2> QED BY <1>1, <2>1, <2>2, <2>3 DEF MarkInv, MarkTyped, MarkTypeOK
  <1> QED BY <1>1, MarkInvariant, PTL

-------------------------------------------------------------------------------
(***************************************************************************)
(* The inbox follows the server.                                            *)
(***************************************************************************)

InboxOps == Optimistic \cup {"load", "archive", "archiveDone"}
InboxRequest == [op : InboxOps, id : 0..MaxItems, sel : 0..MaxItems,
                 st : {"sent", "done", "failed"}, list : SUBSET InboxRow, old : BOOLEAN]
OneEach(rows) == \A r, q \in rows : r.id = q.id => r = q
IdsIn(rows)   == {r.id : r \in rows}

\* The server's rows are numbered; the store and the events know no others.
Numbered ==
    /\ OneEach(inboxDb) /\ OneEach(items)
    /\ IdsIn(inboxDb) = 1..Cardinality(inboxDb) /\ Cardinality(inboxDb) <= MaxItems
    /\ IdsIn(items) \subseteq IdsIn(inboxDb)

\* An event is of a row as it was created.
NewItem(id) == [id |-> id, read |-> FALSE, archived |-> FALSE]
EventsNew == \A k \in DOMAIN inboxWire :
    inboxWire[k].id \in IdsIn(inboxDb) /\ inboxWire[k] = NewItem(inboxWire[k].id)

\* What the answers say of the server.
AnswerTrue(c) ==
    /\ c.id # 0 => c.id \in IdsIn(inboxDb)
    /\ OneEach(c.list) /\ IdsIn(c.list) \subseteq IdsIn(inboxDb)
    /\ c.op = "load" /\ c.st = "done" /\ ~c.old => c.list = Active(inboxDb)
    /\ c.op = "archive" /\ c.st = "done" => \A r \in inboxDb : r.id = c.id => r.archived
AnswersTrue == \A c \in inboxCalls : AnswerTrue(c)

\* What an operation does to the active rows.
DoneTo(A, op, id) ==
  CASE op = "read"        -> {IF r.id = id THEN [r EXCEPT !.read = TRUE] ELSE r : r \in A}
    [] op = "archive"     -> {r \in A : r.id # id}
    [] op = "readAll"     -> {[r EXCEPT !.read = TRUE] : r \in A}
    [] op = "archiveAll"  -> {}
    [] op = "archiveRead" -> {r \in A : ~r.read}
    [] OTHER -> A

\* The active rows the store will have when it has heard the events, and done
\* what the server has archived.
Tasks    == {c \in inboxCalls : c.op # "load"}
Asking   == {c \in Tasks : c.st = "sent"}
Ahead    == {c \in Asking : c.op \in Optimistic}
Archived == {c.id : c \in {x \in Tasks : x.op = "archive" /\ x.st = "done"}}
Coming   == {inboxWire[k] : k \in {j \in DOMAIN inboxWire : inboxWire[j].id \notin IdsIn(items)}}
Apart(A, X) == {r \in A : r.id \notin X}
Foreseen == Apart(Active(items) \cup Coming, Archived)

\* A fetch will put the store right, or the answer that is due puts it wrong;
\* the server meets one of two requests in a state the store did not see.
Fetches == \E c \in inboxCalls : c.op = "load"
InboxRefetch == \/ Fetches
           \/ \E c \in Tasks : \/ c.op = "archiveDone" /\ c.st = "done"
                               \/ c.op \in Optimistic /\ c.st = "failed"
                               \/ c.op \notin Optimistic /\ c.st = "failed" /\ c.old
Crossed == \E c, d \in Asking : c # d
Agree   == /\ Ahead = {} => Foreseen = Active(inboxDb)
           /\ \A c \in Ahead : Foreseen = DoneTo(Active(inboxDb), c.op, c.id)
           /\ \A c \in Tasks : c.op = "archive" => c.id \notin IdsIn(Coming)

InboxTouch == inboxHears /\ ~inboxStrayed => InboxRefetch \/ Crossed \/ Agree

InboxTyped ==
    /\ inboxDb \subseteq InboxRow /\ items \subseteq InboxRow
    /\ selectedKey \in 0..MaxItems /\ inboxHears \in BOOLEAN /\ inboxStrayed \in BOOLEAN
    /\ inboxWire \in Seq(InboxRow) /\ inboxCalls \subseteq InboxRequest

InboxInv == InboxTyped /\ Numbered /\ EventsNew /\ AnswersTrue /\ InboxTouch

-----------------------------------------------------------------------------
SeenRow(r) == [r EXCEPT !.read = TRUE]
GoneRow(r) == [r EXCEPT !.archived = TRUE]

LEMMA InboxRowFacts ==
  ASSUME NEW r \in InboxRow
  PROVE  /\ SeenRow(r) \in InboxRow /\ SeenRow(r).id = r.id /\ SeenRow(r).read
         /\ SeenRow(r).archived <=> r.archived
         /\ GoneRow(r) \in InboxRow /\ GoneRow(r).id = r.id /\ GoneRow(r).archived
         /\ GoneRow(r).read <=> r.read
  BY DEF SeenRow, GoneRow, InboxRow

LEMMA SeenAgain == ASSUME NEW r \in InboxRow, r.read PROVE SeenRow(r) = r
  <1>1. PICK i \in ItemIds, b \in BOOLEAN, c \in BOOLEAN : r = [id |-> i, read |-> b, archived |-> c]
    BY DEF InboxRow
  <1>2. PICK t \in BOOLEAN : t = TRUE
    OBVIOUS
  <1>3. b = t
    BY <1>1, <1>2
  <1>4. SeenRow(r) = [id |-> i, read |-> t, archived |-> c]
    BY <1>1, <1>2 DEF SeenRow
  <1> QED BY <1>1, <1>3, <1>4

LEMMA RowsDone ==
  ASSUME NEW rows, NEW who
  PROVE  /\ ReadRow(rows, who) = {IF r \in who THEN SeenRow(r) ELSE r : r \in rows}
         /\ ArchiveRow(rows, who) = {IF r \in who THEN GoneRow(r) ELSE r : r \in rows}
  BY DEF ReadRow, ArchiveRow, SeenRow, GoneRow

\* Reading and archiving keep the rows and their ids, and archive no row back.
Kept(rows, new) ==
    /\ new \subseteq InboxRow /\ IdsIn(new) = IdsIn(rows)
    /\ OneEach(rows) => OneEach(new)
    /\ \A q \in new : \E r \in rows : q.id = r.id /\ (r.archived => q.archived)

LEMMA RowsKept ==
  ASSUME NEW rows \in SUBSET InboxRow, NEW who
  PROVE  Kept(rows, ReadRow(rows, who)) /\ Kept(rows, ArchiveRow(rows, who))
  <1>1. ASSUME NEW new, NEW F \in [rows -> InboxRow], new = {F[r] : r \in rows},
               \A r \in rows : F[r].id = r.id /\ (r.archived => F[r].archived)
        PROVE  Kept(rows, new)
    <2>1. new \subseteq InboxRow
      BY <1>1
    <2>2. IdsIn(new) = IdsIn(rows)
      BY <1>1 DEF IdsIn
    <2>3. OneEach(rows) => OneEach(new)
      <3> SUFFICES ASSUME OneEach(rows), NEW a \in new, NEW b \in new, a.id = b.id PROVE a = b
        BY DEF OneEach
      <3>1. PICK r \in rows, q \in rows : a = F[r] /\ b = F[q]
        BY <1>1
      <3>2. r.id = q.id
        BY <1>1, <3>1
      <3>3. r = q
        BY <3>2 DEF OneEach
      <3> QED BY <3>1, <3>3
    <2>4. \A q \in new : \E r \in rows : q.id = r.id /\ (r.archived => q.archived)
      BY <1>1
    <2> QED BY <2>1, <2>2, <2>3, <2>4 DEF Kept
  <1>2. Kept(rows, ReadRow(rows, who))
    <2> DEFINE F == [r \in rows |-> IF r \in who THEN SeenRow(r) ELSE r]
    <2>1. F \in [rows -> InboxRow] /\ \A r \in rows : F[r].id = r.id /\ (r.archived => F[r].archived)
      BY InboxRowFacts
    <2>2. ReadRow(rows, who) = {F[r] : r \in rows}
      BY RowsDone
    <2> HIDE DEF F
    <2> QED BY <1>1, <2>1, <2>2
  <1>3. Kept(rows, ArchiveRow(rows, who))
    <2> DEFINE F == [r \in rows |-> IF r \in who THEN GoneRow(r) ELSE r]
    <2>1. F \in [rows -> InboxRow] /\ \A r \in rows : F[r].id = r.id /\ (r.archived => F[r].archived)
      BY InboxRowFacts
    <2>2. ArchiveRow(rows, who) = {F[r] : r \in rows}
      BY RowsDone
    <2> HIDE DEF F
    <2> QED BY <1>1, <2>1, <2>2
  <1> QED BY <1>2, <1>3

-----------------------------------------------------------------------------
\* What the operations of the store and of the server do to the active rows.
LEMMA ActiveAfter ==
  ASSUME NEW rows \in SUBSET InboxRow, NEW who
  PROVE  /\ Active(ReadRow(rows, who)) = {IF r \in who THEN SeenRow(r) ELSE r : r \in Active(rows)}
         /\ Active(ArchiveRow(rows, who)) = Active(rows) \ who
  <1>1. \A r \in rows : /\ SeenRow(r).archived <=> r.archived
                        /\ GoneRow(r).archived
    BY InboxRowFacts
  <1>2. Active(ReadRow(rows, who)) = {IF r \in who THEN SeenRow(r) ELSE r : r \in Active(rows)}
    BY <1>1, RowsDone DEF Active
  <1>3. Active(ArchiveRow(rows, who)) = Active(rows) \ who
    BY <1>1, RowsDone DEF Active
  <1> QED BY <1>2, <1>3

LEMMA OpsDiffer ==
  /\ Optimistic \cap {"load", "archive", "archiveDone"} = {}
  /\ Batches \subseteq InboxOps /\ Optimistic \subseteq InboxOps
  BY DEF Optimistic, Batches, InboxOps

LEMMA DoneAlike ==
  ASSUME NEW rows \in SUBSET InboxRow, NEW op \in Optimistic \cup {"archive"}, NEW id, NEW completed
  PROVE  /\ Active(StoreDoes(rows, op, id)) = DoneTo(Active(rows), op, id)
         /\ Active(DbDoes(rows, op, id, completed)) = DoneTo(Active(rows), op, id)
  <1> DEFINE A == Active(rows)
  <1>0. A \subseteq InboxRow /\ A \subseteq rows /\ \A r \in rows : r \in A <=> ~r.archived
    BY DEF Active
  <1>1. CASE op = "read"
    <2>1. /\ StoreDoes(rows, op, id) = ReadRow(rows, InboxRowsOf(rows, id))
          /\ DbDoes(rows, op, id, completed) = ReadRow(rows, InboxRowsOf(rows, id))
      BY <1>1 DEF StoreDoes, DbDoes
    <2>2. \A r \in A : r \in InboxRowsOf(rows, id) <=> r.id = id
      BY <1>0 DEF InboxRowsOf
    <2>3. DoneTo(A, op, id) = {IF r \in InboxRowsOf(rows, id) THEN SeenRow(r) ELSE r : r \in A}
      BY <1>1, <2>2 DEF DoneTo, SeenRow
    <2> HIDE DEF A
    <2> QED BY <2>1, <2>3, ActiveAfter DEF A
  <1>2. CASE op = "archive"
    <2>1. /\ StoreDoes(rows, op, id) = ArchiveRow(rows, InboxRowsOf(rows, id))
          /\ DbDoes(rows, op, id, completed) = ArchiveRow(rows, InboxRowsOf(rows, id))
      BY <1>2 DEF StoreDoes, DbDoes
    <2>2. DoneTo(A, op, id) = A \ InboxRowsOf(rows, id)
      BY <1>0, <1>2 DEF DoneTo, InboxRowsOf
    <2> QED BY <2>1, <2>2, ActiveAfter
  <1>3. CASE op = "readAll"
    <2> PICK S : S = {r \in rows : ~r.archived /\ ~r.read}
      OBVIOUS
    <2>1. /\ StoreDoes(rows, op, id) = ReadRow(rows, A)
          /\ DbDoes(rows, op, id, completed) = ReadRow(rows, S)
      BY <1>3 DEF StoreDoes, DbDoes
    <2>2. DoneTo(A, op, id) = {SeenRow(r) : r \in A}
      BY <1>3 DEF DoneTo, SeenRow
    <2>3. \A r \in A : r \in S \/ SeenRow(r) = r
      BY <1>0, SeenAgain
    <2>4. DoneTo(A, op, id) = {IF r \in S THEN SeenRow(r) ELSE r : r \in A}
      BY <2>2, <2>3
    <2>5. DoneTo(A, op, id) = {IF r \in A THEN SeenRow(r) ELSE r : r \in A}
      BY <2>2
    <2> QED BY <2>1, <2>4, <2>5, ActiveAfter
  <1>4. CASE op = "archiveAll"
    <2>1. /\ StoreDoes(rows, op, id) = ArchiveRow(rows, A)
          /\ DbDoes(rows, op, id, completed) = ArchiveRow(rows, {r \in rows : ~r.archived})
      BY <1>4 DEF StoreDoes, DbDoes
    <2>2. DoneTo(A, op, id) = {}
      BY <1>4 DEF DoneTo
    <2>3. A = {r \in rows : ~r.archived}
      BY DEF Active
    <2> QED BY <2>1, <2>2, <2>3, ActiveAfter
  <1>5. CASE op = "archiveRead"
    <2> PICK S : S = {r \in rows : r.read /\ ~r.archived}
      OBVIOUS
    <2>1. /\ StoreDoes(rows, op, id) = ArchiveRow(rows, S)
          /\ DbDoes(rows, op, id, completed) = ArchiveRow(rows, S)
      BY <1>5 DEF StoreDoes, DbDoes, ArchivesRead
    <2>2. DoneTo(A, op, id) = A \ S
      BY <1>0, <1>5 DEF DoneTo
    <2> QED BY <2>1, <2>2, ActiveAfter
  <1> QED BY <1>1, <1>2, <1>3, <1>4, <1>5 DEF Optimistic

LEMMA AllKept ==
  ASSUME NEW rows \in SUBSET InboxRow, NEW op, NEW id, NEW completed
  PROVE  /\ Kept(rows, StoreDoes(rows, op, id))
         /\ op \in Batches \cup {"read", "archive"} => Kept(rows, DbDoes(rows, op, id, completed))
  <1>1. Kept(rows, rows)
    BY DEF Kept
  <1>2. \A who : Kept(rows, ReadRow(rows, who)) /\ Kept(rows, ArchiveRow(rows, who))
    BY RowsKept
  <1>3. Kept(rows, StoreDoes(rows, op, id))
    BY <1>1, <1>2 DEF StoreDoes
  <1>4. op \in Batches \cup {"read", "archive"} => Kept(rows, DbDoes(rows, op, id, completed))
    BY <1>2 DEF DbDoes, Batches
  <1> QED BY <1>3, <1>4

\* Doing something twice, or to a part of the rows.
LEMMA DoneApart ==
  ASSUME NEW A \in SUBSET InboxRow, NEW op, NEW id, NEW X
  PROVE  /\ DoneTo(A, op, id) \in SUBSET InboxRow
         /\ DoneTo(DoneTo(A, op, id), op, id) = DoneTo(A, op, id)
         /\ Apart(DoneTo(A, op, id), X) = DoneTo(Apart(A, X), op, id)
  <1>0. \A r \in A : SeenRow(r) \in InboxRow /\ SeenRow(r).id = r.id /\ SeenRow(SeenRow(r)) = SeenRow(r)
    BY InboxRowFacts, SeenAgain
  <1>1. CASE op = "read"
    <2>1. ASSUME NEW B PROVE DoneTo(B, op, id) = {IF r.id = id THEN SeenRow(r) ELSE r : r \in B}
      BY <1>1 DEF DoneTo, SeenRow
    <2> DEFINE F == [r \in A |-> IF r.id = id THEN SeenRow(r) ELSE r]
    <2>2. \A r \in A : /\ F[r] \in InboxRow /\ F[r].id = r.id
                       /\ (IF F[r].id = id THEN SeenRow(F[r]) ELSE F[r]) = F[r]
      BY <1>0
    <2>3. ASSUME NEW B \in SUBSET A PROVE DoneTo(B, op, id) = {F[r] : r \in B}
      <3>1. \A r \in B : F[r] = IF r.id = id THEN SeenRow(r) ELSE r
        OBVIOUS
      <3>2. DoneTo(B, op, id) = {IF r.id = id THEN SeenRow(r) ELSE r : r \in B}
        BY <2>1
      <3> HIDE DEF F
      <3> QED BY <3>1, <3>2
    <2>4. DoneTo(DoneTo(A, op, id), op, id) = {IF q.id = id THEN SeenRow(q) ELSE q : q \in DoneTo(A, op, id)}
      BY <2>1
    <2> HIDE DEF F
    <2>5. DoneTo(DoneTo(A, op, id), op, id) = DoneTo(A, op, id)
      BY <2>2, <2>3, <2>4
    <2>6. Apart(DoneTo(A, op, id), X) = DoneTo(Apart(A, X), op, id)
      BY <2>2, <2>3 DEF Apart
    <2> QED BY <2>2, <2>3, <2>5, <2>6
  <1>2. CASE op = "readAll"
    <2>1. ASSUME NEW B PROVE DoneTo(B, op, id) = {SeenRow(r) : r \in B}
      BY <1>2 DEF DoneTo, SeenRow
    <2>2. DoneTo(DoneTo(A, op, id), op, id) = {SeenRow(q) : q \in DoneTo(A, op, id)}
      BY <2>1
    <2>3. DoneTo(A, op, id) = {SeenRow(r) : r \in A}
      BY <2>1
    <2>4. DoneTo(Apart(A, X), op, id) = {SeenRow(r) : r \in Apart(A, X)}
      BY <2>1
    <2>5. DoneTo(DoneTo(A, op, id), op, id) = DoneTo(A, op, id)
      BY <1>0, <2>2, <2>3
    <2>6. Apart(DoneTo(A, op, id), X) = DoneTo(Apart(A, X), op, id)
      BY <1>0, <2>3, <2>4 DEF Apart
    <2> QED BY <1>0, <2>3, <2>5, <2>6
  <1>3. CASE op \notin {"read", "readAll"}
    BY <1>3 DEF DoneTo, Apart
  <1> QED BY <1>1, <1>2, <1>3

LEMMA OnePerNumber ==
  ASSUME NEW rows \in SUBSET InboxRow, OneEach(rows), NEW n \in Nat, IdsIn(rows) = 1..n
  PROVE  IsFiniteSet(rows) /\ Cardinality(rows) = n
  <1> DEFINE f == [k \in 1..n |-> CHOOSE r \in rows : r.id = k]
  <1>1. \A k \in 1..n : f[k] \in rows /\ f[k].id = k
    BY DEF IdsIn
  <1>2. \A r \in rows : r.id \in 1..n /\ f[r.id] = r
    BY <1>1 DEF OneEach, IdsIn
  <1>3. f \in [1..n -> rows]
    BY <1>1
  <1> HIDE DEF f
  <1>4. f \in Bijection(1..n, rows)
    <2>1. f \in Injection(1..n, rows)
      BY <1>1, <1>3 DEF Injection, IsInjective
    <2>2. f \in Surjection(1..n, rows)
      BY <1>2, <1>3 DEF Surjection
    <2> QED BY <2>1, <2>2 DEF Bijection
  <1>5. ExistsBijection(1..n, rows)
    BY <1>4 DEF ExistsBijection
  <1>6. IsFiniteSet(1..n) /\ Cardinality(1..n) = n
    BY FS_Interval
  <1>7. IsFiniteSet(rows)
    BY <1>4, <1>6, FS_Surjection DEF Bijection
  <1> QED BY <1>5, <1>7, FS_CountingElements

-----------------------------------------------------------------------------
\* The parts of a request.
LEMMA RequestNew ==
  ASSUME NEW op \in InboxOps, NEW id \in 0..MaxItems, selectedKey \in 0..MaxItems, NEW c, c = InboxCall(op, id)
  PROVE  c \in InboxRequest /\ c.op = op /\ c.id = id /\ c.st = "sent" /\ c.list = {}
  <1> PICK s : s = IF op = "archive" THEN selectedKey ELSE 0
    OBVIOUS
  <1>1. s \in 0..MaxItems
    BY InboxAssumption
  <1>2. c = [op |-> op, id |-> id, sel |-> s, st |-> "sent", list |-> {}, old |-> FALSE]
    BY DEF InboxCall
  <1> QED BY <1>1, <1>2 DEF InboxRequest

LEMMA RequestServed ==
  ASSUME NEW c \in InboxRequest, NEW st \in {"sent", "done", "failed"}, NEW S \in SUBSET InboxRow,
         NEW d, d = [c EXCEPT !.st = st, !.list = S]
  PROVE  d \in InboxRequest /\ d.op = c.op /\ d.id = c.id /\ d.st = st /\ d.list = S
  BY DEF InboxRequest

LEMMA RequestSettled ==
  ASSUME NEW c \in InboxRequest, NEW st \in {"sent", "done", "failed"}, NEW b \in BOOLEAN,
         NEW d, d = [c EXCEPT !.st = st, !.old = b]
  PROVE  d \in InboxRequest /\ d.op = c.op /\ d.id = c.id /\ d.st = st /\ d.list = c.list /\ (d.old <=> b)
  BY DEF InboxRequest

LEMMA StaleFacts ==
  ASSUME NEW C \in SUBSET InboxRequest
  PROVE  /\ Stale(C) \subseteq InboxRequest
         /\ {c \in Stale(C) : c.op # "load"} = {c \in C : c.op # "load"}
         /\ (\E c \in Stale(C) : c.op = "load") <=> (\E c \in C : c.op = "load")
         /\ \A d \in Stale(C) : /\ d.op = "load" /\ d.st = "done" => d.old
                                /\ \E c \in C : d.op = c.op /\ d.id = c.id /\ d.st = c.st /\ d.list = c.list
  <1>1. ASSUME NEW c \in C
        PROVE  LET d == [c EXCEPT !.old = TRUE] IN
               d \in InboxRequest /\ d.op = c.op /\ d.id = c.id /\ d.st = c.st /\ d.list = c.list /\ d.old
    BY DEF InboxRequest
  <1> DEFINE F == [c \in C |-> IF c.op = "load" /\ c.st = "done" THEN [c EXCEPT !.old = TRUE] ELSE c]
  <1>2. Stale(C) = {F[c] : c \in C}
    BY DEF Stale
  <1>3. ASSUME NEW c \in C
        PROVE  /\ F[c] \in InboxRequest /\ F[c].op = c.op /\ F[c].id = c.id /\ F[c].st = c.st /\ F[c].list = c.list
               /\ c.op # "load" => F[c] = c
    BY <1>1
  <1>4. ASSUME NEW c \in C, c.op = "load", c.st = "done" PROVE F[c].old
    BY <1>1, <1>4
  <1> HIDE DEF F
  <1>5. Stale(C) \subseteq InboxRequest
    BY <1>2, <1>3
  <1>6. {c \in Stale(C) : c.op # "load"} = {c \in C : c.op # "load"}
    BY <1>2, <1>3
  <1>7. (\E c \in Stale(C) : c.op = "load") <=> (\E c \in C : c.op = "load")
    BY <1>2, <1>3
  <1>8. \A d \in Stale(C) : d.op = "load" /\ d.st = "done" => d.old
    BY <1>2, <1>3, <1>4
  <1>9. \A d \in Stale(C) : \E c \in C : d.op = c.op /\ d.id = c.id /\ d.st = c.st /\ d.list = c.list
    BY <1>2, <1>3
  <1> QED BY <1>5, <1>6, <1>7, <1>8, <1>9

\* A row of the server's has been there since; a new one has its number next.
LEMMA NumbersOf ==
  ASSUME InboxTyped, Numbered
  PROVE  /\ Cardinality(inboxDb) \in Nat /\ IsFiniteSet(inboxDb)
         /\ IdsIn(inboxDb) \subseteq ItemIds /\ IdsIn(items) \subseteq ItemIds
  <1>1. IsFiniteSet(ItemIds) /\ Cardinality(ItemIds) = MaxItems
    BY InboxAssumption, FS_Interval DEF ItemIds
  <1>2. IdsIn(inboxDb) \subseteq ItemIds /\ IdsIn(items) \subseteq ItemIds
    BY DEF InboxTyped, IdsIn, InboxRow
  <1>3. IsFiniteSet(IdsIn(inboxDb))
    BY <1>1, <1>2, FS_Subset
  <1>4. IsFiniteSet(inboxDb)
    <2> DEFINE f == [r \in inboxDb |-> r.id]
    <2>1. f \in Injection(inboxDb, IdsIn(inboxDb))
      BY DEF Numbered, OneEach, IdsIn, Injection, IsInjective
    <2> QED BY <1>3, <2>1, FS_Injection
  <1> QED BY <1>2, <1>4, FS_CardinalityType

LEMMA InboxStart == InboxInit => InboxInv
  <1> SUFFICES ASSUME InboxInit PROVE InboxInv
    OBVIOUS
  <1> PICK c : c = [op |-> "load", id |-> 0, sel |-> 0, st |-> "sent", list |-> {}, old |-> FALSE]
    OBVIOUS
  <1>1. /\ c \in InboxRequest /\ c.op = "load" /\ c.id = 0 /\ c.st = "sent" /\ c.list = {}
        /\ inboxCalls = {c}
    BY InboxAssumption DEF InboxInit, InboxRequest, InboxOps
  <1>2. InboxTyped
    <2>1. inboxHears \in BOOLEAN /\ inboxStrayed \in BOOLEAN
      BY DEF InboxInit
    <2>2. inboxDb \subseteq InboxRow /\ items \subseteq InboxRow /\ selectedKey \in 0..MaxItems
      BY InboxAssumption DEF InboxInit
    <2>3. inboxWire \in Seq(InboxRow) /\ inboxCalls \subseteq InboxRequest
      BY <1>1 DEF InboxInit
    <2> QED BY <2>1, <2>2, <2>3 DEF InboxTyped
  <1>3. Numbered
    BY InboxAssumption, FS_EmptySet DEF InboxInit, Numbered, OneEach, IdsIn
  <1>4. EventsNew /\ AnswersTrue
    BY <1>1 DEF InboxInit, EventsNew, AnswersTrue, AnswerTrue, OneEach, IdsIn
  <1>5. InboxTouch
    BY <1>1 DEF InboxTouch, InboxRefetch, Fetches
  <1> QED BY <1>2, <1>3, <1>4, <1>5 DEF InboxInv

LEMMA CreatedStep == ASSUME InboxInv, NotificationCreated PROVE InboxInv'
  <1> PICK m : m = Cardinality(inboxDb)
    OBVIOUS
  <1> PICK n : n = NewItem(m + 1)
    OBVIOUS
  <1>1. /\ m < MaxItems /\ inboxDb' = inboxDb \cup {n} /\ inboxCalls' = Stale(inboxCalls)
        /\ inboxWire' = (IF inboxHears THEN Append(inboxWire, n) ELSE inboxWire)
        /\ UNCHANGED <<items, selectedKey, inboxHears>>
        /\ inboxStrayed' = (inboxStrayed \/ \E c \in inboxCalls : c.op \in Batches /\ c.st = "sent")
    BY DEF NotificationCreated, NewItem
  <1>2. /\ m \in Nat /\ IdsIn(inboxDb) = 1..m /\ OneEach(inboxDb) /\ inboxDb \subseteq InboxRow
        /\ IdsIn(items) \subseteq 1..m /\ OneEach(items)
    BY NumbersOf DEF InboxInv, Numbered, InboxTyped
  <1>3. n \in InboxRow /\ n.id = m + 1 /\ ~n.archived /\ n = NewItem(n.id)
    BY <1>1, <1>2, InboxAssumption DEF NewItem, InboxRow, ItemIds
  <1>4. Numbered'
    <2>1. OneEach(inboxDb') /\ IdsIn(inboxDb') = 1..(m + 1) /\ inboxDb' \subseteq InboxRow
      <3>1. \A x \in inboxDb : x.id # n.id
        <4>1. \A x \in inboxDb : x.id \in 1..m
          BY <1>2 DEF IdsIn
        <4> QED BY <1>2, <1>3, <4>1
      <3>2. OneEach(inboxDb')
        BY <1>1, <1>2, <3>1 DEF OneEach
      <3>3. IdsIn(inboxDb') = IdsIn(inboxDb) \cup {n.id}
        BY <1>1 DEF IdsIn
      <3>4. IdsIn(inboxDb') = 1..(m + 1)
        BY <1>2, <1>3, <3>3
      <3> QED BY <1>1, <1>2, <1>3, <3>2, <3>4
    <2>2. Cardinality(inboxDb') = m + 1
      BY <1>2, <2>1, OnePerNumber
    <2>3. OneEach(items') /\ IdsIn(items') \subseteq 1..m
      BY <1>1, <1>2
    <2>4. m + 1 <= MaxItems /\ IdsIn(items') \subseteq IdsIn(inboxDb')
      BY <1>1, <1>2, <2>1, <2>3, InboxAssumption
    <2> QED BY <2>1, <2>2, <2>3, <2>4 DEF Numbered
  <1>5. /\ inboxCalls \subseteq InboxRequest /\ inboxCalls' \subseteq InboxRequest
        /\ Tasks' = Tasks /\ (Fetches' <=> Fetches)
        /\ \A d \in inboxCalls' :
             /\ d.op = "load" /\ d.st = "done" => d.old
             /\ \E c \in inboxCalls : d.op = c.op /\ d.id = c.id /\ d.st = c.st /\ d.list = c.list
    BY <1>1, StaleFacts DEF InboxInv, InboxTyped, Tasks, Fetches
  <1>6. inboxWire \in Seq(InboxRow) /\ inboxWire' \in Seq(InboxRow)
    BY <1>1, <1>3 DEF InboxInv, InboxTyped
  <1>7. InboxTyped'
    <2>1. inboxStrayed' \in BOOLEAN
      BY <1>1 DEF InboxInv, InboxTyped
    <2>2. inboxDb' \subseteq InboxRow
      BY <1>1, <1>2, <1>3
    <2> QED BY <1>1, <1>5, <1>6, <2>1, <2>2 DEF InboxInv, InboxTyped
  <1>8. IdsIn(inboxDb') = IdsIn(inboxDb) \cup {n.id}
    BY <1>1 DEF IdsIn
  <1>9. EventsNew'
    <2> SUFFICES ASSUME NEW k \in DOMAIN inboxWire'
                 PROVE  inboxWire'[k].id \in IdsIn(inboxDb') /\ inboxWire'[k] = NewItem(inboxWire'[k].id)
      BY DEF EventsNew
    <2> PICK w : w = inboxWire'[k]
      OBVIOUS
    <2>1. w = n \/ \E j \in DOMAIN inboxWire : w = inboxWire[j]
      BY <1>1, <1>3, <1>6
    <2>2. \A j \in DOMAIN inboxWire : /\ inboxWire[j].id \in IdsIn(inboxDb)
                                      /\ inboxWire[j] = NewItem(inboxWire[j].id)
      BY DEF InboxInv, EventsNew
    <2> QED BY <1>3, <1>8, <2>1, <2>2
  <1>10. AnswersTrue'
    <2> SUFFICES ASSUME NEW d \in inboxCalls'
                 PROVE  /\ d.id # 0 => d.id \in IdsIn(inboxDb')
                        /\ OneEach(d.list) /\ IdsIn(d.list) \subseteq IdsIn(inboxDb')
                        /\ d.op = "load" /\ d.st = "done" /\ ~d.old => d.list = Active(inboxDb')
                        /\ d.op = "archive" /\ d.st = "done" => \A r \in inboxDb' : r.id = d.id => r.archived
      BY DEF AnswersTrue, AnswerTrue
    <2>1. PICK c \in inboxCalls : d.op = c.op /\ d.id = c.id /\ d.st = c.st /\ d.list = c.list
      BY <1>5
    <2>2. /\ c.id # 0 => c.id \in IdsIn(inboxDb)
          /\ OneEach(c.list) /\ IdsIn(c.list) \subseteq IdsIn(inboxDb)
          /\ c.op = "archive" /\ c.st = "done" => \A r \in inboxDb : r.id = c.id => r.archived
      BY DEF InboxInv, AnswersTrue, AnswerTrue
    <2>3. c.id # n.id
      BY <1>2, <1>3, <2>2
    <2>4. d.op = "archive" /\ d.st = "done" => \A r \in inboxDb' : r.id = d.id => r.archived
      BY <1>1, <2>1, <2>2, <2>3
    <2> QED BY <1>5, <1>8, <2>1, <2>2, <2>4
  <1>11. InboxTouch'
    <2> SUFFICES ASSUME inboxHears, ~inboxStrayed', ~InboxRefetch', ~Crossed' PROVE Agree'
      BY <1>1 DEF InboxTouch
    <2>1. Asking' = Asking /\ Ahead' = Ahead /\ Archived' = Archived
      BY <1>5 DEF Asking, Ahead, Archived
    <2>2. Agree
      BY <1>1, <1>5, <2>1 DEF InboxInv, InboxTouch, InboxRefetch, Crossed
    <2>3. n.id \notin IdsIn(items) /\ n.id \notin Archived
      <3>1. \A c \in inboxCalls : c.id # n.id
        BY <1>2, <1>3 DEF InboxInv, AnswersTrue, AnswerTrue
      <3> QED BY <1>2, <1>3, <3>1 DEF Archived, Tasks
    <2>4. Coming' = Coming \cup {n}
      <3>1. inboxWire' = Append(inboxWire, n) /\ items' = items
        BY <1>1
      <3> QED BY <1>6, <2>3, <3>1 DEF Coming
    <2>5. Foreseen' = Foreseen \cup {n}
      BY <1>1, <2>1, <2>3, <2>4 DEF Foreseen, Apart
    <2>6. Active(inboxDb') = Active(inboxDb) \cup {n}
      BY <1>1, <1>3 DEF Active
    <2>7. ASSUME NEW c \in Ahead
          PROVE  DoneTo(Active(inboxDb'), c.op, c.id) = DoneTo(Active(inboxDb), c.op, c.id) \cup {n}
      <3>1. c.op = "read"
        BY <1>1 DEF Ahead, Asking, Tasks, Optimistic, Batches
      <3>2. c.id # n.id
        BY <1>2, <1>3 DEF InboxInv, AnswersTrue, AnswerTrue, Ahead, Asking, Tasks
      <3> QED BY <2>6, <3>1, <3>2 DEF DoneTo
    <2>8. \A c \in Tasks : c.id # n.id
      BY <1>2, <1>3 DEF InboxInv, AnswersTrue, AnswerTrue, Tasks
    <2>9. \A c \in Tasks : c.op = "archive" => c.id \notin IdsIn(Coming')
      BY <2>2, <2>4, <2>8 DEF Agree, IdsIn
    <2> QED BY <1>5, <2>1, <2>2, <2>5, <2>6, <2>7, <2>9 DEF Agree
  <1> QED BY <1>4, <1>7, <1>9, <1>10, <1>11 DEF InboxInv

\* A request is asked for, answered or taken back; the server's rows stay.
LEMMA AnswersStay ==
  ASSUME AnswersTrue, UNCHANGED inboxDb,
         \A d \in inboxCalls' : d \in inboxCalls \/ AnswerTrue(d)
  PROVE  AnswersTrue'
  BY DEF AnswersTrue, AnswerTrue

LEMMA InboxHearStep == ASSUME InboxInv, HearInboxNew PROVE InboxInv'
  <1> PICK n : n = Head(inboxWire)
    OBVIOUS
  <1>1. /\ inboxWire # <<>> /\ items' = AddItem(items, n) /\ inboxWire' = Tail(inboxWire)
        /\ UNCHANGED <<inboxDb, selectedKey, inboxHears, inboxCalls, inboxStrayed>>
    BY DEF HearInboxNew
  <1>2. /\ inboxWire \in Seq(InboxRow) /\ items \subseteq InboxRow
        /\ Len(inboxWire) \in Nat \ {0} /\ n = inboxWire[1] /\ 1 \in DOMAIN inboxWire
    BY <1>1 DEF InboxInv, InboxTyped
  <1>3. /\ inboxWire' \in Seq(InboxRow) /\ DOMAIN inboxWire' = 1..(Len(inboxWire) - 1)
        /\ \A k \in DOMAIN inboxWire' : k + 1 \in DOMAIN inboxWire /\ inboxWire'[k] = inboxWire[k + 1]
    BY <1>1, <1>2
  <1>4. n \in InboxRow /\ n = NewItem(n.id) /\ n.id \in IdsIn(inboxDb) /\ ~n.archived
    <2>1. n \in InboxRow
      BY <1>2
    <2>2. n = NewItem(n.id) /\ n.id \in IdsIn(inboxDb)
      BY <1>2 DEF InboxInv, EventsNew
    <2>3. ~NewItem(n.id).archived
      BY DEF NewItem
    <2> QED BY <2>1, <2>2, <2>3
  <1>5. items' = IF n.id \in IdsIn(items) THEN items ELSE items \cup {n}
    BY <1>1 DEF AddItem, InboxRowsOf, IdsIn
  <1>6. /\ items' \subseteq InboxRow /\ OneEach(items') /\ IdsIn(items') = IdsIn(items) \cup {n.id}
    <2>1. OneEach(items)
      BY DEF InboxInv, Numbered
    <2> QED BY <1>2, <1>4, <1>5, <2>1 DEF OneEach, IdsIn
  <1>7. InboxTyped'
    BY <1>1, <1>3, <1>6 DEF InboxInv, InboxTyped
  <1>8. Numbered'
    BY <1>1, <1>4, <1>6 DEF InboxInv, Numbered
  <1>9. EventsNew'
    BY <1>1, <1>3 DEF InboxInv, EventsNew
  <1>10. AnswersTrue'
    BY <1>1, AnswersStay DEF InboxInv
  <1>11. Active(items') \cup Coming' = Active(items) \cup Coming
    <2>1. \A k \in DOMAIN inboxWire : inboxWire[k] = NewItem(inboxWire[k].id)
      BY DEF InboxInv, EventsNew
    <2>2. CASE n.id \in IdsIn(items)
      <3>1. items' = items
        BY <1>5, <2>2
      <3>2. Coming' \subseteq Coming
        BY <1>3, <3>1 DEF Coming
      <3>3. ASSUME NEW x \in Coming PROVE x \in Coming'
        <4>1. PICK k \in DOMAIN inboxWire : x = inboxWire[k] /\ x.id \notin IdsIn(items)
          BY DEF Coming
        <4>2. k # 1
          BY <1>2, <2>2, <4>1
        <4>3. k - 1 \in DOMAIN inboxWire' /\ inboxWire'[k - 1] = x
          BY <1>2, <1>3, <4>1, <4>2
        <4> QED BY <3>1, <4>1, <4>3 DEF Coming
      <3> QED BY <3>1, <3>2, <3>3
    <2>3. CASE n.id \notin IdsIn(items)
      <3>1. items' = items \cup {n} /\ Active(items') = Active(items) \cup {n}
        BY <1>4, <1>5, <2>3 DEF Active
      <3>2. n \in Coming
        BY <1>2, <2>3 DEF Coming
      <3>3. Coming' \subseteq Coming
        BY <1>3, <1>6 DEF Coming
      <3>4. ASSUME NEW x \in Coming, x # n PROVE x \in Coming'
        <4>1. PICK k \in DOMAIN inboxWire : x = inboxWire[k] /\ x.id \notin IdsIn(items)
          BY DEF Coming
        <4>2. k # 1 /\ x.id # n.id
          BY <1>2, <1>4, <2>1, <3>4, <4>1
        <4>3. k - 1 \in DOMAIN inboxWire' /\ inboxWire'[k - 1] = x
          BY <1>2, <1>3, <4>1, <4>2
        <4> QED BY <1>6, <4>1, <4>2, <4>3 DEF Coming
      <3> QED BY <3>1, <3>2, <3>3, <3>4
    <2> QED BY <2>2, <2>3
  <1>12. InboxTouch'
    <2>1. Tasks' = Tasks /\ (Fetches' <=> Fetches)
      BY <1>1 DEF Tasks, Fetches
    <2>2. Asking' = Asking /\ Ahead' = Ahead /\ Archived' = Archived
      BY <2>1 DEF Asking, Ahead, Archived
    <2>3. Foreseen' = Foreseen
      BY <1>11, <2>2 DEF Foreseen
    <2>4. (InboxRefetch' <=> InboxRefetch) /\ (Crossed' <=> Crossed)
      BY <2>1, <2>2 DEF InboxRefetch, Crossed
    <2>6. IdsIn(Coming') \subseteq IdsIn(Coming)
      BY <1>3, <1>6 DEF Coming, IdsIn
    <2>5. Agree => Agree'
      BY <1>1, <2>1, <2>2, <2>3, <2>6 DEF Agree
    <2> QED BY <1>1, <2>4, <2>5 DEF InboxInv, InboxTouch
  <1> QED BY <1>7, <1>8, <1>9, <1>10, <1>12 DEF InboxInv

LEMMA InboxLinkSteps == ASSUME InboxInv, InboxLinkDrops \/ InboxReconnects PROVE InboxInv'
  <1>1. UNCHANGED <<inboxDb, items, selectedKey, inboxStrayed>>
    BY DEF InboxLinkDrops, InboxReconnects
  <1>2. Numbered'
    BY <1>1 DEF InboxInv, Numbered
  <1>3. CASE InboxLinkDrops
    <2>1. inboxHears' = FALSE /\ inboxWire' = <<>> /\ inboxCalls' = inboxCalls
      BY <1>3 DEF InboxLinkDrops
    <2>5. inboxHears' \in BOOLEAN
      BY <2>1
    <2>6. inboxWire' \in Seq(InboxRow)
      BY <2>1
    <2>2. InboxTyped'
      BY <1>1, <2>1, <2>5, <2>6 DEF InboxInv, InboxTyped
    <2>3. AnswersTrue'
      BY <1>1, <2>1, AnswersStay DEF InboxInv
    <2>4. EventsNew' /\ InboxTouch'
      BY <2>1 DEF EventsNew, InboxTouch
    <2> QED BY <1>2, <2>2, <2>3, <2>4 DEF InboxInv
  <1>4. CASE InboxReconnects
    <2> PICK c : c = InboxCall("load", 0)
      OBVIOUS
    <2>1. inboxHears' = TRUE /\ inboxWire' = inboxWire /\ inboxCalls' = inboxCalls \cup {c}
      BY <1>4 DEF InboxReconnects, BeginsCall
    <2>2. c \in InboxRequest /\ c.op = "load" /\ c.id = 0 /\ c.st = "sent" /\ c.list = {}
      BY RequestNew, InboxAssumption DEF InboxInv, InboxTyped, InboxOps
    <2>3. inboxHears' \in BOOLEAN /\ inboxCalls' \subseteq InboxRequest
      BY <2>1, <2>2 DEF InboxInv, InboxTyped
    <2>4. InboxTyped'
      BY <1>1, <2>1, <2>3 DEF InboxInv, InboxTyped
    <2>5. AnswersTrue'
      <3>1. AnswerTrue(c)
        BY <2>2 DEF AnswerTrue, OneEach, IdsIn
      <3> QED BY <1>1, <2>1, <3>1, AnswersStay DEF InboxInv
    <2>6. EventsNew'
      BY <1>1, <2>1 DEF InboxInv, EventsNew
    <2>7. InboxTouch'
      BY <2>1, <2>2 DEF InboxTouch, InboxRefetch, Fetches
    <2> QED BY <1>2, <2>4, <2>5, <2>6, <2>7 DEF InboxInv
  <1> QED BY <1>3, <1>4

\* The user asks for something; the store may go ahead of the answer.
LEMMA AskedFor ==
  ASSUME InboxInv, NEW op \in InboxOps \ {"load"}, NEW id \in 0..MaxItems,
         id # 0 => id \in IdsIn(inboxDb), op = "archive" => id \in IdsIn(items),
         NEW c, c = InboxCall(op, id), inboxCalls' = inboxCalls \cup {c},
         UNCHANGED <<inboxDb, inboxWire, inboxHears>>,
         Kept(items, items'), selectedKey' \in 0..MaxItems, inboxStrayed' \in BOOLEAN,
         inboxStrayed => inboxStrayed',
         ~inboxStrayed' => IF op \in Optimistic THEN Foreseen' = DoneTo(Foreseen, op, id)
                                                ELSE Foreseen' = Foreseen
  PROVE  InboxInv'
  <1>1. c \in InboxRequest /\ c.op = op /\ c.id = id /\ c.st = "sent" /\ c.list = {}
    BY RequestNew DEF InboxInv, InboxTyped
  <1>2. items' \subseteq InboxRow /\ OneEach(items') /\ IdsIn(items') = IdsIn(items)
    BY DEF InboxInv, Numbered, Kept
  <1>3. InboxTyped'
    BY <1>1, <1>2 DEF InboxInv, InboxTyped
  <1>4. Numbered' /\ EventsNew'
    BY <1>2 DEF InboxInv, Numbered, EventsNew
  <1>5. AnswersTrue'
    <2>1. AnswerTrue(c)
      BY <1>1 DEF AnswerTrue, OneEach, IdsIn
    <2> QED BY <2>1, AnswersStay DEF InboxInv
  <1>6. InboxTouch'
    <2> SUFFICES ASSUME inboxHears, ~inboxStrayed', ~InboxRefetch', ~Crossed' PROVE Agree'
      BY DEF InboxTouch
    <2>1. Tasks' = Tasks \cup {c} /\ Asking' = Asking \cup {c} /\ (Fetches => Fetches')
      BY <1>1 DEF Tasks, Asking, Fetches
    <2>2. \A d \in Asking : d = c
      BY <2>1 DEF Crossed
    <2>3. Ahead' = IF op \in Optimistic THEN Ahead \cup {c} ELSE Ahead
      BY <1>1, <2>1 DEF Ahead
    <2>4. ~inboxStrayed /\ ~InboxRefetch /\ ~Crossed
      BY <2>1 DEF InboxRefetch, Crossed
    <2>5. Agree
      BY <2>4 DEF InboxInv, InboxTouch
    <2>8. \A d \in Tasks' : d.op = "archive" => d.id \notin IdsIn(Coming')
      <3>1. Coming' = Coming
        BY <1>2 DEF Coming
      <3>2. op = "archive" => id \notin IdsIn(Coming)
        BY DEF Coming, IdsIn
      <3> QED BY <1>1, <2>1, <2>5, <3>1, <3>2 DEF Agree
    <2>6. CASE op \in Optimistic
      <3>1. Ahead' = {c} /\ (Ahead = {} \/ c \in Ahead)
        BY <2>2, <2>3, <2>6 DEF Ahead
      <3>2. Foreseen \in {Active(inboxDb), DoneTo(Active(inboxDb), op, id)}
        BY <1>1, <2>5, <3>1 DEF Agree
      <3>3. Active(inboxDb) \in SUBSET InboxRow
        BY DEF InboxInv, InboxTyped, Active
      <3>4. Foreseen' = DoneTo(Active(inboxDb), op, id)
        BY <2>6, <3>2, <3>3, DoneApart
      <3> QED BY <1>1, <2>8, <3>1, <3>4 DEF Agree
    <2>7. CASE op \notin Optimistic
      <3>1. Ahead' = Ahead /\ Foreseen' = Foreseen
        BY <2>3, <2>7
      <3> QED BY <2>5, <2>8, <3>1 DEF Agree
    <2> QED BY <2>6, <2>7
  <1> QED BY <1>3, <1>4, <1>5, <1>6 DEF InboxInv

LEMMA KeyTyped == ASSUME NEW id \in ItemIds PROVE Key(id) \in 0..MaxItems
  BY InboxAssumption DEF Key, ItemIds

\* A request that is sent archives nothing yet.
LEMMA ArchivedStays ==
  ASSUME NEW c, c.st = "sent", inboxCalls' = inboxCalls \cup {c}
  PROVE  Archived' = Archived
  BY DEF Archived, Tasks

LEMMA SelectStep == ASSUME InboxInv, HandleSelect PROVE InboxInv'
  <1>1. PICK r \in DedupedItems(items) :
          /\ selectedKey' = Key(r.id)
          /\ IF r.read THEN UNCHANGED <<items, inboxCalls>>
             ELSE items' = StoreDoes(items, "read", r.id) /\ BeginsCall("read", r.id)
          /\ UNCHANGED <<inboxDb, inboxWire, inboxHears, inboxStrayed>>
    BY DEF HandleSelect
  <1>2. r \in items /\ r.id \in ItemIds /\ r.id \in IdsIn(items) /\ r.id \in IdsIn(inboxDb)
    BY DEF DedupedItems, Active, InboxInv, InboxTyped, InboxRow, Numbered, IdsIn
  <1>3. selectedKey' \in 0..MaxItems
    BY <1>1, <1>2, KeyTyped
  <1>4. CASE r.read
    <2>1. UNCHANGED <<items, inboxCalls, inboxDb, inboxWire, inboxHears, inboxStrayed>>
      BY <1>1, <1>4
    <2>2. InboxTyped' /\ Numbered' /\ EventsNew'
      BY <1>3, <2>1 DEF InboxInv, InboxTyped, Numbered, EventsNew
    <2>3. AnswersTrue'
      BY <2>1, AnswersStay DEF InboxInv
    <2>4. Tasks' = Tasks /\ (Fetches' <=> Fetches) /\ Coming' = Coming
      BY <2>1 DEF Tasks, Fetches, Coming
    <2>5. InboxTouch'
      BY <2>1, <2>4 DEF InboxInv, InboxTouch, InboxRefetch, Crossed, Agree, Ahead, Asking, Foreseen, Archived
    <2> QED BY <2>2, <2>3, <2>5 DEF InboxInv
  <1>5. CASE ~r.read
    <2> PICK c : c = InboxCall("read", r.id)
      OBVIOUS
    <2>1. items' = StoreDoes(items, "read", r.id) /\ inboxCalls' = inboxCalls \cup {c}
      BY <1>1, <1>5 DEF BeginsCall
    <2>2. "read" \in InboxOps \ {"load"} /\ "read" \in Optimistic /\ r.id \in 0..MaxItems
      BY <1>2, InboxAssumption DEF InboxOps, Optimistic, ItemIds
    <2>3. items \in SUBSET InboxRow
      BY DEF InboxInv, InboxTyped
    <2>4. Kept(items, items')
      BY <2>1, <2>3, AllKept
    <2>5. c.st = "sent"
      BY <2>2, RequestNew DEF InboxInv, InboxTyped
    <2>6. Foreseen' = DoneTo(Foreseen, "read", r.id)
      <3>1. Archived' = Archived
        BY <2>1, <2>5, ArchivedStays
      <3>2. Coming' = Coming
        BY <1>1, <2>4 DEF Coming, Kept
      <3>3. Active(items') = DoneTo(Active(items), "read", r.id)
        BY <2>1, <2>2, <2>3, DoneAlike
      <3>4. \A x \in Coming : x.id # r.id
        BY <1>2 DEF Coming
      <3>5. Active(items) \cup Coming \in SUBSET InboxRow
        BY <2>3 DEF Active, Coming, InboxInv, InboxTyped
      <3>6. DoneTo(Active(items) \cup Coming, "read", r.id) = DoneTo(Active(items), "read", r.id) \cup Coming
        BY <3>4 DEF DoneTo
      <3> PICK A : A = Active(items) \cup Coming
        OBVIOUS
      <3> PICK X : X = Archived
        OBVIOUS
      <3>7. Foreseen = Apart(A, X) /\ Foreseen' = Apart(DoneTo(A, "read", r.id), X)
        BY <3>1, <3>2, <3>3, <3>6 DEF Foreseen
      <3>8. Apart(DoneTo(A, "read", r.id), X) = DoneTo(Apart(A, X), "read", r.id)
        BY <3>5, DoneApart
      <3> QED BY <3>7, <3>8
    <2>7. inboxStrayed' = inboxStrayed /\ inboxStrayed \in BOOLEAN /\ UNCHANGED <<inboxDb, inboxWire, inboxHears>>
      BY <1>1 DEF InboxInv, InboxTyped
    <2> QED BY <1>2, <1>3, <2>1, <2>2, <2>4, <2>6, <2>7, AskedFor
  <1> QED BY <1>4, <1>5

LEMMA ArchiveStep == ASSUME InboxInv, HandleArchive PROVE InboxInv'
  <1>1. PICK r \in DedupedItems(items) :
          /\ inboxCalls' = inboxCalls \cup {InboxCall("archive", r.id)}
          /\ UNCHANGED <<inboxDb, items, selectedKey, inboxWire, inboxHears, inboxStrayed>>
    BY DEF HandleArchive, BeginsCall
  <1> PICK c : c = InboxCall("archive", r.id)
    OBVIOUS
  <1>2. r.id \in ItemIds /\ r.id \in IdsIn(items) /\ r.id \in IdsIn(inboxDb)
    BY DEF DedupedItems, Active, InboxInv, InboxTyped, InboxRow, Numbered, IdsIn
  <1>3. "archive" \in InboxOps \ {"load"} /\ "archive" \notin Optimistic /\ r.id \in 0..MaxItems
    BY <1>2, InboxAssumption DEF InboxOps, Optimistic, ItemIds
  <1>4. c.st = "sent"
    BY <1>3, RequestNew DEF InboxInv, InboxTyped
  <1>5. Kept(items, items')
    BY <1>1 DEF Kept, InboxInv, InboxTyped
  <1>6. Foreseen' = Foreseen
    <2>1. Archived' = Archived
      BY <1>1, <1>4, ArchivedStays
    <2> QED BY <1>1, <2>1 DEF Foreseen, Coming
  <1>7. selectedKey' \in 0..MaxItems /\ inboxStrayed' = inboxStrayed /\ inboxStrayed' \in BOOLEAN
    BY <1>1 DEF InboxInv, InboxTyped
  <1> QED BY <1>1, <1>2, <1>3, <1>5, <1>6, <1>7, AskedFor

LEMMA BatchStep == ASSUME InboxInv, HandleBatch PROVE InboxInv'
  <1>1. PICK op \in Batches :
          /\ inboxCalls' = inboxCalls \cup {InboxCall(op, 0)}
          /\ items' = StoreDoes(items, op, 0)
          /\ selectedKey' \in {0, selectedKey}
          /\ inboxStrayed' = (inboxStrayed \/ inboxWire # <<>>)
          /\ UNCHANGED <<inboxDb, inboxWire, inboxHears>>
    BY DEF HandleBatch, BeginsCall
  <1> PICK c : c = InboxCall(op, 0)
    OBVIOUS
  <1>2. op \in InboxOps \ {"load"} /\ 0 \in 0..MaxItems /\ (op \in Optimistic \/ op = "archiveDone")
        /\ op # "archive"
    BY InboxAssumption DEF InboxOps, Optimistic, Batches
  <1>3. c.st = "sent" /\ items \in SUBSET InboxRow
    BY <1>2, RequestNew DEF InboxInv, InboxTyped
  <1>4. Kept(items, items')
    BY <1>1, <1>3, AllKept
  <1>5. ASSUME ~inboxStrayed'
        PROVE  IF op \in Optimistic THEN Foreseen' = DoneTo(Foreseen, op, 0) ELSE Foreseen' = Foreseen
    <2>1. Archived' = Archived
      BY <1>1, <1>3, ArchivedStays
    <2>2. inboxWire = <<>> /\ inboxWire' = <<>>
      BY <1>1, <1>5
    <2>3. Coming = {} /\ Coming' = {}
      BY <2>2 DEF Coming
    <2>4. Foreseen = Apart(Active(items), Archived)
      BY <2>3 DEF Foreseen
    <2>5. Foreseen' = Apart(Active(items'), Archived)
      BY <2>1, <2>3 DEF Foreseen
    <2>6. CASE op \in Optimistic
      <3>1. Active(items') = DoneTo(Active(items), op, 0)
        BY <1>1, <1>3, <2>6, DoneAlike
      <3>2. Active(items) \in SUBSET InboxRow
        BY <1>3 DEF Active
      <3> PICK A : A = Active(items)
        OBVIOUS
      <3> PICK X : X = Archived
        OBVIOUS
      <3>3. Foreseen = Apart(A, X) /\ Foreseen' = Apart(DoneTo(A, op, 0), X)
        BY <2>4, <2>5, <3>1
      <3>4. Apart(DoneTo(A, op, 0), X) = DoneTo(Apart(A, X), op, 0)
        BY <3>2, DoneApart
      <3> QED BY <2>6, <3>3, <3>4
    <2>7. CASE op \notin Optimistic
      <3>1. op = "archiveDone"
        BY <1>2, <2>7
      <3>2. items' = items
        BY <1>1, <3>1 DEF StoreDoes
      <3> QED BY <2>4, <2>5, <2>7, <3>2
    <2> QED BY <2>6, <2>7
  <1>6. selectedKey' \in 0..MaxItems /\ inboxStrayed' \in BOOLEAN /\ (inboxStrayed => inboxStrayed')
    BY <1>1, InboxAssumption DEF InboxInv, InboxTyped
  <1> QED BY <1>1, <1>2, <1>4, <1>5, <1>6, AskedFor

\* The server carries a request out, or does not; the answer may be lost.
LEMMA InboxServeStep == ASSUME InboxInv, ServeInbox PROVE InboxInv'
  <1>1. PICK c \in inboxCalls, st \in {"done", "failed"} :
    /\ c.st = "sent"
    /\ IF c.op = "load"
       THEN /\ inboxCalls' = (inboxCalls \ {c}) \cup
                 {[c EXCEPT !.st = st, !.list = IF st = "done" THEN Active(inboxDb) ELSE {}]}
            /\ UNCHANGED <<inboxDb, inboxStrayed>>
       ELSE \E completed \in {{}, 1..SharedItems}, done \in BOOLEAN :
            /\ st = "done" => done
            /\ inboxDb' = IF done THEN DbDoes(inboxDb, c.op, c.id, completed) ELSE inboxDb
            /\ inboxCalls' = Stale(inboxCalls \ {c}) \cup {[c EXCEPT !.st = st, !.old = (st = "failed" /\ done)]}
            /\ inboxStrayed' = (inboxStrayed \/
                   \E d \in inboxCalls \ {c} : d.op # "load" /\ d.st = "sent")
    /\ UNCHANGED <<items, selectedKey, inboxWire, inboxHears>>
    BY DEF ServeInbox
  <1>2. c \in InboxRequest /\ AnswerTrue(c) /\ inboxDb \in SUBSET InboxRow
    BY DEF InboxInv, InboxTyped, AnswersTrue
  <1>3. CASE c.op = "load"
    <2> PICK S : S = IF st = "done" THEN Active(inboxDb) ELSE {}
      OBVIOUS
    <2> PICK d : d = [c EXCEPT !.st = st, !.list = S]
      OBVIOUS
    <2>1. /\ inboxCalls' = (inboxCalls \ {c}) \cup {d}
          /\ UNCHANGED <<inboxDb, inboxStrayed, items, selectedKey, inboxWire, inboxHears>>
      BY <1>1, <1>3
    <2>2. S \in SUBSET InboxRow /\ OneEach(S) /\ IdsIn(S) \subseteq IdsIn(inboxDb)
      BY <1>2 DEF Active, OneEach, IdsIn, InboxInv, Numbered
    <2>3. d \in InboxRequest /\ d.op = c.op /\ d.id = c.id /\ d.st = st /\ d.list = S
      BY <1>2, <2>2 DEF InboxRequest
    <2>4. InboxTyped'
      BY <2>1, <2>3 DEF InboxInv, InboxTyped
    <2>5. Numbered' /\ EventsNew'
      BY <2>1 DEF InboxInv, Numbered, EventsNew
    <2>6. AnswersTrue'
      <3>1. AnswerTrue(d)
        BY <1>2, <1>3, <2>2, <2>3 DEF AnswerTrue
      <3> QED BY <2>1, <3>1, AnswersStay DEF InboxInv
    <2>7. InboxTouch'
      BY <1>3, <2>1, <2>3 DEF InboxTouch, InboxRefetch, Fetches
    <2> QED BY <2>4, <2>5, <2>6, <2>7 DEF InboxInv
  <1>4. CASE c.op # "load"
    <2>1. PICK completed \in {{}, 1..SharedItems}, done \in BOOLEAN :
            /\ st = "done" => done
            /\ inboxDb' = IF done THEN DbDoes(inboxDb, c.op, c.id, completed) ELSE inboxDb
            /\ inboxCalls' = Stale(inboxCalls \ {c}) \cup {[c EXCEPT !.st = st, !.old = (st = "failed" /\ done)]}
            /\ inboxStrayed' = (inboxStrayed \/
                   \E d \in inboxCalls \ {c} : d.op # "load" /\ d.st = "sent")
      BY <1>1, <1>4
    <2> PICK b \in BOOLEAN : b = (st = "failed" /\ done)
      OBVIOUS
    <2> PICK d : d = [c EXCEPT !.st = st, !.old = b]
      OBVIOUS
    <2>2. inboxCalls' = Stale(inboxCalls \ {c}) \cup {d} /\ UNCHANGED <<items, selectedKey, inboxWire, inboxHears>>
      BY <1>1, <2>1
    <2>3. d \in InboxRequest /\ d.op = c.op /\ d.id = c.id /\ d.st = st /\ d.list = c.list /\ (d.old <=> b)
      BY <1>2 DEF InboxRequest
    <2>4. c.op \in Batches \cup {"read", "archive"} /\ (c.op \in Optimistic \/ c.op \in {"archive", "archiveDone"})
      BY <1>2, <1>4 DEF InboxRequest, InboxOps, Optimistic, Batches
    <2>5. Kept(inboxDb, inboxDb')
      <3>1. Kept(inboxDb, inboxDb)
        BY <1>2 DEF Kept
      <3>2. Kept(inboxDb, DbDoes(inboxDb, c.op, c.id, completed))
        BY <1>2, <2>4, AllKept
      <3> QED BY <2>1, <3>1, <3>2
    <2>6. /\ inboxDb' \in SUBSET InboxRow /\ OneEach(inboxDb') /\ IdsIn(inboxDb') = IdsIn(inboxDb)
          /\ \A q \in inboxDb' : \E r \in inboxDb : q.id = r.id /\ (r.archived => q.archived)
      BY <2>5 DEF Kept, InboxInv, Numbered
    <2>7. Numbered'
      <3> PICK n : n = Cardinality(inboxDb)
        OBVIOUS
      <3>1. n \in Nat /\ IdsIn(inboxDb') = 1..n
        BY <2>6, NumbersOf DEF InboxInv, Numbered
      <3>2. Cardinality(inboxDb') = n
        BY <2>6, <3>1, OnePerNumber
      <3>3. OneEach(items') /\ IdsIn(items') \subseteq IdsIn(inboxDb')
        BY <2>2, <2>6 DEF InboxInv, Numbered
      <3>4. n <= MaxItems
        BY DEF InboxInv, Numbered
      <3> QED BY <2>6, <3>1, <3>2, <3>3, <3>4 DEF Numbered
    <2>8. EventsNew'
      BY <2>2, <2>6 DEF InboxInv, EventsNew
    <2>9. inboxCalls \ {c} \in SUBSET InboxRequest
      BY DEF InboxInv, InboxTyped
    <2>10. InboxTyped'
      <3>1. inboxStrayed' \in BOOLEAN
        BY <2>1 DEF InboxInv, InboxTyped
      <3>2. inboxCalls' \subseteq InboxRequest
        BY <2>2, <2>3, <2>9, StaleFacts
      <3> QED BY <2>2, <2>6, <3>1, <3>2 DEF InboxInv, InboxTyped
    <2>11. c.op = "archive" /\ st = "done" => \A r \in inboxDb' : r.id = c.id => r.archived
      <3> SUFFICES ASSUME c.op = "archive", st = "done" PROVE \A r \in inboxDb' : r.id = c.id => r.archived
        OBVIOUS
      <3>1. inboxDb' = ArchiveRow(inboxDb, InboxRowsOf(inboxDb, c.id))
        BY <2>1 DEF DbDoes
      <3>2. inboxDb' = {IF r \in InboxRowsOf(inboxDb, c.id) THEN GoneRow(r) ELSE r : r \in inboxDb}
        BY <3>1, RowsDone
      <3>3. \A r \in inboxDb : GoneRow(r).archived /\ GoneRow(r).id = r.id
        BY <1>2, InboxRowFacts
      <3> QED BY <3>2, <3>3 DEF InboxRowsOf
    <2>12. AnswersTrue'
      <3> SUFFICES ASSUME NEW x \in inboxCalls'
                   PROVE  /\ x.id # 0 => x.id \in IdsIn(inboxDb')
                          /\ OneEach(x.list) /\ IdsIn(x.list) \subseteq IdsIn(inboxDb')
                          /\ x.op = "load" /\ x.st = "done" /\ ~x.old => x.list = Active(inboxDb')
                          /\ x.op = "archive" /\ x.st = "done" => \A r \in inboxDb' : r.id = x.id => r.archived
        BY DEF AnswersTrue, AnswerTrue
      <3>1. CASE x = d
        BY <1>2, <1>4, <2>3, <2>6, <2>11, <3>1 DEF AnswerTrue
      <3>2. CASE x \in Stale(inboxCalls \ {c})
        <4>1. PICK y \in inboxCalls : x.op = y.op /\ x.id = y.id /\ x.st = y.st /\ x.list = y.list
          BY <2>9, <3>2, StaleFacts
        <4>2. x.op = "load" /\ x.st = "done" => x.old
          BY <2>9, <3>2, StaleFacts
        <4>3. AnswerTrue(y)
          BY DEF InboxInv, AnswersTrue
        <4> QED BY <2>6, <4>1, <4>2, <4>3 DEF AnswerTrue
      <3> QED BY <2>2, <3>1, <3>2
    <2>13. InboxTouch'
      <3> SUFFICES ASSUME inboxHears, ~inboxStrayed', ~InboxRefetch', ~Crossed' PROVE Agree'
        BY <2>2 DEF InboxTouch
      <3>1. Tasks' = (Tasks \ {c}) \cup {d}
        <4>1. {x \in Stale(inboxCalls \ {c}) : x.op # "load"} = {x \in inboxCalls \ {c} : x.op # "load"}
          BY <2>9, StaleFacts
        <4> QED BY <1>4, <2>2, <2>3, <4>1 DEF Tasks
      <3>2. Fetches => Fetches'
        <4>1. (\E x \in Stale(inboxCalls \ {c}) : x.op = "load") <=> (\E x \in inboxCalls \ {c} : x.op = "load")
          BY <2>9, StaleFacts
        <4> QED BY <1>4, <2>2, <4>1 DEF Fetches
      <3>3. ~inboxStrayed /\ Asking = {c}
        BY <1>1, <1>4, <2>1 DEF Asking, Tasks
      <3>4. Asking' = {} /\ Ahead' = {}
        BY <1>1, <2>3, <3>1, <3>3 DEF Asking, Ahead
      <3>5. ~InboxRefetch /\ ~Crossed
        BY <1>1, <3>1, <3>2, <3>3 DEF InboxRefetch, Crossed
      <3>6. Agree
        BY <3>3, <3>5 DEF InboxInv, InboxTouch
      <3>7. Ahead = IF c.op \in Optimistic THEN {c} ELSE {}
        BY <3>3 DEF Ahead
      <3>8. items' = items /\ Coming' = Coming /\ Active(items') = Active(items)
        BY <2>2 DEF Coming
      <3>9. \A x \in Tasks' : x.op = "archive" => x.id \notin IdsIn(Coming')
        BY <1>4, <2>3, <3>1, <3>6, <3>8 DEF Agree, Tasks
      <3>10. Archived' = IF c.op = "archive" /\ st = "done" THEN Archived \cup {c.id} ELSE Archived
        <4>1. {x \in Tasks' : x.op = "archive" /\ x.st = "done"} =
                {x \in Tasks : x.op = "archive" /\ x.st = "done"} \cup
                (IF c.op = "archive" /\ st = "done" THEN {d} ELSE {})
          BY <1>1, <2>3, <3>1
        <4> PICK X : X = {x \in Tasks : x.op = "archive" /\ x.st = "done"}
          OBVIOUS
        <4>2. Archived = {x.id : x \in X} /\ d.id = c.id
          BY <2>3 DEF Archived
        <4>3. Archived' = {x.id : x \in X \cup (IF c.op = "archive" /\ st = "done" THEN {d} ELSE {})}
          BY <4>1 DEF Archived
        <4> QED BY <4>2, <4>3
      <3>11. Foreseen' = Active(inboxDb')
        <4>1. CASE st = "done" /\ c.op \in Optimistic
          <5>1. Foreseen = DoneTo(Active(inboxDb), c.op, c.id)
            BY <3>6, <3>7, <4>1 DEF Agree
          <5>2. Active(inboxDb') = DoneTo(Active(inboxDb), c.op, c.id)
            BY <1>2, <2>1, <4>1, DoneAlike
          <5>3. Archived' = Archived
            BY <3>10, <4>1 DEF Optimistic
          <5> QED BY <3>8, <5>1, <5>2, <5>3 DEF Foreseen
        <4>2. CASE st = "done" /\ c.op = "archive"
          <5>1. Foreseen = Active(inboxDb)
            BY <3>6, <3>7, <4>2 DEF Agree, Optimistic
          <5>2. Active(inboxDb') = DoneTo(Active(inboxDb), c.op, c.id)
            BY <1>2, <2>1, <4>2, DoneAlike
          <5>3. Foreseen' = {r \in Foreseen : r.id # c.id}
            BY <3>8, <3>10, <4>2 DEF Foreseen, Apart
          <5> QED BY <4>2, <5>1, <5>2, <5>3 DEF DoneTo
        <4>3. CASE st = "failed" /\ c.op \notin Optimistic
          <5>1. Foreseen = Active(inboxDb)
            BY <3>6, <3>7, <4>3 DEF Agree
          <5>2. d \in Tasks' /\ d.st = "failed"
            BY <2>3, <3>1, <4>3
          <5>3. ~d.old
            BY <2>3, <4>3, <5>2 DEF InboxRefetch
          <5>4. ~done
            BY <2>3, <4>3, <5>3
          <5>5. inboxDb' = inboxDb /\ Archived' = Archived
            BY <2>1, <3>10, <4>3, <5>4
          <5> QED BY <3>8, <5>1, <5>5 DEF Foreseen
        <4>4. ~(st = "done" /\ c.op = "archiveDone") /\ ~(st = "failed" /\ c.op \in Optimistic)
          BY <2>3, <3>1 DEF InboxRefetch
        <4> QED BY <2>4, <4>1, <4>2, <4>3, <4>4
      <3> QED BY <3>4, <3>9, <3>11 DEF Agree
    <2> QED BY <2>7, <2>8, <2>10, <2>12, <2>13 DEF InboxInv
  <1> QED BY <1>3, <1>4

LEMMA AnswersStep == ASSUME InboxInv, InboxAnswers PROVE InboxInv'
  <1>1. PICK c \in inboxCalls :
    /\ c.st = "done"
    /\ items' = CASE c.op = "load"    -> c.list
                  [] c.op = "archive" -> StoreDoes(items, "archive", c.id)
                  [] OTHER -> items
    /\ selectedKey' \in {0, selectedKey}
    /\ inboxCalls' = (inboxCalls \ {c}) \cup
         (IF c.op = "archiveDone" THEN {InboxCall("load", 0)} ELSE {})
    /\ inboxStrayed' = IF c.op # "load" THEN inboxStrayed
                       ELSE \/ c.old \/ \E k \in DOMAIN inboxWire : InboxRowsOf(c.list, inboxWire[k].id) = {}
                            \/ \E d \in inboxCalls : d.op \in Optimistic /\ d.st = "sent"
    /\ UNCHANGED <<inboxDb, inboxWire, inboxHears>>
    BY DEF InboxAnswers
  <1>2. c \in InboxRequest /\ AnswerTrue(c) /\ items \in SUBSET InboxRow
    BY DEF InboxInv, InboxTyped, AnswersTrue
  <1>3. items' \in SUBSET InboxRow /\ OneEach(items') /\ IdsIn(items') \subseteq IdsIn(inboxDb)
    <2>1. CASE c.op = "load"
      BY <1>1, <1>2, <2>1 DEF AnswerTrue, InboxRequest
    <2>2. CASE c.op # "load"
      <3>1. Kept(items, StoreDoes(items, "archive", c.id)) /\ Kept(items, items)
        BY <1>2, AllKept DEF Kept
      <3>2. Kept(items, items')
        BY <1>1, <2>2, <3>1
      <3> QED BY <3>2 DEF Kept, InboxInv, Numbered
    <2> QED BY <2>1, <2>2
  <1> PICK l : l = InboxCall("load", 0)
    OBVIOUS
  <1>4. l \in InboxRequest /\ l.op = "load" /\ l.id = 0 /\ l.st = "sent" /\ l.list = {}
    BY RequestNew, InboxAssumption DEF InboxInv, InboxTyped, InboxOps
  <1>5. InboxTyped'
    <2>1. inboxStrayed' \in BOOLEAN
      <3>1. inboxStrayed \in BOOLEAN /\ c.old \in BOOLEAN
        BY <1>2 DEF InboxInv, InboxTyped, InboxRequest
      <3> QED BY <1>1, <3>1
    <2>2. inboxCalls' \subseteq InboxRequest
      BY <1>1, <1>4 DEF InboxInv, InboxTyped
    <2>3. selectedKey' \in 0..MaxItems
      BY <1>1, InboxAssumption DEF InboxInv, InboxTyped
    <2> QED BY <1>1, <1>3, <2>1, <2>2, <2>3 DEF InboxInv, InboxTyped
  <1>6. Numbered' /\ EventsNew'
    BY <1>1, <1>3 DEF InboxInv, Numbered, EventsNew
  <1>7. AnswersTrue'
    <2>1. AnswerTrue(l)
      BY <1>4 DEF AnswerTrue, OneEach, IdsIn
    <2> QED BY <1>1, <2>1, AnswersStay DEF InboxInv
  <1>8. InboxTouch'
    <2> SUFFICES ASSUME inboxHears, ~inboxStrayed', ~InboxRefetch', ~Crossed' PROVE Agree'
      BY <1>1 DEF InboxTouch
    <2>1. c.op # "archiveDone"
      BY <1>1, <1>4 DEF InboxRefetch, Fetches
    <2>2. inboxCalls' = inboxCalls \ {c} /\ Tasks' = Tasks \ {c} /\ Asking' = Asking /\ Ahead' = Ahead
      BY <1>1, <2>1 DEF Tasks, Asking, Ahead
    <2>3. CASE c.op = "load"
      <3>1. ~c.old /\ items' = Active(inboxDb)
        BY <1>1, <1>2, <2>3 DEF AnswerTrue
      <3>2. Ahead' = {}
        BY <1>1, <2>2, <2>3 DEF Ahead, Asking, Tasks
      <3>3. Coming' = {}
        <4>1. \A k \in DOMAIN inboxWire : InboxRowsOf(c.list, inboxWire[k].id) # {}
          BY <1>1, <2>3
        <4>2. items' = c.list
          BY <1>1, <2>3
        <4>3. \A k \in DOMAIN inboxWire : inboxWire[k].id \in IdsIn(items')
          BY <4>1, <4>2 DEF InboxRowsOf, IdsIn
        <4> QED BY <1>1, <4>3 DEF Coming
      <3>4. Active(items') = Active(inboxDb)
        BY <3>1 DEF Active
      <3>5. Tasks' = Tasks /\ Archived' = Archived
        BY <2>2, <2>3 DEF Tasks, Archived
      <3>6. \A r \in Active(inboxDb) : r.id \notin Archived
        BY DEF Active, Archived, Tasks, InboxInv, AnswersTrue, AnswerTrue
      <3>7. Foreseen' = Active(inboxDb')
        BY <1>1, <3>3, <3>4, <3>5, <3>6 DEF Foreseen, Apart
      <3>8. IdsIn(Coming') = {}
        BY <3>3 DEF IdsIn
      <3> QED BY <3>2, <3>7, <3>8 DEF Agree
    <2>4. CASE c.op # "load"
      <3>1. ~inboxStrayed /\ (Fetches => Fetches') /\ c \in Tasks
        BY <1>1, <2>2, <2>4 DEF Fetches, Tasks
      <3>2. ~InboxRefetch /\ ~Crossed
        BY <1>1, <2>1, <2>2, <3>1 DEF InboxRefetch, Crossed
      <3>3. Agree
        BY <3>1, <3>2 DEF InboxInv, InboxTouch
      <3>4. CASE c.op = "archive"
        <4>1. items' = StoreDoes(items, "archive", c.id)
          BY <1>1, <3>4
        <4>2. Active(items') = {r \in Active(items) : r.id # c.id}
          <5>1. Active(items') = DoneTo(Active(items), "archive", c.id)
            BY <1>2, <4>1, DoneAlike
          <5> QED BY <5>1 DEF DoneTo
        <4>3. Coming' = Coming
          <5>1. Kept(items, items')
            BY <1>2, <4>1, AllKept
          <5> QED BY <1>1, <5>1 DEF Coming, Kept
        <4>4. \A r \in Coming : r.id # c.id
          BY <3>1, <3>3, <3>4 DEF Agree, IdsIn
        <4>5. c.id \in Archived /\ Archived' \subseteq Archived /\ Archived \subseteq Archived' \cup {c.id}
          BY <1>1, <2>2, <3>1, <3>4 DEF Archived
        <4>6. Foreseen' = Foreseen
          BY <4>2, <4>3, <4>4, <4>5 DEF Foreseen, Apart
        <4> QED BY <1>1, <2>2, <3>3, <4>3, <4>6 DEF Agree
      <3>5. CASE c.op # "archive"
        <4>1. items' = items /\ Coming' = Coming
          BY <1>1, <2>4, <3>5 DEF Coming
        <4>2. Archived' = Archived
          BY <2>2, <3>5 DEF Archived
        <4> QED BY <1>1, <2>2, <3>3, <4>1, <4>2 DEF Agree, Foreseen
      <3> QED BY <3>4, <3>5
    <2> QED BY <2>3, <2>4
  <1> QED BY <1>5, <1>6, <1>7, <1>8 DEF InboxInv

LEMMA InboxFailStep == ASSUME InboxInv, InboxFails PROVE InboxInv'
  <1>1. PICK c \in inboxCalls :
    /\ c.st = "failed"
    /\ inboxCalls' = (inboxCalls \ {c}) \cup
         (IF c.op \in Optimistic THEN {InboxCall("load", 0)} ELSE {})
    /\ inboxStrayed' = (inboxStrayed \/ c.op = "load" \/ (c.op \notin Optimistic /\ c.old))
    /\ UNCHANGED <<inboxDb, items, selectedKey, inboxWire, inboxHears>>
    BY DEF InboxFails
  <1> PICK l : l = InboxCall("load", 0)
    OBVIOUS
  <1>2. l \in InboxRequest /\ l.op = "load" /\ l.id = 0 /\ l.st = "sent" /\ l.list = {}
    BY RequestNew, InboxAssumption DEF InboxInv, InboxTyped, InboxOps
  <1>3. InboxTyped'
    <2>1. inboxStrayed' \in BOOLEAN
      BY <1>1 DEF InboxInv, InboxTyped
    <2>2. inboxCalls' \subseteq InboxRequest
      BY <1>1, <1>2 DEF InboxInv, InboxTyped
    <2> QED BY <1>1, <2>1, <2>2 DEF InboxInv, InboxTyped
  <1>4. Numbered' /\ EventsNew'
    BY <1>1 DEF InboxInv, Numbered, EventsNew
  <1>5. AnswersTrue'
    <2>1. AnswerTrue(l)
      BY <1>2 DEF AnswerTrue, OneEach, IdsIn
    <2> QED BY <1>1, <2>1, AnswersStay DEF InboxInv
  <1>6. InboxTouch'
    <2> SUFFICES ASSUME inboxHears, ~inboxStrayed', ~InboxRefetch', ~Crossed' PROVE Agree'
      BY <1>1 DEF InboxTouch
    <2>1. c.op \notin Optimistic /\ c.op # "load" /\ ~c.old /\ ~inboxStrayed
      BY <1>1, <1>2 DEF InboxRefetch, Fetches
    <2>2. inboxCalls' = inboxCalls \ {c} /\ Tasks' = Tasks \ {c} /\ Asking' = Asking /\ Ahead' = Ahead
      BY <1>1, <2>1 DEF Tasks, Asking, Ahead
    <2>3. Fetches => Fetches'
      BY <2>1, <2>2 DEF Fetches
    <2>4. ~InboxRefetch /\ ~Crossed
      BY <1>1, <2>1, <2>2, <2>3 DEF InboxRefetch, Crossed
    <2>5. Agree
      BY <1>1, <2>1, <2>4 DEF InboxInv, InboxTouch
    <2>6. Archived' = Archived /\ Coming' = Coming
      BY <1>1, <2>2 DEF Archived, Coming
    <2> QED BY <1>1, <2>2, <2>5, <2>6 DEF Agree, Foreseen
  <1> QED BY <1>3, <1>4, <1>5, <1>6 DEF InboxInv

LEMMA InboxStep == ASSUME InboxInv, [InboxNext]_inboxVars PROVE InboxInv'
  <1>1. CASE UNCHANGED inboxVars
    <2>1. UNCHANGED <<inboxDb, items, selectedKey, inboxWire, inboxHears, inboxCalls, inboxStrayed>>
      BY <1>1 DEF inboxVars
    <2>2. InboxTyped' /\ Numbered' /\ EventsNew'
      BY <2>1 DEF InboxInv, InboxTyped, Numbered, EventsNew
    <2>3. AnswersTrue'
      BY <2>1, AnswersStay DEF InboxInv
    <2>4. Tasks' = Tasks /\ (Fetches' <=> Fetches) /\ Coming' = Coming
      BY <2>1 DEF Tasks, Fetches, Coming
    <2>5. InboxTouch'
      BY <2>1, <2>4 DEF InboxInv, InboxTouch, InboxRefetch, Crossed, Agree, Ahead, Asking, Foreseen, Archived
    <2> QED BY <2>2, <2>3, <2>5 DEF InboxInv
  <1>2. CASE InboxNext
    BY <1>2, CreatedStep, InboxHearStep, InboxLinkSteps, SelectStep, ArchiveStep, BatchStep, InboxServeStep,
       AnswersStep, InboxFailStep DEF InboxNext
  <1> QED BY <1>1, <1>2

\* The invariant of the inbox: each entry once, every answer and event on its way
\* true of the server or made good by one behind it, and what the page shows equal
\* to what the server has up to those.
THEOREM InboxInvariant == InboxSpec => []InboxInv
  <1>1. InboxInv /\ [InboxNext]_inboxVars => InboxInv'
    BY InboxStep
  <1> QED BY InboxStart, <1>1, PTL DEF InboxSpec

\* The badge counts each entry once.
THEOREM InboxTypeCorrect == InboxSpec => []InboxTypeOK
  <1>1. InboxInv => InboxTypeOK
    <2> SUFFICES ASSUME InboxInv PROVE InboxTypeOK
      OBVIOUS
    <2>1. /\ inboxDb \subseteq InboxRow /\ items \subseteq InboxRow
          /\ selectedKey \in 0..MaxItems /\ inboxHears \in BOOLEAN /\ inboxStrayed \in BOOLEAN
          /\ \A r, q \in items : r.id = q.id => r = q
      BY DEF InboxInv, InboxTyped, Numbered, OneEach
    <2>2. UnreadCount \in 0..MaxItems
      <3> DEFINE U == {r \in DedupedItems(items) : ~r.read}
      <3>1. U \subseteq items
        BY DEF DedupedItems, Active
      <3>2. IsFiniteSet(ItemIds) /\ Cardinality(ItemIds) = MaxItems
        BY InboxAssumption, FS_Interval DEF ItemIds
      <3> DEFINE f == [r \in U |-> r.id]
      <3>3. f \in Injection(U, ItemIds)
        BY <2>1, <3>1 DEF Injection, IsInjective, InboxRow
      <3>4. UnreadCount = Cardinality(U)
        BY DEF UnreadCount
      <3> HIDE DEF U, f
      <3>5. IsFiniteSet(U) /\ Cardinality(U) <= MaxItems /\ Cardinality(U) \in Nat
        BY <3>2, <3>3, FS_Injection, FS_CardinalityType
      <3> QED BY <3>4, <3>5, InboxAssumption
    <2> QED BY <2>1, <2>2 DEF InboxTypeOK
  <1> QED BY InboxInvariant, <1>1, PTL

\* The inbox page and its store: once everything is heard and answered and nothing
\* was missed, the page lists what the server has, read and archived alike.
THEOREM InboxShowsServer == InboxSpec => []InboxConverges
  <1>1. InboxInv => InboxConverges
    <2> SUFFICES ASSUME InboxInv, inboxHears, inboxWire = <<>>, inboxCalls = {}, ~inboxStrayed
                 PROVE  /\ Active(items) = Active(inboxDb)
                        /\ DedupedItems(items) = DedupedItems(inboxDb)
      BY DEF InboxConverges
    <2>1. Tasks = {} /\ Coming = {}
      BY DEF Tasks, Coming
    <2>2. Agree /\ Ahead = {} /\ Archived = {}
      BY <2>1 DEF InboxInv, InboxTouch, InboxRefetch, Fetches, Crossed, Asking, Ahead, Archived
    <2>3. Active(items) = Active(inboxDb)
      BY <2>1, <2>2 DEF Agree, Foreseen, Apart
    <2> QED BY <2>3 DEF DedupedItems
  <1> QED BY InboxInvariant, <1>1, PTL

-------------------------------------------------------------------------------
(***************************************************************************)
(* The thread of an issue.                                                  *)
(***************************************************************************)

CommentEvent   == [kind : {"created", "updated", "deleted"}, e : Entry]
CommentRequest == [op : {"fetch", "create", "edit", "delete"}, id : 0..MaxComments, kept : Seq(Entry),
                   st : {"sent", "done", "failed"}, list : Seq(Entry), old : BOOLEAN]

\* Comments are numbered as they are made, no two alike; an answer to a
\* comment or an edit carries its entry.
CommentsTrue ==
    /\ commentServer \subseteq Entry /\ IsFiniteSet(commentServer) 
    /\ commentsMade \in Seq(Entry) /\ Len(commentsMade) <= MaxComments
    /\ \A e \in commentServer : e.id <= Len(commentsMade)
    /\ \A e, x \in commentServer : e.id = x.id => e = x
    /\ commentChannel \in Seq(CommentEvent)
AnswersCarry(C) == \A c \in C : c.st = "done" /\ c.op \in {"create", "edit"} => c.list # <<>>
PageTrue ==
    /\ timeline \in Seq(Entry) /\ hears \in BOOLEAN /\ commentStrayed \in BOOLEAN
    /\ calls \subseteq CommentRequest /\ AnswersCarry(calls)
TimelineInv == CommentsTrue /\ PageTrue

-----------------------------------------------------------------------------
LEMMA EntryFields ==
  /\ MaxComments \in Nat
  /\ \A e \in Entry : /\ e.id \in Int /\ e.id \in 0..MaxComments /\ e.id \in CommentIds /\ [e EXCEPT !.text = "edited"] \in Entry
                      /\ [e EXCEPT !.text = "edited"].id = e.id
                      /\ \A t \in Texts : [e EXCEPT !.text = t] \in Entry
                      /\ e.text \in Texts
  <1>1. MaxComments \in Nat
    BY TimelineAssumption
  <1> QED BY <1>1 DEF Entry, CommentIds, Texts

LEMMA IdsTyped ==
  /\ \A e \in Entry : e.id \in 0..MaxComments /\ e.id \in Int
  /\ \A S \in SUBSET Entry : \A i \in IdsOf(S) : i \in 0..MaxComments
  /\ 0 \in 0..MaxComments
  <1>1. \A e \in Entry : e.id \in 0..MaxComments /\ e.id \in Int
    BY EntryFields
  <1> QED BY <1>1, TimelineAssumption DEF IdsOf

LEMMA Retexted == \A e \in Entry : \A t \in Texts : [e EXCEPT !.text = t] \in Entry
  BY EntryFields

LEMMA OneEntry == \A e \in Entry : <<e>> \in Seq(Entry) /\ <<e>> # <<>>
  <1> TAKE e \in Entry
  <1>1. <<e>> \in Seq(Entry) /\ Len(<<e>>) = 1 /\ Len(<<>>) = 0
    OBVIOUS
  <1> QED BY <1>1

LEMMA OnlyEntries == \A tl \in Seq(Entry) : \A T : Only(tl, T) \in Seq(Entry)
  BY OnlyFacts

LEMMA ReplacedTyped ==
  ASSUME NEW tl \in Seq(Entry), NEW e \in Entry
  PROVE  CommentReplaced(tl, e) \in Seq(Entry) /\ Added(tl, e) \in Seq(Entry)
  BY DEF CommentReplaced, Added

LEMMA ServerOrderTyped ==
  ASSUME CommentsTrue
  PROVE  ServerOrder \in Seq(Entry)
  <1> PICK S : S = commentServer
    OBVIOUS
  <1>1. IsFiniteSet(S) /\ S \subseteq Entry /\ \A e, x \in S : e.id = x.id => e = x
    BY DEF CommentsTrue
  <1> PICK n : n = Cardinality(S)
    OBVIOUS
  <1>2. n \in Nat
    BY <1>1, FS_CardinalityType
  <1> DEFINE R == {p \in S \X S : p[1].id < p[2].id}
  <1>3. \A x, y \in S : <<x, y>> \in R <=> x.id < y.id
    OBVIOUS
  <1>4. \A x \in S : x.id \in Int
    BY <1>1, EntryFields
  <1> HIDE DEF R
  <1>5. TotalOn(R, S)
    BY <1>1, <1>3, <1>4 DEF TotalOn
  <1>6. PICK s : Lists(s, S, R)
    BY <1>1, <1>5, ListExists
  <1> DEFINE Up(f) == \A j, k \in DOMAIN f : j < k => f[j].id < f[k].id
  <1>7. s \in [1..n -> S] /\ Up(s)
    BY <1>3, <1>6 DEF Lists
  <1> PICK q : q = ServerOrder
    OBVIOUS
  <1>8. q = CHOOSE f \in [1..n -> S] : Up(f)
    BY DEF ServerOrder
  <1> HIDE DEF Up
  <1>9. q \in [1..n -> S]
    BY <1>7, <1>8
  <1> QED BY <1>1, <1>2, <1>9

LEMMA CallTyped ==
  ASSUME NEW op \in {"fetch", "create", "edit", "delete"}, NEW id \in 0..MaxComments, NEW kept \in Seq(Entry)
  PROVE  /\ CommentCall(op, id) \in CommentRequest /\ CommentCall(op, id).st = "sent"
         /\ [CommentCall(op, id) EXCEPT !.kept = kept] \in CommentRequest
         /\ [CommentCall(op, id) EXCEPT !.kept = kept].st = "sent"
  <1>1. <<>> \in Seq(Entry)
    OBVIOUS
  <1> QED BY <1>1 DEF CommentCall, CommentRequest

LEMMA StartTyped ==
  ASSUME PageTrue, NEW c \in CommentRequest, c.st = "sent", calls' = calls \cup {c}
  PROVE  calls' \subseteq CommentRequest /\ AnswersCarry(calls)'
  BY DEF PageTrue, AnswersCarry

\* The answers to a request, and those that a change made old.
LEMMA AnsweredTyped ==
  ASSUME NEW c \in CommentRequest, NEW st \in {"done", "failed"}, NEW list \in Seq(Entry),
         c.op \in {"create", "edit"} => list # <<>>
  PROVE  /\ CommentAnswered(c, st, list) \in CommentRequest
         /\ AnswersCarry({CommentAnswered(c, st, list)})
  <1> PICK a : a = CommentAnswered(c, st, list)
    OBVIOUS
  <1>1. <<>> \in Seq(Entry)
    OBVIOUS
  <1>2. CASE st = "done"
    <2>1. a = [c EXCEPT !.st = st, !.list = list, !.kept = <<>>]
      BY <1>2 DEF CommentAnswered
    <2>2. a \in CommentRequest /\ a.op = c.op /\ a.list = list
      BY <1>1, <2>1 DEF CommentRequest
    <2> QED BY <2>2 DEF AnswersCarry
  <1>3. CASE st # "done"
    <2>1. a = [c EXCEPT !.st = st, !.old = TRUE]
      BY <1>3 DEF CommentAnswered
    <2>2. a \in CommentRequest /\ a.st = st
      BY <2>1 DEF CommentRequest
    <2> QED BY <1>3, <2>2 DEF AnswersCarry
  <1> QED BY <1>2, <1>3

LEMMA TimelineOutdatedTyped ==
  ASSUME NEW C \in SUBSET CommentRequest, AnswersCarry(C)
  PROVE  CommentOutdated(C) \subseteq CommentRequest /\ AnswersCarry(CommentOutdated(C))
  <1>1. ASSUME NEW x \in CommentOutdated(C)
        PROVE  x \in CommentRequest /\ (x.st = "done" /\ x.op \in {"create", "edit"} => x.list # <<>>)
    <2>1. PICK c \in C : x = IF c.st = "done" THEN [c EXCEPT !.old = TRUE] ELSE c
      BY DEF CommentOutdated
    <2>2. CASE c.st = "done"
      <3>1. x = [c EXCEPT !.old = TRUE] /\ c \in CommentRequest
        BY <2>1, <2>2
      <3>2. x \in CommentRequest /\ x.st = c.st /\ x.op = c.op /\ x.list = c.list
        BY <3>1 DEF CommentRequest
      <3> QED BY <3>2 DEF AnswersCarry
    <2>3. CASE c.st # "done"
      BY <2>1, <2>3
    <2> QED BY <2>2, <2>3
  <1> QED BY <1>1 DEF AnswersCarry

LEMMA CarryBoth == \A C, D : AnswersCarry(C) /\ AnswersCarry(D) => AnswersCarry(C \cup D)
  BY DEF AnswersCarry

-----------------------------------------------------------------------------
LEMMA ChannelTyped ==
  ASSUME CommentsTrue, NEW S, NEW ev \in CommentEvent, Change(S, ev)
  PROVE  commentServer' = S /\ commentChannel' \in Seq(CommentEvent)
  BY DEF Change, CommentsTrue

LEMMA MadeTrue ==
  ASSUME CommentsTrue, NEW p \in {0} \cup IdsOf(commentServer), NEW m \in BOOLEAN, Makes(NewComment(p, m))
  PROVE  CommentsTrue' /\ NewComment(p, m) \in Entry
  <1> PICK e : e = NewComment(p, m)
    OBVIOUS
  <1>1. /\ Len(commentsMade) < MaxComments /\ commentsMade' = Append(commentsMade, e)
        /\ Change(commentServer \cup {e}, [kind |-> "created", e |-> e])
    BY DEF Makes
  <1>2. e = [id |-> Len(commentsMade) + 1, parent |-> p, text |-> "first", mine |-> m]
    BY DEF NewComment
  <1>3. p \in 0..MaxComments
    BY IdsTyped DEF CommentsTrue
  <1>4. Len(commentsMade) + 1 \in CommentIds /\ Len(commentsMade) \in Nat
    BY <1>1, EntryFields DEF CommentsTrue, CommentIds
  <1>5. e \in Entry /\ e.id = Len(commentsMade) + 1
    BY <1>2, <1>3, <1>4 DEF Entry, Texts
  <1>13. /\ commentsMade' \in Seq(Entry) /\ Len(commentsMade') = Len(commentsMade) + 1
         /\ Len(commentsMade') <= MaxComments
    BY <1>1, <1>4, <1>5, EntryFields DEF CommentsTrue
  <1>6. [kind |-> "created", e |-> e] \in CommentEvent
    BY <1>5 DEF CommentEvent
  <1>7. commentServer' = commentServer \cup {e} /\ commentChannel' \in Seq(CommentEvent)
    BY <1>1, <1>6, ChannelTyped
  <1>8. IsFiniteSet(commentServer')
    BY <1>7, FS_AddElement DEF CommentsTrue
  <1>9. \A x \in commentServer : x.id \in Int /\ x.id <= Len(commentsMade)
    BY EntryFields DEF CommentsTrue
  <1>10. \A x \in commentServer' : x.id <= Len(commentsMade')
    BY <1>4, <1>5, <1>7, <1>9, <1>13
  <1>11. \A x, y \in commentServer' : x.id = y.id => x = y
    <2>1. \A x \in commentServer : x.id # e.id
      BY <1>4, <1>5, <1>9
    <2> QED BY <1>7, <2>1 DEF CommentsTrue
  <1>12. commentServer' \subseteq Entry
    BY <1>5, <1>7 DEF CommentsTrue
  <1> QED BY <1>7, <1>8, <1>10, <1>11, <1>12, <1>13 DEF CommentsTrue

LEMMA EditedTrue ==
  ASSUME CommentsTrue, NEW e \in commentServer, Edits(e)
  PROVE  CommentsTrue' /\ [e EXCEPT !.text = "edited"] \in Entry
  <1> PICK d : d = [e EXCEPT !.text = "edited"]
    OBVIOUS
  <1>1. commentsMade' = commentsMade /\ Change((commentServer \ {e}) \cup {d}, [kind |-> "updated", e |-> d])
    BY DEF Edits
  <1>2. e \in Entry
    BY DEF CommentsTrue
  <1>3. d \in Entry /\ d.id = e.id
    BY <1>2, EntryFields
  <1>4. [kind |-> "updated", e |-> d] \in CommentEvent
    BY <1>3 DEF CommentEvent
  <1>5. commentServer' = (commentServer \ {e}) \cup {d} /\ commentChannel' \in Seq(CommentEvent)
    BY <1>1, <1>4, ChannelTyped
  <1>6. IsFiniteSet(commentServer')
    <2>1. IsFiniteSet(commentServer \ {e})
      BY FS_Subset DEF CommentsTrue
    <2> QED BY <1>5, <2>1, FS_AddElement
  <1>7. \A x \in commentServer' : x = d \/ (x \in commentServer /\ x # e)
    BY <1>5
  <1>8. \A x, y \in commentServer' : x.id = y.id => x = y
    BY <1>3, <1>7 DEF CommentsTrue
  <1>9. \A x \in commentServer' : x.id <= Len(commentsMade') /\ x \in Entry
    BY <1>1, <1>3, <1>7 DEF CommentsTrue
  <1>10. commentsMade' \in Seq(Entry) /\ Len(commentsMade') <= MaxComments
    BY <1>1 DEF CommentsTrue
  <1> QED BY <1>3, <1>5, <1>6, <1>8, <1>9, <1>10 DEF CommentsTrue

LEMMA DeletedTrue ==
  ASSUME CommentsTrue, NEW e \in commentServer, Deletes(e)
  PROVE  CommentsTrue'
  <1> PICK S : S = {x \in commentServer : x.id \notin Thread(commentServer, e.id)}
    OBVIOUS
  <1>1. commentsMade' = commentsMade /\ Change(S, [kind |-> "deleted", e |-> e])
    BY DEF Deletes
  <1>2. [kind |-> "deleted", e |-> e] \in CommentEvent
    BY DEF CommentEvent, CommentsTrue
  <1>3. commentServer' = S /\ commentChannel' \in Seq(CommentEvent)
    BY <1>1, <1>2, ChannelTyped
  <1>4. S \subseteq commentServer
    OBVIOUS
  <1>5. IsFiniteSet(S)
    BY <1>4, FS_Subset DEF CommentsTrue
  <1> QED BY <1>1, <1>3, <1>4, <1>5 DEF CommentsTrue

LEMMA TimelineOthersStep ==
  ASSUME TimelineInv, OthersChange
  PROVE  TimelineInv'
  <1>1. CommentsTrue /\ PageTrue
    BY DEF TimelineInv
  <1>2. CommentsTrue'
    <2>1. FALSE \in BOOLEAN
      OBVIOUS
    <2> QED BY <1>1, <2>1, MadeTrue, EditedTrue, DeletedTrue DEF OthersChange
  <1>3. calls' = CommentOutdated(calls) /\ UNCHANGED <<timeline, hears, commentStrayed>>
    BY DEF OthersChange
  <1>4. calls' \subseteq CommentRequest /\ AnswersCarry(calls')
    BY <1>1, <1>3, TimelineOutdatedTyped DEF PageTrue
  <1>5. PageTrue'
    BY <1>1, <1>3, <1>4 DEF PageTrue
  <1> QED BY <1>2, <1>5 DEF TimelineInv

LEMMA ServerStays ==
  ASSUME CommentsTrue, UNCHANGED <<commentServer, commentsMade>>, commentChannel' \in Seq(CommentEvent)
  PROVE  CommentsTrue'
  BY DEF CommentsTrue

LEMMA TimelineEventStep ==
  ASSUME TimelineInv, HandleCommentEvent
  PROVE  TimelineInv'
  <1> PICK ev : ev = Head(commentChannel)
    OBVIOUS
  <1>1. /\ commentChannel # <<>> /\ commentChannel' = Tail(commentChannel)
        /\ timeline' = CASE ev.kind = "created" -> IF ev.e.mine THEN timeline ELSE Added(timeline, ev.e)
                         [] ev.kind = "updated" -> CommentReplaced(timeline, ev.e)
                         [] ev.kind = "deleted" -> Without(timeline, Thread(Entries(timeline), ev.e.id))
        /\ UNCHANGED <<commentServer, commentsMade, hears, calls, commentStrayed>>
    BY DEF HandleCommentEvent
  <1>2. CommentsTrue /\ PageTrue /\ timeline \in Seq(Entry)
    BY DEF TimelineInv, PageTrue
  <1>3. ev \in CommentEvent /\ commentChannel' \in Seq(CommentEvent)
    BY <1>1, <1>2 DEF CommentsTrue
  <1>4. ev.e \in Entry /\ ev.kind \in {"created", "updated", "deleted"}
    BY <1>3 DEF CommentEvent
  <1>5. /\ Added(timeline, ev.e) \in Seq(Entry) /\ CommentReplaced(timeline, ev.e) \in Seq(Entry)
        /\ \A ids : Without(timeline, ids) \in Seq(Entry)
    BY <1>2, <1>4, ReplacedTyped, OnlyEntries DEF Without
  <1>6. timeline' \in Seq(Entry)
    BY <1>1, <1>2, <1>4, <1>5
  <1>7. PageTrue'
    BY <1>1, <1>2, <1>6 DEF PageTrue
  <1> QED BY <1>1, <1>2, <1>3, <1>7, ServerStays DEF TimelineInv

LEMMA TimelineLinkSteps ==
  ASSUME TimelineInv, CommentLinkDrops \/ CommentReconnects
  PROVE  TimelineInv'
  <1>1. CommentsTrue /\ PageTrue
    BY DEF TimelineInv
  <1>2. CASE CommentLinkDrops
    <2>1. hears' = FALSE /\ commentChannel' = <<>> /\ UNCHANGED <<commentServer, commentsMade, timeline, calls, commentStrayed>>
      BY <1>2 DEF CommentLinkDrops
    <2>2. commentChannel' \in Seq(CommentEvent)
      BY <2>1
    <2>3. PageTrue'
      BY <1>1, <2>1 DEF PageTrue
    <2> QED BY <1>1, <2>1, <2>2, <2>3, ServerStays DEF TimelineInv
  <1>3. CASE CommentReconnects
    <2> PICK c : c = CommentCall("fetch", 0)
      OBVIOUS
    <2>1. hears' = TRUE /\ calls' = calls \cup {c} /\ UNCHANGED <<commentServer, commentsMade, timeline, commentChannel, commentStrayed>>
      BY <1>3 DEF CommentReconnects
    <2>2. c \in CommentRequest /\ c.st = "sent"
      <3>1. 0 \in 0..MaxComments /\ <<>> \in Seq(Entry)
        BY EntryFields
      <3> QED BY <3>1, CallTyped
    <2>3. calls' \subseteq CommentRequest /\ AnswersCarry(calls)'
      BY <1>1, <2>1, <2>2, StartTyped
    <2>4. PageTrue'
      BY <1>1, <2>1, <2>3 DEF PageTrue
    <2>5. commentChannel' \in Seq(CommentEvent)
      BY <1>1, <2>1 DEF CommentsTrue
    <2> QED BY <1>1, <2>1, <2>4, <2>5, ServerStays DEF TimelineInv
  <1> QED BY <1>2, <1>3

\* The user starts a request.
LEMMA UserStep ==
  ASSUME TimelineInv, NEW c \in CommentRequest, c.st = "sent", StartComment(c), timeline' \in Seq(Entry),
         UNCHANGED <<commentServer, commentsMade, commentChannel, hears, commentStrayed>>
  PROVE  TimelineInv'
  <1>1. CommentsTrue /\ PageTrue /\ commentChannel' \in Seq(CommentEvent)
    BY DEF TimelineInv, CommentsTrue
  <1>2. calls' \subseteq CommentRequest /\ AnswersCarry(calls)'
    BY <1>1, StartTyped DEF StartComment
  <1>3. PageTrue'
    BY <1>1, <1>2 DEF PageTrue
  <1> QED BY <1>1, <1>3, ServerStays DEF TimelineInv

LEMMA SubmitStep == ASSUME TimelineInv, Submit PROVE TimelineInv'
  <1>1. timeline \in Seq(Entry)
    BY DEF TimelineInv, PageTrue
  <1>2. PICK p \in {0} \cup {e.id : e \in {x \in Entries(timeline) : x.id \in ShownIds(timeline)}} :
          /\ StartComment(CommentCall("create", p))
          /\ UNCHANGED <<commentServer, commentsMade, timeline, commentChannel, hears, commentStrayed>>
    BY DEF Submit
  <1>3. p \in 0..MaxComments
    <2> PICK S : S = {x \in Entries(timeline) : x.id \in ShownIds(timeline)}
      OBVIOUS
    <2>1. S \in SUBSET Entry
      BY <1>1 DEF Entries
    <2>2. p \in {0} \cup IdsOf(S)
      BY DEF IdsOf
    <2> QED BY <2>1, <2>2, IdsTyped
  <1> PICK c : c = CommentCall("create", p)
    OBVIOUS
  <1>4. c \in CommentRequest /\ c.st = "sent"
    <2>1. <<>> \in Seq(Entry)
      OBVIOUS
    <2> QED BY <1>3, <2>1, CallTyped
  <1>5. StartComment(c)
    BY <1>2
  <1>6. timeline' \in Seq(Entry)
    BY <1>1, <1>2
  <1> QED BY <1>2, <1>4, <1>5, <1>6, UserStep

LEMMA EditStep == ASSUME TimelineInv, EditComment PROVE TimelineInv'
  <1>1. timeline \in Seq(Entry)
    BY DEF TimelineInv, PageTrue
  <1>2. PICK e \in Entries(timeline) :
          /\ StartComment([CommentCall("edit", e.id) EXCEPT !.kept = <<e>>])
          /\ timeline' = CommentReplaced(timeline, [e EXCEPT !.text = "edited"])
          /\ UNCHANGED <<commentServer, commentsMade, commentChannel, hears, commentStrayed>>
    BY DEF EditComment
  <1>3. e \in Entry
    BY <1>1 DEF Entries
  <1>4. e.id \in 0..MaxComments /\ [e EXCEPT !.text = "edited"] \in Entry /\ <<e>> \in Seq(Entry)
    BY <1>3, EntryFields
  <1> PICK d : d = [e EXCEPT !.text = "edited"]
    OBVIOUS
  <1> PICK id : id = e.id
    OBVIOUS
  <1> PICK kept : kept = <<e>>
    OBVIOUS
  <1> PICK c : c = [CommentCall("edit", id) EXCEPT !.kept = kept]
    OBVIOUS
  <1>5. c \in CommentRequest /\ c.st = "sent"
    BY <1>4, CallTyped
  <1>6. StartComment(c)
    BY <1>2
  <1>7. timeline' \in Seq(Entry)
    BY <1>1, <1>2, <1>4, ReplacedTyped
  <1> QED BY <1>2, <1>5, <1>6, <1>7, UserStep

LEMMA DeleteStep == ASSUME TimelineInv, DeleteComment PROVE TimelineInv'
  <1>1. timeline \in Seq(Entry)
    BY DEF TimelineInv, PageTrue
  <1>2. PICK e \in Entries(timeline) :
          LET ids == Thread(Entries(timeline), e.id) IN
          /\ StartComment([CommentCall("delete", e.id) EXCEPT
                   !.kept = Only(timeline, {x \in Entries(timeline) : x.id \in ids})])
          /\ timeline' = Without(timeline, ids)
          /\ UNCHANGED <<commentServer, commentsMade, commentChannel, hears, commentStrayed>>
    BY DEF DeleteComment
  <1> PICK ids : ids = Thread(Entries(timeline), e.id)
    OBVIOUS
  <1> PICK T : T = {x \in Entries(timeline) : x.id \in ids}
    OBVIOUS
  <1> PICK kept : kept = Only(timeline, T)
    OBVIOUS
  <1> PICK id : id = e.id
    OBVIOUS
  <1> PICK c : c = [CommentCall("delete", id) EXCEPT !.kept = kept]
    OBVIOUS
  <1>3. e \in Entry
    BY <1>1 DEF Entries
  <1>4. id \in 0..MaxComments
    BY <1>3, EntryFields
  <1>5. kept \in Seq(Entry) /\ Without(timeline, ids) \in Seq(Entry)
    BY <1>1, OnlyEntries DEF Without
  <1>6. c \in CommentRequest /\ c.st = "sent"
    BY <1>4, <1>5, CallTyped
  <1>7. /\ StartComment(c) /\ timeline' = Without(timeline, ids)
        /\ UNCHANGED <<commentServer, commentsMade, commentChannel, hears, commentStrayed>>
    BY <1>2
  <1>8. timeline' \in Seq(Entry)
    BY <1>5, <1>7
  <1> QED BY <1>6, <1>7, <1>8, UserStep

-----------------------------------------------------------------------------
LEMMA ServedTyped ==
  ASSUME PageTrue, NEW c \in calls, NEW C, C \subseteq CommentRequest, AnswersCarry(C),
         NEW a \in CommentRequest, AnswersCarry({a}), calls' = C \cup {a},
         UNCHANGED <<timeline, hears, commentStrayed>>
  PROVE  PageTrue'
  <1>1. AnswersCarry(C \cup {a})
    BY CarryBoth
  <1>2. AnswersCarry(calls)'
    BY <1>1 DEF AnswersCarry
  <1> QED BY <1>2 DEF PageTrue

LEMMA TimelineServeStep == ASSUME TimelineInv, ServeComment PROVE TimelineInv'
  <1>1. CommentsTrue /\ PageTrue /\ calls \subseteq CommentRequest /\ AnswersCarry(calls)
    BY DEF TimelineInv, PageTrue
  <1>2. PICK c \in calls, st \in {"done", "failed"} :
    /\ c.st = "sent"
    /\ \/ /\ c.op = "fetch"
          /\ calls' = (calls \ {c}) \cup {CommentAnswered(c, st, ServerOrder)}
          /\ UNCHANGED <<commentServer, commentsMade, commentChannel>>
       \/ /\ c.op = "create" /\ c.id \in {0} \cup IdsOf(commentServer)
          /\ Makes(NewComment(c.id, TRUE))
          /\ calls' = CommentOutdated(calls \ {c}) \cup
                        {CommentAnswered(c, st, <<NewComment(c.id, TRUE)>>)}
       \/ \E e \in commentServer :
            /\ e.id = c.id
            /\ \/ /\ c.op = "edit" /\ Edits(e)
                  /\ calls' = CommentOutdated(calls \ {c}) \cup
                                {CommentAnswered(c, st, <<[e EXCEPT !.text = "edited"]>>)}
               \/ /\ c.op = "delete" /\ Deletes(e)
                  /\ calls' = CommentOutdated(calls \ {c}) \cup {CommentAnswered(c, st, <<>>)}
       \/ /\ c.op # "fetch"
          /\ calls' = (calls \ {c}) \cup {[c EXCEPT !.st = "failed"]}
          /\ UNCHANGED <<commentServer, commentsMade, commentChannel>>
    /\ UNCHANGED <<timeline, hears, commentStrayed>>
    BY DEF ServeComment
  <1>3. c \in CommentRequest
    BY <1>1
  <1> PICK C : C = calls \ {c}
    OBVIOUS
  <1>4. C \subseteq CommentRequest /\ AnswersCarry(C)
    BY <1>1 DEF AnswersCarry
  <1> PICK D : D = CommentOutdated(C)
    OBVIOUS
  <1>5. D \subseteq CommentRequest /\ AnswersCarry(D)
    BY <1>4, TimelineOutdatedTyped
  <1>6. UNCHANGED <<timeline, hears, commentStrayed>>
    BY <1>2
  <1>7. CASE c.op = "fetch" /\ calls' = C \cup {CommentAnswered(c, st, ServerOrder)}
             /\ UNCHANGED <<commentServer, commentsMade, commentChannel>>
    <2> PICK list : list = ServerOrder
      OBVIOUS
    <2>1. list \in Seq(Entry)
      BY <1>1, ServerOrderTyped
    <2> PICK a : a = CommentAnswered(c, st, list)
      OBVIOUS
    <2>2. a \in CommentRequest /\ AnswersCarry({a})
      BY <1>3, <1>7, <2>1, AnsweredTyped
    <2>3. calls' = C \cup {a}
      BY <1>7
    <2>4. PageTrue'
      BY <1>1, <1>4, <1>6, <2>2, <2>3, ServedTyped
    <2>5. CommentsTrue'
      BY <1>1, <1>7 DEF CommentsTrue
    <2> QED BY <2>4, <2>5 DEF TimelineInv
  <1>8. CASE c.op = "create" /\ c.id \in {0} \cup IdsOf(commentServer) /\ Makes(NewComment(c.id, TRUE))
             /\ calls' = D \cup {CommentAnswered(c, st, <<NewComment(c.id, TRUE)>>)}
    <2> PICK p \in {0} \cup IdsOf(commentServer) : p = c.id
      BY <1>8
    <2> PICK e : e = NewComment(p, TRUE)
      OBVIOUS
    <2>1. CommentsTrue' /\ e \in Entry
      <3>1. TRUE \in BOOLEAN /\ Makes(NewComment(p, TRUE))
        BY <1>8
      <3> QED BY <1>1, <3>1, MadeTrue
    <2> PICK list : list = <<e>>
      OBVIOUS
    <2>2. list \in Seq(Entry) /\ list # <<>>
      BY <2>1, OneEntry
    <2> PICK a : a = CommentAnswered(c, st, list)
      OBVIOUS
    <2>3. a \in CommentRequest /\ AnswersCarry({a})
      BY <1>3, <2>2, AnsweredTyped
    <2>4. calls' = D \cup {a}
      BY <1>8
    <2>5. PageTrue'
      BY <1>1, <1>5, <1>6, <2>3, <2>4, ServedTyped
    <2> QED BY <2>1, <2>5 DEF TimelineInv
  <1>9. ASSUME NEW e \in commentServer, c.op = "edit", Edits(e),
               calls' = D \cup {CommentAnswered(c, st, <<[e EXCEPT !.text = "edited"]>>)}
        PROVE  TimelineInv'
    <2> PICK d : d = [e EXCEPT !.text = "edited"]
      OBVIOUS
    <2>1. CommentsTrue' /\ d \in Entry
      BY <1>1, <1>9, EditedTrue
    <2> PICK list : list = <<d>>
      OBVIOUS
    <2>2. list \in Seq(Entry) /\ list # <<>>
      BY <2>1, OneEntry
    <2> PICK a : a = CommentAnswered(c, st, list)
      OBVIOUS
    <2>3. a \in CommentRequest /\ AnswersCarry({a})
      BY <1>3, <2>2, AnsweredTyped
    <2>4. calls' = D \cup {a}
      BY <1>9
    <2>5. PageTrue'
      BY <1>1, <1>5, <1>6, <2>3, <2>4, ServedTyped
    <2> QED BY <2>1, <2>5 DEF TimelineInv
  <1>10. ASSUME NEW e \in commentServer, c.op = "delete", Deletes(e),
                calls' = D \cup {CommentAnswered(c, st, <<>>)}
         PROVE  TimelineInv'
    <2>1. CommentsTrue'
      BY <1>1, <1>10, DeletedTrue
    <2> PICK list : list = <<>>
      OBVIOUS
    <2>0. list \in Seq(Entry)
      OBVIOUS
    <2> PICK a : a = CommentAnswered(c, st, list)
      OBVIOUS
    <2>2. a \in CommentRequest /\ AnswersCarry({a})
      BY <1>3, <1>10, <2>0, AnsweredTyped
    <2>3. calls' = D \cup {a}
      BY <1>10
    <2>4. PageTrue'
      BY <1>1, <1>5, <1>6, <2>2, <2>3, ServedTyped
    <2> QED BY <2>1, <2>4 DEF TimelineInv
  <1>11. CASE calls' = C \cup {[c EXCEPT !.st = "failed"]} /\ UNCHANGED <<commentServer, commentsMade, commentChannel>>
    <2> PICK a : a = [c EXCEPT !.st = "failed"]
      OBVIOUS
    <2>1. a \in CommentRequest /\ a.st = "failed"
      BY <1>3 DEF CommentRequest
    <2>2. AnswersCarry({a})
      BY <2>1 DEF AnswersCarry
    <2>3. calls' = C \cup {a}
      BY <1>11
    <2>4. PageTrue'
      BY <1>1, <1>4, <1>6, <2>1, <2>2, <2>3, ServedTyped
    <2>5. CommentsTrue'
      BY <1>1, <1>11 DEF CommentsTrue
    <2> QED BY <2>4, <2>5 DEF TimelineInv
  <1> QED BY <1>2, <1>7, <1>8, <1>9, <1>10, <1>11

\* An answer reaches the page.
LEMMA LandsTyped ==
  ASSUME TimelineInv, NEW c \in calls, calls' = calls \ {c}, timeline' \in Seq(Entry), commentStrayed' \in BOOLEAN,
         UNCHANGED <<commentServer, commentsMade, commentChannel, hears>>
  PROVE  TimelineInv'
  <1>1. CommentsTrue /\ PageTrue
    BY DEF TimelineInv
  <1>2. CommentsTrue'
    BY <1>1 DEF CommentsTrue
  <1>3. calls' \subseteq CommentRequest /\ AnswersCarry(calls)'
    BY <1>1 DEF PageTrue, AnswersCarry
  <1> QED BY <1>1, <1>2, <1>3 DEF TimelineInv, PageTrue

LEMMA TimelineSuccessStep == ASSUME TimelineInv, CallSucceeds PROVE TimelineInv'
  <1>1. PICK c \in calls :
    /\ c.st = "done"
    /\ timeline' = Lands(c)
    /\ calls' = calls \ {c}
    /\ commentStrayed' = IF c.op = "fetch" THEN c.old ELSE commentStrayed \/ (c.old /\ c.op # "delete")
    /\ UNCHANGED <<commentServer, commentsMade, commentChannel, hears>>
    BY DEF CallSucceeds
  <1>2. c \in CommentRequest /\ timeline \in Seq(Entry) /\ AnswersCarry(calls) /\ commentStrayed \in BOOLEAN
    BY DEF TimelineInv, PageTrue
  <1>3. c.op \in {"fetch", "create", "edit", "delete"} /\ c.list \in Seq(Entry) /\ c.old \in BOOLEAN
    BY <1>2 DEF CommentRequest
  <1>4. c.op \in {"create", "edit"} => c.list[1] \in Entry
    <2>1. c.op \in {"create", "edit"} => c.list # <<>>
      BY <1>1, <1>2 DEF AnswersCarry
    <2> QED BY <1>3, <2>1
  <1>5. timeline' \in Seq(Entry)
    <2>1. c.op \in {"create", "edit"} =>
            Added(timeline, c.list[1]) \in Seq(Entry) /\ CommentReplaced(timeline, c.list[1]) \in Seq(Entry)
      BY <1>2, <1>4, ReplacedTyped
    <2> QED BY <1>1, <1>2, <1>3, <2>1 DEF Lands
  <1>6. commentStrayed' \in BOOLEAN
    BY <1>1, <1>2, <1>3
  <1> QED BY <1>1, <1>5, <1>6, LandsTyped

LEMMA TimelineFailStep == ASSUME TimelineInv, CommentFails PROVE TimelineInv'
  <1>1. PICK c \in calls :
    /\ c.st = "failed"
    /\ timeline' = Undone(c)
    /\ calls' = calls \ {c}
    /\ CommentStrays(\/ c.op = "fetch" \/ c.old
              \/ Entries(timeline') # commentServer \/ Len(timeline') # Cardinality(commentServer))
    /\ UNCHANGED <<commentServer, commentsMade, commentChannel, hears>>
    BY DEF CommentFails
  <1>2. c \in CommentRequest /\ timeline \in Seq(Entry) /\ commentStrayed \in BOOLEAN
    BY DEF TimelineInv, PageTrue
  <1>3. c.kept \in Seq(Entry)
    BY <1>2 DEF CommentRequest
  <1>4. commentStrayed' \in BOOLEAN
    BY <1>1 DEF CommentStrays
  <1>5. timeline' \in Seq(Entry)
    <2>1. CASE c.op = "edit" /\ c.kept # <<>>
      <3> PICK t \in Texts : t = c.kept[1].text
        <4>1. c.kept[1] \in Entry
          BY <1>3, <2>1
        <4> QED BY <4>1, EntryFields
      <3>1. \A k \in DOMAIN timeline : timeline[k] \in Entry /\ [timeline[k] EXCEPT !.text = t] \in Entry
        <4>1. \A k \in DOMAIN timeline : timeline[k] \in Entry
          BY <1>2
        <4> QED BY <4>1, Retexted
      <3>2. timeline' = [k \in DOMAIN timeline |-> IF timeline[k].id = c.id
                                    THEN [timeline[k] EXCEPT !.text = t] ELSE timeline[k]]
        BY <1>1, <2>1 DEF Undone
      <3>3. DOMAIN timeline = 1..Len(timeline) /\ Len(timeline) \in Nat
        BY <1>2
      <3>4. timeline' \in [1..Len(timeline) -> Entry]
        BY <3>1, <3>2, <3>3
      <3> QED BY <3>3, <3>4
    <2>2. CASE c.op = "delete"
      <3>1. timeline' = timeline \o c.kept
        BY <1>1, <2>2 DEF Undone
      <3> QED BY <1>2, <1>3, <3>1
    <2>3. CASE ~(c.op = "edit" /\ c.kept # <<>>) /\ c.op # "delete"
      BY <1>1, <1>2, <2>3 DEF Undone
    <2> QED BY <2>1, <2>2, <2>3
  <1> QED BY <1>1, <1>4, <1>5, LandsTyped

LEMMA TimelineStart == TimelineInit => TimelineInv
  <1> SUFFICES ASSUME TimelineInit PROVE TimelineInv
    OBVIOUS
  <1> PICK c : c = CommentCall("fetch", 0)
    OBVIOUS
  <1>1. /\ commentServer = {} /\ commentsMade = <<>> /\ timeline = <<>> /\ commentChannel = <<>>
        /\ hears = TRUE /\ commentStrayed = FALSE /\ calls = {c}
    BY DEF TimelineInit
  <1>2. c \in CommentRequest /\ c.st = "sent"
    <2>1. 0 \in 0..MaxComments /\ <<>> \in Seq(Entry)
      BY EntryFields
    <2> QED BY <2>1, CallTyped
  <1>3. CommentsTrue
    <2>1. IsFiniteSet({}) /\ Len(<<>>) <= MaxComments /\ <<>> \in Seq(Entry) /\ <<>> \in Seq(CommentEvent)
      BY FS_EmptySet, EntryFields
    <2> QED BY <1>1, <2>1 DEF CommentsTrue
  <1>4. PageTrue
    <2>1. calls \subseteq CommentRequest /\ AnswersCarry(calls)
      BY <1>1, <1>2 DEF AnswersCarry
    <2>2. timeline \in Seq(Entry)
      BY <1>1
    <2>3. hears \in BOOLEAN /\ commentStrayed \in BOOLEAN
      BY <1>1
    <2> QED BY <2>1, <2>2, <2>3 DEF PageTrue
  <1> QED BY <1>3, <1>4 DEF TimelineInv

LEMMA TimelineStep == TimelineInv /\ [TimelineNext]_timelineVars => TimelineInv'
  <1> SUFFICES ASSUME TimelineInv, [TimelineNext]_timelineVars PROVE TimelineInv'
    OBVIOUS
  <1>1. CASE UNCHANGED timelineVars
    <2>1. CommentsTrue' /\ PageTrue'
      BY <1>1 DEF timelineVars, TimelineInv, CommentsTrue, PageTrue, AnswersCarry
    <2> QED BY <2>1 DEF TimelineInv
  <1> QED BY <1>1, TimelineOthersStep, TimelineEventStep, TimelineLinkSteps, SubmitStep, EditStep, DeleteStep, TimelineServeStep, TimelineSuccessStep, TimelineFailStep
          DEF TimelineNext

(* Theorem (the type of the thread). What the page and the server keep are  *)
(* comments and requests, however a thread is collected, refetched or put   *)
(* back.                                                                    *)
THEOREM TimelineTypeCorrect == TimelineSpec => []TimelineTypeOK
  <1>1. TimelineInv => TimelineTypeOK
    <2> SUFFICES ASSUME TimelineInv PROVE TimelineTypeOK
      OBVIOUS
    <2>1. timeline \in Seq(Entry) => Entries(timeline) \subseteq Entry
      BY DEF Entries
    <2>2. \A c \in calls : c.op \in {"fetch", "create", "edit", "delete"}
      BY DEF TimelineInv, PageTrue, CommentRequest
    <2> QED BY <2>1, <2>2 DEF TimelineInv, PageTrue, CommentsTrue, TimelineTypeOK
  <1>2. TimelineSpec => []TimelineInv
    BY TimelineStart, TimelineStep, PTL DEF TimelineSpec
  <1> QED BY <1>1, <1>2, PTL

-------------------------------------------------------------------------------
(* Threads *)

\* A comment, the replies to what is in its thread, and nothing else.
LEMMA ThreadFacts ==
  ASSUME NEW S, NEW i
  PROVE  /\ i \in Thread(S, i)
         /\ \A e \in S : e.parent \in Thread(S, i) => e.id \in Thread(S, i)
         /\ \A x \in Thread(S, i) : x = i \/ \E e \in S : e.id = x /\ e.parent \in Thread(S, i)
         /\ \A T : i \in T /\ (\A e \in S : e.parent \in T => e.id \in T) => Thread(S, i) \subseteq T
  <1> PICK W : W = {i} \cup IdsOf(S)
    OBVIOUS
  <1> DEFINE Whole(T) == i \in T /\ \A e \in S : e.parent \in T => e.id \in T
  <1> PICK H : H = Thread(S, i)
    OBVIOUS
  <1>1. H = {x \in W : \A T \in SUBSET W : Whole(T) => x \in T}
    BY DEF Thread
  <1>2. i \in W /\ \A e \in S : e.id \in W
    BY DEF IdsOf
  <1>3. i \in H
    BY <1>1, <1>2
  <1>4. ASSUME NEW e \in S, e.parent \in H PROVE e.id \in H
    <2>1. ASSUME NEW T \in SUBSET W, Whole(T) PROVE e.id \in T
      BY <1>1, <1>4, <2>1
    <2> QED BY <1>1, <1>2, <2>1
  <1>5. ASSUME NEW T, Whole(T) PROVE H \subseteq T
    <2>1. T \cap W \in SUBSET W /\ Whole(T \cap W)
      BY <1>2, <1>5
    <2> HIDE DEF Whole
    <2>2. \A x \in H : x \in T \cap W
      BY <1>1, <2>1
    <2> QED BY <2>2
  <1>6. ASSUME NEW x \in H, x # i PROVE \E e \in S : e.id = x /\ e.parent \in H
    <2> SUFFICES ASSUME \A e \in S : e.id = x => e.parent \notin H PROVE FALSE
      OBVIOUS
    <2>1. Whole(H \ {x})
      BY <1>3, <1>4, <1>6
    <2>2. H \subseteq H \ {x}
      <3> HIDE DEF Whole
      <3> QED BY <1>5, <2>1
    <2> QED BY <2>2, <1>6
  <1> QED BY <1>3, <1>4, <1>5, <1>6

\* S and R say of the same comments the same parents, R perhaps of more.
LEMMA ThreadGrows ==
  ASSUME NEW S, NEW R, NEW i, \A e \in S : \E f \in R : f.id = e.id /\ f.parent = e.parent
  PROVE  Thread(S, i) \subseteq Thread(R, i)
  <1> PICK H : H = Thread(R, i)
    OBVIOUS
  <1>1. i \in H /\ \A f \in R : f.parent \in H => f.id \in H
    BY ThreadFacts
  <1>2. \A e \in S : e.parent \in H => e.id \in H
    BY <1>1
  <1> QED BY <1>1, <1>2, ThreadFacts

-----------------------------------------------------------------------------
(* What was ever written, and what lies below a comment *)

Born      == {commentsMade[k] : k \in DOMAIN commentsMade}
Below(i)  == Thread(Born, i)
Alive     == IdsOf(commentServer)
OnPage    == IdsOf(Entries(timeline))
Rewritten(e) == [e EXCEPT !.text = "edited"]
\* A copy of a comment as it was first written or as it is after an edit.
Genuine(e) == /\ e.id \in DOMAIN commentsMade
              /\ e \in {commentsMade[e.id], Rewritten(commentsMade[e.id])}

\* Comments are numbered as they are made and answer earlier ones; those of the
\* server have what they answer there too.
RecordTrue ==
  /\ \A k \in DOMAIN commentsMade : /\ commentsMade[k].id = k /\ commentsMade[k].text = "first"
                                    /\ commentsMade[k].parent \in 0..(k - 1)
  /\ \A e \in commentServer : Genuine(e) /\ (e.parent = 0 \/ e.parent \in Alive)
  /\ \A k \in DOMAIN commentChannel : Genuine(commentChannel[k].e)

Announces(k, kind, id) == commentChannel[k].kind = kind /\ commentChannel[k].e.id = id
\* An event behind the n-th takes the comment, or one above it, away.
GoesAfter(n, x) == \E k \in DOMAIN commentChannel :
  k > n /\ commentChannel[k].kind = "deleted" /\ x \in Below(commentChannel[k].e.id)
EditedAfter(n, x) == \E k \in DOMAIN commentChannel : k > n /\ Announces(k, "updated", x)

\* The events under way lead from whatever they are applied to what the server
\* has: a comment that is gone is deleted behind its creation, and one that was
\* edited is updated behind it.
NewsTrue(ev, k) ==
  /\ ev.kind = "created" =>
       /\ ev.e = commentsMade[ev.e.id]
       /\ ev.e.id \in Alive \/ GoesAfter(k, ev.e.id)
       /\ Rewritten(ev.e) \in commentServer => EditedAfter(k, ev.e.id)
  /\ ev.kind = "updated" => ev.e.text = "edited" /\ (ev.e.id \in Alive => ev.e \in commentServer)
  /\ ev.kind = "deleted" => ev.e.id \notin Alive
AllNewsTrue ==
  /\ ~hears => commentChannel = <<>>
  /\ \A k \in DOMAIN commentChannel : NewsTrue(commentChannel[k], k)

\* An answer that nothing has overtaken says what the server has.
RequestTrue(c) ==
  /\ c.st = "sent" => ~c.old
  /\ c.st = "done" /\ ~c.old /\ c.op = "fetch" => c.list = ServerOrder
  /\ c.st = "done" /\ ~c.old /\ c.op \in {"create", "edit"} => c.list[1] \in commentServer
  /\ c.st = "done" /\ c.op = "edit" => c.list[1].id = c.id
  /\ c.st = "done" /\ c.op = "delete" => c.id \in DOMAIN commentsMade \ Alive
RequestsTrue == \A c \in calls : RequestTrue(c)

\* A fetch is to come, or something that leaves the page wrong until the next.
Spoils(c) == c.op = "fetch" \/ (c.old /\ ~(c.op = "delete" /\ c.st = "done"))
Pends     == \E c \in calls : Spoils(c)

\* Why a comment of the server is or will be on the page.
Made(c, id) == c.op = "create" /\ c.st = "done" /\ c.list[1].id = id
Comes(e) ==
  \/ e.id \in OnPage
  \/ ~e.mine /\ \E k \in DOMAIN commentChannel : Announces(k, "created", e.id)
  \/ \E c \in calls : Made(c, e.id)
  \/ \E c \in calls : c.op = "delete" /\ e.id \in Below(c.id)
\* Why an entry has or will have the server's text.
Agrees(e) ==
  \/ e \in commentServer
  \/ EditedAfter(0, e.id)
  \/ \E c \in calls : c.op = "edit" /\ c.id = e.id
\* Why an entry that the server has no more is or will be out of every thread.
GoesAway(x) ==
  \/ GoesAfter(0, x)
  \/ \E a \in DOMAIN commentsMade : x \in Below(a) /\ a \notin Alive /\ a \notin OnPage
OncePerId(tl) == \A j, k \in DOMAIN tl : tl[j].id = tl[k].id => j = k
PageFollows ==
  /\ \A e \in commentServer : Comes(e)
  /\ \A e \in Entries(timeline) : Genuine(e) /\ IF e.id \in Alive THEN Agrees(e) ELSE GoesAway(e.id)
  /\ OncePerId(timeline)
Follows == hears /\ ~commentStrayed /\ ~Pends => PageFollows

ThreadInv == TimelineInv /\ RecordTrue /\ AllNewsTrue /\ RequestsTrue /\ Follows

-----------------------------------------------------------------------------
LEMMA Rewriting ==
  \A e \in Entry : /\ Rewritten(e) \in Entry /\ Rewritten(e).id = e.id /\ Rewritten(e).text = "edited"
                   /\ Rewritten(e).parent = e.parent /\ Rewritten(e).mine = e.mine
                   /\ e.text = "edited" => Rewritten(e) = e
                   /\ Rewritten(Rewritten(e)) = Rewritten(e)
  BY DEF Entry, Rewritten, Texts

LEMMA MadeTyped ==
  ASSUME TimelineInv
  PROVE  /\ Len(commentsMade) \in Nat /\ DOMAIN commentsMade = 1..Len(commentsMade)
         /\ \A k \in DOMAIN commentsMade : commentsMade[k] \in Entry /\ commentsMade[k] \in Born
         /\ \A e \in Born : e \in Entry
         /\ 0 \notin DOMAIN commentsMade
  BY DEF TimelineInv, CommentsTrue, Born

LEMMA GenuineIs ==
  ASSUME TimelineInv, RecordTrue, NEW e, Genuine(e)
  PROVE  /\ e \in Entry /\ e.id \in DOMAIN commentsMade /\ e.id \in CommentIds
         /\ \E b \in Born : b = commentsMade[e.id] /\ b.id = e.id /\ b.parent = e.parent /\ b.mine = e.mine
         /\ e.parent \in 0..(e.id - 1) /\ Genuine(Rewritten(e))
         /\ e = commentsMade[e.id] \/ e = Rewritten(commentsMade[e.id])
  <1> PICK b : b = commentsMade[e.id]
    OBVIOUS
  <1>1. e.id \in DOMAIN commentsMade /\ (e = b \/ e = Rewritten(b))
    BY DEF Genuine
  <1>2. b \in Entry /\ b \in Born /\ b.id = e.id /\ b.parent \in 0..(e.id - 1)
    BY <1>1, MadeTyped DEF RecordTrue
  <1>3. e \in Entry /\ b.parent = e.parent /\ b.mine = e.mine
    BY <1>1, <1>2, Rewriting
  <1>4. Rewritten(e) = Rewritten(b) /\ Rewritten(e).id = e.id
    BY <1>1, <1>2, <1>3, Rewriting
  <1>5. Genuine(Rewritten(e))
    BY <1>1, <1>4 DEF Genuine
  <1>6. e.id \in CommentIds
    BY <1>3, EntryFields
  <1> QED BY <1>1, <1>2, <1>3, <1>5, <1>6

LEMMA BornIsGenuine == ASSUME TimelineInv, RecordTrue, NEW e \in Born PROVE Genuine(e) /\ e.text = "first"
  BY MadeTyped DEF Born, Genuine, RecordTrue

LEMMA BelowFacts ==
  ASSUME TimelineInv, RecordTrue, NEW a
  PROVE  /\ a \in Below(a)
         /\ \A e : Genuine(e) /\ e.parent \in Below(a) => e.id \in Below(a)
         /\ \A e : Genuine(e) /\ e.id \in Below(a) => e.id = a \/ e.parent \in Below(a)
         /\ \A x \in Below(a) : x = a \/ x \in DOMAIN commentsMade
         /\ \A x \in Below(a) : Below(x) \subseteq Below(a)
         /\ \A S : (\A e \in S : Genuine(e)) => Thread(S, a) \subseteq Below(a)
  <1> PICK B : B = Below(a)
    OBVIOUS
  <1>1. /\ a \in B /\ \A e \in Born : e.parent \in B => e.id \in B
        /\ \A x \in B : x = a \/ \E e \in Born : e.id = x /\ e.parent \in B
    BY ThreadFacts DEF Below
  <1>2. ASSUME NEW e, Genuine(e), e.parent \in B PROVE e.id \in B
    BY <1>1, <1>2, GenuineIs
  <1>3. ASSUME NEW e, Genuine(e), e.id \in B, e.id # a PROVE e.parent \in B
    <2>1. PICK b \in Born : b.id = e.id /\ b.parent \in B
      BY <1>1, <1>3
    <2>2. b = commentsMade[b.id]
      BY MadeTyped DEF RecordTrue, Born
    <2> QED BY <1>3, <2>1, <2>2, GenuineIs
  <1>4. ASSUME NEW x \in B, x # a PROVE x \in DOMAIN commentsMade
    BY <1>1, <1>4, BornIsGenuine DEF Genuine
  <1>5. ASSUME NEW x \in B PROVE Below(x) \subseteq B
    BY <1>1, ThreadFacts DEF Below
  <1>6. ASSUME NEW S, \A e \in S : Genuine(e) PROVE Thread(S, a) \subseteq B
    <2>1. \A e \in S : \E f \in Born : f.id = e.id /\ f.parent = e.parent
      BY <1>6, GenuineIs
    <2> QED BY <2>1, ThreadGrows DEF Below
  <1> QED BY <1>1, <1>2, <1>3, <1>4, <1>5, <1>6

LEMMA ServerEntry == ASSUME TimelineInv, RecordTrue, NEW e \in commentServer
                     PROVE  e \in Entry /\ Genuine(e) /\ e.id \in Alive /\ (e.parent = 0 \/ e.parent \in Alive)
  BY DEF RecordTrue, Alive, IdsOf, TimelineInv, CommentsTrue

LEMMA AliveIs == \A x \in Alive : \E e \in commentServer : e.id = x
  BY DEF Alive, IdsOf

\* What the server takes away with a comment is all that lies below it.
LEMMA ServerThread ==
  ASSUME TimelineInv, RecordTrue, NEW i \in CommentIds, NEW x \in Alive
  PROVE  x \in Thread(commentServer, i) <=> x \in Below(i)
  <1> PICK H : H = Thread(commentServer, i)
    OBVIOUS
  <1>1. i \in H /\ \A e \in commentServer : e.parent \in H => e.id \in H
    BY ThreadFacts
  <1> DEFINE T == {y \in Below(i) : y \in Alive => y \in H}
  <1>2. i \in T
    BY <1>1, BelowFacts
  <1>3. ASSUME NEW b \in Born, b.parent \in T PROVE b.id \in T
    <2>1. Genuine(b) /\ b.id \in Below(i)
      BY <1>3, BornIsGenuine, BelowFacts
    <2>2. ASSUME b.id \in Alive PROVE b.id \in H
      <3>1. PICK e \in commentServer : e.id = b.id
        BY <2>2, AliveIs
      <3>2. e.parent = b.parent
        BY <2>1, <3>1, ServerEntry, GenuineIs DEF Genuine
      <3>3. b.parent # 0
        <4>1. 0 \notin Below(i)
          BY BelowFacts, MadeTyped, EntryFields DEF CommentIds
        <4> QED BY <1>3, <4>1
      <3>4. e.parent \in Alive
        BY <3>2, <3>3, ServerEntry
      <3> QED BY <1>1, <1>3, <3>1, <3>2, <3>4
    <2> QED BY <2>1, <2>2
  <1>4. Below(i) \subseteq T
    <2> HIDE DEF T
    <2> QED BY <1>2, <1>3, ThreadFacts DEF Below
  <1>5. H \subseteq Below(i)
    BY BelowFacts, ServerEntry
  <1> QED BY <1>4, <1>5

\* Nothing lies below a comment that is gone.
LEMMA NoneBelowGone ==
  ASSUME TimelineInv, RecordTrue, NEW i \in CommentIds \ Alive
  PROVE  \A x \in Below(i) : x \notin Alive
  <1> DEFINE T == {y \in Below(i) : y \notin Alive}
  <1>1. i \in T
    BY BelowFacts
  <1>2. ASSUME NEW b \in Born, b.parent \in T PROVE b.id \in T
    <2>1. Genuine(b) /\ b.id \in Below(i)
      BY <1>2, BornIsGenuine, BelowFacts
    <2>2. ASSUME b.id \in Alive PROVE FALSE
      <3>1. PICK e \in commentServer : e.id = b.id
        BY <2>2, AliveIs
      <3>2. e.parent = b.parent
        BY <2>1, <3>1, ServerEntry, GenuineIs DEF Genuine
      <3>3. b.parent # 0
        <4>1. 0 \notin Below(i)
          BY BelowFacts, MadeTyped, EntryFields DEF CommentIds
        <4> QED BY <1>2, <4>1
      <3> QED BY <1>2, <3>1, <3>2, <3>3, ServerEntry
    <2> QED BY <2>1, <2>2
  <1>3. Below(i) \subseteq T
    <2> HIDE DEF T
    <2> QED BY <1>1, <1>2, ThreadFacts DEF Below
  <1> QED BY <1>3

-----------------------------------------------------------------------------
(* What the page does to its list *)

LEMMA EntriesAre ==
  /\ \A tl \in Seq(Entry) : \A e \in Entries(tl) : e \in Entry /\ e.id \in IdsOf(Entries(tl))
  /\ \A tl \in Seq(Entry) : DOMAIN tl = 1..Len(tl) /\ Len(tl) \in Nat
  /\ \A tl : \A x \in IdsOf(Entries(tl)) : \E k \in DOMAIN tl : tl[k].id = x
  /\ \A tl : \A k \in DOMAIN tl : tl[k] \in Entries(tl) /\ tl[k].id \in IdsOf(Entries(tl))
  /\ \A tl : \A e \in Entries(tl) : \E k \in DOMAIN tl : tl[k] = e
  BY DEF Entries, IdsOf

LEMMA ReplacedIs ==
  ASSUME NEW tl \in Seq(Entry), NEW e \in Entry, NEW r, r = CommentReplaced(tl, e)
  PROVE  /\ IdsOf(Entries(r)) = IdsOf(Entries(tl))
         /\ \A x \in Entries(r) : (x.id = e.id /\ x = e) \/ (x.id # e.id /\ x \in Entries(tl))
         /\ OncePerId(tl) => OncePerId(r)
  <1>1. DOMAIN r = DOMAIN tl /\ \A k \in DOMAIN tl : r[k] = IF tl[k].id = e.id THEN e ELSE tl[k]
    BY DEF CommentReplaced
  <1>2. \A k \in DOMAIN tl : r[k].id = tl[k].id
    BY <1>1
  <1>3. IdsOf(Entries(r)) = IdsOf(Entries(tl))
    BY <1>1, <1>2 DEF IdsOf, Entries
  <1>4. \A x \in Entries(r) : (x.id = e.id /\ x = e) \/ (x.id # e.id /\ x \in Entries(tl))
    BY <1>1 DEF Entries
  <1> QED BY <1>1, <1>2, <1>3, <1>4 DEF OncePerId

LEMMA AddedIs ==
  ASSUME NEW tl \in Seq(Entry), NEW e \in Entry, NEW r, r = Added(tl, e)
  PROVE  /\ IdsOf(Entries(r)) = IdsOf(Entries(tl)) \cup {e.id}
         /\ \A x \in Entries(r) : x \in Entries(tl) \/ (x = e /\ e.id \notin IdsOf(Entries(tl)))
         /\ OncePerId(tl) => OncePerId(r)
  <1>1. CASE e.id \in IdsOf(Entries(tl))
    BY <1>1 DEF Added
  <1>2. CASE e.id \notin IdsOf(Entries(tl))
    <2>1. r = Append(tl, e)
      BY <1>2 DEF Added
    <2> PICK n \in Nat : n = Len(tl)
      OBVIOUS
    <2>2. /\ DOMAIN tl = 1..n /\ DOMAIN r = 1..(n + 1) /\ r[n + 1] = e
          /\ \A k \in 1..n : r[k] = tl[k] /\ r[k].id # e.id
      BY <1>2, <2>1, EntriesAre
    <2>3. \A k \in DOMAIN r : k = n + 1 \/ k \in 1..n
      BY <2>2
    <2>4. Entries(r) = Entries(tl) \cup {e}
      BY <2>2, <2>3 DEF Entries
    <2>5. IdsOf(Entries(r)) = IdsOf(Entries(tl)) \cup {e.id}
      BY <2>4 DEF IdsOf
    <2>6. OncePerId(tl) => OncePerId(r)
      BY <2>2, <2>3 DEF OncePerId
    <2> QED BY <1>2, <2>4, <2>5, <2>6
  <1> QED BY <1>1, <1>2

LEMMA OnlyHas ==
  ASSUME NEW S, NEW s \in Seq(S), NEW T, NEW q, q = Only(s, T)
  PROVE  \A x : (\E k \in DOMAIN q : q[k] = x) <=> (x \in T /\ \E k \in DOMAIN s : s[k] = x)
  BY OnlyFacts

LEMMA WithoutIs ==
  ASSUME NEW tl \in Seq(Entry), NEW ids, NEW r, r = Without(tl, ids)
  PROVE  /\ \A x : x \in Entries(r) <=> x \in Entries(tl) /\ x.id \notin ids
         /\ \A i : i \in IdsOf(Entries(r)) <=> i \in IdsOf(Entries(tl)) /\ i \notin ids
         /\ OncePerId(tl) => OncePerId(r)
  <1>1. PICK T : r = Only(tl, T) /\ \A x : x \in T <=> x \in Entries(tl) /\ x.id \notin ids
    <2> DEFINE U == {e \in Entries(tl) : e.id \notin ids}
    <2>1. r = Only(tl, U)
      BY DEF Without
    <2>2. \A x : x \in U <=> x \in Entries(tl) /\ x.id \notin ids
      OBVIOUS
    <2> HIDE DEF U
    <2> QED BY <2>1, <2>2
  <1>2. \A x : (\E k \in DOMAIN r : r[k] = x) <=> (x \in T /\ \E k \in DOMAIN tl : tl[k] = x)
    BY <1>1, OnlyHas
  <1>3. \A x : x \in Entries(r) <=> x \in Entries(tl) /\ x.id \notin ids
    BY <1>1, <1>2 DEF Entries
  <1>4. \A i : i \in IdsOf(Entries(r)) <=> i \in IdsOf(Entries(tl)) /\ i \notin ids
    BY <1>3 DEF IdsOf
  <1>5. ASSUME OncePerId(tl) PROVE OncePerId(r)
    <2> PICK n \in Nat : \E f : TakenAt(r, tl, T, n, f)
      BY <1>1, OnlyPlaces
    <2>1. PICK f : TakenAt(r, tl, T, n, f)
      OBVIOUS
    <2>2. /\ r \in Seq(Entry) /\ DOMAIN r = 1..n /\ f \in [1..n -> 1..Len(tl)] /\ DOMAIN tl = 1..Len(tl)
          /\ \A j, k \in 1..n : j < k => f[j] < f[k]
          /\ \A k \in 1..n : r[k] = tl[f[k]]
      BY <1>1, <2>1, OnlyPlaces DEF TakenAt
    <2>3. ASSUME NEW j \in 1..n, NEW k \in 1..n, r[j].id = r[k].id PROVE j = k
      <3>1. f[j] \in 1..Len(tl) /\ f[k] \in 1..Len(tl) /\ f[j] = f[k]
        BY <1>5, <2>2, <2>3 DEF OncePerId
      <3>2. Len(tl) \in Nat /\ ~(f[j] < f[k]) /\ ~(f[k] < f[j])
        BY <3>1
      <3> QED BY <2>2, <3>2
    <2> QED BY <2>2, <2>3 DEF OncePerId
  <1> QED BY <1>3, <1>4, <1>5

-----------------------------------------------------------------------------
(* The server changes *)

\* Nothing changes below a comment but that a reply is added.
LEMMA BornStays ==
  ASSUME TimelineInv, RecordTrue,
         \/ UNCHANGED commentsMade
         \/ \E e : e.id = Len(commentsMade) + 1 /\ commentsMade' = Append(commentsMade, e)
  PROVE  /\ \A e : Genuine(e) => Genuine(e)'
         /\ \A i : \A x \in DOMAIN commentsMade : x \in Below(i)' <=> x \in Below(i)
         /\ \A x \in DOMAIN commentsMade : x \in DOMAIN commentsMade' /\ commentsMade'[x] = commentsMade[x]
  <1>1. CASE UNCHANGED commentsMade
    BY <1>1 DEF Genuine, Below, Born
  <1>2. ASSUME NEW e, e.id = Len(commentsMade) + 1, commentsMade' = Append(commentsMade, e)
        PROVE  /\ \A x : Genuine(x) => Genuine(x)'
               /\ \A i : \A x \in DOMAIN commentsMade : x \in Below(i)' <=> x \in Below(i)
               /\ \A x \in DOMAIN commentsMade : x \in DOMAIN commentsMade' /\ commentsMade'[x] = commentsMade[x]
    <2> PICK n \in Nat : n = Len(commentsMade)
      BY MadeTyped
    <2>1. /\ DOMAIN commentsMade = 1..n /\ DOMAIN commentsMade' = 1..(n + 1)
          /\ commentsMade'[n + 1] = e /\ \A x \in 1..n : commentsMade'[x] = commentsMade[x]
      BY <1>2, MadeTyped DEF TimelineInv, CommentsTrue
    <2>2. \A x : Genuine(x) => Genuine(x)'
      BY <2>1 DEF Genuine
    <2>3. Born' = Born \cup {e}
      <3>1. \A k \in DOMAIN commentsMade' : k = n + 1 \/ k \in 1..n
        BY <2>1
      <3> QED BY <2>1, <3>1 DEF Born
    <2>4. ASSUME NEW i, NEW x \in DOMAIN commentsMade PROVE x \in Below(i)' <=> x \in Below(i)
      <3> PICK A : A = Born
        OBVIOUS
      <3>1. Below(i)' = Thread(A \cup {e}, i) /\ Below(i) = Thread(A, i)
        BY <2>3 DEF Below
      <3>2. Thread(A, i) \subseteq Thread(A \cup {e}, i)
        BY ThreadGrows
      <3> DEFINE T == Thread(A, i) \cup {n + 1}
      <3>3. i \in T
        BY ThreadFacts
      <3>4. ASSUME NEW b \in A \cup {e}, b.parent \in T PROVE b.id \in T
        <4>1. CASE b \in A /\ b.parent \in Thread(A, i)
          BY <4>1, ThreadFacts
        <4>2. CASE b \in A /\ b.parent = n + 1
          <5>1. Genuine(b)
            BY <4>2, BornIsGenuine
          <5>2. b.id \in 1..n /\ b.parent \in 0..(b.id - 1)
            BY <2>1, <5>1, GenuineIs
          <5> QED BY <4>2, <5>2
        <4> QED BY <1>2, <3>4, <4>1, <4>2
      <3>5. Thread(A \cup {e}, i) \subseteq T
        <4> HIDE DEF T
        <4> QED BY <3>3, <3>4, ThreadFacts
      <3>6. x # n + 1
        BY <2>1
      <3>7. x \in Thread(A \cup {e}, i) <=> x \in Thread(A, i)
        BY <3>2, <3>5, <3>6
      <3> QED BY <3>1, <3>7
    <2> QED BY <2>1, <2>2, <2>4
  <1> QED BY <1>1, <1>2

\* An event follows those under way, if the page listens.
LEMMA ChannelGrows ==
  ASSUME TimelineInv, RecordTrue, NEW S, NEW ev \in CommentEvent, Change(S, ev),
         \/ UNCHANGED commentsMade
         \/ \E e : e.id = Len(commentsMade) + 1 /\ commentsMade' = Append(commentsMade, e),
         NEW n, n = Len(commentChannel) + 1
  PROVE  /\ n \in Nat /\ \A k \in DOMAIN commentChannel : k \in 1..(n - 1) /\ k \in DOMAIN commentChannel'
                                                        /\ commentChannel'[k] = commentChannel[k]
         /\ hears => n \in DOMAIN commentChannel' /\ commentChannel'[n] = ev
         /\ \A k \in DOMAIN commentChannel' : k \in DOMAIN commentChannel \/ (hears /\ k = n)
         /\ \A k : \A x \in DOMAIN commentsMade : GoesAfter(k, x) => GoesAfter(k, x)'
         /\ \A k : \A x : EditedAfter(k, x) => EditedAfter(k, x)'
         /\ \A k \in 0..(n - 1) : \A x : hears /\ ev.kind = "deleted" /\ x \in Below(ev.e.id)' => GoesAfter(k, x)'
         /\ \A k \in 0..(n - 1) : hears /\ ev.kind = "updated" => EditedAfter(k, ev.e.id)'
  <1>1. commentChannel \in Seq(CommentEvent)
    BY DEF TimelineInv, CommentsTrue
  <1>2. commentChannel' = IF hears THEN Append(commentChannel, ev) ELSE commentChannel
    BY DEF Change
  <1>3. n \in Nat /\ DOMAIN commentChannel = 1..(n - 1)
    BY <1>1
  <1>4. hears => /\ DOMAIN commentChannel' = 1..n /\ commentChannel'[n] = ev
                 /\ \A k \in 1..(n - 1) : commentChannel'[k] = commentChannel[k]
    BY <1>1, <1>2, <1>3
  <1>5. \A k \in DOMAIN commentChannel : k \in DOMAIN commentChannel' /\ commentChannel'[k] = commentChannel[k]
    BY <1>2, <1>3, <1>4
  <1>6. \A k \in DOMAIN commentChannel' : k \in DOMAIN commentChannel \/ (hears /\ k = n)
    BY <1>2, <1>3, <1>4
  <1>7. \A i : \A x \in DOMAIN commentsMade : x \in Below(i) => x \in Below(i)'
    BY BornStays
  <1>8. \A k : \A x \in DOMAIN commentsMade : GoesAfter(k, x) => GoesAfter(k, x)'
    BY <1>5, <1>7 DEF GoesAfter
  <1>9. \A k : \A x : EditedAfter(k, x) => EditedAfter(k, x)'
    BY <1>5 DEF EditedAfter, Announces
  <1>10. \A k \in 0..(n - 1) : n > k
    BY <1>3
  <1>11. hears => n \in DOMAIN commentChannel' /\ commentChannel'[n] = ev
    BY <1>3, <1>4
  <1>12. \A k \in 0..(n - 1) : \A x : hears /\ ev.kind = "deleted" /\ x \in Below(ev.e.id)' => GoesAfter(k, x)'
    BY <1>10, <1>11 DEF GoesAfter
  <1>13. \A k \in 0..(n - 1) : hears /\ ev.kind = "updated" => EditedAfter(k, ev.e.id)'
    BY <1>10, <1>11 DEF EditedAfter, Announces
  <1> QED BY <1>3, <1>5, <1>6, <1>8, <1>9, <1>11, <1>12, <1>13

\* The server goes from what it has to S and says so in the event ev.
Turns(S, ev) ==
  /\ Change(S, ev) /\ ev \in CommentEvent
  /\ UNCHANGED <<timeline, hears, commentStrayed>>
  /\ \/ UNCHANGED commentsMade
     \/ \E e : e.id = Len(commentsMade) + 1 /\ commentsMade' = Append(commentsMade, e)

\* What is gone stays gone, and the event says what is lost and what is new.
TurnTold(ev) ==
  /\ \A x \in DOMAIN commentsMade : x \in Alive' => x \in Alive
  /\ \A x \in Alive : x \in Alive' \/ (ev.kind = "deleted" /\ x \in Below(ev.e.id)')
  /\ \A e \in commentServer : \/ e \in commentServer' \/ e.id \notin Alive'
                              \/ ev.kind = "updated" /\ ev.e.id = e.id /\ e.text = "first"
  /\ \A e \in commentServer' : \/ e \in commentServer
                               \/ ev.kind = "updated" /\ ev.e = e
                                  /\ \E f \in commentServer : f.id = e.id /\ f.mine = e.mine
                               \/ ev.kind = "created" /\ ev.e = e /\ e.text = "first"

LEMMA NewsStay ==
  ASSUME TimelineInv, RecordTrue, AllNewsTrue, NEW S, NEW ev, Turns(S, ev), TurnTold(ev),
         NEW n, n = Len(commentChannel) + 1, hears => NewsTrue(ev, n)'
  PROVE  AllNewsTrue'
  <1>1. /\ n \in Nat /\ \A k \in DOMAIN commentChannel : k \in 1..(n - 1) /\ k \in DOMAIN commentChannel'
                                                      /\ commentChannel'[k] = commentChannel[k]
        /\ hears => n \in DOMAIN commentChannel' /\ commentChannel'[n] = ev
        /\ \A k \in DOMAIN commentChannel' : k \in DOMAIN commentChannel \/ (hears /\ k = n)
        /\ \A k : \A x \in DOMAIN commentsMade : GoesAfter(k, x) => GoesAfter(k, x)'
        /\ \A k : \A x : EditedAfter(k, x) => EditedAfter(k, x)'
        /\ \A k \in 0..(n - 1) : \A x : hears /\ ev.kind = "deleted" /\ x \in Below(ev.e.id)' => GoesAfter(k, x)'
        /\ \A k \in 0..(n - 1) : hears /\ ev.kind = "updated" => EditedAfter(k, ev.e.id)'
    BY ChannelGrows DEF Turns
  <1>2. \A x \in DOMAIN commentsMade : x \in DOMAIN commentsMade' /\ commentsMade'[x] = commentsMade[x]
    BY BornStays DEF Turns
  <1>3. ASSUME NEW k \in DOMAIN commentChannel PROVE NewsTrue(commentChannel[k], k)'
    <2> PICK v : v = commentChannel[k]
      OBVIOUS
    <2>1. NewsTrue(v, k) /\ Genuine(v.e)
      BY <1>3 DEF AllNewsTrue, RecordTrue
    <2>2. v.e.id \in DOMAIN commentsMade /\ v.e \in Entry /\ commentChannel'[k] = v /\ k \in 0..(n - 1) /\ hears
      BY <1>1, <1>3, <2>1, GenuineIs DEF AllNewsTrue
    <2>3. ASSUME v.kind = "created" PROVE v.e = commentsMade'[v.e.id]
      BY <1>2, <2>1, <2>2, <2>3 DEF NewsTrue
    <2>4. ASSUME v.kind = "created" PROVE v.e.id \in Alive' \/ GoesAfter(k, v.e.id)'
      BY <1>1, <2>1, <2>2, <2>4 DEF NewsTrue, TurnTold
    <2>5. ASSUME v.kind = "created", Rewritten(v.e) \in commentServer' PROVE EditedAfter(k, v.e.id)'
      <3>1. Rewritten(v.e).id = v.e.id /\ Rewritten(v.e).text # "first"
        BY <2>2, Rewriting
      <3> QED BY <1>1, <2>1, <2>2, <2>5, <3>1 DEF NewsTrue, TurnTold
    <2>6. ASSUME v.kind = "updated", v.e.id \in Alive' PROVE v.e \in commentServer'
      <3>1. v.e.id \in Alive /\ v.e \in commentServer /\ v.e.text = "edited"
        BY <2>1, <2>2, <2>6 DEF NewsTrue, TurnTold
      <3> QED BY <2>6, <3>1 DEF TurnTold
    <2>7. ASSUME v.kind = "deleted" PROVE v.e.id \notin Alive'
      BY <2>1, <2>2, <2>7 DEF NewsTrue, TurnTold
    <2> QED BY <2>1, <2>2, <2>3, <2>4, <2>5, <2>6, <2>7 DEF NewsTrue
  <1>4. ~hears' => commentChannel' = <<>>
    BY DEF Turns, Change, AllNewsTrue
  <1>5. ASSUME NEW k \in DOMAIN commentChannel' PROVE NewsTrue(commentChannel[k], k)'
    BY <1>1, <1>3, <1>5
  <1> QED BY <1>4, <1>5 DEF AllNewsTrue

\* What is in flight for the user goes on, and what a change overtakes spoils.
GoesOn ==
  /\ Pends => Pends'
  /\ \A c \in calls : c.op \in {"edit", "delete"} => \E d \in calls' : d.op = c.op /\ d.id = c.id

LEMMA TurnFollows ==
  ASSUME TimelineInv, RecordTrue, AllNewsTrue, Follows, NEW S, NEW ev, Turns(S, ev), TurnTold(ev), GoesOn,
         ~Pends' => \A c \in calls : \A x : ~Made(c, x),
         ~Pends' /\ ev.kind = "created" /\ ev.e.mine => \E c \in calls' : Made(c, ev.e.id)
  PROVE  Follows'
  <1> SUFFICES ASSUME hears, ~commentStrayed, ~Pends' PROVE PageFollows'
    BY DEF Follows, Turns
  <1> PICK n : n = Len(commentChannel) + 1
    OBVIOUS
  <1>1. /\ n \in Nat /\ \A k \in DOMAIN commentChannel : k \in 1..(n - 1) /\ k \in DOMAIN commentChannel'
                                                      /\ commentChannel'[k] = commentChannel[k]
        /\ n \in DOMAIN commentChannel' /\ commentChannel'[n] = ev
        /\ \A k : \A x \in DOMAIN commentsMade : GoesAfter(k, x) => GoesAfter(k, x)'
        /\ \A k : \A x : EditedAfter(k, x) => EditedAfter(k, x)'
        /\ \A k \in 0..(n - 1) : \A x : ev.kind = "deleted" /\ x \in Below(ev.e.id)' => GoesAfter(k, x)'
        /\ \A k \in 0..(n - 1) : ev.kind = "updated" => EditedAfter(k, ev.e.id)'
    BY ChannelGrows DEF Turns
  <1>2. /\ \A e : Genuine(e) => Genuine(e)'
        /\ \A i : \A x \in DOMAIN commentsMade : x \in Below(i)' <=> x \in Below(i)
        /\ \A x \in DOMAIN commentsMade : x \in DOMAIN commentsMade'
    BY BornStays DEF Turns
  <1>3. PageFollows /\ timeline' = timeline /\ OnPage' = OnPage
    BY DEF Follows, Turns, GoesOn, OnPage
  <1>4. ASSUME NEW e \in commentServer PROVE Comes(e)'
    <2>1. Comes(e) /\ e.id \in DOMAIN commentsMade
      BY <1>3, ServerEntry, GenuineIs DEF PageFollows
    <2>2. (\E k \in DOMAIN commentChannel : Announces(k, "created", e.id)) =>
          (\E k \in DOMAIN commentChannel' : Announces(k, "created", e.id)')
      BY <1>1 DEF Announces
    <2>3. (\E c \in calls : c.op = "delete" /\ e.id \in Below(c.id)) =>
          (\E d \in calls' : d.op = "delete" /\ e.id \in Below(d.id)')
      BY <1>2, <2>1 DEF GoesOn
    <2> QED BY <1>3, <2>1, <2>2, <2>3 DEF Comes
  <1>5. ASSUME NEW e \in commentServer' PROVE Comes(e)'
    <2>1. CASE \E f \in commentServer : f.id = e.id /\ f.mine = e.mine
      <3>1. PICK f \in commentServer : f.id = e.id /\ f.mine = e.mine
        BY <2>1
      <3>2. Comes(f)'
        BY <1>4
      <3> QED BY <3>1, <3>2 DEF Comes
    <2>2. CASE ev.kind = "created" /\ ev.e = e
      <3>1. CASE e.mine
        BY <2>2, <3>1 DEF Comes
      <3>2. CASE ~e.mine
        <4>1. Announces(n, "created", e.id)'
          BY <1>1, <2>2 DEF Announces
        <4> QED BY <1>1, <3>2, <4>1 DEF Comes
      <3> QED BY <3>1, <3>2
    <2> QED BY <2>1, <2>2 DEF TurnTold
  <1>6. ASSUME NEW e \in Entries(timeline), e.id \in Alive' PROVE Agrees(e)'
    <2>1. Genuine(e) /\ e.id \in Alive
      BY <1>3, <1>6, GenuineIs DEF PageFollows, TurnTold
    <2>2. Agrees(e)
      BY <1>3, <2>1 DEF PageFollows
    <2>3. e \in commentServer => e \in commentServer' \/ EditedAfter(0, e.id)'
      <3>1. 0 \in 0..(n - 1)
        BY <1>1
      <3> QED BY <1>1, <1>6, <3>1 DEF TurnTold
    <2>4. (\E c \in calls : c.op = "edit" /\ c.id = e.id) => \E c \in calls' : c.op = "edit" /\ c.id = e.id
      BY DEF GoesOn
    <2> QED BY <1>1, <2>2, <2>3, <2>4 DEF Agrees
  <1>7. ASSUME NEW e \in Entries(timeline), e.id \notin Alive' PROVE GoesAway(e.id)'
    <2>1. Genuine(e) /\ e.id \in DOMAIN commentsMade
      BY <1>3, GenuineIs DEF PageFollows
    <2>2. CASE e.id \in Alive
      <3>1. 0 \in 0..(n - 1)
        BY <1>1
      <3> QED BY <1>1, <1>7, <2>2, <3>1 DEF TurnTold, GoesAway
    <2>3. CASE e.id \notin Alive
      <3>1. GoesAway(e.id)
        BY <1>3, <2>3 DEF PageFollows
      <3>2. (\E a \in DOMAIN commentsMade : e.id \in Below(a) /\ a \notin Alive /\ a \notin OnPage) =>
            (\E a \in DOMAIN commentsMade' : e.id \in Below(a)' /\ a \notin Alive' /\ a \notin OnPage')
        BY <1>2, <1>3, <2>1 DEF TurnTold
      <3> QED BY <1>1, <2>1, <3>1, <3>2 DEF GoesAway
    <2> QED BY <2>2, <2>3
  <1>8. \A e \in Entries(timeline)' : Genuine(e)' /\ IF e.id \in Alive' THEN Agrees(e)' ELSE GoesAway(e.id)'
    BY <1>2, <1>3, <1>6, <1>7 DEF PageFollows
  <1>9. OncePerId(timeline)'
    BY <1>3 DEF PageFollows
  <1> QED BY <1>5, <1>8, <1>9 DEF PageFollows


-----------------------------------------------------------------------------
(* The three changes *)

LEMMA RecordKept ==
  ASSUME TimelineInv, RecordTrue, NEW S, NEW ev, Turns(S, ev), Genuine(ev.e)',
         \A k \in DOMAIN commentsMade' : /\ commentsMade'[k].id = k /\ commentsMade'[k].text = "first"
                                         /\ commentsMade'[k].parent \in 0..(k - 1),
         \A e \in S : (e \in commentServer \/ Genuine(e)') /\ (e.parent = 0 \/ e.parent \in IdsOf(S))
  PROVE  RecordTrue'
  <1>1. commentServer' = S /\ Alive' = IdsOf(S)
    BY DEF Turns, Change, Alive
  <1>2. \A e : Genuine(e) => Genuine(e)'
    BY BornStays DEF Turns
  <1>3. \A e \in commentServer' : Genuine(e)' /\ (e.parent = 0 \/ e.parent \in Alive')
    BY <1>1, <1>2, ServerEntry
  <1>4. ASSUME NEW k \in DOMAIN commentChannel' PROVE Genuine(commentChannel[k].e)'
    <2> PICK n : n = Len(commentChannel) + 1
      OBVIOUS
    <2>1. /\ \A j \in DOMAIN commentChannel : commentChannel'[j] = commentChannel[j]
          /\ hears => commentChannel'[n] = ev
          /\ k \in DOMAIN commentChannel \/ (hears /\ k = n)
      BY <1>4, ChannelGrows DEF Turns
    <2>2. ASSUME k \in DOMAIN commentChannel PROVE Genuine(commentChannel[k].e)
      BY <2>2 DEF RecordTrue
    <2>3. ASSUME k \in DOMAIN commentChannel PROVE Genuine(commentChannel[k].e)'
      <3> PICK v : v = commentChannel[k].e
        OBVIOUS
      <3>1. Genuine(v)' /\ commentChannel'[k].e = v
        BY <1>2, <2>1, <2>2, <2>3
      <3> QED BY <3>1 DEF Genuine
    <2>4. ASSUME hears /\ k = n PROVE Genuine(commentChannel[k].e)'
      BY <2>1, <2>4 DEF Genuine
    <2> QED BY <2>1, <2>3, <2>4
  <1> QED BY <1>3, <1>4 DEF RecordTrue

LEMMA MakesTurns ==
  ASSUME TimelineInv, RecordTrue, NEW p \in {0} \cup IdsOf(commentServer), NEW m \in BOOLEAN,
         NEW e, e = NewComment(p, m), Makes(e), UNCHANGED <<timeline, hears, commentStrayed>>,
         NEW ev, ev = [kind |-> "created", e |-> e]
  PROVE  /\ \E S : Turns(S, ev)
         /\ TurnTold(ev) /\ RecordTrue' /\ e \in commentServer' /\ e.mine = m
         /\ \A n : NewsTrue(ev, n)'
  <1> PICK S : S = commentServer \cup {e}
    OBVIOUS
  <1> PICK n \in Nat : n = Len(commentsMade)
    BY MadeTyped
  <1>1. n < MaxComments /\ commentsMade' = Append(commentsMade, e) /\ Change(S, ev)
    BY DEF Makes
  <1>2. e \in Entry
    BY MadeTrue DEF TimelineInv
  <1>3. e.id = n + 1 /\ e.parent = p /\ e.text = "first" /\ e.mine = m
    BY DEF NewComment
  <1>4. ev \in CommentEvent /\ ev.kind = "created" /\ ev.e = e
    BY <1>2 DEF CommentEvent
  <1>5. Turns(S, ev)
    BY <1>1, <1>3, <1>4 DEF Turns
  <1>6. /\ DOMAIN commentsMade = 1..n /\ DOMAIN commentsMade' = 1..(n + 1)
        /\ commentsMade'[n + 1] = e /\ \A k \in 1..n : commentsMade'[k] = commentsMade[k]
    BY <1>1, <1>2, MadeTyped DEF TimelineInv, CommentsTrue
  <1>7. Genuine(e)'
    BY <1>3, <1>6 DEF Genuine
  <1>8. commentServer' = S /\ Alive' = Alive \cup {n + 1}
    BY <1>1, <1>3 DEF Change, Alive, IdsOf
  <1>9. p \in 0..n
    <2>1. ASSUME p # 0 PROVE p \in 1..n
      <3>1. PICK x \in commentServer : x.id = p
        BY <2>1 DEF IdsOf
      <3> QED BY <1>6, <3>1, ServerEntry, GenuineIs
    <2> QED BY <2>1
  <1>10. TurnTold(ev)
    <2>1. \A x \in DOMAIN commentsMade : x # n + 1
      BY <1>6
    <2> QED BY <1>3, <1>4, <1>8, <2>1 DEF TurnTold
  <1>11. RecordTrue'
    <2>1. ASSUME NEW k \in DOMAIN commentsMade'
          PROVE  commentsMade'[k].id = k /\ commentsMade'[k].text = "first" /\ commentsMade'[k].parent \in 0..(k - 1)
      <3>1. CASE k = n + 1
        BY <1>3, <1>6, <1>9, <3>1
      <3>2. CASE k \in 1..n
        BY <1>6, <3>2 DEF RecordTrue
      <3> QED BY <1>6, <2>1, <3>1, <3>2
    <2>2. \A x \in S : (x \in commentServer \/ Genuine(x)') /\ (x.parent = 0 \/ x.parent \in IdsOf(S))
      <3>1. \A x \in commentServer : x.id \in IdsOf(S)
        BY DEF IdsOf
      <3>2. p = 0 \/ p \in IdsOf(S)
        BY DEF IdsOf
      <3>3. \A x \in commentServer : x.parent = 0 \/ x.parent \in IdsOf(S)
        BY <3>1, ServerEntry, AliveIs
      <3> QED BY <1>3, <1>7, <3>2, <3>3
    <2>3. Genuine(ev.e)'
      BY <1>4, <1>7 DEF Genuine
    <2> QED BY <1>5, <2>1, <2>2, <2>3, RecordKept
  <1>12. Rewritten(e) \notin commentServer'
    <2>1. Rewritten(e) # e /\ Rewritten(e).id = n + 1
      BY <1>2, <1>3, Rewriting
    <2>2. \A x \in commentServer : x.id # n + 1
      BY <1>6, ServerEntry, GenuineIs
    <2> QED BY <1>8, <2>1, <2>2
  <1>13. \A k : NewsTrue(ev, k)'
    BY <1>3, <1>4, <1>6, <1>8, <1>12 DEF NewsTrue
  <1> QED BY <1>3, <1>5, <1>8, <1>10, <1>11, <1>13

LEMMA EditsTurns ==
  ASSUME TimelineInv, RecordTrue, NEW e \in commentServer, Edits(e), UNCHANGED <<timeline, hears, commentStrayed>>,
         NEW ev, ev = [kind |-> "updated", e |-> Rewritten(e)]
  PROVE  /\ \E S : Turns(S, ev)
         /\ TurnTold(ev) /\ RecordTrue' /\ Rewritten(e) \in commentServer'
         /\ \A n : NewsTrue(ev, n)'
  <1> PICK d : d = Rewritten(e)
    OBVIOUS
  <1> PICK S : S = (commentServer \ {e}) \cup {d}
    OBVIOUS
  <1>1. e \in Entry /\ Genuine(e) /\ d \in Entry /\ d.id = e.id /\ d.parent = e.parent /\ d.mine = e.mine
        /\ d.text = "edited" /\ (e.text # "first" => d = e) /\ Genuine(d)
    BY ServerEntry, GenuineIs, Rewriting, EntryFields DEF Texts
  <1>2. commentsMade' = commentsMade /\ Change(S, ev)
    BY DEF Edits, Rewritten
  <1>3. ev \in CommentEvent /\ ev.kind = "updated" /\ ev.e = d
    BY <1>1 DEF CommentEvent
  <1>4. Turns(S, ev)
    BY <1>2, <1>3 DEF Turns
  <1>5. commentServer' = S
    BY <1>2 DEF Change
  <1>6. Alive' = Alive /\ IdsOf(S) = Alive
    BY <1>1, <1>5 DEF Alive, IdsOf
  <1>7. TurnTold(ev)
    BY <1>1, <1>3, <1>5, <1>6 DEF TurnTold
  <1>8. Genuine(d)' /\ Genuine(ev.e)'
    BY <1>1, <1>2, <1>3 DEF Genuine
  <1>9. RecordTrue'
    <2>1. \A k \in DOMAIN commentsMade' : /\ commentsMade'[k].id = k /\ commentsMade'[k].text = "first"
                                          /\ commentsMade'[k].parent \in 0..(k - 1)
      BY <1>2 DEF RecordTrue
    <2>2. \A x \in S : (x \in commentServer \/ Genuine(x)') /\ (x.parent = 0 \/ x.parent \in IdsOf(S))
      BY <1>1, <1>6, <1>8, ServerEntry
    <2> QED BY <1>4, <1>8, <2>1, <2>2, RecordKept
  <1>10. \A n : NewsTrue(ev, n)'
    BY <1>1, <1>3, <1>5 DEF NewsTrue
  <1> QED BY <1>4, <1>5, <1>7, <1>9, <1>10

LEMMA DeletesTurns ==
  ASSUME TimelineInv, RecordTrue, NEW e \in commentServer, Deletes(e), UNCHANGED <<timeline, hears, commentStrayed>>,
         NEW ev, ev = [kind |-> "deleted", e |-> e]
  PROVE  /\ \E S : Turns(S, ev)
         /\ TurnTold(ev) /\ RecordTrue' /\ e.id \in DOMAIN commentsMade' \ Alive'
         /\ \A n : NewsTrue(ev, n)'
  <1> PICK H : H = Thread(commentServer, e.id)
    OBVIOUS
  <1> DEFINE Rest == {x \in commentServer : x.id \notin H}
  <1>1. commentsMade' = commentsMade /\ Change(Rest, ev)
    BY DEF Deletes
  <1>2. \A x : x \in Rest <=> x \in commentServer /\ x.id \notin H
    OBVIOUS
  <1>3. ev \in CommentEvent /\ ev.kind = "deleted" /\ ev.e = e
    BY ServerEntry DEF CommentEvent
  <1>4. Turns(Rest, ev) /\ commentServer' = Rest
    BY <1>1, <1>3 DEF Turns, Change
  <1> HIDE DEF Rest
  <1>5. e.id \in H /\ \A x \in commentServer : x.parent \in H => x.id \in H
    BY ThreadFacts
  <1>6. \A i : i \in Alive' <=> i \in Alive /\ i \notin H
    BY <1>2, <1>4 DEF Alive, IdsOf
  <1>7. \A i \in Alive : i \in H <=> i \in Below(e.id)'
    <2>1. e.id \in CommentIds /\ Below(e.id)' = Below(e.id)
      BY <1>1, ServerEntry, GenuineIs DEF Below, Born
    <2> QED BY <2>1, ServerThread
  <1>8. TurnTold(ev)
    <2>1. \A x \in commentServer : x \in commentServer' \/ x.id \notin Alive'
      BY <1>2, <1>4, <1>6
    <2> QED BY <1>2, <1>3, <1>4, <1>6, <1>7, <2>1 DEF TurnTold
  <1>9. Genuine(ev.e)'
    BY <1>1, <1>3, ServerEntry DEF Genuine
  <1>10. RecordTrue'
    <2>1. \A k \in DOMAIN commentsMade' : /\ commentsMade'[k].id = k /\ commentsMade'[k].text = "first"
                                          /\ commentsMade'[k].parent \in 0..(k - 1)
      BY <1>1 DEF RecordTrue
    <2>2. \A x \in Rest : x.parent = 0 \/ x.parent \in IdsOf(Rest)
      <3>1. \A i \in Alive : i \notin H => i \in IdsOf(Rest)
        BY <1>2, AliveIs DEF IdsOf
      <3> QED BY <1>2, <1>5, <3>1, ServerEntry
    <2>3. \A x \in Rest : (x \in commentServer \/ Genuine(x)') /\ (x.parent = 0 \/ x.parent \in IdsOf(Rest))
      BY <1>2, <2>2
    <2> QED BY <1>4, <1>9, <2>1, <2>3, RecordKept
  <1>11. e.id \in DOMAIN commentsMade' \ Alive'
    BY <1>1, <1>5, <1>6, ServerEntry, GenuineIs
  <1>12. \A n : NewsTrue(ev, n)'
    BY <1>3, <1>11 DEF NewsTrue
  <1> QED BY <1>4, <1>8, <1>10, <1>11, <1>12

-----------------------------------------------------------------------------
(* Requests and answers *)

LEMMA CallFields ==
  ASSUME TimelineInv, NEW c \in calls
  PROVE  /\ c \in CommentRequest /\ c.op \in {"fetch", "create", "edit", "delete"}
         /\ c.st \in {"sent", "done", "failed"} /\ c.old \in BOOLEAN
         /\ c.list \in Seq(Entry) /\ c.kept \in Seq(Entry)
         /\ c.st = "done" /\ c.op \in {"create", "edit"} => c.list[1] \in Entry
  BY DEF TimelineInv, PageTrue, AnswersCarry, CommentRequest

\* An answer keeps what was asked; one that was carried out and not answered is
\* outdated.
LEMMA AnswerIs ==
  ASSUME NEW c \in CommentRequest, NEW st \in {"done", "failed"}, NEW list
  PROVE  /\ CommentAnswered(c, st, list).op = c.op /\ CommentAnswered(c, st, list).id = c.id
         /\ CommentAnswered(c, st, list).st = st
         /\ st = "done" => CommentAnswered(c, st, list).list = list
         /\ st = "failed" => CommentAnswered(c, st, list).old
  <1> PICK a : a = CommentAnswered(c, st, list)
    OBVIOUS
  <1>1. CASE st = "done"
    <2>1. a = [c EXCEPT !.st = st, !.list = list, !.kept = <<>>]
      BY <1>1 DEF CommentAnswered
    <2> QED BY <1>1, <2>1 DEF CommentRequest
  <1>2. CASE st = "failed"
    <2>1. a = [c EXCEPT !.st = st, !.old = TRUE]
      BY <1>2 DEF CommentAnswered
    <2> QED BY <1>2, <2>1 DEF CommentRequest
  <1> QED BY <1>1, <1>2

LEMMA OutdatedIs ==
  ASSUME NEW C \in SUBSET CommentRequest
  PROVE  /\ \A x \in CommentOutdated(C) : \E c \in C :
              /\ x.op = c.op /\ x.id = c.id /\ x.st = c.st /\ x.list = c.list
              /\ IF c.st = "done" THEN x.old = TRUE ELSE x = c
         /\ \A c \in C : \E x \in CommentOutdated(C) :
              /\ x.op = c.op /\ x.id = c.id /\ x.st = c.st /\ x.list = c.list
              /\ IF c.st = "done" THEN x.old = TRUE ELSE x = c
  <1> DEFINE Late(c) == IF c.st = "done" THEN [c EXCEPT !.old = TRUE] ELSE c
             Same(x, c) == /\ x.op = c.op /\ x.id = c.id /\ x.st = c.st /\ x.list = c.list
                           /\ IF c.st = "done" THEN x.old = TRUE ELSE x = c
  <1>1. ASSUME NEW c \in C PROVE Same(Late(c), c)
    <2>1. c \in CommentRequest
      OBVIOUS
    <2>2. CASE c.st = "done"
      BY <2>1, <2>2 DEF CommentRequest
    <2>3. CASE c.st # "done"
      BY <2>3
    <2> QED BY <2>2, <2>3
  <1>2. \A x : x \in CommentOutdated(C) <=> \E c \in C : x = Late(c)
    BY DEF CommentOutdated
  <1> HIDE DEF Late, Same
  <1>3. \A x \in CommentOutdated(C) : \E c \in C : Same(x, c)
    BY <1>1, <1>2
  <1>4. \A c \in C : \E x \in CommentOutdated(C) : Same(x, c)
    BY <1>1, <1>2
  <1> QED BY <1>3, <1>4 DEF Same

\* What was asked before a change: the answers under way are overtaken.
LEMMA OvertakenTrue ==
  ASSUME TimelineInv, RecordTrue, RequestsTrue, NEW S, NEW ev, Turns(S, ev), TurnTold(ev), NEW C \in SUBSET calls
  PROVE  \A x \in CommentOutdated(C) : RequestTrue(x)'
  <1> TAKE x \in CommentOutdated(C)
  <1>1. C \in SUBSET CommentRequest
    BY DEF TimelineInv, PageTrue
  <1>2. PICK c \in C : /\ x.op = c.op /\ x.id = c.id /\ x.st = c.st /\ x.list = c.list
                       /\ IF c.st = "done" THEN x.old = TRUE ELSE x = c
    BY <1>1, OutdatedIs
  <1>3. RequestTrue(c)
    BY DEF RequestsTrue
  <1>4. \A i \in DOMAIN commentsMade \ Alive : i \in DOMAIN commentsMade' \ Alive'
    BY BornStays DEF Turns, TurnTold
  <1>5. x.st = "sent" => ~x.old
    BY <1>2, <1>3 DEF RequestTrue
  <1>6. x.st = "done" => x.old
    BY <1>2
  <1>7. x.st = "done" /\ x.op = "edit" => x.list[1].id = x.id
    BY <1>2, <1>3 DEF RequestTrue
  <1>8. x.st = "done" /\ x.op = "delete" => x.id \in DOMAIN commentsMade' \ Alive'
    BY <1>2, <1>3, <1>4 DEF RequestTrue
  <1> QED BY <1>5, <1>6, <1>7, <1>8 DEF RequestTrue

LEMMA OvertakenGoOn ==
  ASSUME TimelineInv, NEW C \in SUBSET calls, CommentOutdated(C) \subseteq calls'
  PROVE  /\ \A c \in C : Spoils(c) => Pends'
         /\ \A c \in C : c.op \in {"edit", "delete"} => \E d \in calls' : d.op = c.op /\ d.id = c.id
         /\ ~Pends' => \A c \in C : \A x : ~Made(c, x)
  <1>1. C \in SUBSET CommentRequest
    BY DEF TimelineInv, PageTrue
  <1>2. ASSUME NEW c \in C
        PROVE  \E x \in calls' : /\ x.op = c.op /\ x.id = c.id /\ x.st = c.st
                                 /\ IF c.st = "done" THEN x.old = TRUE ELSE x = c
    BY <1>1, OutdatedIs
  <1>3. ASSUME NEW c \in C, Spoils(c) PROVE Pends'
    <2> PICK x \in calls' : /\ x.op = c.op /\ x.id = c.id /\ x.st = c.st
                            /\ IF c.st = "done" THEN x.old = TRUE ELSE x = c
      BY <1>2
    <2>1. Spoils(x)
      <3>1. CASE c.st = "done"
        BY <1>3, <3>1 DEF Spoils
      <3>2. CASE c.st # "done"
        BY <1>3, <3>2
      <3> QED BY <3>1, <3>2
    <2> QED BY <2>1 DEF Pends, Spoils
  <1>4. ASSUME NEW c \in C, NEW x, Made(c, x) PROVE Pends'
    BY <1>2, <1>4 DEF Pends, Spoils, Made
  <1> QED BY <1>2, <1>3, <1>4

\* A change by somebody else.
LEMMA ThreadOthers == ASSUME ThreadInv, OthersChange PROVE ThreadInv'
  <1>1. TimelineInv /\ RecordTrue /\ AllNewsTrue /\ RequestsTrue /\ Follows
    BY DEF ThreadInv
  <1>2. UNCHANGED <<timeline, hears, commentStrayed>> /\ calls' = CommentOutdated(calls)
    BY DEF OthersChange
  <1>3. PICK S, ev : /\ Turns(S, ev) /\ TurnTold(ev) /\ RecordTrue' /\ (\A n : NewsTrue(ev, n)')
                     /\ (ev.kind = "created" => ~ev.e.mine)
    <2>1. CASE \E p \in {0} \cup IdsOf(commentServer) : Makes(NewComment(p, FALSE))
      <3> PICK p \in {0} \cup IdsOf(commentServer) : Makes(NewComment(p, FALSE))
        BY <2>1
      <3> PICK e : e = NewComment(p, FALSE)
        OBVIOUS
      <3> PICK ev : ev = [kind |-> "created", e |-> e]
        OBVIOUS
      <3>1. Makes(e) /\ FALSE \in BOOLEAN /\ ev.e = e
        OBVIOUS
      <3>2. (\E S : Turns(S, ev)) /\ TurnTold(ev) /\ RecordTrue' /\ e.mine = FALSE /\ \A n : NewsTrue(ev, n)'
        BY <1>1, <1>2, <3>1, MakesTurns
      <3> QED BY <3>1, <3>2
    <2>2. CASE \E e \in commentServer : Edits(e)
      <3> PICK e \in commentServer : Edits(e)
        BY <2>2
      <3> PICK ev : ev = [kind |-> "updated", e |-> Rewritten(e)]
        OBVIOUS
      <3>1. (\E S : Turns(S, ev)) /\ TurnTold(ev) /\ RecordTrue' /\ \A n : NewsTrue(ev, n)'
        BY <1>1, <1>2, EditsTurns
      <3> QED BY <3>1
    <2>3. CASE \E e \in commentServer : Deletes(e)
      <3> PICK e \in commentServer : Deletes(e)
        BY <2>3
      <3> PICK ev : ev = [kind |-> "deleted", e |-> e]
        OBVIOUS
      <3>1. (\E S : Turns(S, ev)) /\ TurnTold(ev) /\ RecordTrue' /\ \A n : NewsTrue(ev, n)'
        BY <1>1, <1>2, DeletesTurns
      <3> QED BY <3>1
    <2> QED BY <2>1, <2>2, <2>3 DEF OthersChange
  <1>4. TimelineInv'
    BY <1>1, TimelineOthersStep
  <1>5. AllNewsTrue'
    BY <1>1, <1>3, NewsStay
  <1>6. RequestsTrue'
    BY <1>1, <1>2, <1>3, OvertakenTrue DEF RequestsTrue
  <1>7. GoesOn /\ (~Pends' => \A c \in calls : \A x : ~Made(c, x))
    BY <1>1, <1>2, OvertakenGoOn DEF GoesOn, Pends
  <1>8. Follows'
    BY <1>1, <1>3, <1>7, TurnFollows
  <1> QED BY <1>3, <1>4, <1>5, <1>6, <1>8 DEF ThreadInv

\* A change that a request of the user's asked for, with its answer.
LEMMA ServedChange ==
  ASSUME ThreadInv, NEW c \in calls, c.st = "sent", c.op # "fetch",
         NEW a, a.op = c.op, a.id = c.id, RequestTrue(a)', a.st # "done" => a.old,
         calls' = CommentOutdated(calls \ {c}) \cup {a}, TimelineInv',
         NEW S, NEW ev, Turns(S, ev), TurnTold(ev), RecordTrue', \A n : NewsTrue(ev, n)',
         ev.kind = "created" => c.op = "create" /\ (Made(a, ev.e.id) \/ a.old)
  PROVE  ThreadInv'
  <1>1. TimelineInv /\ RecordTrue /\ AllNewsTrue /\ RequestsTrue /\ Follows
    BY DEF ThreadInv
  <1> PICK C \in SUBSET calls : C = calls \ {c}
    OBVIOUS
  <1>2. calls' = CommentOutdated(C) \cup {a} /\ CommentOutdated(C) \subseteq calls' /\ a \in calls'
    OBVIOUS
  <1>3. AllNewsTrue'
    BY <1>1, NewsStay
  <1>4. RequestsTrue'
    BY <1>1, <1>2, OvertakenTrue DEF RequestsTrue
  <1>5. ~Spoils(c) /\ \A x : ~Made(c, x)
    BY <1>1 DEF Spoils, Made, RequestsTrue, RequestTrue
  <1>6. /\ \A d \in C : Spoils(d) => Pends'
        /\ \A d \in C : d.op \in {"edit", "delete"} => \E x \in calls' : x.op = d.op /\ x.id = d.id
        /\ ~Pends' => \A d \in C : \A x : ~Made(d, x)
    BY <1>1, <1>2, OvertakenGoOn
  <1>7. GoesOn /\ (~Pends' => \A d \in calls : \A x : ~Made(d, x))
    BY <1>2, <1>5, <1>6 DEF GoesOn, Pends
  <1>8. ~Pends' /\ ev.kind = "created" => \E d \in calls' : Made(d, ev.e.id)
    <2>1. ASSUME a.old, a.op = "create" PROVE Pends'
      BY <1>2, <2>1 DEF Pends, Spoils
    <2> QED BY <1>2, <2>1
  <1>9. Follows'
    BY <1>1, <1>7, <1>8, TurnFollows
  <1> QED BY <1>3, <1>4, <1>9 DEF ThreadInv

LEMMA SameRecord ==
  ASSUME RecordTrue, AllNewsTrue, UNCHANGED <<commentServer, commentsMade, commentChannel, hears>>
  PROVE  RecordTrue' /\ AllNewsTrue'
  <1>1. /\ Alive' = Alive
        /\ \A n : \A x : GoesAfter(n, x)' <=> GoesAfter(n, x)
        /\ \A n : \A x : EditedAfter(n, x)' <=> EditedAfter(n, x)
        /\ \A e : Genuine(e)' <=> Genuine(e)
    BY DEF Alive, GoesAfter, EditedAfter, Announces, Below, Born, Genuine
  <1>2. \A v, k : NewsTrue(v, k) => NewsTrue(v, k)'
    BY <1>1 DEF NewsTrue
  <1>3. AllNewsTrue'
    BY <1>2 DEF AllNewsTrue
  <1>4. \A k \in DOMAIN commentChannel : Genuine(commentChannel[k].e)'
    <2> TAKE k \in DOMAIN commentChannel
    <2> PICK v : v = commentChannel[k].e
      OBVIOUS
    <2>1. Genuine(v)' /\ commentChannel'[k].e = v
      BY <1>1 DEF RecordTrue
    <2> QED BY <2>1 DEF Genuine
  <1> QED BY <1>1, <1>3, <1>4 DEF RecordTrue

LEMMA SameWords ==
  ASSUME UNCHANGED <<commentServer, commentsMade, commentChannel>>
  PROVE  /\ Alive' = Alive
         /\ \A n : \A x : GoesAfter(n, x) => GoesAfter(n, x)'
         /\ \A n : \A x : EditedAfter(n, x) => EditedAfter(n, x)'
         /\ \A i : Below(i)' = Below(i)
         /\ \A k, kind, id : Announces(k, kind, id)' <=> Announces(k, kind, id)
         /\ \A e : Genuine(e)' <=> Genuine(e)
  BY DEF Alive, GoesAfter, EditedAfter, Announces, Below, Born, Genuine

\* Nothing changes but the requests, and none that the page waits for is lost.
LEMMA SamePage ==
  ASSUME Follows, UNCHANGED <<commentServer, commentsMade, timeline, commentChannel, hears, commentStrayed>>,
         GoesOn, \A d \in calls : \A x : Made(d, x) => d \in calls'
  PROVE  Follows'
  <1> SUFFICES ASSUME hears, ~commentStrayed, ~Pends' PROVE PageFollows'
    BY DEF Follows
  <1>1. PageFollows
    BY DEF Follows, GoesOn
  <1>2. /\ OnPage' = OnPage /\ Alive' = Alive
        /\ \A n : \A x : GoesAfter(n, x) => GoesAfter(n, x)'
        /\ \A n : \A x : EditedAfter(n, x) => EditedAfter(n, x)'
        /\ \A i : Below(i)' = Below(i)
        /\ \A k, kind, id : Announces(k, kind, id)' <=> Announces(k, kind, id)
        /\ \A e : Genuine(e)' <=> Genuine(e)
    <2>1. OnPage' = OnPage
      BY DEF OnPage
    <2> QED BY <2>1, SameWords
  <1>3. ASSUME NEW e \in commentServer PROVE Comes(e)'
    <2>1. Comes(e)
      BY <1>1 DEF PageFollows
    <2>2. \A c \in calls : Made(c, e.id) => \E d \in calls' : Made(d, e.id)
      OBVIOUS
    <2> QED BY <1>2, <2>1, <2>2 DEF Comes, GoesOn
  <1>4. ASSUME NEW e \in Entries(timeline)
        PROVE  Genuine(e)' /\ IF e.id \in Alive' THEN Agrees(e)' ELSE GoesAway(e.id)'
    <2>1. Genuine(e) /\ IF e.id \in Alive THEN Agrees(e) ELSE GoesAway(e.id)
      BY <1>1 DEF PageFollows
    <2>2. Agrees(e) => Agrees(e)'
      BY <1>2 DEF Agrees, GoesOn
    <2>3. GoesAway(e.id) => GoesAway(e.id)'
      BY <1>2 DEF GoesAway
    <2> QED BY <1>2, <2>1, <2>2, <2>3
  <1> QED BY <1>1, <1>3, <1>4 DEF PageFollows

LEMMA ThreadServe == ASSUME ThreadInv, ServeComment PROVE ThreadInv'
  <1>1. TimelineInv /\ RecordTrue /\ AllNewsTrue /\ RequestsTrue /\ Follows
    BY DEF ThreadInv
  <1>2. TimelineInv'
    BY <1>1, TimelineServeStep
  <1>3. PICK c \in calls, st \in {"done", "failed"} :
    /\ c.st = "sent"
    /\ \/ /\ c.op = "fetch"
          /\ calls' = (calls \ {c}) \cup {CommentAnswered(c, st, ServerOrder)}
          /\ UNCHANGED <<commentServer, commentsMade, commentChannel>>
       \/ /\ c.op = "create" /\ c.id \in {0} \cup IdsOf(commentServer)
          /\ Makes(NewComment(c.id, TRUE))
          /\ calls' = CommentOutdated(calls \ {c}) \cup
                        {CommentAnswered(c, st, <<NewComment(c.id, TRUE)>>)}
       \/ \E e \in commentServer :
            /\ e.id = c.id
            /\ \/ /\ c.op = "edit" /\ Edits(e)
                  /\ calls' = CommentOutdated(calls \ {c}) \cup
                                {CommentAnswered(c, st, <<[e EXCEPT !.text = "edited"]>>)}
               \/ /\ c.op = "delete" /\ Deletes(e)
                  /\ calls' = CommentOutdated(calls \ {c}) \cup {CommentAnswered(c, st, <<>>)}
       \/ /\ c.op # "fetch"
          /\ calls' = (calls \ {c}) \cup {[c EXCEPT !.st = "failed"]}
          /\ UNCHANGED <<commentServer, commentsMade, commentChannel>>
    /\ UNCHANGED <<timeline, hears, commentStrayed>>
    BY DEF ServeComment
  <1>4. c \in CommentRequest /\ c.st = "sent" /\ c.old = FALSE /\ UNCHANGED <<timeline, hears, commentStrayed>>
    BY <1>1, <1>3, CallFields DEF RequestsTrue, RequestTrue
  <1>10. \A list, a : a = CommentAnswered(c, st, list) =>
           a.op = c.op /\ a.id = c.id /\ a.st = st /\ (st = "done" => a.list = list) /\ (st = "failed" => a.old)
    <2> SUFFICES ASSUME NEW list, NEW a, a = CommentAnswered(c, st, list)
        PROVE a.op = c.op /\ a.id = c.id /\ a.st = st /\ (st = "done" => a.list = list) /\ (st = "failed" => a.old)
      OBVIOUS
    <2>1. c \in CommentRequest
      BY <1>4
    <2> QED BY <2>1, AnswerIs
  <1>5. CASE c.op = "fetch" /\ calls' = (calls \ {c}) \cup {CommentAnswered(c, st, ServerOrder)}
             /\ UNCHANGED <<commentServer, commentsMade, commentChannel>>
    <2> PICK list : list = ServerOrder
      OBVIOUS
    <2> PICK a : a = CommentAnswered(c, st, list)
      OBVIOUS
    <2>1. a.op = "fetch" /\ a.st = st /\ (st = "done" => a.list = list)
      BY <1>5, <1>10
    <2>2. ServerOrder' = list /\ Alive' = Alive
      BY <1>5 DEF ServerOrder, Alive
    <2>3. RequestTrue(a)'
      BY <2>1, <2>2 DEF RequestTrue
    <2>4. \A x \in calls : RequestTrue(x)'
      BY <1>1, <1>5, <2>2 DEF RequestsTrue, RequestTrue
    <2>5. calls' = (calls \ {c}) \cup {a}
      BY <1>5
    <2>6. RequestsTrue'
      BY <2>3, <2>4, <2>5 DEF RequestsTrue
    <2>7. Pends'
      BY <2>1, <2>5 DEF Pends, Spoils
    <2>8. RecordTrue' /\ AllNewsTrue'
      BY <1>1, <1>4, <1>5, SameRecord
    <2> QED BY <1>2, <2>6, <2>7, <2>8 DEF ThreadInv, Follows
  <1>6. CASE c.op = "create" /\ c.id \in {0} \cup IdsOf(commentServer) /\ Makes(NewComment(c.id, TRUE))
             /\ calls' = CommentOutdated(calls \ {c}) \cup {CommentAnswered(c, st, <<NewComment(c.id, TRUE)>>)}
    <2> PICK p \in {0} \cup IdsOf(commentServer) : p = c.id
      BY <1>6
    <2> PICK e : e = NewComment(p, TRUE)
      OBVIOUS
    <2> PICK ev : ev = [kind |-> "created", e |-> e]
      OBVIOUS
    <2>1. TRUE \in BOOLEAN /\ Makes(e) /\ ev.kind = "created" /\ ev.e = e
      BY <1>6
    <2>2. PICK S : Turns(S, ev)
      BY <1>1, <1>4, <2>1, MakesTurns
    <2>3. TurnTold(ev) /\ RecordTrue' /\ e \in commentServer' /\ \A n : NewsTrue(ev, n)'
      BY <1>1, <1>4, <2>1, MakesTurns
    <2> PICK list : list = <<e>>
      OBVIOUS
    <2> PICK a : a = CommentAnswered(c, st, list)
      OBVIOUS
    <2>4. a.op = c.op /\ a.id = c.id /\ a.st = st /\ (st = "done" => a.list = list) /\ (st = "failed" => a.old)
      BY <1>10
    <2>5. list[1] = e
      OBVIOUS
    <2>6. RequestTrue(a)'
      BY <1>6, <2>3, <2>4, <2>5 DEF RequestTrue
    <2>7. calls' = CommentOutdated(calls \ {c}) \cup {a}
      BY <1>6
    <2>8. Made(a, ev.e.id) \/ a.old
      BY <1>6, <2>1, <2>4, <2>5 DEF Made
    <2>9. a.st # "done" => a.old
      BY <2>4
    <2> QED BY <1>2, <1>4, <1>6, <2>2, <2>3, <2>4, <2>6, <2>7, <2>8, <2>9, ServedChange
  <1>7. ASSUME NEW e \in commentServer, e.id = c.id, c.op = "edit", Edits(e),
               calls' = CommentOutdated(calls \ {c}) \cup {CommentAnswered(c, st, <<[e EXCEPT !.text = "edited"]>>)}
        PROVE  ThreadInv'
    <2> PICK d : d = Rewritten(e)
      OBVIOUS
    <2> PICK ev : ev = [kind |-> "updated", e |-> Rewritten(e)]
      OBVIOUS
    <2>1. PICK S : Turns(S, ev)
      BY <1>1, <1>4, <1>7, EditsTurns
    <2>2. TurnTold(ev) /\ RecordTrue' /\ d \in commentServer' /\ \A n : NewsTrue(ev, n)'
      BY <1>1, <1>4, <1>7, EditsTurns
    <2>3. ev.kind = "updated" /\ d.id = c.id
      BY <1>1, <1>7, ServerEntry, Rewriting
    <2> PICK list : list = <<d>>
      OBVIOUS
    <2> PICK a : a = CommentAnswered(c, st, list)
      OBVIOUS
    <2>4. a.op = c.op /\ a.id = c.id /\ a.st = st /\ (st = "done" => a.list = list) /\ (st = "failed" => a.old)
      BY <1>10
    <2>5. list[1] = d
      OBVIOUS
    <2>6. RequestTrue(a)'
      BY <1>7, <2>2, <2>3, <2>4, <2>5 DEF RequestTrue
    <2>7. calls' = CommentOutdated(calls \ {c}) \cup {a}
      BY <1>7 DEF Rewritten
    <2>8. (a.st # "done" => a.old) /\ c.op # "fetch" /\ ev.kind # "created"
      BY <1>7, <2>3, <2>4
    <2> QED BY <1>2, <1>4, <2>1, <2>2, <2>4, <2>6, <2>7, <2>8, ServedChange
  <1>8. ASSUME NEW e \in commentServer, e.id = c.id, c.op = "delete", Deletes(e),
               calls' = CommentOutdated(calls \ {c}) \cup {CommentAnswered(c, st, <<>>)}
        PROVE  ThreadInv'
    <2> PICK ev : ev = [kind |-> "deleted", e |-> e]
      OBVIOUS
    <2>1. PICK S : Turns(S, ev)
      BY <1>1, <1>4, <1>8, DeletesTurns
    <2>2. TurnTold(ev) /\ RecordTrue' /\ c.id \in DOMAIN commentsMade' \ Alive' /\ \A n : NewsTrue(ev, n)'
      BY <1>1, <1>4, <1>8, DeletesTurns
    <2> PICK list : list = <<>>
      OBVIOUS
    <2> PICK a : a = CommentAnswered(c, st, list)
      OBVIOUS
    <2>4. a.op = c.op /\ a.id = c.id /\ a.st = st /\ (st = "done" => a.list = list) /\ (st = "failed" => a.old)
      BY <1>10
    <2>6. RequestTrue(a)'
      BY <1>8, <2>2, <2>4 DEF RequestTrue
    <2>7. calls' = CommentOutdated(calls \ {c}) \cup {a}
      BY <1>8
    <2>8. (a.st # "done" => a.old) /\ c.op # "fetch" /\ ev.kind # "created"
      BY <1>8, <2>4
    <2> QED BY <1>2, <1>4, <2>1, <2>2, <2>4, <2>6, <2>7, <2>8, ServedChange
  <1>9. CASE c.op # "fetch" /\ calls' = (calls \ {c}) \cup {[c EXCEPT !.st = "failed"]}
             /\ UNCHANGED <<commentServer, commentsMade, commentChannel>>
    <2> PICK a : a = [c EXCEPT !.st = "failed"]
      OBVIOUS
    <2>1. a.op = c.op /\ a.id = c.id /\ a.st = "failed" /\ calls' = (calls \ {c}) \cup {a}
      BY <1>4, <1>9 DEF CommentRequest
    <2>2. ServerOrder' = ServerOrder /\ Alive' = Alive
      BY <1>9 DEF ServerOrder, Alive
    <2>3. RequestTrue(a)'
      BY <2>1 DEF RequestTrue
    <2>4. \A x \in calls : RequestTrue(x)'
      BY <1>1, <1>9, <2>2 DEF RequestsTrue, RequestTrue
    <2>5. RequestsTrue'
      BY <2>1, <2>3, <2>4 DEF RequestsTrue
    <2>6. RecordTrue' /\ AllNewsTrue'
      BY <1>1, <1>4, <1>9, SameRecord
    <2>7. GoesOn /\ \A d \in calls : \A x : Made(d, x) => d \in calls'
      <3>1. ~Spoils(c) /\ \A x : ~Made(c, x)
        BY <1>3, <1>4, <1>9 DEF Spoils, Made
      <3>2. \A d \in calls : d = c \/ d \in calls'
        BY <2>1
      <3>3. \A d \in calls : Spoils(d) => d \in calls'
        BY <3>1, <3>2
      <3> QED BY <2>1, <3>1, <3>2, <3>3 DEF GoesOn, Pends, Spoils
    <2>8. Follows'
      BY <1>1, <1>4, <1>9, <2>7, SamePage
    <2> QED BY <1>2, <2>5, <2>6, <2>8 DEF ThreadInv
  <1> QED BY <1>3, <1>5, <1>6, <1>7, <1>8, <1>9

-----------------------------------------------------------------------------
(* The page hears of a change *)

\* The first event is taken; the others move up.
LEMMA ChannelShifts ==
  ASSUME TimelineInv, commentChannel # <<>>, commentChannel' = Tail(commentChannel), UNCHANGED <<commentServer, commentsMade>>,
         NEW v, v = Head(commentChannel)
  PROVE  /\ v \in CommentEvent /\ 1 \in DOMAIN commentChannel /\ v = commentChannel[1]
         /\ \A k \in DOMAIN commentChannel' : k + 1 \in DOMAIN commentChannel /\ commentChannel'[k] = commentChannel[k + 1]
         /\ \A k \in DOMAIN commentChannel : k = 1 \/ (k - 1 \in DOMAIN commentChannel' /\ commentChannel'[k - 1] = commentChannel[k])
         /\ DOMAIN commentChannel \subseteq Nat \ {0} /\ DOMAIN commentChannel' \subseteq Nat \ {0}
         /\ \A n \in Nat : \A x : GoesAfter(n + 1, x) => GoesAfter(n, x)'
         /\ \A n \in Nat : \A x : EditedAfter(n + 1, x) => EditedAfter(n, x)'
         /\ \A x : GoesAfter(0, x) => GoesAfter(0, x)' \/ (v.kind = "deleted" /\ x \in Below(v.e.id))
         /\ \A x : EditedAfter(0, x) => EditedAfter(0, x)' \/ (v.kind = "updated" /\ v.e.id = x)
         /\ \A x : GoesAfter(1, x) => GoesAfter(0, x)'
         /\ \A x : EditedAfter(1, x) => EditedAfter(0, x)'
  <1> PICK s : s = commentChannel
    OBVIOUS
  <1> PICK t : t = commentChannel'
    OBVIOUS
  <1>1. s \in Seq(CommentEvent) /\ s # <<>> /\ t = Tail(s) /\ v = Head(s)
    BY DEF TimelineInv, CommentsTrue
  <1>2. PICK n \in Nat : n = Len(s) - 1
    BY <1>1
  <1>3. DOMAIN s = 1..(n + 1) /\ DOMAIN t = 1..n /\ v = s[1] /\ v \in CommentEvent
    BY <1>1, <1>2
  <1>4. \A k \in 1..n : t[k] = s[k + 1]
    BY <1>1, <1>2
  <1>5. \A k \in DOMAIN t : k + 1 \in DOMAIN s /\ t[k] = s[k + 1]
    BY <1>3, <1>4
  <1>6. \A k \in DOMAIN s : k = 1 \/ (k - 1 \in DOMAIN t /\ t[k - 1] = s[k])
    <2> TAKE k \in DOMAIN s
    <2>1. ASSUME k # 1 PROVE k - 1 \in 1..n /\ (k - 1) + 1 = k
      BY <1>3, <2>1
    <2> QED BY <1>3, <1>4, <2>1
  <1>7. DOMAIN s \subseteq Nat \ {0} /\ DOMAIN t \subseteq Nat \ {0} /\ 1 \in DOMAIN s
    BY <1>3
  <1>8. \A i : Below(i)' = Below(i)
    BY DEF Below, Born
  <1>9. \A m \in Nat : \A k \in DOMAIN s : k > m + 1 => k # 1 /\ k - 1 > m
    BY <1>7
  <1>10. \A k \in DOMAIN s : k > 0 /\ (k # 1 => k - 1 > 0)
    BY <1>7
  <1>11. ASSUME NEW m \in Nat, NEW x, GoesAfter(m + 1, x) PROVE GoesAfter(m, x)'
    <2>1. PICK k \in DOMAIN s : k > m + 1 /\ s[k].kind = "deleted" /\ x \in Below(s[k].e.id)
      BY <1>11 DEF GoesAfter
    <2> PICK j : j = k - 1
      OBVIOUS
    <2>2. j \in DOMAIN t /\ t[j] = s[k] /\ j > m
      BY <1>6, <1>9, <2>1
    <2> QED BY <1>8, <2>1, <2>2 DEF GoesAfter
  <1>12. ASSUME NEW m \in Nat, NEW x, EditedAfter(m + 1, x) PROVE EditedAfter(m, x)'
    <2>1. PICK k \in DOMAIN s : k > m + 1 /\ s[k].kind = "updated" /\ s[k].e.id = x
      BY <1>12 DEF EditedAfter, Announces
    <2> PICK j : j = k - 1
      OBVIOUS
    <2>2. j \in DOMAIN t /\ t[j] = s[k] /\ j > m
      BY <1>6, <1>9, <2>1
    <2> QED BY <2>1, <2>2 DEF EditedAfter, Announces
  <1>13. 0 \in Nat /\ 0 + 1 = 1
    OBVIOUS
  <1>14. \A x : (GoesAfter(1, x) => GoesAfter(0, x)') /\ (EditedAfter(1, x) => EditedAfter(0, x)')
    BY <1>11, <1>12, <1>13
  <1>15. \A k \in DOMAIN s : k = 1 \/ k > 1
    BY <1>7
  <1>16. ASSUME NEW x, GoesAfter(0, x) PROVE GoesAfter(0, x)' \/ (v.kind = "deleted" /\ x \in Below(v.e.id))
    <2>1. PICK k \in DOMAIN s : k > 0 /\ s[k].kind = "deleted" /\ x \in Below(s[k].e.id)
      BY <1>16 DEF GoesAfter
    <2>2. CASE k = 1
      BY <1>3, <2>1, <2>2
    <2>3. CASE k > 1
      BY <1>14, <2>1, <2>3 DEF GoesAfter
    <2> QED BY <1>15, <2>2, <2>3
  <1>17. ASSUME NEW x, EditedAfter(0, x) PROVE EditedAfter(0, x)' \/ (v.kind = "updated" /\ v.e.id = x)
    <2>1. PICK k \in DOMAIN s : k > 0 /\ s[k].kind = "updated" /\ s[k].e.id = x
      BY <1>17 DEF EditedAfter, Announces
    <2>2. CASE k = 1
      BY <1>3, <2>1, <2>2
    <2>3. CASE k > 1
      BY <1>14, <2>1, <2>3 DEF EditedAfter, Announces
    <2> QED BY <1>15, <2>2, <2>3
  <1> QED BY <1>3, <1>5, <1>6, <1>7, <1>11, <1>12, <1>14, <1>16, <1>17

\* What is said by the events that are left is as true as it was.
LEMMA ShiftTrue ==
  ASSUME ThreadInv, commentChannel # <<>>, commentChannel' = Tail(commentChannel),
         UNCHANGED <<commentServer, commentsMade, hears, calls>>
  PROVE  RecordTrue' /\ AllNewsTrue' /\ RequestsTrue' /\ hears
  <1>1. TimelineInv /\ RecordTrue /\ AllNewsTrue /\ RequestsTrue
    BY DEF ThreadInv
  <1> PICK v : v = Head(commentChannel)
    OBVIOUS
  <1>2. /\ \A k \in DOMAIN commentChannel' : k + 1 \in DOMAIN commentChannel /\ commentChannel'[k] = commentChannel[k + 1]
        /\ DOMAIN commentChannel' \subseteq Nat \ {0}
        /\ \A n \in Nat : \A x : GoesAfter(n + 1, x) => GoesAfter(n, x)'
        /\ \A n \in Nat : \A x : EditedAfter(n + 1, x) => EditedAfter(n, x)'
    BY <1>1, ChannelShifts
  <1>3. Alive' = Alive /\ ServerOrder' = ServerOrder /\ \A e : Genuine(e)' <=> Genuine(e)
    BY DEF Alive, ServerOrder, Genuine
  <1>4. ASSUME NEW k \in DOMAIN commentChannel'
        PROVE  NewsTrue(commentChannel[k], k)' /\ Genuine(commentChannel[k].e)'
    <2> PICK w : w = commentChannel[k + 1]
      OBVIOUS
    <2>1. NewsTrue(w, k + 1) /\ Genuine(w.e) /\ commentChannel'[k] = w /\ k \in Nat
      BY <1>1, <1>2, <1>4 DEF AllNewsTrue, RecordTrue
    <2>2. NewsTrue(w, k)'
      BY <1>2, <1>3, <2>1 DEF NewsTrue
    <2>3. Genuine(w.e)'
      BY <1>3, <2>1
    <2> QED BY <2>1, <2>2, <2>3 DEF NewsTrue, Genuine
  <1>5. hears /\ hears'
    BY <1>1 DEF AllNewsTrue
  <1>6. RecordTrue'
    BY <1>1, <1>3, <1>4 DEF RecordTrue
  <1>7. RequestsTrue'
    BY <1>1, <1>3 DEF RequestsTrue, RequestTrue
  <1>8. AllNewsTrue'
    BY <1>4, <1>5 DEF AllNewsTrue
  <1> QED BY <1>5, <1>6, <1>7, <1>8

\* A comment that is gone, and that its event has not yet taken from the page.
LEMMA GoneStaysGone ==
  ASSUME TimelineInv, RecordTrue, commentChannel # <<>>, commentChannel' = Tail(commentChannel),
         UNCHANGED <<commentServer, commentsMade>>, NEW v, v = Head(commentChannel),
         v.kind = "deleted" => v.e.id \in DOMAIN commentsMade /\ v.e.id \notin Alive /\ v.e.id \notin OnPage',
         \A a \in OnPage' : a \in OnPage \/ a \in Alive \/ GoesAfter(0, a)',
         NEW x, GoesAway(x)
  PROVE  GoesAway(x)'
  <1>1. /\ \A y : GoesAfter(0, y) => GoesAfter(0, y)' \/ (v.kind = "deleted" /\ y \in Below(v.e.id))
        /\ \A i : Below(i)' = Below(i)
        /\ Alive' = Alive /\ DOMAIN commentsMade' = DOMAIN commentsMade
    <2>1. \A y : GoesAfter(0, y) => GoesAfter(0, y)' \/ (v.kind = "deleted" /\ y \in Below(v.e.id))
      BY ChannelShifts
    <2>2. (\A i : Below(i)' = Below(i)) /\ Alive' = Alive /\ DOMAIN commentsMade' = DOMAIN commentsMade
      BY DEF Below, Born, Alive
    <2> QED BY <2>1, <2>2
  <1>2. CASE GoesAfter(0, x)
    BY <1>1, <1>2 DEF GoesAway
  <1>3. ASSUME NEW a \in DOMAIN commentsMade, x \in Below(a), a \notin Alive, a \notin OnPage
        PROVE  GoesAway(x)'
    <2>1. CASE a \notin OnPage'
      BY <1>1, <1>3, <2>1 DEF GoesAway
    <2>2. CASE GoesAfter(0, a)'
      <3>1. PICK k \in DOMAIN commentChannel' : /\ k > 0 /\ commentChannel'[k].kind = "deleted"
                                                /\ a \in Below(commentChannel'[k].e.id)
        BY <1>1, <2>2 DEF GoesAfter
      <3>2. x \in Below(commentChannel'[k].e.id)
        BY <1>3, <3>1, BelowFacts
      <3> QED BY <1>1, <3>1, <3>2 DEF GoesAway, GoesAfter
    <2> QED BY <1>3, <2>1, <2>2
  <1> QED BY <1>2, <1>3 DEF GoesAway

\* The page after an event, from what the event did to the list.
LEMMA HeardPage ==
  ASSUME TimelineInv, RecordTrue, PageFollows, commentChannel # <<>>, commentChannel' = Tail(commentChannel),
         UNCHANGED <<commentServer, commentsMade, calls>>, NEW v, v = Head(commentChannel),
         OncePerId(timeline)',
         v.kind = "deleted" => v.e.id \in DOMAIN commentsMade /\ v.e.id \notin Alive /\ v.e.id \notin OnPage',
         \A a \in OnPage' : a \in OnPage \/ a \in Alive \/ GoesAfter(0, a)',
         \A a \in OnPage : a \in OnPage' \/ a \notin Alive,
         v.kind = "created" /\ ~v.e.mine => v.e.id \in OnPage',
         \A x \in Entries(timeline)' :
           \/ x \in Entries(timeline) /\ ~(v.kind = "updated" /\ v.e.id = x.id)
           \/ Genuine(x) /\ x.id \in OnPage /\ (x.id \in Alive => x \in commentServer)
           \/ Genuine(x) /\ (x.id \in Alive => Agrees(x)') /\ (x.id \notin Alive => GoesAfter(0, x.id)')
  PROVE  PageFollows'
  <1>1. /\ v \in CommentEvent /\ 1 \in DOMAIN commentChannel /\ v = commentChannel[1]
        /\ \A k \in DOMAIN commentChannel : k = 1 \/ (k - 1 \in DOMAIN commentChannel' /\ commentChannel'[k - 1] = commentChannel[k])
        /\ \A x : EditedAfter(0, x) => EditedAfter(0, x)' \/ (v.kind = "updated" /\ v.e.id = x)
    BY ChannelShifts
  <1>2. Alive' = Alive /\ (\A e : Genuine(e)' <=> Genuine(e)) /\ \A i : Below(i)' = Below(i)
    BY DEF Alive, Genuine, Below, Born
  <1>3. ASSUME NEW e \in commentServer PROVE Comes(e)'
    <2>1. Comes(e) /\ e.id \in Alive /\ Genuine(e)
      BY ServerEntry DEF PageFollows
    <2>2. CASE e.id \in OnPage
      BY <2>1, <2>2 DEF Comes
    <2>3. ASSUME ~e.mine, NEW k \in DOMAIN commentChannel, Announces(k, "created", e.id) PROVE Comes(e)'
      <3>1. CASE k = 1
        <4>1. v.kind = "created" /\ v.e.id = e.id /\ Genuine(v.e)
          BY <1>1, <2>3, <3>1 DEF Announces, RecordTrue
        <4>2. v.e.mine = e.mine
          BY <2>1, <4>1, GenuineIs
        <4>3. v.e.id \in OnPage'
          BY <2>3, <4>1, <4>2
        <4> QED BY <4>1, <4>3 DEF Comes
      <3>2. CASE k # 1
        <4>1. k - 1 \in DOMAIN commentChannel' /\ commentChannel'[k - 1] = commentChannel[k]
          BY <1>1, <3>2
        <4>2. Announces(k - 1, "created", e.id)'
          BY <2>3, <4>1 DEF Announces
        <4> QED BY <2>3, <4>1, <4>2 DEF Comes
      <3> QED BY <3>1, <3>2
    <2>4. (\E c \in calls : Made(c, e.id)) => Comes(e)'
      BY DEF Comes
    <2>5. (\E c \in calls : c.op = "delete" /\ e.id \in Below(c.id)) => Comes(e)'
      BY <1>2 DEF Comes
    <2> QED BY <2>1, <2>2, <2>3, <2>4, <2>5 DEF Comes
  <1>4. \A x : GoesAway(x) => GoesAway(x)'
    BY GoneStaysGone
  <1>5. \A y \in Entries(timeline) : Genuine(y) /\ IF y.id \in Alive THEN Agrees(y) ELSE GoesAway(y.id)
    BY DEF PageFollows
  <1>6. ASSUME NEW x \in Entries(timeline)'
        PROVE  Genuine(x)' /\ IF x.id \in Alive' THEN Agrees(x)' ELSE GoesAway(x.id)'
    <2>1. CASE x \in Entries(timeline) /\ ~(v.kind = "updated" /\ v.e.id = x.id)
      <3>1. Genuine(x) /\ IF x.id \in Alive THEN Agrees(x) ELSE GoesAway(x.id)
        BY <1>5, <2>1
      <3>2. Agrees(x) => Agrees(x)'
        BY <1>1, <2>1 DEF Agrees
      <3> QED BY <1>2, <1>4, <3>1, <3>2
    <2>2. CASE Genuine(x) /\ x.id \in OnPage /\ (x.id \in Alive => x \in commentServer)
      <3>1. PICK y \in Entries(timeline) : y.id = x.id
        BY <2>2 DEF OnPage, IdsOf
      <3>2. x.id \notin Alive => GoesAway(x.id)'
        BY <1>4, <1>5, <3>1
      <3>3. x.id \in Alive => Agrees(x)'
        BY <2>2 DEF Agrees
      <3> QED BY <1>2, <2>2, <3>2, <3>3
    <2>3. CASE Genuine(x) /\ (x.id \in Alive => Agrees(x)') /\ (x.id \notin Alive => GoesAfter(0, x.id)')
      BY <1>2, <2>3 DEF GoesAway
    <2> QED BY <2>1, <2>2, <2>3
  <1> QED BY <1>3, <1>6 DEF PageFollows

LEMMA ThreadHears == ASSUME ThreadInv, HandleCommentEvent PROVE ThreadInv'
  <1>1. TimelineInv /\ RecordTrue /\ AllNewsTrue /\ RequestsTrue /\ Follows
    BY DEF ThreadInv
  <1> PICK v : v = Head(commentChannel)
    OBVIOUS
  <1>2. /\ commentChannel # <<>> /\ commentChannel' = Tail(commentChannel)
        /\ timeline' = CASE v.kind = "created" -> IF v.e.mine THEN timeline ELSE Added(timeline, v.e)
                         [] v.kind = "updated" -> CommentReplaced(timeline, v.e)
                         [] v.kind = "deleted" -> Without(timeline, Thread(Entries(timeline), v.e.id))
        /\ UNCHANGED <<commentServer, commentsMade, hears, calls, commentStrayed>>
    BY DEF HandleCommentEvent
  <1>3. TimelineInv' /\ RecordTrue' /\ AllNewsTrue' /\ RequestsTrue' /\ hears
    BY <1>1, <1>2, TimelineEventStep, ShiftTrue
  <1> SUFFICES ASSUME ~commentStrayed', ~Pends' PROVE PageFollows'
    BY <1>3 DEF ThreadInv, Follows
  <1>4. PageFollows
    BY <1>1, <1>2, <1>3 DEF Follows, Pends
  <1>5. /\ v \in CommentEvent /\ 1 \in DOMAIN commentChannel /\ v = commentChannel[1]
        /\ \A x : GoesAfter(1, x) => GoesAfter(0, x)'
        /\ \A x : EditedAfter(1, x) => EditedAfter(0, x)'
    BY <1>1, <1>2, ChannelShifts
  <1>6. v.e \in Entry /\ Genuine(v.e) /\ NewsTrue(v, 1) /\ v.kind \in {"created", "updated", "deleted"}
        /\ v.e.id \in DOMAIN commentsMade /\ v.e.id \in CommentIds
    BY <1>1, <1>5, GenuineIs DEF CommentEvent, RecordTrue, AllNewsTrue
  <1>7. timeline \in Seq(Entry) /\ OncePerId(timeline)
    BY <1>1, <1>4 DEF TimelineInv, PageTrue, PageFollows
  <1>8. CASE v.kind = "created" /\ v.e.mine
    <2>1. timeline' = timeline /\ OnPage' = OnPage /\ v.kind # "updated" /\ v.kind # "deleted"
      BY <1>2, <1>8 DEF OnPage
    <2> QED BY <1>1, <1>2, <1>4, <1>7, <1>8, <2>1, HeardPage
  <1>9. CASE v.kind = "created" /\ ~v.e.mine
    <2>1. timeline' = Added(timeline, v.e) /\ v.kind # "updated" /\ v.kind # "deleted"
      BY <1>2, <1>9
    <2>2. /\ OnPage' = OnPage \cup {v.e.id}
          /\ \A x \in Entries(timeline)' : x \in Entries(timeline) \/ x = v.e
          /\ OncePerId(timeline)'
      BY <1>6, <1>7, <2>1, AddedIs DEF OnPage
    <2>3. v.e.id \in Alive \/ GoesAfter(0, v.e.id)'
      BY <1>5, <1>6, <1>9 DEF NewsTrue
    <2>4. v.e.id \in Alive => Agrees(v.e)'
      <3> SUFFICES ASSUME v.e.id \in Alive PROVE Agrees(v.e)'
        OBVIOUS
      <3>1. PICK f \in commentServer : f.id = v.e.id
        BY AliveIs
      <3>2. f = v.e \/ f = Rewritten(v.e)
        BY <1>1, <1>6, <1>9, <3>1, ServerEntry, GenuineIs DEF NewsTrue
      <3>3. CASE f = v.e
        BY <1>2, <3>3 DEF Agrees
      <3>4. CASE f = Rewritten(v.e)
        BY <1>5, <1>6, <1>9, <3>4 DEF NewsTrue, Agrees
      <3> QED BY <3>2, <3>3, <3>4
    <2>5. \A x \in Entries(timeline)' :
            \/ x \in Entries(timeline) /\ ~(v.kind = "updated" /\ v.e.id = x.id)
            \/ Genuine(x) /\ (x.id \in Alive => Agrees(x)') /\ (x.id \notin Alive => GoesAfter(0, x.id)')
      <3> TAKE x \in Entries(timeline)'
      <3>1. CASE x = v.e
        BY <1>6, <2>3, <2>4, <3>1 DEF Agrees, GoesAfter
      <3> QED BY <2>1, <2>2, <3>1
    <2>6. \A a \in OnPage' : a \in OnPage \/ a \in Alive \/ GoesAfter(0, a)'
      <3> TAKE a \in OnPage'
      <3>1. CASE a = v.e.id
        BY <2>3, <3>1 DEF GoesAfter
      <3> QED BY <2>2, <3>1
    <2> QED BY <1>1, <1>2, <1>4, <2>1, <2>2, <2>5, <2>6, HeardPage
  <1>10. CASE v.kind = "updated"
    <2>1. timeline' = CommentReplaced(timeline, v.e) /\ v.kind # "created" /\ v.kind # "deleted"
      BY <1>2, <1>10
    <2>2. /\ OnPage' = OnPage
          /\ \A x \in Entries(timeline)' : (x.id = v.e.id /\ x = v.e) \/ (x.id # v.e.id /\ x \in Entries(timeline))
          /\ \A x \in Entries(timeline)' : x.id \in OnPage'
          /\ OncePerId(timeline)'
      BY <1>6, <1>7, <2>1, ReplacedIs DEF OnPage, IdsOf
    <2>3. v.e.id \in Alive => v.e \in commentServer
      BY <1>6, <1>10 DEF NewsTrue
    <2>4. \A x \in Entries(timeline)' :
            \/ x \in Entries(timeline) /\ ~(v.kind = "updated" /\ v.e.id = x.id)
            \/ Genuine(x) /\ x.id \in OnPage /\ (x.id \in Alive => x \in commentServer)
      BY <1>6, <2>2, <2>3
    <2> QED BY <1>1, <1>2, <1>4, <2>1, <2>2, <2>4, HeardPage
  <1>11. CASE v.kind = "deleted"
    <2> PICK ids : ids = Thread(Entries(timeline), v.e.id)
      OBVIOUS
    <2>1. timeline' = Without(timeline, ids) /\ v.kind # "created" /\ v.kind # "updated"
      BY <1>2, <1>11
    <2>2. /\ \A x : x \in Entries(timeline)' <=> x \in Entries(timeline) /\ x.id \notin ids
          /\ \A i : i \in OnPage' <=> i \in OnPage /\ i \notin ids
          /\ OncePerId(timeline)'
      BY <1>7, <2>1, WithoutIs DEF OnPage
    <2>3. v.e.id \in ids /\ ids \subseteq Below(v.e.id) /\ v.e.id \notin Alive
      BY <1>1, <1>4, <1>6, <1>11, ThreadFacts, BelowFacts DEF PageFollows, NewsTrue
    <2>4. \A a \in ids : a \notin Alive
      BY <1>1, <1>6, <2>3, NoneBelowGone
    <2> QED BY <1>1, <1>2, <1>4, <1>6, <2>1, <2>2, <2>3, <2>4, HeardPage
  <1> QED BY <1>6, <1>8, <1>9, <1>10, <1>11

-----------------------------------------------------------------------------
(* The link, and what the user does *)

LEMMA ThreadLink == ASSUME ThreadInv, CommentLinkDrops \/ CommentReconnects PROVE ThreadInv'
  <1>1. TimelineInv /\ RecordTrue /\ AllNewsTrue /\ RequestsTrue /\ Follows
    BY DEF ThreadInv
  <1>2. TimelineInv'
    BY <1>1, TimelineLinkSteps
  <1>3. CASE CommentLinkDrops
    <2>1. hears' = FALSE /\ commentChannel' = <<>> /\ UNCHANGED <<commentServer, commentsMade, timeline, calls, commentStrayed>>
      BY <1>3 DEF CommentLinkDrops
    <2>2. DOMAIN commentChannel' = {}
      BY <2>1
    <2>3. AllNewsTrue' /\ Follows'
      BY <2>1, <2>2 DEF AllNewsTrue, Follows
    <2>4. Alive' = Alive /\ ServerOrder' = ServerOrder /\ \A e : Genuine(e)' <=> Genuine(e)
      BY <2>1 DEF Alive, ServerOrder, Genuine
    <2>5. RecordTrue'
      BY <1>1, <2>1, <2>2, <2>4 DEF RecordTrue
    <2>6. RequestsTrue'
      BY <1>1, <2>1, <2>4 DEF RequestsTrue, RequestTrue
    <2> QED BY <1>2, <2>3, <2>5, <2>6 DEF ThreadInv
  <1>4. CASE CommentReconnects
    <2> PICK c : c = CommentCall("fetch", 0)
      OBVIOUS
    <2>1. ~hears /\ calls' = calls \cup {c} /\ UNCHANGED <<commentServer, commentsMade, timeline, commentChannel, commentStrayed>>
      BY <1>4 DEF CommentReconnects
    <2>2. c.op = "fetch" /\ c.st = "sent" /\ ~c.old
      BY DEF CommentCall
    <2>3. commentChannel' = <<>>
      BY <1>1, <2>1 DEF AllNewsTrue
    <2>4. DOMAIN commentChannel' = {}
      BY <2>3
    <2>5. AllNewsTrue'
      BY <2>3, <2>4 DEF AllNewsTrue
    <2>6. Alive' = Alive /\ ServerOrder' = ServerOrder /\ \A e : Genuine(e)' <=> Genuine(e)
      BY <2>1 DEF Alive, ServerOrder, Genuine
    <2>7. RecordTrue'
      BY <1>1, <2>1, <2>4, <2>6 DEF RecordTrue
    <2>8. RequestTrue(c)' /\ \A x \in calls : RequestTrue(x)'
      BY <1>1, <2>1, <2>2, <2>6 DEF RequestsTrue, RequestTrue
    <2>9. Pends'
      BY <2>1, <2>2 DEF Pends, Spoils
    <2> QED BY <1>2, <2>1, <2>5, <2>7, <2>8, <2>9 DEF ThreadInv, RequestsTrue, Follows
  <1> QED BY <1>3, <1>4

\* The user asks for something: what the page does at once is covered by the
\* request.
LEMMA AskedPage ==
  ASSUME ThreadInv, NEW c, c.st = "sent", ~c.old, calls' = calls \cup {c}, TimelineInv',
         UNCHANGED <<commentServer, commentsMade, commentChannel, hears, commentStrayed>>,
         PageFollows => OncePerId(timeline)',
         OnPage' \subseteq OnPage,
         PageFollows => \A i \in OnPage : i \in OnPage' \/ (c.op = "delete" /\ i \in Below(c.id)),
         \A x \in Entries(timeline)' :
           \/ x \in Entries(timeline)
           \/ c.op = "edit" /\ c.id = x.id /\ \E e \in Entries(timeline) : e.id = x.id /\ (Genuine(e) => Genuine(x))
  PROVE  ThreadInv'
  <1>1. TimelineInv /\ RecordTrue /\ AllNewsTrue /\ RequestsTrue /\ Follows
    BY DEF ThreadInv
  <1>2. RecordTrue' /\ AllNewsTrue'
    BY <1>1, SameRecord
  <1>3. RequestsTrue'
    <2>1. Alive' = Alive /\ ServerOrder' = ServerOrder
      BY DEF Alive, ServerOrder
    <2>2. RequestTrue(c)' /\ \A x \in calls : RequestTrue(x)'
      BY <1>1, <2>1 DEF RequestsTrue, RequestTrue
    <2> QED BY <2>2 DEF RequestsTrue
  <1> SUFFICES ASSUME hears', ~commentStrayed', ~Pends' PROVE PageFollows'
    BY <1>2, <1>3 DEF ThreadInv, Follows
  <1>4. PageFollows
    BY <1>1 DEF Follows, Pends
  <1>5. /\ Alive' = Alive
        /\ \A n : \A x : GoesAfter(n, x) => GoesAfter(n, x)'
        /\ \A n : \A x : EditedAfter(n, x) => EditedAfter(n, x)'
        /\ \A i : Below(i)' = Below(i)
        /\ \A k, kind, id : Announces(k, kind, id)' <=> Announces(k, kind, id)
        /\ \A e : Genuine(e)' <=> Genuine(e)
    BY SameWords
  <1>6. ASSUME NEW e \in commentServer PROVE Comes(e)'
    <2>1. Comes(e)
      BY <1>4 DEF PageFollows
    <2>2. e.id \in OnPage => Comes(e)'
      BY <1>4, <1>5 DEF Comes
    <2> QED BY <1>5, <2>1, <2>2 DEF Comes
  <1>7. \A x : GoesAway(x) => GoesAway(x)'
    BY <1>5 DEF GoesAway
  <1>8. \A y \in Entries(timeline) : Genuine(y) /\ IF y.id \in Alive THEN Agrees(y) ELSE GoesAway(y.id)
    BY <1>4 DEF PageFollows
  <1>9. ASSUME NEW x \in Entries(timeline)'
        PROVE  Genuine(x)' /\ IF x.id \in Alive' THEN Agrees(x)' ELSE GoesAway(x.id)'
    <2>1. CASE x \in Entries(timeline)
      <3>1. Agrees(x) => Agrees(x)'
        BY <1>5 DEF Agrees
      <3> QED BY <1>5, <1>7, <1>8, <2>1, <3>1
    <2>2. ASSUME c.op = "edit", c.id = x.id, NEW e \in Entries(timeline), e.id = x.id, Genuine(e) => Genuine(x)
          PROVE  Genuine(x)' /\ IF x.id \in Alive' THEN Agrees(x)' ELSE GoesAway(x.id)'
      <3>1. Genuine(x)' /\ (x.id \notin Alive => GoesAway(x.id)')
        BY <1>5, <1>7, <1>8, <2>2
      <3>2. Agrees(x)'
        BY <2>2 DEF Agrees
      <3> QED BY <1>5, <3>1, <3>2
    <2> QED BY <2>1, <2>2
  <1> QED BY <1>4, <1>6, <1>9 DEF PageFollows

LEMMA CallIs ==
  ASSUME NEW op, NEW id, NEW kept
  PROVE  /\ CommentCall(op, id).op = op /\ CommentCall(op, id).id = id
         /\ CommentCall(op, id).st = "sent" /\ ~CommentCall(op, id).old
         /\ [CommentCall(op, id) EXCEPT !.kept = kept].op = op /\ [CommentCall(op, id) EXCEPT !.kept = kept].id = id
         /\ [CommentCall(op, id) EXCEPT !.kept = kept].st = "sent" /\ ~[CommentCall(op, id) EXCEPT !.kept = kept].old
  BY DEF CommentCall

LEMMA ThreadSubmits == ASSUME ThreadInv, Submit PROVE ThreadInv'
  <1>1. TimelineInv /\ TimelineInv'
    BY SubmitStep DEF ThreadInv
  <1>2. PICK p : /\ StartComment(CommentCall("create", p))
                 /\ UNCHANGED <<commentServer, commentsMade, timeline, commentChannel, hears, commentStrayed>>
    BY DEF Submit
  <1> PICK c : c = CommentCall("create", p)
    OBVIOUS
  <1>3. c.st = "sent" /\ ~c.old /\ calls' = calls \cup {c}
    BY <1>2, CallIs DEF StartComment
  <1>4. timeline' = timeline /\ OnPage' = OnPage /\ (PageFollows => OncePerId(timeline)')
    BY <1>2 DEF OnPage, PageFollows
  <1> QED BY <1>1, <1>2, <1>3, <1>4, AskedPage

LEMMA ThreadEdits == ASSUME ThreadInv, EditComment PROVE ThreadInv'
  <1>1. TimelineInv /\ RecordTrue /\ TimelineInv' /\ timeline \in Seq(Entry)
    BY EditStep DEF ThreadInv, TimelineInv, PageTrue
  <1>2. PICK e \in Entries(timeline) :
          /\ StartComment([CommentCall("edit", e.id) EXCEPT !.kept = <<e>>])
          /\ timeline' = CommentReplaced(timeline, [e EXCEPT !.text = "edited"])
          /\ UNCHANGED <<commentServer, commentsMade, commentChannel, hears, commentStrayed>>
    BY DEF EditComment
  <1> PICK d : d = Rewritten(e)
    OBVIOUS
  <1> PICK kept : kept = <<e>>
    OBVIOUS
  <1> PICK c : c = [CommentCall("edit", e.id) EXCEPT !.kept = kept]
    OBVIOUS
  <1>3. c.op = "edit" /\ c.id = e.id /\ c.st = "sent" /\ ~c.old
    BY CallIs
  <1>4. calls' = calls \cup {c}
    BY <1>2 DEF StartComment
  <1>5. e \in Entry /\ d \in Entry /\ d.id = e.id /\ timeline' = CommentReplaced(timeline, d)
    BY <1>1, <1>2, EntriesAre, Rewriting DEF Rewritten
  <1>6. /\ OnPage' = OnPage
        /\ \A x \in Entries(timeline)' : x = d \/ x \in Entries(timeline)
        /\ OncePerId(timeline) => OncePerId(timeline)'
    BY <1>1, <1>5, ReplacedIs DEF OnPage
  <1>7. Genuine(e) => Genuine(d)
    BY <1>1, GenuineIs
  <1>8. PageFollows => OncePerId(timeline)'
    BY <1>6 DEF PageFollows
  <1>9. \A x \in Entries(timeline)' :
          \/ x \in Entries(timeline)
          \/ c.op = "edit" /\ c.id = x.id /\ \E y \in Entries(timeline) : y.id = x.id /\ (Genuine(y) => Genuine(x))
    BY <1>3, <1>5, <1>6, <1>7
  <1> QED BY <1>1, <1>2, <1>3, <1>4, <1>6, <1>8, <1>9, AskedPage

LEMMA ThreadDeletes == ASSUME ThreadInv, DeleteComment PROVE ThreadInv'
  <1>1. TimelineInv /\ RecordTrue /\ TimelineInv' /\ timeline \in Seq(Entry)
    BY DeleteStep DEF ThreadInv, TimelineInv, PageTrue
  <1>2. PICK e \in Entries(timeline) :
          LET ids == Thread(Entries(timeline), e.id) IN
          /\ StartComment([CommentCall("delete", e.id) EXCEPT
                   !.kept = Only(timeline, {x \in Entries(timeline) : x.id \in ids})])
          /\ timeline' = Without(timeline, ids)
          /\ UNCHANGED <<commentServer, commentsMade, commentChannel, hears, commentStrayed>>
    BY DEF DeleteComment
  <1> PICK ids : ids = Thread(Entries(timeline), e.id)
    OBVIOUS
  <1> PICK kept : kept = Only(timeline, {x \in Entries(timeline) : x.id \in ids})
    OBVIOUS
  <1> PICK c : c = [CommentCall("delete", e.id) EXCEPT !.kept = kept]
    OBVIOUS
  <1>3. c.op = "delete" /\ c.id = e.id /\ c.st = "sent" /\ ~c.old
    BY CallIs
  <1>4. calls' = calls \cup {c} /\ timeline' = Without(timeline, ids)
        /\ UNCHANGED <<commentServer, commentsMade, commentChannel, hears, commentStrayed>>
    BY <1>2 DEF StartComment
  <1>5. /\ \A x : x \in Entries(timeline)' <=> x \in Entries(timeline) /\ x.id \notin ids
        /\ \A i : i \in OnPage' <=> i \in OnPage /\ i \notin ids
        /\ OncePerId(timeline) => OncePerId(timeline)'
    BY <1>1, <1>4, WithoutIs DEF OnPage
  <1>6. PageFollows => ids \subseteq Below(c.id)
    BY <1>1, <1>3, BelowFacts DEF PageFollows
  <1>7. PageFollows => OncePerId(timeline)'
    BY <1>5 DEF PageFollows
  <1>8. PageFollows => \A i \in OnPage : i \in OnPage' \/ (c.op = "delete" /\ i \in Below(c.id))
    BY <1>3, <1>5, <1>6
  <1>9. OnPage' \subseteq OnPage /\ Entries(timeline)' \subseteq Entries(timeline)
    BY <1>5
  <1> QED BY <1>1, <1>3, <1>4, <1>7, <1>8, <1>9, AskedPage

-----------------------------------------------------------------------------
(* Answers reach the page *)

\* The answer to a fetch is the server's comments, each once.
LEMMA ServerOrderLists ==
  ASSUME CommentsTrue
  PROVE  Entries(ServerOrder) = commentServer /\ OncePerId(ServerOrder)
  <1> PICK S : S = commentServer
    OBVIOUS
  <1>1. IsFiniteSet(S) /\ S \subseteq Entry /\ \A e, x \in S : e.id = x.id => e = x
    BY DEF CommentsTrue
  <1> PICK n \in Nat : n = Cardinality(S)
    BY <1>1, FS_CardinalityType
  <1> DEFINE R == {p \in S \X S : p[1].id < p[2].id}
  <1>2. \A x, y \in S : <<x, y>> \in R <=> x.id < y.id
    OBVIOUS
  <1>3. \A x \in S : x.id \in Int
    BY <1>1, EntryFields
  <1> HIDE DEF R
  <1>4. TotalOn(R, S)
    BY <1>1, <1>2, <1>3 DEF TotalOn
  <1>5. PICK s : Lists(s, S, R)
    BY <1>1, <1>4, ListExists
  <1> DEFINE Up(f) == \A j, k \in DOMAIN f : j < k => f[j].id < f[k].id
  <1>6. s \in [1..n -> S] /\ Up(s)
    BY <1>2, <1>5 DEF Lists
  <1> PICK q : q = ServerOrder
    OBVIOUS
  <1>7. q = CHOOSE f \in [1..n -> S] : Up(f)
    BY DEF ServerOrder
  <1> HIDE DEF Up
  <1>8. q \in [1..n -> S] /\ Up(q)
    BY <1>6, <1>7
  <1>9. \A j, k \in 1..n : j < k => q[j].id < q[k].id
    BY <1>8 DEF Up
  <1>10. ASSUME NEW j \in 1..n, NEW k \in 1..n, q[j].id = q[k].id PROVE j = k
    <2>1. q[j] \in S /\ q[k] \in S /\ q[j].id \in Int /\ q[k].id \in Int
      BY <1>3, <1>8
    <2>2. ~(j < k) /\ ~(k < j)
      BY <1>9, <1>10, <2>1
    <2> QED BY <2>2
  <1>11. \A j, k \in 1..n : j < k => q[j] # q[k]
    BY <1>10
  <1>12. \A x \in S : \E k \in 1..n : q[k] = x
    BY <1>1, <1>8, <1>11, NoneLeftOut
  <1>13. Entries(q) = S
    BY <1>8, <1>12 DEF Entries
  <1>14. OncePerId(q)
    BY <1>8, <1>10 DEF OncePerId
  <1> QED BY <1>13, <1>14

\* A page that lists the server's comments, each once, follows it.
LEMMA ExactFollows ==
  ASSUME RecordTrue', Entries(timeline)' = commentServer', OncePerId(timeline)'
  PROVE  PageFollows'
  <1>1. \A e \in commentServer' : e.id \in Alive' /\ e.id \in OnPage' /\ Genuine(e)'
    BY DEF Alive, OnPage, IdsOf, RecordTrue
  <1>2. \A e \in commentServer' : Comes(e)' /\ Agrees(e)'
    BY <1>1 DEF Comes, Agrees
  <1> QED BY <1>1, <1>2 DEF PageFollows

\* As many entries as there are comments, and the same: none is there twice.
LEMMA NoneTwice ==
  ASSUME CommentsTrue, NEW tl \in Seq(Entry), Entries(tl) = commentServer, Len(tl) = Cardinality(commentServer)
  PROVE  OncePerId(tl)
  <1> PICK n \in Nat : n = Len(tl)
    OBVIOUS
  <1> PICK S : S = commentServer
    OBVIOUS
  <1>1. DOMAIN tl = 1..n /\ (\A k \in 1..n : tl[k] \in S) /\ \A e \in S : \E k \in 1..n : tl[k] = e
    BY DEF Entries
  <1>2. IsFiniteSet(1..n) /\ Cardinality(1..n) = n
    BY FS_Interval
  <1>3. tl \in [1..n -> S]
    <2>1. tl \in [1..n -> Entry]
      OBVIOUS
    <2> QED BY <1>1, <2>1
  <1>4. tl \in Surjection(1..n, S)
    BY <1>1, <1>3 DEF Surjection
  <1>5. tl \in Injection(1..n, S)
    BY <1>2, <1>4, FS_SurjSameCardinalityImpliesInj
  <1>6. \A j, k \in 1..n : tl[j] = tl[k] => j = k
    BY <1>5 DEF Injection, IsInjective
  <1>7. \A e, x \in S : e.id = x.id => e = x
    BY DEF CommentsTrue
  <1> QED BY <1>1, <1>6, <1>7 DEF OncePerId

\* One request is over, and nothing else but the page's list has changed.
LEMMA OverTrue ==
  ASSUME ThreadInv, NEW c \in calls, calls' = calls \ {c}, UNCHANGED <<commentServer, commentsMade, commentChannel, hears>>
  PROVE  RecordTrue' /\ AllNewsTrue' /\ RequestsTrue'
  <1>1. RecordTrue /\ AllNewsTrue /\ RequestsTrue
    BY DEF ThreadInv
  <1>2. ServerOrder' = ServerOrder /\ Alive' = Alive
    BY DEF ServerOrder, Alive
  <1>3. RequestsTrue'
    BY <1>1, <1>2 DEF RequestsTrue, RequestTrue
  <1> QED BY <1>1, <1>3, SameRecord

\* The answer to a comment, an edit or a deletion that nothing has overtaken.
LEMMA AnsweredPage ==
  ASSUME TimelineInv, RecordTrue, PageFollows, NEW c \in calls, calls' = calls \ {c},
         UNCHANGED <<commentServer, commentsMade, commentChannel>>,
         OncePerId(timeline)', OnPage \subseteq OnPage',
         \A i \in OnPage' : i \in OnPage \/ i \in Alive,
         \A i : Made(c, i) => i \in OnPage',
         c.op = "delete" => \A i \in Below(c.id) : i \notin Alive,
         \A x \in Entries(timeline)' :
           \/ x \in Entries(timeline) /\ ~(c.op = "edit" /\ c.id = x.id)
           \/ x \in commentServer
           \/ Genuine(x) /\ x.id \notin Alive /\ x.id \in OnPage
  PROVE  PageFollows'
  <1>1. /\ Alive' = Alive
        /\ \A n : \A x : GoesAfter(n, x) => GoesAfter(n, x)'
        /\ \A n : \A x : EditedAfter(n, x) => EditedAfter(n, x)'
        /\ \A i : Below(i)' = Below(i)
        /\ \A k, kind, id : Announces(k, kind, id)' <=> Announces(k, kind, id)
        /\ \A e : Genuine(e)' <=> Genuine(e)
    BY SameWords
  <1>2. \A d \in calls : d = c \/ d \in calls'
    OBVIOUS
  <1>3. ASSUME NEW e \in commentServer PROVE Comes(e)'
    <2>1. Comes(e) /\ e.id \in Alive
      BY ServerEntry DEF PageFollows
    <2>2. ASSUME NEW d \in calls, Made(d, e.id) PROVE Comes(e)'
      BY <1>2, <2>2 DEF Comes
    <2>3. ASSUME NEW d \in calls, d.op = "delete", e.id \in Below(d.id) PROVE Comes(e)'
      BY <1>1, <1>2, <2>1, <2>3 DEF Comes
    <2>4. e.id \in OnPage => Comes(e)'
      BY DEF Comes
    <2>5. ~e.mine /\ (\E k \in DOMAIN commentChannel : Announces(k, "created", e.id)) => Comes(e)'
      BY <1>1 DEF Comes
    <2> QED BY <2>1, <2>2, <2>3, <2>4, <2>5 DEF Comes
  <1>4. \A x : GoesAway(x) => GoesAway(x)'
    BY <1>1 DEF GoesAway
  <1>5. \A y \in Entries(timeline) : Genuine(y) /\ IF y.id \in Alive THEN Agrees(y) ELSE GoesAway(y.id)
    BY DEF PageFollows
  <1>6. ASSUME NEW x \in Entries(timeline)'
        PROVE  Genuine(x)' /\ IF x.id \in Alive' THEN Agrees(x)' ELSE GoesAway(x.id)'
    <2>1. CASE x \in Entries(timeline) /\ ~(c.op = "edit" /\ c.id = x.id)
      <3>1. Agrees(x) => Agrees(x)'
        BY <1>1, <1>2, <2>1 DEF Agrees
      <3> QED BY <1>1, <1>4, <1>5, <2>1, <3>1
    <2>2. CASE x \in commentServer
      <3>1. Genuine(x) /\ x.id \in Alive
        BY <2>2, ServerEntry
      <3> QED BY <1>1, <2>2, <3>1 DEF Agrees
    <2>3. CASE Genuine(x) /\ x.id \notin Alive /\ x.id \in OnPage
      <3>1. PICK y \in Entries(timeline) : y.id = x.id
        BY <2>3 DEF OnPage, IdsOf
      <3> QED BY <1>1, <1>4, <1>5, <2>3, <3>1
    <2> QED BY <2>1, <2>2, <2>3
  <1> QED BY <1>3, <1>6 DEF PageFollows

LEMMA ThreadSucceeds == ASSUME ThreadInv, CallSucceeds PROVE ThreadInv'
  <1>1. TimelineInv /\ RecordTrue /\ AllNewsTrue /\ RequestsTrue /\ Follows
    BY DEF ThreadInv
  <1>2. PICK c \in calls :
    /\ c.st = "done"
    /\ timeline' = Lands(c)
    /\ calls' = calls \ {c}
    /\ commentStrayed' = IF c.op = "fetch" THEN c.old ELSE commentStrayed \/ (c.old /\ c.op # "delete")
    /\ UNCHANGED <<commentServer, commentsMade, commentChannel, hears>>
    BY DEF CallSucceeds
  <1>3. TimelineInv' /\ RecordTrue' /\ AllNewsTrue' /\ RequestsTrue'
    BY <1>1, <1>2, TimelineSuccessStep, OverTrue
  <1> SUFFICES ASSUME hears', ~commentStrayed', ~Pends' PROVE PageFollows'
    BY <1>3 DEF ThreadInv, Follows
  <1>4. c.op \in {"fetch", "create", "edit", "delete"} /\ RequestTrue(c)
        /\ (c.op \in {"create", "edit"} => c.list[1] \in Entry)
    BY <1>1, <1>2, CallFields DEF RequestsTrue
  <1>5. CASE c.op = "fetch"
    <2>1. timeline' = ServerOrder
      BY <1>2, <1>4, <1>5 DEF RequestTrue, Lands
    <2>2. Entries(timeline)' = commentServer' /\ OncePerId(timeline)'
      BY <1>1, <1>2, <2>1, ServerOrderLists DEF TimelineInv
    <2> QED BY <1>3, <2>2, ExactFollows
  <1>6. CASE c.op # "fetch"
    <2>1. ~commentStrayed /\ (c.op # "delete" => ~c.old)
      BY <1>2, <1>6
    <2>2. ~Spoils(c)
      BY <1>2, <1>6, <2>1 DEF Spoils
    <2>3. PageFollows /\ OncePerId(timeline)
      BY <1>1, <1>2, <2>1, <2>2 DEF Follows, Pends, PageFollows
    <2>4. timeline \in Seq(Entry)
      BY <1>1 DEF TimelineInv, PageTrue
    <2>5. CASE c.op = "create"
      <3> PICK f : f = c.list[1]
        OBVIOUS
      <3>1. timeline' = Added(timeline, f) /\ f \in Entry /\ f \in commentServer /\ f.id \in Alive
        BY <1>1, <1>2, <1>4, <2>1, <2>5, ServerEntry DEF Lands, RequestTrue
      <3>2. /\ OnPage' = OnPage \cup {f.id}
            /\ \A x \in Entries(timeline)' : x \in Entries(timeline) \/ x = f
            /\ OncePerId(timeline)'
        BY <2>3, <2>4, <3>1, AddedIs DEF OnPage
      <3>3. \A i : Made(c, i) => i \in OnPage'
        BY <3>2 DEF Made
      <3> QED BY <1>1, <1>2, <2>3, <2>5, <3>1, <3>2, <3>3, AnsweredPage
    <2>6. CASE c.op = "edit"
      <3> PICK f : f = c.list[1]
        OBVIOUS
      <3>1. timeline' = CommentReplaced(timeline, f) /\ f \in Entry /\ f \in commentServer /\ f.id = c.id
        BY <1>1, <1>2, <1>4, <2>1, <2>6 DEF Lands, RequestTrue
      <3>2. /\ OnPage' = OnPage
            /\ \A x \in Entries(timeline)' : (x.id = f.id /\ x = f) \/ (x.id # f.id /\ x \in Entries(timeline))
            /\ OncePerId(timeline)'
        BY <2>3, <2>4, <3>1, ReplacedIs DEF OnPage
      <3>3. \A i : ~Made(c, i)
        BY <2>6 DEF Made
      <3> QED BY <1>1, <1>2, <2>3, <2>6, <3>1, <3>2, <3>3, AnsweredPage
    <2>7. CASE c.op = "delete"
      <3>1. timeline' = timeline /\ c.id \in DOMAIN commentsMade \ Alive
        BY <1>2, <1>4, <2>7 DEF Lands, RequestTrue
      <3>2. OnPage' = OnPage /\ OncePerId(timeline)'
        BY <2>3, <3>1 DEF OnPage
      <3>3. c.id \in CommentIds
        BY <1>1, <3>1, MadeTyped, EntryFields DEF RecordTrue
      <3>4. \A i \in Below(c.id) : i \notin Alive
        BY <1>1, <3>1, <3>3, NoneBelowGone
      <3>5. \A i : ~Made(c, i)
        BY <2>7 DEF Made
      <3> QED BY <1>1, <1>2, <2>3, <2>7, <3>1, <3>2, <3>4, <3>5, AnsweredPage
    <2> QED BY <1>4, <1>6, <2>5, <2>6, <2>7
  <1> QED BY <1>5, <1>6

LEMMA ThreadFails == ASSUME ThreadInv, CommentFails PROVE ThreadInv'
  <1>1. TimelineInv /\ RecordTrue
    BY DEF ThreadInv
  <1>2. PICK c \in calls :
    /\ calls' = calls \ {c}
    /\ CommentStrays(\/ c.op = "fetch" \/ c.old
              \/ Entries(timeline') # commentServer \/ Len(timeline') # Cardinality(commentServer))
    /\ UNCHANGED <<commentServer, commentsMade, commentChannel, hears>>
    BY DEF CommentFails
  <1>3. TimelineInv' /\ RecordTrue' /\ AllNewsTrue' /\ RequestsTrue'
    BY <1>1, <1>2, TimelineFailStep, OverTrue
  <1> SUFFICES ASSUME ~commentStrayed' PROVE PageFollows'
    BY <1>3 DEF ThreadInv, Follows
  <1>4. Entries(timeline') = commentServer /\ Len(timeline') = Cardinality(commentServer)
    BY <1>2 DEF CommentStrays
  <1>5. timeline' \in Seq(Entry)
    BY <1>3 DEF TimelineInv, PageTrue
  <1>6. OncePerId(timeline')
    BY <1>1, <1>4, <1>5, NoneTwice DEF TimelineInv
  <1> QED BY <1>2, <1>3, <1>4, <1>6, ExactFollows

LEMMA ThreadStart == TimelineInit => ThreadInv
  <1> SUFFICES ASSUME TimelineInit PROVE ThreadInv
    OBVIOUS
  <1> PICK c : c = CommentCall("fetch", 0)
    OBVIOUS
  <1>1. /\ commentServer = {} /\ commentsMade = <<>> /\ timeline = <<>> /\ commentChannel = <<>>
        /\ hears = TRUE /\ calls = {c}
    BY DEF TimelineInit
  <1>2. c.op = "fetch" /\ c.st = "sent" /\ ~c.old
    BY CallIs
  <1>3. DOMAIN commentsMade = {} /\ DOMAIN commentChannel = {}
    BY <1>1
  <1>4. RecordTrue /\ AllNewsTrue
    BY <1>1, <1>3 DEF RecordTrue, AllNewsTrue
  <1>5. RequestsTrue /\ Follows
    BY <1>1, <1>2 DEF RequestsTrue, RequestTrue, Follows, Pends, Spoils
  <1> QED BY <1>4, <1>5, TimelineStart DEF ThreadInv

LEMMA ThreadStep == ThreadInv /\ [TimelineNext]_timelineVars => ThreadInv'
  <1> SUFFICES ASSUME ThreadInv, [TimelineNext]_timelineVars PROVE ThreadInv'
    OBVIOUS
  <1>1. CASE UNCHANGED timelineVars
    <2>1. UNCHANGED <<commentServer, commentsMade, timeline, commentChannel, hears, calls, commentStrayed>>
      BY <1>1 DEF timelineVars
    <2>2. TimelineInv' /\ RecordTrue' /\ AllNewsTrue'
      BY <2>1, TimelineStep, SameRecord DEF ThreadInv, timelineVars
    <2>3. ServerOrder' = ServerOrder /\ Alive' = Alive /\ Pends' = Pends
      BY <2>1 DEF ServerOrder, Alive, Pends
    <2>4. RequestsTrue'
      BY <2>1, <2>3 DEF RequestsTrue, RequestTrue, ThreadInv
    <2>5. GoesOn
      BY <2>1, <2>3 DEF GoesOn
    <2>6. Follows'
      BY <2>1, <2>5, SamePage DEF ThreadInv
    <2> QED BY <2>2, <2>4, <2>6 DEF ThreadInv
  <1> QED BY <1>1, ThreadOthers, ThreadHears, ThreadLink, ThreadSubmits, ThreadEdits, ThreadDeletes,
             ThreadServe, ThreadSucceeds, ThreadFails DEF TimelineNext

\* With nothing under way, what the page shows is what the server has.
LEMMA ThreadQuiet == ThreadInv => ThreadsConverge
  <1> SUFFICES ASSUME ThreadInv, hears, commentChannel = <<>>, calls = {}, ~commentStrayed
      PROVE  /\ {e \in Entries(timeline) : e.id \in ShownIds(timeline)} = commentServer
             /\ \A j, k \in DOMAIN timeline : timeline[j].id = timeline[k].id => j = k
    BY DEF ThreadsConverge
  <1>1. TimelineInv /\ RecordTrue /\ PageFollows
    BY DEF ThreadInv, Follows, Pends
  <1>2. DOMAIN commentChannel = {}
    OBVIOUS
  <1>3. \A e \in commentServer : e.id \in OnPage
    BY <1>1, <1>2 DEF PageFollows, Comes
  <1>4. \A e \in Entries(timeline) : e.id \in Alive => e \in commentServer
    BY <1>1, <1>2 DEF PageFollows, Agrees, EditedAfter
  <1>5. \A e \in Entries(timeline) : e.id \notin Alive =>
          \E a \in DOMAIN commentsMade : e.id \in Below(a) /\ a \notin OnPage
    BY <1>1, <1>2 DEF PageFollows, GoesAway, GoesAfter
  <1>6. ASSUME NEW e \in commentServer PROVE e \in Entries(timeline)
    <2>1. PICK t \in Entries(timeline) : t.id = e.id
      BY <1>3 DEF OnPage, IdsOf
    <2>2. t \in commentServer
      BY <1>1, <1>4, <2>1, ServerEntry
    <2> QED BY <1>1, <2>1, <2>2 DEF TimelineInv, CommentsTrue
  <1> PICK Z : Z = ShownIds(timeline)
    OBVIOUS
  <1>7. \A i : i \in Z <=> \E t \in Entries(timeline) : t.parent = 0 /\ i \in Thread(Entries(timeline), t.id)
    BY DEF ShownIds, TopLevel
  <1>8. \A e \in commentServer : e.id \in Z
    <2> SUFFICES ASSUME NEW e0 \in commentServer, e0.id \notin Z PROVE FALSE
      OBVIOUS
    <2> DEFINE U == {i \in Nat : \E e \in commentServer : e.id = i /\ i \notin Z}
    <2>1. \A e \in commentServer : e.id \in Nat
      <3> TAKE e \in commentServer
      <3>1. e.id \in CommentIds
        BY <1>1, ServerEntry, GenuineIs
      <3> QED BY <3>1, EntryFields DEF CommentIds
    <2>2. U \in SUBSET Nat /\ U # {}
      <3>1. e0.id \in U
        BY <2>1
      <3> QED BY <3>1
    <2>3. PICK i \in U : \A j \in U : i <= j
      BY <2>2, LeastOfNaturals
    <2>4. PICK e \in commentServer : e.id = i /\ i \notin Z /\ i \in Nat
      BY <2>3
    <2>5. e \in Entries(timeline) /\ Genuine(e) /\ e.parent \in 0..(e.id - 1) /\ (e.parent = 0 \/ e.parent \in Alive)
      BY <1>1, <1>6, ServerEntry, GenuineIs
    <2>6. CASE e.parent = 0
      BY <1>7, <2>4, <2>5, <2>6, ThreadFacts
    <2>7. CASE e.parent # 0
      <3>1. PICK f \in commentServer : f.id = e.parent
        BY <2>5, <2>7, AliveIs
      <3>2. f.id \in Nat /\ ~(i <= f.id)
        BY <2>4, <2>5, <3>1
      <3>3. f.id \in Z
        BY <2>3, <3>1, <3>2
      <3>4. PICK t \in Entries(timeline) : t.parent = 0 /\ f.id \in Thread(Entries(timeline), t.id)
        BY <1>7, <3>3
      <3>5. e.id \in Thread(Entries(timeline), t.id)
        BY <2>5, <3>1, <3>4, ThreadFacts
      <3> QED BY <1>7, <2>4, <3>4, <3>5
    <2> QED BY <2>6, <2>7
  <1>9. ASSUME NEW e \in Entries(timeline), e.id \in Z PROVE e \in commentServer
    <2> SUFFICES ASSUME e.id \notin Alive PROVE FALSE
      BY <1>4
    <2>1. PICK a \in DOMAIN commentsMade : e.id \in Below(a) /\ a \notin OnPage
      BY <1>5
    <2>2. PICK t \in Entries(timeline) : t.parent = 0 /\ e.id \in Thread(Entries(timeline), t.id)
      BY <1>7, <1>9
    <2> PICK H : H = Thread(Entries(timeline), t.id)
      OBVIOUS
    <2> PICK B : B = Below(a)
      OBVIOUS
    <2>3. \A x \in Entries(timeline) : x.id # a /\ Genuine(x)
      BY <1>1, <2>1 DEF OnPage, IdsOf, PageFollows
    <2>4. \A x : Genuine(x) /\ x.id \in B => x.id = a \/ x.parent \in B
      BY <1>1, BelowFacts
    <2>5. 0 \notin B
      <3>1. \A x \in B : x = a \/ x \in DOMAIN commentsMade
        BY <1>1, BelowFacts
      <3> QED BY <1>1, <2>1, <3>1, MadeTyped
    <2> DEFINE T == {i \in H : i \notin B}
    <2>6. t.id \in T
      BY <2>2, <2>3, <2>4, <2>5, ThreadFacts
    <2>7. ASSUME NEW x \in Entries(timeline), x.parent \in T PROVE x.id \in T
      <3>1. x.id \in H
        BY <2>7, ThreadFacts
      <3> QED BY <2>3, <2>4, <2>7, <3>1
    <2>8. H \subseteq T
      <3> HIDE DEF T
      <3> QED BY <2>6, <2>7, ThreadFacts
    <2> QED BY <2>1, <2>2, <2>8
  <1>10. {e \in Entries(timeline) : e.id \in Z} = commentServer
    BY <1>6, <1>8, <1>9
  <1> QED BY <1>1, <1>10 DEF PageFollows, OncePerId

(* Theorem (threads converge). However many comments are made, edited and   *)
(* deleted by whom ever, and in whatever order answers and events reach the *)
(* page of the issue (use-issue-timeline.ts), once nothing is under way and *)
(* nothing has strayed it shows the server's comments and no others, each   *)
(* once.                                                                    *)
THEOREM ThreadFollowsServer == TimelineSpec => []ThreadsConverge
  <1>1. TimelineSpec => []ThreadInv
    BY ThreadStart, ThreadStep, PTL DEF TimelineSpec
  <1> QED BY <1>1, ThreadQuiet, PTL
===============================================================================

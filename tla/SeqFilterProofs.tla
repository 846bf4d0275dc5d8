--------------------------- MODULE SeqFilterProofs ---------------------------
(***************************************************************************)
(* What SeqFilter's operators give, and that finite sets can be listed in   *)
(* any total order: the lemmas about sorting and filtering that the proofs  *)
(* about the web client and the tools share; and how many elements a set    *)
(* has at most when one comes, goes, is swapped, or all are renamed.        *)
(***************************************************************************)
EXTENDS SeqFilter, Integers, FiniteSetTheorems, WellFoundedInduction, TLAPS

LEMMA LeastOfNaturals ==
  ASSUME NEW T \in SUBSET Nat, T # {}
  PROVE  \E x \in T : \A y \in T : x <= y
  <1> DEFINE R == OpToRel(<, Nat)
  <1>1. IsWellFoundedOn(R, Nat)
    BY NatLessThanWellFounded
  <1>2. \A x, y \in Nat : x < y => <<x, y>> \in R
    BY DEF OpToRel
  <1> HIDE DEF R
  <1>3. \E x \in T : \A y \in T : ~ (<<y, x>> \in R)
    <2>1. T \subseteq Nat
      OBVIOUS
    <2> QED BY <1>1, <2>1, WFMin
  <1>4. PICK x \in T : \A y \in T : ~ (<<y, x>> \in R)
    BY <1>3
  <1>5. \A y \in T : ~ (y < x)
    BY <1>2, <1>4
  <1>6. x \in Nat /\ \A y \in T : y \in Nat
    OBVIOUS
  <1> QED BY <1>5, <1>6

-----------------------------------------------------------------------------
(* A finite set can be listed in a given order: what the model's sorting    *)
(* operators choose exists. R is a total order on the set.                  *)

TotalOn(R, S) == /\ \A x, y \in S : x # y => <<x, y>> \in R \/ <<y, x>> \in R
                 /\ \A x, y, z \in S : <<x, y>> \in R /\ <<y, z>> \in R => <<x, z>> \in R

\* A list of S in the order R.
Lists(s, S, R) == /\ s \in [1..Cardinality(S) -> S]
                  /\ \A x \in S : \E k \in 1..Cardinality(S) : s[k] = x
                  /\ \A j, k \in 1..Cardinality(S) : j < k => <<s[j], s[k]>> \in R

LEMMA FirstExists ==
  ASSUME NEW S, IsFiniteSet(S), S # {}, NEW R, TotalOn(R, S)
  PROVE  \E x \in S : \A y \in S : y # x => <<x, y>> \in R
  <1> DEFINE Has(T) == \E x \in T : \A y \in T : y # x => <<x, y>> \in R
             Bad == {n \in Nat : \E T \in SUBSET S : T # {} /\ Cardinality(T) = n /\ ~Has(T)}
  <1>1. SUFFICES ASSUME ~Has(S) PROVE FALSE
    OBVIOUS
  <1>2. Cardinality(S) \in Bad
    BY <1>1, FS_CardinalityType
  <1>3. PICK n \in Bad : \A m \in Bad : n <= m
    <2>1. Bad \in SUBSET Nat /\ Bad # {}
      BY <1>2
    <2> HIDE DEF Bad
    <2> QED BY <2>1, LeastOfNaturals
  <1>4. PICK T \in SUBSET S : T # {} /\ Cardinality(T) = n /\ ~Has(T)
    OBVIOUS
  <1>5. PICK x \in T : TRUE
    BY <1>4
  <1> DEFINE U == T \ {x}
  <1>6. IsFiniteSet(T)
    BY FS_Subset
  <1>7. IsFiniteSet(U) /\ Cardinality(U) = n - 1 /\ n \in Nat
    BY <1>4, <1>5, <1>6, FS_RemoveElement
  <1>8. CASE U = {}
    BY <1>4, <1>5, <1>8
  <1>9. CASE U # {}
    <2>1. Cardinality(U) \in Nat
      BY <1>7, FS_CardinalityType
    <2>2. Has(U)
      <3>1. U \in SUBSET S
        OBVIOUS
      <3>2. Cardinality(U) \notin Bad
        <4> HIDE DEF Bad, Has
        <4> QED BY <1>3, <1>7
      <3> QED BY <1>9, <2>1, <3>1, <3>2
    <2>3. PICK m \in U : \A y \in U : y # m => <<m, y>> \in R
      BY <2>2
    <2>4. x \in S /\ m \in S /\ m # x /\ T \subseteq S
      OBVIOUS
    <2>5. CASE <<m, x>> \in R
      <3>1. \A y \in T : y # m => <<m, y>> \in R
        BY <2>3, <2>5
      <3> QED BY <1>4, <3>1
    <2>6. CASE <<x, m>> \in R
      <3>1. \A y \in T : y # x => <<x, y>> \in R
        BY <2>3, <2>4, <2>6 DEF TotalOn
      <3> QED BY <1>4, <3>1
    <2> QED BY <2>4, <2>5, <2>6 DEF TotalOn
  <1> QED BY <1>8, <1>9

LEMMA ListExists ==
  ASSUME NEW S, IsFiniteSet(S), NEW R, TotalOn(R, S)
  PROVE  \E s : Lists(s, S, R)
  <1> DEFINE Has(T) == \E s : Lists(s, T, R)
             Bad == {n \in Nat : \E T \in SUBSET S : Cardinality(T) = n /\ ~Has(T)}
  <1>1. SUFFICES ASSUME ~Has(S) PROVE FALSE
    OBVIOUS
  <1>2. Cardinality(S) \in Bad
    BY <1>1, FS_CardinalityType
  <1>3. PICK n \in Bad : \A m \in Bad : n <= m
    <2>1. Bad \in SUBSET Nat /\ Bad # {}
      BY <1>2
    <2> HIDE DEF Bad
    <2> QED BY <2>1, LeastOfNaturals
  <1>4. PICK T \in SUBSET S : Cardinality(T) = n /\ ~Has(T)
    OBVIOUS
  <1>5. IsFiniteSet(T) /\ TotalOn(R, T)
    BY FS_Subset DEF TotalOn
  <1>6. CASE T = {}
    <2>1. n = 0
      BY <1>4, <1>6, FS_EmptySet
    <2>2. Lists([k \in 1..0 |-> k], T, R)
      BY <1>4, <1>6, <2>1 DEF Lists
    <2> QED BY <1>4, <2>2
  <1>7. CASE T # {}
    <2>1. PICK x \in T : \A y \in T : y # x => <<x, y>> \in R
      BY <1>5, <1>7, FirstExists
    <2> DEFINE U == T \ {x}
    <2>2. IsFiniteSet(U) /\ Cardinality(U) = n - 1 /\ Cardinality(U) \in Nat /\ n \in Nat
      BY <1>4, <1>5, <2>1, FS_RemoveElement, FS_CardinalityType
    <2>3. Has(U)
      <3>1. U \in SUBSET S
        OBVIOUS
      <3>2. Cardinality(U) \notin Bad
        <4> HIDE DEF Bad, Has
        <4> QED BY <1>3, <2>2
      <3> QED BY <2>2, <3>1, <3>2
    <2>4. PICK s : Lists(s, U, R)
      BY <2>3
    <2>5. /\ s \in [1..(n - 1) -> U]
          /\ \A y \in U : \E k \in 1..(n - 1) : s[k] = y
          /\ \A j, k \in 1..(n - 1) : j < k => <<s[j], s[k]>> \in R
      BY <2>2, <2>4 DEF Lists
    <2> DEFINE t == [k \in 1..n |-> IF k = 1 THEN x ELSE s[k - 1]]
    <2>6. \A k \in 1..n : k # 1 => k - 1 \in 1..(n - 1) /\ t[k] = s[k - 1] /\ s[k - 1] \in U
      BY <2>2, <2>5
    <2>7. t[1] = x /\ 1 \in 1..n
      <3>1. n # 0
        BY <2>2
      <3> QED BY <2>2, <3>1
    <2>8. t \in [1..n -> T]
      BY <2>6, <2>7
    <2>9. ASSUME NEW y \in T
          PROVE  \E k \in 1..n : t[k] = y
      <3>1. CASE y = x
        BY <2>7, <3>1
      <3>2. CASE y # x
        <4>1. PICK k \in 1..(n - 1) : s[k] = y
          BY <2>5, <3>2
        <4>2. k + 1 \in 1..n /\ k + 1 # 1 /\ (k + 1) - 1 = k
          BY <2>2
        <4> QED BY <2>6, <4>1, <4>2
      <3> QED BY <3>1, <3>2
    <2>10. ASSUME NEW j \in 1..n, NEW k \in 1..n, j < k
           PROVE  <<t[j], t[k]>> \in R
      <3>1. k # 1 /\ k - 1 \in 1..(n - 1) /\ t[k] = s[k - 1] /\ s[k - 1] \in U
        BY <2>2, <2>6, <2>10
      <3>2. CASE j = 1
        BY <2>1, <2>7, <3>1, <3>2
      <3>3. CASE j # 1
        BY <2>5, <2>6, <2>10, <3>1, <3>3
      <3> QED BY <3>2, <3>3
    <2>11. Lists(t, T, R)
      <3> HIDE DEF t
      <3> QED BY <1>4, <2>8, <2>9, <2>10 DEF Lists
    <2> QED BY <1>4, <2>11
  <1> QED BY <1>6, <1>7


\* The list is the only one, where no two come before each other.
LEMMA ListUnique ==
  ASSUME NEW S, IsFiniteSet(S), NEW R, \A x, y \in S : ~(<<x, y>> \in R /\ <<y, x>> \in R),
         NEW s, Lists(s, S, R), NEW t, Lists(t, S, R)
  PROVE  s = t
  <1> PICK n : n = Cardinality(S)
    OBVIOUS
  <1>1. /\ n \in Nat /\ s \in [1..n -> S] /\ t \in [1..n -> S]
        /\ \A j, k \in 1..n : j < k => <<s[j], s[k]>> \in R /\ <<t[j], t[k]>> \in R
        /\ \A x \in S : (\E k \in 1..n : s[k] = x) /\ (\E k \in 1..n : t[k] = x)
    BY FS_CardinalityType DEF Lists
  <1> DEFINE Bad == {k \in 1..n : s[k] # t[k]}
  <1>2. SUFFICES ASSUME Bad # {} PROVE FALSE
    BY <1>1
  <1>3. PICK k \in Bad : \A j \in Bad : k <= j
    <2>1. Bad \in SUBSET Nat
      BY <1>1
    <2> HIDE DEF Bad
    <2> QED BY <1>2, <2>1, LeastOfNaturals
  <1>4. k \in 1..n /\ s[k] # t[k] /\ \A j \in 1..n : j < k => s[j] = t[j]
    BY <1>1, <1>3
  <1>5. \A x \in S : <<x, x>> \notin R
    OBVIOUS
  <1>6. PICK i \in 1..n : s[i] = t[k]
    BY <1>1, <1>4
  <1>7. PICK j \in 1..n : t[j] = s[k]
    BY <1>1, <1>4
  <1>8. k < i
    <2>1. i # k
      BY <1>4, <1>6
    <2>2. ~(i < k)
      <3> SUFFICES ASSUME i < k PROVE FALSE
        OBVIOUS
      <3>1. t[i] = t[k]
        BY <1>4, <1>6
      <3>2. <<t[i], t[k]>> \in R /\ t[k] \in S
        BY <1>1, <1>4
      <3> QED BY <1>5, <3>1, <3>2
    <2> QED BY <1>1, <1>4, <2>1, <2>2
  <1>9. k < j
    <2>1. j # k
      BY <1>4, <1>7
    <2>2. ~(j < k)
      <3> SUFFICES ASSUME j < k PROVE FALSE
        OBVIOUS
      <3>1. s[j] = s[k]
        BY <1>4, <1>7
      <3>2. <<s[j], s[k]>> \in R /\ s[k] \in S
        BY <1>1, <1>4
      <3> QED BY <1>5, <3>1, <3>2
    <2> QED BY <1>1, <1>4, <2>1, <2>2
  <1>10. <<s[k], t[k]>> \in R /\ <<t[k], s[k]>> \in R /\ s[k] \in S /\ t[k] \in S
    BY <1>1, <1>4, <1>6, <1>7, <1>8, <1>9
  <1> QED BY <1>10

\* A list without repetition that is as long as the set covers it.
LEMMA NoneLeftOut ==
  ASSUME NEW S, IsFiniteSet(S), NEW s \in [1..Cardinality(S) -> S],
         \A j, k \in 1..Cardinality(S) : j < k => s[j] # s[k]
  PROVE  \A x \in S : \E k \in 1..Cardinality(S) : s[k] = x
  <1> PICK n \in Nat : n = Cardinality(S)
    BY FS_CardinalityType
  <1> DEFINE T == {s[k] : k \in 1..n}
  <1>1. \A j, k \in 1..n : s[j] = s[k] => j = k
    OBVIOUS
  <1>2. s \in Bijection(1..n, T)
    <2>1. s \in [1..n -> T]
      OBVIOUS
    <2>2. s \in Injection(1..n, T)
      BY <1>1, <2>1 DEF Injection, IsInjective
    <2>3. s \in Surjection(1..n, T)
      BY <2>1 DEF Surjection
    <2> QED BY <2>2, <2>3 DEF Bijection
  <1>3. Cardinality(T) = n
    BY <1>2, FS_CountingElements DEF ExistsBijection
  <1>4. T \in SUBSET S
    OBVIOUS
  <1>5. T = S
    BY <1>3, <1>4, FS_Subset
  <1> QED BY <1>5

-----------------------------------------------------------------------------
(* What filter gives of a sequence.                                         *)

LEMMA AscendingLists ==
  ASSUME NEW K \in SUBSET Nat, IsFiniteSet(K)
  PROVE  /\ Cardinality(K) \in Nat /\ Ascending(K) \in [1..Cardinality(K) -> K]
         /\ \A j, k \in 1..Cardinality(K) : j < k => Ascending(K)[j] < Ascending(K)[k]
         /\ \A x \in K : \E k \in 1..Cardinality(K) : Ascending(K)[k] = x
  <1> PICK n : n = Cardinality(K)
    OBVIOUS
  <1>0. n \in Nat
    BY FS_CardinalityType
  <1> DEFINE R == {p \in K \X K : p[1] < p[2]}
  <1>1. \A x, y \in K : <<x, y>> \in R <=> x < y
    OBVIOUS
  <1>2. TotalOn(R, K)
    <2> HIDE DEF R
    <2>1. \A x, y \in K : x # y => x < y \/ y < x
      OBVIOUS
    <2>2. \A x, y, z \in K : x < y /\ y < z => x < z
      OBVIOUS
    <2> QED BY <1>1, <2>1, <2>2 DEF TotalOn
  <1> HIDE DEF R
  <1>3. PICK s : Lists(s, K, R)
    BY <1>2, ListExists
  <1> DEFINE Up(f) == \A j, k \in 1..n : j < k => f[j] < f[k]
  <1>4. s \in [1..n -> K] /\ Up(s)
    BY <1>1, <1>3 DEF Lists
  <1> PICK f : f = Ascending(K)
    OBVIOUS
  <1>5. f = CHOOSE g \in [1..n -> K] : Up(g)
    BY DEF Ascending
  <1> HIDE DEF Up
  <1>6. f \in [1..n -> K] /\ Up(f)
    BY <1>4, <1>5
  <1>7. \A j, k \in 1..n : j < k => f[j] # f[k]
    <2>1. \A j, k \in 1..n : j < k => f[j] < f[k] /\ f[j] \in Nat /\ f[k] \in Nat
      BY <1>6 DEF Up
    <2> QED BY <2>1
  <1>8. \A x \in K : \E k \in 1..n : f[k] = x
    <2>1. f \in [1..Cardinality(K) -> K] /\ \A j, k \in 1..Cardinality(K) : j < k => f[j] # f[k]
      BY <1>6, <1>7
    <2>2. \A x \in K : \E k \in 1..Cardinality(K) : f[k] = x
      BY <2>1, NoneLeftOut
    <2> QED BY <2>2
  <1> QED BY <1>0, <1>6, <1>8 DEF Up

\* Where the elements of q, which Only(s, T) is, are in s.
TakenAt(q, s, T, n, f) ==
    /\ f \in [1..n -> 1..Len(s)] /\ Len(q) = n
    /\ \A j, k \in 1..n : j < k => f[j] < f[k]
    /\ \A k \in 1..n : q[k] = s[f[k]] /\ s[f[k]] \in T
    /\ \A k \in 1..Len(s) : s[k] \in T => \E j \in 1..n : f[j] = k

LEMMA OnlyPlaces ==
  ASSUME NEW S, NEW s \in Seq(S), NEW T
  PROVE  Only(s, T) \in Seq(S) /\ \E n \in Nat : \E f : TakenAt(Only(s, T), s, T, n, f)
  <1> PICK K : K = {k \in DOMAIN s : s[k] \in T}
    OBVIOUS
  <1>1. Len(s) \in Nat /\ DOMAIN s = 1..Len(s) /\ K \in SUBSET Nat /\ K \subseteq 1..Len(s)
    OBVIOUS
  <1>2. IsFiniteSet(K)
    <2>1. IsFiniteSet(1..Len(s))
      BY <1>1, FS_Interval
    <2> QED BY <1>1, <2>1, FS_Subset
  <1> PICK n : n = Cardinality(K)
    OBVIOUS
  <1> PICK f : f = Ascending(K)
    OBVIOUS
  <1>3. /\ n \in Nat /\ f \in [1..n -> K]
        /\ \A j, k \in 1..n : j < k => f[j] < f[k]
        /\ \A x \in K : \E k \in 1..n : f[k] = x
    BY <1>1, <1>2, AscendingLists
  <1> PICK q : q = Only(s, T)
    OBVIOUS
  <1>4. q = [k \in 1..n |-> s[f[k]]]
    BY <1>3 DEF Only
  <1>5. \A k \in 1..n : f[k] \in K /\ f[k] \in DOMAIN s /\ s[f[k]] \in T /\ s[f[k]] \in S
    BY <1>1, <1>3
  <1>6. q \in Seq(S) /\ Len(q) = n
    BY <1>3, <1>4, <1>5
  <1>7. f \in [1..n -> 1..Len(s)]
    <2>1. \A k \in 1..n : f[k] \in 1..Len(s)
      BY <1>1, <1>3
    <2> QED BY <1>3, <2>1
  <1>8. \A k \in 1..Len(s) : s[k] \in T => \E j \in 1..n : f[j] = k
    BY <1>1, <1>3
  <1>9. TakenAt(q, s, T, n, f)
    BY <1>3, <1>4, <1>5, <1>6, <1>7, <1>8 DEF TakenAt
  <1> QED BY <1>3, <1>6, <1>9

\* The elements are those in T; what there is once stays there once.
LEMMA OnlyFacts ==
  ASSUME NEW S, NEW s \in Seq(S), NEW T
  PROVE  /\ Only(s, T) \in Seq(S)
         /\ \A x : (\E k \in DOMAIN Only(s, T) : Only(s, T)[k] = x) <=> (x \in T /\ \E k \in DOMAIN s : s[k] = x)
         /\ (\A j, k \in DOMAIN s : s[j] = s[k] => j = k) =>
              \A j, k \in DOMAIN Only(s, T) : Only(s, T)[j] = Only(s, T)[k] => j = k
  <1> PICK q : q = Only(s, T)
    OBVIOUS
  <1>0. q \in Seq(S) /\ \E n \in Nat : \E f : TakenAt(q, s, T, n, f)
    BY OnlyPlaces
  <1> PICK n \in Nat : \E f : TakenAt(q, s, T, n, f)
    BY <1>0
  <1> PICK f : TakenAt(q, s, T, n, f)
    OBVIOUS
  <1>1. /\ f \in [1..n -> 1..Len(s)] /\ Len(q) = n
        /\ \A j, k \in 1..n : j < k => f[j] < f[k]
        /\ \A k \in 1..n : q[k] = s[f[k]] /\ s[f[k]] \in T
        /\ \A k \in 1..Len(s) : s[k] \in T => \E j \in 1..n : f[j] = k
    BY DEF TakenAt
  <1>2. /\ q \in Seq(S) /\ DOMAIN q = 1..n /\ DOMAIN s = 1..Len(s) /\ Len(s) \in Nat
        /\ \A k \in 1..n : q[k] = s[f[k]] /\ s[f[k]] \in T /\ f[k] \in DOMAIN s
        /\ \A k \in DOMAIN s : s[k] \in T => \E j \in 1..n : f[j] = k
    <2>1. DOMAIN q = 1..n /\ DOMAIN s = 1..Len(s) /\ Len(s) \in Nat
      BY <1>0, <1>1
    <2>2. \A k \in 1..n : f[k] \in DOMAIN s
      BY <1>1, <2>1
    <2> QED BY <1>0, <1>1, <2>1, <2>2
  <1>3. ASSUME NEW x
        PROVE  (\E k \in DOMAIN q : q[k] = x) <=> (x \in T /\ \E k \in DOMAIN s : s[k] = x)
    <2>1. ASSUME NEW k \in DOMAIN q, q[k] = x PROVE x \in T /\ \E j \in DOMAIN s : s[j] = x
      BY <1>2, <2>1
    <2>2. ASSUME x \in T, NEW j \in DOMAIN s, s[j] = x PROVE \E k \in DOMAIN q : q[k] = x
      <3>1. PICK k \in 1..n : f[k] = j
        BY <1>2, <2>2
      <3> QED BY <1>2, <2>2, <3>1
    <2> QED BY <2>1, <2>2
  <1>4. ASSUME \A j, k \in DOMAIN s : s[j] = s[k] => j = k, NEW j \in DOMAIN q, NEW k \in DOMAIN q, q[j] = q[k]
        PROVE  j = k
    <2>1. f[j] = f[k] /\ f[j] \in Int /\ f[k] \in Int
      BY <1>2, <1>4
    <2>2. ~(j < k) /\ ~(k < j)
      BY <1>1, <1>2, <2>1
    <2> QED BY <1>2, <2>2
  <1> QED BY <1>2, <1>3, <1>4

-----------------------------------------------------------------------------
(* Bounds on what is under way. *)

\* A finite set of n elements at most.
AtMost(S, n) == IsFiniteSet(S) /\ Cardinality(S) <= n

LEMMA NoneAtMost ==
  ASSUME NEW n \in Nat
  PROVE  AtMost({}, n)
  BY FS_EmptySet DEF AtMost

LEMMA PartAtMost ==
  ASSUME NEW S, NEW n \in Nat, AtMost(S, n), NEW T \in SUBSET S
  PROVE  AtMost(T, n)
  <1>1. IsFiniteSet(T) /\ Cardinality(T) <= Cardinality(S)
    BY FS_Subset DEF AtMost
  <1> QED BY <1>1, FS_CardinalityType DEF AtMost

LEMMA OneMore ==
  ASSUME NEW S, NEW n \in Nat, IsFiniteSet(S), Cardinality(S) < n, NEW x
  PROVE  AtMost(S \cup {x}, n)
  <1>1. Cardinality(S) \in Nat
    BY FS_CardinalityType
  <1> QED BY <1>1, FS_AddElement DEF AtMost

LEMMA OneSwapped ==
  ASSUME NEW S, NEW n \in Nat, AtMost(S, n), NEW x \in S, NEW y
  PROVE  AtMost((S \ {x}) \cup {y}, n)
  <1>1. IsFiniteSet(S \ {x}) /\ Cardinality(S \ {x}) = Cardinality(S) - 1 /\ Cardinality(S) \in Nat
    BY FS_RemoveElement, FS_CardinalityType DEF AtMost
  <1> PICK R : R = S \ {x}
    OBVIOUS
  <1>2. IsFiniteSet(R) /\ Cardinality(R) < n
    BY <1>1 DEF AtMost
  <1> QED BY <1>2, OneMore

LEMMA AndOneMore ==
  ASSUME NEW S, NEW n \in Nat, AtMost(S, n), NEW x
  PROVE  AtMost(S \cup {x}, n + 1)
  <1>1. IsFiniteSet(S) /\ Cardinality(S) \in Nat /\ Cardinality(S) <= n
    BY FS_CardinalityType DEF AtMost
  <1>2. n + 1 \in Nat /\ Cardinality(S) < n + 1
    BY <1>1
  <1> QED BY <1>1, <1>2, OneMore

LEMMA OneLess ==
  ASSUME NEW S, NEW n \in Nat, AtMost(S, n), NEW x \in S
  PROVE  n - 1 \in Nat /\ AtMost(S \ {x}, n - 1)
  <1>1. IsFiniteSet(S \ {x}) /\ Cardinality(S \ {x}) = Cardinality(S) - 1 /\ Cardinality(S) \in Nat
        /\ Cardinality(S \ {x}) \in Nat
    BY FS_RemoveElement, FS_CardinalityType DEF AtMost
  <1> QED BY <1>1 DEF AtMost

\* What a function makes of the elements is not more than they are.
LEMMA Renamed ==
  ASSUME NEW S, NEW n \in Nat, AtMost(S, n), NEW T, NEW f \in [S -> T], \A y \in T : \E x \in S : f[x] = y
  PROVE  AtMost(T, n)
  <1>1. f \in Surjection(S, T)
    BY DEF Surjection
  <1>2. IsFiniteSet(T) /\ Cardinality(T) <= Cardinality(S)
    BY <1>1, FS_Surjection DEF AtMost
  <1> QED BY <1>2, FS_CardinalityType DEF AtMost
=============================================================================

----------------------------- MODULE SeqFilter -------------------------------
(***************************************************************************)
(* The elements of a sequence that belong to a set, in their order: what    *)
(* filter gives of an array.  SelectSeq, said without the recursion that    *)
(* hides it from a proof.                                                   *)
(***************************************************************************)
EXTENDS Naturals, FiniteSets, Sequences

(* The members of a finite set of naturals, smallest first.                 *)
Ascending(K) == CHOOSE f \in [1..Cardinality(K) -> K] :
                  \A j, k \in 1..Cardinality(K) : j < k => f[j] < f[k]
Only(s, T)   == LET f == Ascending({k \in DOMAIN s : s[k] \in T})
                IN  [n \in DOMAIN f |-> s[f[n]]]
=============================================================================

---- MODULE MCTaskTable ----
(* Instances of TaskTable small enough for TLC. *)
EXTENDS TaskTable, TLC

Perms == Permutations(Agent) \union Permutations(Issue)
             \union Permutations(Runtime) \union Permutations(Session)
====

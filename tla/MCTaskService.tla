---- MODULE MCTaskService ----
(* Instances of TaskService small enough for TLC. *)
EXTENDS TaskService, TLC

Perms == Permutations(Agent) \union Permutations(Issue)
             \union Permutations(Runtime) \union Permutations(Handlers)
====

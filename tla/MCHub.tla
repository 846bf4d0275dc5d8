---- MODULE MCHub ----
(* Instances of Hub small enough for TLC. *)
EXTENDS Hub, TLC

Perms == Permutations(Client) \union Permutations(User)
             \union Permutations(Room) \union Permutations(Publisher)
====

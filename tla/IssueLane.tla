----------------------------- MODULE IssueLane -----------------------------
(***************************************************************************)
(* What the task queue promises each issue: its tasks form a lane in which *)
(* at most one task waits and at most one is worked on.  A task enters the *)
(* lane once, is taken from the waiting place once, and when it has left   *)
(* the lane it never comes back.                                           *)
(*                                                                         *)
(* TaskTable implements this (FormsLanes there): waiting are its queued   *)
(* rows, working its dispatched and running ones.                          *)
(***************************************************************************)
EXTENDS Integers

CONSTANTS Lane,       \* the issues
          LaneTask    \* the tasks that may ever exist

VARIABLES seen,       \* tasks that have ever been enqueued
          waiting,    \* per lane: the tasks that wait
          working     \* per lane: the tasks that are worked on

laneVars == <<seen, waiting, working>>

LaneInit ==
    /\ seen = {}
    /\ waiting = [i \in Lane |-> {}]
    /\ working = [i \in Lane |-> {}]

\* A new task takes the free waiting place.
EnterLane(i, t) ==
    /\ t \notin seen /\ waiting[i] = {}
    /\ seen' = seen \union {t}
    /\ waiting' = [waiting EXCEPT ![i] = {t}]
    /\ UNCHANGED working

\* The waiting task is taken when nothing is worked on.
TakeUp(i, t) ==
    /\ waiting[i] = {t} /\ working[i] = {}
    /\ waiting' = [waiting EXCEPT ![i] = {}]
    /\ working' = [working EXCEPT ![i] = {t}]
    /\ UNCHANGED seen

\* Tasks end or are cancelled, in any number of lanes at once.
Leave ==
    /\ waiting' \in [Lane -> SUBSET LaneTask]
    /\ working' \in [Lane -> SUBSET LaneTask]
    /\ \A i \in Lane : waiting'[i] \subseteq waiting[i] /\ working'[i] \subseteq working[i]
    /\ UNCHANGED seen

LaneNext ==
    \/ \E i \in Lane, t \in LaneTask : EnterLane(i, t) \/ TakeUp(i, t)
    \/ Leave

LaneSpec == LaneInit /\ [][LaneNext]_laneVars
=============================================================================

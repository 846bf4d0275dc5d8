------------------------------- MODULE MCDaemon -------------------------------
(***************************************************************************)
(* A machine's daemon: the tasks it polls for, and the pings and CLI       *)
(* updates it is asked for by heartbeat. They meet in the restart that an  *)
(* update triggers, which each has as an action of its own, so that the    *)
(* behaviours to look at are those of one at a time: focus says which one  *)
(* moves.                                                                  *)
(***************************************************************************)
EXTENDS DaemonTasks, RuntimeRequests, TLC

VARIABLE focus

machineVars == <<focus, daemonVars, requestVars>>

Parts == {"tasks", "requests"}

\* A part that is not looked at stays where it starts.
MachineInit ==
    /\ focus \in Parts
    /\ DaemonInit /\ RequestInit

MovesTasks == focus = "tasks" /\ DaemonNext
    /\ UNCHANGED <<focus, requestVars>>
MovesRequests == focus = "requests" /\ RequestNext
    /\ UNCHANGED <<focus, daemonVars>>

MachineNext ==
    \/ MovesTasks \/ MovesRequests

\* What must be fair of a part is disabled where it starts, so that the part
\* that does not move meets its conditions.
MachineSpec ==
    /\ MachineInit /\ [][MachineNext]_machineVars
    /\ DaemonFairness /\ RequestFairness

\* Type correctness of the part that moves.
MachineTypeOK ==
    /\ focus = "tasks" => DaemonTypeOK
    /\ focus = "requests" => RequestTypeOK
===============================================================================

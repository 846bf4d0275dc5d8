-------------------------------- MODULE MCEnds --------------------------------
(***************************************************************************)
(* The connections, and the parts that poll over them, in which what was   *)
(* started must end whatever is lost: the websocket hub, the mesh link, a  *)
(* conversation that is polled, the probes of the runtimes page, and the   *)
(* workspaces a daemon watches. They share no state, so that the           *)
(* behaviours to look at are those of one at a time: focus says which one  *)
(* moves.                                                                  *)
(***************************************************************************)
EXTENDS Hub, MeshLink, Conversations, RuntimePage, DaemonWatch, TLC

VARIABLE focus

endsVars == <<focus, hubVars, linkVars, convVars, probeVars, watchVars>>

Parts == {"hub", "link", "conversation", "probes", "watch"}

\* A part that is not looked at stays where it starts.
EndsInit ==
    /\ focus \in Parts
    /\ HubInit /\ LinkInit /\ ConvInit /\ ProbeInit /\ WatchInit
    /\ focus # "hub" => \A c \in Client : roomOf[c] = CHOOSE w \in Room : TRUE
    /\ focus # "conversation" => convKind = "chat"
    /\ focus # "probes" => section = "ping"
    /\ focus # "watch" => belongs = {}
    /\ roomOf[CHOOSE c \in Client : TRUE] = CHOOSE w \in Room : TRUE  \* rooms are alike

MovesHub == focus = "hub" /\ HubNext
    /\ UNCHANGED <<focus, linkVars, convVars, probeVars, watchVars>>
MovesLink == focus = "link" /\ LinkNext
    /\ UNCHANGED <<focus, hubVars, convVars, probeVars, watchVars>>
MovesConversation == focus = "conversation" /\ ConvNext
    /\ UNCHANGED <<focus, hubVars, linkVars, probeVars, watchVars>>
MovesProbes == focus = "probes" /\ ProbeNext
    /\ UNCHANGED <<focus, hubVars, linkVars, convVars, watchVars>>
MovesWatch == focus = "watch" /\ WatchNext
    /\ UNCHANGED <<focus, hubVars, linkVars, convVars, probeVars>>

EndsNext ==
    \/ MovesHub \/ MovesLink \/ MovesConversation \/ MovesProbes
    \/ MovesWatch

\* What must be fair of a part is disabled where it starts, so that the parts
\* that do not move meet their conditions.
EndsSpec ==
    /\ EndsInit /\ [][EndsNext]_endsVars
    /\ HubFairness /\ LinkFairness /\ ConvFairness /\ ProbeFairness
    /\ WatchFairness

\* Type correctness of the part that moves.
EndsTypeOK ==
    /\ focus = "hub" => HubTypeOK
    /\ focus = "link" => LinkTypeOK
    /\ focus = "conversation" => ConvTypeOK
    /\ focus = "probes" => ProbeTypeOK
    /\ focus = "watch" => WatchTypeOK

\* Who is where agrees on both sides: the hub's rooms with its connections, the
\* workspaces a daemon serves with those its file lists (and every variable
\* keeps its type).
RoomsAndWatches == EndsTypeOK /\ RoomsAndChannels /\ FollowsConfig
===============================================================================

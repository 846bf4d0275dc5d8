------------------------------ MODULE MeshTalk ------------------------------
(***************************************************************************)
(* The tools an MCP host calls to talk on the mesh: listen, chat and the    *)
(* multi-turn chat, which poll the hub, the tools that send, and the shared *)
(* context of a session.  The host runs one polling tool at a time, as the  *)
(* listen tool tells it to; contexts may be shared side by side.  The hub's *)
(* log holds the messages of this agent's feeds, in the order of their ids. *)
(***************************************************************************)
EXTENDS SeqFilter, SequencesExt

CONSTANTS MaxLog,           \* bound on the messages
          MaxTurns,         \* bound on the correlation ids made
          PageSize,         \* messages the hub answers a poll with
          Notes             \* files, snippets and decisions that are shared

ASSUME TalkAssumption == MaxLog \in Nat /\ MaxTurns \in Nat /\ PageSize \in Nat \ {0}

VARIABLES isAgent,          \* state.agentId is set
          log,              \* the hub's messages
          lastProcessed,    \* state.lastProcessedId by key, 0 for none
          tool,             \* the polling tool that runs
          turns,            \* correlation ids made
          handed,           \* history: ids listen returned, by key
          replies,          \* history: what the chats returned, and for which turn
          context,          \* the session's context at the hub
          shares,           \* share_context calls between their two requests
          noted, contextCrossed    \* history: notes shared; two writes crossed

talkVars == <<isAgent, log, lastProcessed, tool, turns, handed, replies,
              context, shares, noted, contextCrossed>>
talkVarsOfHub    == <<isAgent, log, context, shares, noted, contextCrossed>>
contextVars == <<context, shares, noted, contextCrossed>>

NoteKeys    == {"dm", "session", "channel"}
Message == [from : {"me", "peer"}, in : NoteKeys, hit : BOOLEAN, corr : 0..MaxTurns]
NoTool  == [name |-> "none", key |-> "dm", last |-> 0, step |-> "done", corr |-> 0]
Tool    == [name : {"none", "listen", "chat", "turn"}, key : NoteKeys, last : 0..MaxLog,
            step : {"baseline", "session", "send", "poll", "done"}, corr : 0..MaxTurns]

TalkInit ==
  /\ isAgent = FALSE /\ log = <<>> /\ lastProcessed = [k \in NoteKeys |-> 0]
  /\ tool = NoTool /\ turns = 0
  /\ handed = [k \in NoteKeys |-> <<>>] /\ replies = {}
  /\ context = {} /\ shares = {} /\ noted = {} /\ contextCrossed = FALSE

----------------------------------------------------------------------------
(* The hub.  Whether a message mentions the agent is told apart in channels *)
(* only, and the correlation id only of what the peer says.  An agent's own *)
(* feed has its direct and its session messages;                            *)
(* a poll is answered with the first ones after an id, or the latest ones.  *)
InFeed(m, key) == m.in = key \/ (key = "dm" /\ m.in = "session")
FeedIds(key)   == Ascending({n \in DOMAIN log : InFeed(log[n], key)})
FirstOf(s, n)  == SubSeq(s, 1, IF Len(s) < n THEN Len(s) ELSE n)
LatestOf(s, n) == SubSeq(s, IF Len(s) < n THEN 1 ELSE Len(s) - n + 1, Len(s))
Page(key, last) ==
  IF last = 0 THEN LatestOf(FeedIds(key), PageSize)
  ELSE FirstOf(Only(FeedIds(key), {n \in DOMAIN log : n > last}), PageSize)

Post(m) == Len(log) < MaxLog /\ log' = Append(log, m)
Says(in) == Post([from |-> "me", in |-> in, hit |-> FALSE, corr |-> 0])

PeerSends ==
  /\ \/ \E in \in {"dm", "session"}, corr \in 0..turns :
          Post([from |-> "peer", in |-> in, hit |-> FALSE, corr |-> corr])
     \/ \E hit \in BOOLEAN : Post([from |-> "peer", in |-> "channel", hit |-> hit, corr |-> 0])
  /\ UNCHANGED <<isAgent, lastProcessed, tool, turns, handed, replies, contextVars>>

Register ==
  /\ ~isAgent /\ isAgent' = TRUE
  /\ UNCHANGED <<log, lastProcessed, tool, turns, handed, replies, contextVars>>

----------------------------------------------------------------------------
(* agentmesh_listen.                                                        *)
Listen(key) ==
  /\ isAgent /\ tool = NoTool
  /\ tool' = [NoTool EXCEPT !.name = "listen", !.key = key, !.last = lastProcessed[key],
                            !.step = IF lastProcessed[key] = 0 THEN "baseline" ELSE "poll"]
  /\ UNCHANGED <<talkVarsOfHub, lastProcessed, turns, handed, replies>>

(* The newest message becomes the baseline, kept by this call only; when    *)
(* the request fails or there is none, the call goes on without one.        *)
TakeBaseline ==
  /\ tool.step = "baseline"
  /\ \E newest \in {0} \cup Range(LatestOf(FeedIds(tool.key), 1)) :
       tool' = [tool EXCEPT !.last = newest, !.step = "poll"]
  /\ UNCHANGED <<talkVarsOfHub, lastProcessed, turns, handed, replies>>

(* A direct or session message must be answered, a channel's only when it   *)
(* mentions the agent or one of its capabilities.                           *)
Relevant(m) == m.from # "me" /\ (m.in = "channel" => m.hit)

(* One poll: the cursor moves past the whole page, and the first relevant   *)
(* message of it is handed to the host, the others are not.                 *)
SavedNever(last, page) == last  \* mutant of Saved: not kept
Saved(last, page) == IF page = <<>> THEN last ELSE Last(page)
PollListen ==
  /\ tool.name = "listen" /\ tool.step = "poll"
  /\ LET page  == Page(tool.key, tool.last)
         found == Only(page, {n \in DOMAIN log : Relevant(log[n])})
     IN /\ lastProcessed' = [lastProcessed EXCEPT ![tool.key] = Saved(@, page)]
        /\ IF found = <<>>
           THEN /\ tool' = [tool EXCEPT !.last = Saved(@, page)]
                /\ UNCHANGED handed
           ELSE /\ tool' = NoTool
                /\ handed' = [handed EXCEPT ![tool.key] = Append(@, found[1])]
  /\ UNCHANGED <<talkVarsOfHub, turns, replies>>

(* The time is up; a chat's poll that fails ends the tool as well.          *)
ToolEnds ==
  /\ tool.step \in {"poll", "send", "session"} /\ tool' = NoTool
  /\ UNCHANGED <<talkVarsOfHub, lastProcessed, turns, handed, replies>>

----------------------------------------------------------------------------
(* agentmesh_chat and agentmesh_multi_turn_chat: a session when none was    *)
(* given, the message with a new correlation id, the polls.                 *)
Chat ==
  /\ isAgent /\ tool = NoTool /\ turns < MaxTurns
  /\ turns' = turns + 1
  /\ \E step \in {"session", "send"} :
       tool' = [NoTool EXCEPT !.name = IF step = "send" THEN "chat" ELSE "turn",
                              !.step = step, !.corr = turns + 1]
  /\ UNCHANGED <<talkVarsOfHub, lastProcessed, handed, replies>>

SessionReady ==
  /\ tool.step = "session" /\ tool' = [tool EXCEPT !.step = "send"]
  /\ UNCHANGED <<talkVarsOfHub, lastProcessed, turns, handed, replies>>

ChatSends ==
  /\ tool.step = "send" /\ tool' = [tool EXCEPT !.step = "poll"]
  /\ Says(IF tool.name = "chat" THEN "dm" ELSE "session")
  /\ UNCHANGED <<isAgent, lastProcessed, turns, handed, replies, contextVars>>

(* A chat takes what carries its correlation id; a turn also what the       *)
(* session's other side says without any.                                   *)
IsAnything(m) == m.from = "peer"  \* mutant of IsReply: whatever the peer says
IsReply(m) ==
  /\ m.from = "peer"
  /\ \/ m.corr = tool.corr
     \/ tool.name = "turn" /\ m.in = "session" /\ m.corr = 0

PollReply ==
  /\ tool.name \in {"chat", "turn"} /\ tool.step = "poll"
  /\ LET page  == Page("dm", tool.last)
         found == Only(page, {n \in DOMAIN log : IsReply(log[n])})
     IN IF found = <<>>
        THEN tool' = [tool EXCEPT !.last = Saved(@, page)] /\ UNCHANGED replies
        ELSE /\ tool' = NoTool
             /\ replies' = replies \cup {[id |-> found[1], turn |-> tool.corr]}
  /\ UNCHANGED <<talkVarsOfHub, lastProcessed, turns, handed>>

----------------------------------------------------------------------------
(* The tools that send and return.  Those of the first kind ask for a       *)
(* registered agent.  Those of the second do not: before it registers they  *)
(* go out in the owner's name and are no messages of its feeds; after that  *)
(* owner_send, too, sends with the agent's token.                           *)
SendMessage == isAgent /\ Says("dm")
SubmitPlan  == isAgent /\ Says("session")
SendFile    == IF isAgent THEN Says("dm") ELSE UNCHANGED log
SendToChannel == IF isAgent THEN Says("channel") ELSE UNCHANGED log
Broadcast   == IF isAgent THEN Says("dm") ELSE UNCHANGED log
OwnerSend   == IF isAgent THEN Says("dm") ELSE UNCHANGED log
InviteToSession == IF isAgent THEN Says("session") ELSE UNCHANGED log

SendTool ==
  /\ \/ SendMessage \/ SubmitPlan \/ SendFile \/ SendToChannel
     \/ Broadcast \/ OwnerSend \/ InviteToSession
  /\ UNCHANGED <<isAgent, lastProcessed, tool, turns, handed, replies, contextVars>>

(* agentmesh_share_context reads the context and writes it back whole, with *)
(* the note merged in.                                                      *)
ShareReads ==
  /\ \E n \in Notes \ noted :
       shares' = shares \cup {[note |-> n, read |-> context]}
  /\ UNCHANGED <<isAgent, log, lastProcessed, tool, turns, handed, replies,
                 context, noted, contextCrossed>>

NotesReplaced(read, note) == {note}  \* mutant of NewContext
NewContext(read, note) == read \cup {note}
ShareWrites ==
  \E s \in shares :
    /\ shares' = shares \ {s}
    /\ context' = NewContext(s.read, s.note)
    /\ noted' = noted \cup {s.note}
    /\ contextCrossed' = (contextCrossed \/ s.read # context)
    /\ UNCHANGED <<isAgent, log, lastProcessed, tool, turns, handed, replies>>

ShareFails ==
  \E s \in shares :
    /\ shares' = shares \ {s}
    /\ UNCHANGED <<isAgent, log, lastProcessed, tool, turns, handed, replies,
                   context, noted, contextCrossed>>

ToolSteps ==
  \/ PeerSends \/ Register
  \/ \E key \in NoteKeys : Listen(key)
  \/ TakeBaseline \/ PollListen \/ ToolEnds
  \/ Chat \/ SessionReady \/ ChatSends \/ PollReply \/ SendTool

ContextSteps == ShareReads \/ ShareWrites \/ ShareFails

TalkNext == ToolSteps \/ ContextSteps
TalkSpec == TalkInit /\ [][TalkNext]_talkVars

----------------------------------------------------------------------------
(* Type correctness of the tools and the hub's log.                         *)
TalkTypeOK ==
  /\ isAgent \in BOOLEAN /\ log \in Seq(Message) /\ Len(log) <= MaxLog
  /\ lastProcessed \in [NoteKeys -> 0..MaxLog] /\ tool \in Tool /\ turns \in 0..MaxTurns
  /\ context \subseteq Notes /\ noted \subseteq Notes /\ contextCrossed \in BOOLEAN

(* "Call agentmesh_listen() again to continue listening": however the calls *)
(* end and whichever requests fail, no message is handed to the host twice, *)
(* and each conversation's come in its order.                               *)
Increasing(s) == \A m, n \in DOMAIN s : m < n => s[m] < s[n]
ListenInOrder == \A key \in NoteKeys : Increasing(handed[key])

(* A chat that asked later is never given the answer to an earlier one: an  *)
(* answer that names a turn ends the chat of that turn, once.               *)
RepliesMatch ==
  \A r, s \in replies :
    /\ log[r.id].corr # 0 => log[r.id].corr = r.turn
    /\ r.turn = s.turn => r = s

(* What was shared with a session stays in its context, unless two agents   *)
(* or two calls wrote it at the same time.                                  *)
ContextKept == ~contextCrossed => context = noted
=============================================================================

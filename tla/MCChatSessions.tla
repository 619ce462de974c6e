-------------------------- MODULE MCChatSessions --------------------------
(* Instances of ChatSessions for TLC.                                      *)
EXTENDS ChatSessions, TLC

CONSTANTS c1, g1

Main == "main"
Side == "side"
Made == "made"
Danger == "danger-full-access"
Write == "workspace-write"

NoChatBindings == [c \in Chats |-> None]
OnlyWrite == [k \in Keys |-> Write]

Event(c, words) ==
  [type |-> "im.message.receive_v1", channel |-> "websocket", complete |-> TRUE,
   signed |-> FALSE, chat |-> c, words |-> words, listed |-> {"@bot"}]
Posted(c, words) ==
  [Event(c, words) EXCEPT !.channel = "webhook", !.signed = TRUE, !.listed = {}]

(* A private chat and a group that is not bound to a workspace: messages   *)
(* with and without mentions, through both channels, and events that are   *)
(* filtered.                                                               *)
ChatEvents ==
  {Event(c1, <<"@bot", "hello">>), Event(c1, <<"@bot", "@user", "/new">>),
   Event(c1, <<"@bot", "/bind", Side>>), Event(c1, <<"@bot", "/mode", Danger>>),
   Event(c1, <<"@bot", "/mode", "reset">>), Event(c1, <<"@bot", "/status">>),
   Event(g1, <<"@bot", "/bind", Made>>), Posted(g1, <<"hello">>),
   Event(g1, <<"hello">>), Event(g1, <<"@user", "@bot", "hello">>)}

(* What follows an overlap is followed up only until the clock ticks.      *)
OverlapInTime == overlapped => clock = 0

(* A third run is followed up only where a chat has done nothing but ask,  *)
(* and its runs get no further than codex before their rows are ended.     *)
ThirdIsAsked ==
  Len(runs) > 2 =>
    /\ ~overlapped /\ clock = 0
    /\ \A r \in DOMAIN runs : phase[r] \in {"queued", "popped", "bridge", "ended"}
    /\ \A c \in Chats : conversation[c].status = "unbound"

(* The third message meets another at work only in the same chat, and in   *)
(* behaviours without a rejected call.                                     *)
ThirdMeetsOne ==
  received = 3 /\ Cardinality(AtWork) > 1 =>
    /\ mishaps = 0
    /\ \A h, i \in AtWork : message[h].chat = message[i].chat

(* A row that is ended under the controller is followed up only while no   *)
(* handlers have overlapped and the clock stands.                          *)
ReapedInCalm ==
  (\E r \in DOMAIN runs :
     runs[r].status = "ended" /\ phase[r] \notin {"ending", "endRetried", "ended"}) =>
    ~overlapped /\ clock = 0

HandlerSymmetry == Permutations(Handlers)
===========================================================================

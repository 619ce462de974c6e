--------------------------- MODULE ChatCommands ---------------------------
(***************************************************************************)
(* The gateway's handling of a chat message, from the Feishu event to the  *)
(* reply or the queued run. Handlers run concurrently, also for one chat,  *)
(* and every call to the store is a step.                                  *)
(***************************************************************************)
EXTENDS SessionStore

CONSTANTS
  Handlers,        \* the messages being handled at a time
  Events,          \* the events the channel may deliver
  AllowedChats,    \* feishu.allowFrom
  RequireMention,  \* feishu.requireMention
  MaxMessages      \* bound on the messages that are handled

ASSUME HandlerAssumption ==
  /\ AllowedChats \subseteq Chats
  /\ RequireMention \in BOOLEAN
  /\ MaxMessages \in Nat

VARIABLES
  step,       \* where a handler is
  message,    \* the envelope it handles
  seen,       \* what it has read
  received,   \* the number of messages taken so far
  report      \* the last /status of a chat: the run and how many are ahead

handlerVars == <<step, message, seen, received, report>>

---------------------------------------------------------------------------
(* The channel: an event carries words, mentions among them, each with the *)
(* name the event lists or with one that it does not list.                 *)

Commands == {"/status", "/abort", "/new", "/bind", "/mode", "/help"}
Slashes == Commands \cup {"/else"}
Mentions == {"@bot", "@user"}

(* The first word must be a mention that the event lists; then every       *)
(* mention that follows is taken off too.                                  *)
NormalizeMentionPrefix(words, listed) ==
  IF words # <<>> /\ words[1] \in listed
  THEN LET leading == {i \in DOMAIN words : \A j \in 1..i : words[j] \in Mentions}
       IN  SubSeq(words, Cardinality(leading) + 1, Len(words))
  ELSE words

ParseCommand(words) ==
  IF words = <<>> THEN [command |-> "empty", arg |-> None]
  ELSE IF words[1] \notin Slashes THEN [command |-> "prompt", arg |-> None]
  ELSE [command |-> IF words[1] \in Commands THEN words[1] ELSE "/help",
        arg |-> IF Len(words) > 1 THEN words[2] ELSE None]

Envelope(event) ==
  LET parsed == ParseCommand(NormalizeMentionPrefix(event.words, event.listed)) IN
  [chat |-> event.chat, command |-> parsed.command, arg |-> parsed.arg]

IsAllowed(c) == c \in AllowedChats

(* normalizeFeishuWebsocketEvent                                           *)
AcceptedByWebsocket(event) ==
  /\ event.type = "im.message.receive_v1"
  /\ event.complete
  /\ IsAllowed(event.chat)
  /\ RequireMention =>
       event.listed # {} /\ NormalizeMentionPrefix(event.words, event.listed) # event.words

(* The webhook route asks for a signature and for no mention.              *)
AcceptedByWebhook(event) == event.signed /\ event.complete /\ IsAllowed(event.chat)

Accepted(event) ==
  \/ event.channel = "websocket" /\ AcceptedByWebsocket(event)
  \/ event.channel = "webhook" /\ AcceptedByWebhook(event)

---------------------------------------------------------------------------
NoMessage == [chat |-> None, command |-> "empty", arg |-> None]
NothingSeen ==
  [conversation |-> NoConversation, key |-> None, source |-> "unbound", mode |-> None,
   active |-> FALSE, run |-> 0, position |-> 0]

HandlerTypeOK ==
  /\ \A h \in Handlers :
       /\ message[h].chat \in Chats \cup {None}
       /\ message[h].command \in Commands \cup {"empty", "prompt"}
       /\ seen[h].key \in Keys \cup {None} /\ seen[h].source \in Sources
       /\ seen[h].mode \in Modes \cup {None}
       /\ seen[h].run \in 0..Len(runs)
       /\ step[h] = "idle" <=> message[h] = NoMessage
  /\ received \in 0..MaxMessages
  /\ \A c \in Chats : report[c].run \in 0..Len(runs) /\ report[c].ahead \in Nat

HandlerInit ==
  /\ step = [h \in Handlers |-> "idle"]
  /\ message = [h \in Handlers |-> NoMessage]
  /\ seen = [h \in Handlers |-> NothingSeen]
  /\ received = 0
  /\ report = [c \in Chats |-> [run |-> 0, ahead |-> 0]]

Go(h, to) == step' = [step EXCEPT ![h] = to] /\ UNCHANGED <<message, received, report>>
Goto(h, to) == Go(h, to) /\ UNCHANGED seen

(* The reply, or the end without one: the handler is done with its message *)
End(h) ==
  /\ step' = [step EXCEPT ![h] = "idle"]
  /\ message' = [message EXCEPT ![h] = NoMessage]
  /\ seen' = [seen EXCEPT ![h] = NothingSeen]
  /\ UNCHANGED received
Reply(h) == End(h) /\ UNCHANGED report

Chat(h) == message[h].chat
At(h, where) == step[h] = where

(* Which call the route makes first, once there is a session; /bind first  *)
(* validates the key it is given.                                          *)
FirstStep(m) ==
  CASE m.command = "prompt" -> "readConversation"
    [] m.command = "/new" -> "deleteOverride"
    [] m.command \in {"/mode", "/status"} -> "readBinding"
    [] m.command = "/bind" /\ m.arg \in Keys -> "readBinding"
    [] OTHER -> "reply"

ReceiveMessage(h) ==
  /\ At(h, "idle") /\ received < MaxMessages
  /\ received' = received + 1
  /\ \E event \in Events :
       /\ Accepted(event)
       /\ message' = [message EXCEPT ![h] = Envelope(event)]
       /\ step' = [step EXCEPT ![h] =
            IF event.chat \in sessions THEN FirstStep(Envelope(event))
            ELSE "createSession"]
  /\ UNCHANGED <<storeVars, seen, report>>

(* A chat has one row: the second of two first messages is rejected.       *)
CreateSession(h) ==
  /\ At(h, "createSession")
  /\ IF Chat(h) \in sessions THEN Reply(h)
     ELSE Goto(h, FirstStep(message[h]))
  /\ sessions' = sessions \cup {Chat(h)}
  /\ UNCHANGED <<clock, binding, catalog, override, conversation, runs, queue>>

SendReply(h) == At(h, "reply") /\ Reply(h) /\ UNCHANGED storeVars

---------------------------------------------------------------------------
(* The workspace of a message, for /bind, /mode, /status and a prompt.     *)

See(h, s) == seen' = [seen EXCEPT ![h] = s]

ChoiceOfDefault(c) ==
  IF c \in Private THEN [key |-> DefaultKey, source |-> "default"] ELSE binding[c]

Choice(c) ==
  IF binding[c] # Unbound THEN binding[c]
  ELSE IF c \in Private THEN [key |-> DefaultKey, source |-> "default"]
  ELSE IF ChatBindings[c] # None THEN [key |-> ChatBindings[c], source |-> "config"]
  ELSE Unbound

ReadBinding(h) ==
  /\ At(h, "readBinding")
  /\ LET choice == Choice(Chat(h)) IN
       /\ See(h, [seen[h] EXCEPT !.key = choice.key, !.source = choice.source])
       /\ Go(h, IF choice # Unbound THEN "saveBinding"
                ELSE CASE message[h].command = "/bind" -> "resolveKey"
                       [] message[h].command = "/status" -> "readLatest"
                       [] OTHER -> "reply")
  /\ UNCHANGED storeVars

(* What was read is written back; then each command goes its way. A key    *)
(* that names nothing rejects the message.                                 *)
SaveResolved(h) ==
  /\ At(h, "saveBinding")
  /\ IF Exists(seen[h].key)
     THEN /\ SaveBinding(Chat(h), seen[h].key, seen[h].source)
          /\ Goto(h, CASE message[h].command = "/bind" ->
                             IF message[h].arg = seen[h].key THEN "reply" ELSE "findActive"
                       [] message[h].command = "/status" -> "readLatest"
                       [] OTHER -> "readOverride")
     ELSE Reply(h) /\ UNCHANGED binding
  /\ UNCHANGED <<clock, sessions, catalog, override, conversation, runs, queue>>

ResolveForChatForever(c, k) ==
  IF override[c].workspace = k THEN override[c].mode ELSE DefaultMode[k]

(* An override counts for the workspace it was set in, until it expires.   *)
ResolveForChat(c, k) ==
  IF override[c].workspace = k /\ clock < override[c].expiresAt
  THEN override[c].mode ELSE DefaultMode[k]

ReadOverride(h) ==
  /\ At(h, "readOverride")
  /\ See(h, [seen[h] EXCEPT !.mode = ResolveForChat(Chat(h), seen[h].key)])
  /\ Go(h, CASE message[h].command = "prompt" -> "findActive"
             [] message[h].arg = "reset" -> "resetMode"
             [] message[h].arg \in Modes -> "setMode"
             [] OTHER -> "reply")
  /\ UNCHANGED storeVars

---------------------------------------------------------------------------
(* /new                                                                    *)

NewDeleteOverride(h) ==
  /\ At(h, "deleteOverride")
  /\ DeleteOverride(Chat(h))
  /\ Goto(h, "resetConversation")
  /\ UNCHANGED <<clock, sessions, binding, catalog, conversation, runs, queue>>

NewReset(h) ==
  /\ At(h, "resetConversation")
  /\ MarkBindingReset(Chat(h))
  /\ Reply(h)
  /\ UNCHANGED <<clock, sessions, binding, catalog, override, runs, queue>>

---------------------------------------------------------------------------
(* /bind                                                                   *)

BindRefusesRunning(h) ==
  /\ At(h, "findActive") /\ message[h].command = "/bind"
  /\ Goto(h, IF \E r \in ActiveOf(Chat(h)) : runs[r].status = "running"
             THEN "reply" ELSE "resolveKey")
  /\ UNCHANGED storeVars

BindRefusesActive(h) ==
  /\ At(h, "findActive") /\ message[h].command = "/bind"
  /\ Goto(h, IF ActiveOf(Chat(h)) # {} THEN "reply" ELSE "resolveKey")
  /\ UNCHANGED storeVars

BindResolve(h) ==
  /\ At(h, "resolveKey")
  /\ Goto(h, IF Exists(message[h].arg) THEN "bindManual" ELSE "createWorkspace")
  /\ UNCHANGED storeVars

(* createWorkspace: the key may exist by now, and the copy may fail.       *)
BindCreate(h) ==
  /\ At(h, "createWorkspace")
  /\ \/ ~Exists(message[h].arg) /\ CreateEntry(message[h].arg) /\ Goto(h, "bindCreated")
     \/ Reply(h) /\ UNCHANGED catalog
  /\ UNCHANGED <<clock, sessions, binding, override, conversation, runs, queue>>

BindSave(h) ==
  /\ step[h] \in {"bindManual", "bindCreated"}
  /\ SaveBinding(Chat(h), message[h].arg, IF At(h, "bindManual") THEN "manual" ELSE "created")
  /\ Goto(h, "bindReset")
  /\ UNCHANGED <<clock, sessions, catalog, override, conversation, runs, queue>>

BindReset(h) ==
  /\ At(h, "bindReset")
  /\ IF conversation[Chat(h)].bridge # 0 THEN MarkBindingReset(Chat(h))
     ELSE UNCHANGED conversation
  /\ Goto(h, "bindClear")
  /\ UNCHANGED <<clock, sessions, binding, catalog, override, runs, queue>>

BindClear(h) ==
  /\ At(h, "bindClear")
  /\ DeleteOverride(Chat(h))
  /\ Reply(h)
  /\ UNCHANGED <<clock, sessions, binding, catalog, conversation, runs, queue>>

---------------------------------------------------------------------------
(* /mode                                                                   *)

ModeReset(h) ==
  /\ At(h, "resetMode")
  /\ DeleteOverride(Chat(h))
  /\ Reply(h)
  /\ UNCHANGED <<clock, sessions, binding, catalog, conversation, runs, queue>>

ModeSet(h) ==
  /\ At(h, "setMode")
  /\ UpsertOverride(Chat(h), seen[h].key, message[h].arg)
  /\ Reply(h)
  /\ UNCHANGED <<clock, sessions, binding, catalog, conversation, runs, queue>>

---------------------------------------------------------------------------
(* /status                                                                 *)

StatusLatest(h) ==
  /\ At(h, "readLatest")
  /\ LET c == Chat(h) IN
       IF seen[h].key # None /\ RunsOf(c) # {} /\ runs[Latest(c)].status = "queued"
       THEN See(h, [seen[h] EXCEPT !.run = Latest(c)]) /\ Go(h, "statusActive")
       ELSE Goto(h, "reply")
  /\ UNCHANGED storeVars

StatusActive(h) ==
  /\ At(h, "statusActive")
  /\ See(h, [seen[h] EXCEPT !.active = ActiveIn(seen[h].key) # {}])
  /\ Go(h, "statusAhead")
  /\ UNCHANGED storeVars

StatusAhead(h) ==
  /\ At(h, "statusAhead")
  /\ report' = [report EXCEPT ![Chat(h)] =
       [run |-> seen[h].run, ahead |-> AheadCount(seen[h].key, seen[h].run, seen[h].active)]]
  /\ End(h)
  /\ UNCHANGED storeVars

---------------------------------------------------------------------------
(* A prompt                                                                *)

ReadConversation(h) ==
  /\ At(h, "readConversation")
  /\ See(h, [seen[h] EXCEPT !.conversation = conversation[Chat(h)]])
  /\ Go(h, "readBinding")
  /\ UNCHANGED storeVars

ResolveSessionOfWorkspace(s) ==
  IF s.conversation.workspace = s.key THEN s.conversation.bridge ELSE 0

ResolveRequestedSession(s) ==
  IF s.conversation.workspace = s.key /\ s.conversation.mode = s.mode
  THEN s.conversation.bridge ELSE 0

PromptFindsActive(h) ==
  /\ At(h, "findActive") /\ message[h].command = "prompt"
  /\ See(h, [seen[h] EXCEPT !.active = ActiveIn(seen[h].key) # {}])
  /\ Go(h, "createRun")
  /\ UNCHANGED storeVars

PromptCreatesRun(h) ==
  /\ At(h, "createRun") /\ Len(runs) < MaxRuns
  /\ CreateQueuedRun(Chat(h), seen[h].key, seen[h].mode, ResolveRequestedSession(seen[h]))
  /\ See(h, [seen[h] EXCEPT !.run = Len(runs) + 1])
  /\ Go(h, "pushRun")
  /\ UNCHANGED <<clock, sessions, binding, catalog, override, conversation, queue>>

PositionInQueue(h) == Len(queue[seen[h].key])

PositionOf(h) == Len(queue[seen[h].key]) + (IF seen[h].active THEN 1 ELSE 0)

(* rpush answers with the length that the reply reports.                   *)
PromptPushesRun(h) ==
  /\ At(h, "pushRun")
  /\ Enqueue(seen[h].key, seen[h].run)
  /\ See(h, [seen[h] EXCEPT !.position = PositionOf(h)])
  /\ Go(h, "savePosition")
  /\ UNCHANGED <<clock, sessions, binding, catalog, override, conversation, runs>>

PromptSavesPosition(h) ==
  /\ At(h, "savePosition")
  /\ UpdateQueuePosition(seen[h].run, seen[h].position)
  /\ Reply(h)
  /\ UNCHANGED <<clock, sessions, binding, catalog, override, conversation, queue>>
===========================================================================

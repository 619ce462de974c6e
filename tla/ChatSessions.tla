--------------------------- MODULE ChatSessions ---------------------------
(***************************************************************************)
(* Chats and their runs: the handlers of the gateway, the part of the      *)
(* executor's run controller that keeps the codex session of a chat, and   *)
(* calls that are rejected in the middle of a handler.                     *)
(***************************************************************************)
EXTENDS ChatCommands

CONSTANT MaxMishaps   \* bound on the rejected calls

ASSUME MishapAssumption == MaxMishaps \in Nat

VARIABLES
  phase,       \* where the controller is with a run
  returned,    \* the bridge_session_id of its result
  mishaps,
  overlapped,  \* history: two handlers were at work at once, or one was cut short
  intent       \* history: what the commands of a chat asked for, in order

vars == <<storeVars, handlerVars, phase, returned, mishaps, overlapped, intent>>

NoIntent == [key |-> None, mode |-> None, workspace |-> None, until |-> 0,
             fresh |-> 0, active |-> {}]

AtWork == {h \in Handlers : step[h] # "idle"}

Fresh == {"bridge", "completed", "saveBound", "saveRecovered", "ending"}
Retrying == {"invalid", "retry", "retried", "saveRetried", "endRetried"}
Phases == {"queued", "popped", "ended"} \cup Fresh \cup Retrying

TypeOK ==
  /\ StoreTypeOK
  /\ HandlerTypeOK
  /\ DOMAIN phase = DOMAIN runs /\ DOMAIN returned = DOMAIN runs
  /\ \A r \in DOMAIN runs :
       /\ phase[r] \in Phases
       /\ phase[r] \in {"queued", "popped"} => runs[r].status = "queued"
       /\ phase[r] \in Fresh \cup Retrying => runs[r].status # "queued"
       /\ returned[r] \in 0..r
  /\ mishaps \in 0..MaxMishaps

Init ==
  /\ StoreInit
  /\ HandlerInit
  /\ phase = <<>>
  /\ returned = <<>>
  /\ mishaps = 0
  /\ overlapped = FALSE
  /\ intent = [c \in Chats |-> NoIntent]

---------------------------------------------------------------------------
(* The executor. A run is taken from its list and started if it gets the   *)
(* lock of its workspace, which it may although another one is under way:  *)
(* the lock lapses. Its row may be ended by others at any time; where the  *)
(* controller is, it goes on.                                              *)

InPhase(r, where) == r \in DOMAIN runs /\ phase[r] = where
Enter(r, to) == phase' = [phase EXCEPT ![r] = to]

PopRun(k) ==
  /\ queue[k] # <<>>
  /\ queue' = [queue EXCEPT ![k] = Tail(@)]
  /\ Enter(Head(queue[k]), "popped")
  /\ UNCHANGED <<clock, sessions, binding, catalog, override, conversation, runs, returned>>

(* Mutant: a run that is started without a word in its row. *)
StartUnmarked(r) ==
  /\ InPhase(r, "popped")
  /\ Enter(r, "bridge")
  /\ UNCHANGED <<storeVars, returned>>

StartRun(r) ==
  /\ InPhase(r, "popped")
  /\ MarkRun(r, "running")
  /\ Enter(r, "bridge")
  /\ UNCHANGED <<clock, sessions, binding, catalog, override, conversation, queue, returned>>

(* Another one holds the lock: the run is the last in the list again.      *)
RequeueRun(r) ==
  /\ InPhase(r, "popped")
  /\ Enqueue(runs[r].workspace, r)
  /\ Enter(r, "queued")
  /\ UNCHANGED <<clock, sessions, binding, catalog, override, conversation, runs, returned>>

(* Codex no longer knows the session that was asked for: the binding is    *)
(* invalidated and the run is tried once more, without a session.          *)
SessionInvalid(r) ==
  /\ InPhase(r, "bridge") /\ runs[r].requested # 0 /\ runs[r].status = "running"
  /\ Enter(r, "invalid")
  /\ UNCHANGED <<storeVars, returned>>

Invalidates(r) ==
  /\ InPhase(r, "invalid")
  /\ MarkBindingInvalidated(runs[r].chat, "none")
  /\ Enter(r, "retry")
  /\ UNCHANGED <<clock, sessions, binding, catalog, override, runs, queue, returned>>

(* A run that asked for a session may be answered with another one, or     *)
(* with none.                                                              *)
BridgeCompletes(r) ==
  /\ InPhase(r, "bridge") \/ InPhase(r, "retry")
  /\ runs[r].status = "running"
  /\ \E s \in {0, r} \cup (IF phase[r] = "bridge" THEN {runs[r].requested} ELSE {}) :
       returned' = [returned EXCEPT ![r] = s]
  /\ Enter(r, IF phase[r] = "retry" THEN "retried" ELSE "completed")
  /\ UNCHANGED storeVars

(* Postgres answers with a Date for last_reset_at.                         *)
ResetTimeIsString == FALSE

ResetAfterRunCreated(c, r) ==
  conversation[c].status = "reset" /\ ResetTimeIsString /\ conversation[c].resetAt >= r

ReadsBack(r) ==
  /\ InPhase(r, "completed") \/ InPhase(r, "retried")
  /\ LET keeps == returned[r] # 0 /\ ~ResetAfterRunCreated(runs[r].chat, r) IN
       Enter(r, IF phase[r] = "retried"
                THEN IF keeps THEN "saveRetried" ELSE "endRetried"
                ELSE IF ~keeps THEN "ending"
                ELSE IF runs[r].requested \notin {0, returned[r]} THEN "saveRecovered"
                ELSE "saveBound")
  /\ UNCHANGED <<storeVars, returned>>

WritesBack(r) ==
  /\ InPhase(r, "saveRecovered") \/ InPhase(r, "saveBound") \/ InPhase(r, "saveRetried")
  /\ SaveBindingContinuation(r, returned[r], phase[r] # "saveBound")
  /\ Enter(r, IF phase[r] = "saveRetried" THEN "endRetried" ELSE "ending")
  /\ UNCHANGED <<clock, sessions, binding, catalog, override, runs, queue, returned>>

(* The second try fails, or a call of it is rejected; what is rejected     *)
(* after the first of these invalidates once more.                         *)
RecoveryFails(r) ==
  /\ r \in DOMAIN runs /\ phase[r] \in Retrying
  /\ MarkBindingInvalidated(runs[r].chat, "failed")
  /\ \/ Enter(r, "ending")
     \/ InPhase(r, "retry") /\ Enter(r, "endRetried")
  /\ UNCHANGED <<clock, sessions, binding, catalog, override, runs, queue, returned>>

(* It fails at the first try, or is cancelled in the second.               *)
RunStops(r) ==
  /\ r \in DOMAIN runs
  /\ \/ phase[r] \in Fresh /\ Enter(r, "ending")
     \/ InPhase(r, "retry") /\ Enter(r, "endRetried")
  /\ UNCHANGED <<storeVars, returned>>

(* Completed, failed or cancelled: the row is closed.                      *)
RunEnds(r) ==
  /\ InPhase(r, "ending") \/ InPhase(r, "endRetried")
  /\ MarkRun(r, "ended")
  /\ IF InPhase(r, "ending") THEN Enter(r, "ended") ELSE UNCHANGED phase
  /\ UNCHANGED <<clock, sessions, binding, catalog, override, conversation, queue, returned>>

(* It returns, finds the row ended, or dies; the row stays as it is.       *)
ControllerLeaves(r) ==
  /\ r \in DOMAIN runs /\ phase[r] \notin {"queued", "ended"}
  /\ Enter(r, "ended")
  /\ UNCHANGED <<storeVars, returned>>

(* The gateway's reaper, of a run whose heartbeat has expired.             *)
ReaperEnds(r) ==
  /\ r \in DOMAIN runs /\ runs[r].status = "running"
  /\ MarkRun(r, "ended")
  /\ UNCHANGED <<clock, sessions, binding, catalog, override, conversation, queue>>
  /\ UNCHANGED <<phase, returned>>

ControllerStep ==
  \/ \E k \in Keys : PopRun(k)
  \/ \E r \in DOMAIN runs :
       \/ StartRun(r) \/ RequeueRun(r) \/ SessionInvalid(r) \/ Invalidates(r)
       \/ BridgeCompletes(r) \/ ReadsBack(r) \/ WritesBack(r) \/ RecoveryFails(r)
       \/ RunStops(r) \/ RunEnds(r) \/ ControllerLeaves(r) \/ ReaperEnds(r)

---------------------------------------------------------------------------
CommandStep(h) ==
  \/ ReceiveMessage(h) \/ CreateSession(h) \/ SendReply(h)
  \/ ReadBinding(h) \/ SaveResolved(h) \/ ReadOverride(h)
  \/ NewDeleteOverride(h) \/ NewReset(h)
  \/ BindRefusesActive(h) \/ BindResolve(h) \/ BindCreate(h) \/ BindSave(h)
  \/ BindReset(h) \/ BindClear(h)
  \/ ModeReset(h) \/ ModeSet(h)
  \/ StatusLatest(h) \/ StatusActive(h) \/ StatusAhead(h)

PromptStep(h) ==
  \/ ReadConversation(h) \/ PromptFindsActive(h) \/ PromptPushesRun(h)
  \/ PromptSavesPosition(h)

HandlerStep(h) ==
  /\ \/ (CommandStep(h) \/ PromptStep(h)) /\ UNCHANGED <<phase, returned>>
     \/ /\ PromptCreatesRun(h)
        /\ phase' = Append(phase, "queued")
        /\ returned' = Append(returned, 0)
  /\ UNCHANGED mishaps

(* A call of the handler is rejected: the message is dropped where it is.  *)
CallRejected(h) ==
  /\ step[h] # "idle" /\ mishaps < MaxMishaps
  /\ mishaps' = mishaps + 1
  /\ Reply(h)
  /\ UNCHANGED <<storeVars, phase, returned>>

(* The runs of a chat that are queued or in the hands of the executor.     *)
Unfinished(c) == {r \in RunsOf(c) : phase[r] # "ended"}

(* What a command that has just been carried out to its end asked for.     *)
Asked(h) ==
  LET c == Chat(h) IN
  CASE At(h, "resetConversation") ->
         [intent EXCEPT ![c].mode = None, ![c].fresh = Len(runs), ![c].active = Unfinished(c)]
    [] At(h, "bindClear") -> [intent EXCEPT ![c].key = message[h].arg, ![c].mode = None]
    [] At(h, "resetMode") -> [intent EXCEPT ![c].mode = None]
    [] At(h, "setMode") ->
         [intent EXCEPT ![c].mode = message[h].arg, ![c].workspace = seen[h].key,
                        ![c].until = clock + OverrideTtl]
    [] OTHER -> intent

Observe(h) ==
  /\ overlapped' = (overlapped \/ Cardinality(AtWork') > 1 \/ mishaps' # mishaps)
  /\ intent' = IF mishaps' # mishaps THEN intent ELSE Asked(h)

Next ==
  \/ \E h \in Handlers : (HandlerStep(h) \/ CallRejected(h)) /\ Observe(h)
  \/ ControllerStep /\ UNCHANGED <<handlerVars, mishaps, overlapped, intent>>
  \/ Tick /\ UNCHANGED <<handlerVars, phase, returned, mishaps, overlapped, intent>>

Spec == Init /\ [][Next]_vars

---------------------------------------------------------------------------
(* Properties.                                                             *)

(* A chat's binding offers a codex session only for the workspace and the  *)
(* sandbox mode in which codex made it, and a run continues one only       *)
(* there, whatever commands, runs, recoveries and rejected calls came in   *)
(* between.                                                                *)
ContinuationFits ==
  /\ \A c \in Chats : conversation[c].bridge # 0 =>
       /\ runs[conversation[c].bridge].workspace = conversation[c].workspace
       /\ runs[conversation[c].bridge].mode = conversation[c].mode
  /\ \A r \in DOMAIN runs : runs[r].requested # 0 =>
       /\ runs[runs[r].requested].chat = runs[r].chat
       /\ runs[runs[r].requested].workspace = runs[r].workspace
       /\ runs[runs[r].requested].mode = runs[r].mode

(* Handlers that come one after the other leave the chat in the workspace  *)
(* that the last successful /bind named: nothing that reads the binding    *)
(* and writes it back takes it elsewhere.                                  *)
BindHolds ==
  ~overlapped =>
    \A c \in Chats :
      intent[c].key # None /\ (\A h \in AtWork : message[h].command # "/bind") =>
        binding[c].key = intent[c].key

(* A chat is moved to another workspace only while no run of it is active, *)
(* unless a prompt was being handled at the same time.                     *)
BindSparesActiveRun ==
  [][\A c \in Chats :
       ~overlapped' /\ binding[c].key # None /\ binding'[c].key # binding[c].key =>
         ActiveOf(c) = {}]_vars

(* A message is given another sandbox mode than the workspace's own only   *)
(* if the last command about it was a /mode that asked for it, in that     *)
(* workspace and not longer ago than the time to live: /new, /bind and     *)
(* /mode reset leave nothing behind.                                       *)
ModeOnRequest ==
  [][\A h \in Handlers :
       ~overlapped' /\ At(h, "readOverride") /\ seen'[h].mode \notin {None, DefaultMode[seen[h].key]} =>
         LET asked == intent[Chat(h)] IN
         asked.mode = seen'[h].mode /\ asked.workspace = seen[h].key /\ clock < asked.until]_vars

(* After a /new a chat continues an older session only if a run of the     *)
(* chat was queued or in the executor's hands when it was reset, which     *)
(* then wrote the session back.                                            *)
OldSessionNeedsActiveRun ==
  ~overlapped =>
    \A c \in Chats : conversation[c].bridge \in 1..intent[c].fresh => intent[c].active # {}

(* The runs before a run in the list of its workspace, none if it is not   *)
(* there, and those of the workspace that have left the list and are not   *)
(* over.                                                                   *)
Before(r) ==
  LET list == queue[runs[r].workspace] IN
  {q \in DOMAIN runs : \E i \in DOMAIN list : \E j \in DOMAIN list :
                         /\ i < j /\ list[i] = q /\ list[j] = r
                         /\ \A l \in 1..(j - 1) : list[l] # r}
UnderWay(k) == {q \in ActiveIn(k) : phase[q] \notin {"queued", "ended"}}

Ahead(r) ==
  Cardinality(Before(r)) + (IF UnderWay(runs[r].workspace) \ {r} # {} THEN 1 ELSE 0)

(* The position that a queued run is given, and the number that /status    *)
(* reports, count every run that is before it in the list, and one for     *)
(* those under way, of which there may be several.                         *)
AheadIsCounted ==
  [][~overlapped' =>
       \A r \in DOMAIN runs :
         /\ \A h \in Handlers :
              At(h, "pushRun") /\ step'[h] = "savePosition" /\ seen[h].run = r =>
                seen'[h].position >= Ahead(r)'
         /\ \A c \in Chats :
              report'[c] # report[c] /\ report'[c].run = r => report'[c].ahead >= Ahead(r)]_vars
===========================================================================

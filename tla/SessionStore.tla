--------------------------- MODULE SessionStore ---------------------------
(***************************************************************************)
(* The tables behind a chat: sessions, the workspace a chat is bound to,   *)
(* the catalog of workspaces, the sandbox mode a user asked for, the codex *)
(* session that a chat continues, and the runs with the queue of their     *)
(* workspace. A workspace's path is identified with its key, and the codex *)
(* session that a run creates with the run.                                *)
(***************************************************************************)
EXTENDS Integers, Sequences, FiniteSets

CONSTANTS
  Chats,          \* the chats the allowlist admits
  Private,        \* those that are a conversation of two
  Keys,           \* the workspace keys a user may name
  Registered,     \* those in workspaceResolver.registry
  DefaultKey,     \* agentConfig.defaultWorkspace
  ChatBindings,   \* workspaceResolver.chatBindings
  Modes,          \* the sandbox modes
  DefaultMode,    \* workspaceResolver.sandboxModes
  None,
  OverrideTtl,    \* CHAT_SANDBOX_OVERRIDE_TTL_MS, in ticks
  MaxTime,        \* bound on the clock
  MaxRuns         \* bound on the runs

ASSUME StoreAssumption ==
  /\ Private \subseteq Chats
  /\ Registered \subseteq Keys /\ DefaultKey \in Registered
  /\ None \notin Chats \cup Keys \cup Modes
  /\ ChatBindings \in [Chats -> Keys \cup {None}]
  /\ DefaultMode \in [Keys -> Modes]
  /\ OverrideTtl \in Nat /\ MaxTime \in Nat /\ MaxRuns \in Nat

VARIABLES
  clock,
  sessions,       \* the chats with a row in sessions
  binding,        \* session_workspace_bindings
  catalog,        \* workspace_catalog
  override,       \* chat_sandbox_overrides
  conversation,   \* conversation_session_bindings
  runs,           \* agent_runs, in the order of created_at
  queue           \* the Redis list of each workspace

storeVars == <<clock, sessions, binding, catalog, override, conversation, runs, queue>>

Sources == {"unbound", "default", "config", "manual", "created"}

Binding == [key : Keys \cup {None}, source : Sources]
Unbound == [key |-> None, source |-> "unbound"]

Override == [workspace : Keys \cup {None}, mode : Modes \cup {None}, expiresAt : Nat]
NoOverride == [workspace |-> None, mode |-> None, expiresAt |-> 0]

(* 0 is a bridge_session_id that is null; resetAt counts the runs that     *)
(* were created before last_reset_at.                                      *)
Conversation ==
  [bridge : 0..MaxRuns, workspace : Keys \cup {None}, mode : Modes \cup {None},
   status : {"unbound", "bound", "recovered", "reset", "invalidated"},
   recovery : {"none", "recovered", "failed"}, resetAt : 0..MaxRuns]
NoConversation ==
  [bridge |-> 0, workspace |-> None, mode |-> None, status |-> "unbound",
   recovery |-> "none", resetAt |-> 0]

Run ==
  [chat : Chats, workspace : Keys, mode : Modes, requested : 0..MaxRuns,
   status : {"queued", "running", "ended"}, position : Nat \cup {-1}]

StoreTypeOK ==
  /\ clock \in 0..MaxTime
  /\ sessions \subseteq Chats
  /\ binding \in [Chats -> Binding]
  /\ catalog \subseteq Keys
  /\ override \in [Chats -> Override]
  /\ conversation \in [Chats -> Conversation]
  /\ Len(runs) <= MaxRuns /\ \A r \in DOMAIN runs : runs[r] \in Run
  /\ \A k \in Keys : \A i \in DOMAIN queue[k] : queue[k][i] \in DOMAIN runs

StoreInit ==
  /\ clock = 0
  /\ sessions = {}
  /\ binding = [c \in Chats |-> Unbound]
  /\ catalog = {}
  /\ override = [c \in Chats |-> NoOverride]
  /\ conversation = [c \in Chats |-> NoConversation]
  /\ runs = <<>>
  /\ queue = [k \in Keys |-> <<>>]

---------------------------------------------------------------------------
ActiveIn(k) == {r \in DOMAIN runs : runs[r].workspace = k /\ runs[r].status # "ended"}
ActiveOf(c) == {r \in DOMAIN runs : runs[r].chat = c /\ runs[r].status # "ended"}
RunsOf(c) == {r \in DOMAIN runs : runs[r].chat = c}
Latest(c) == CHOOSE r \in RunsOf(c) : \A q \in RunsOf(c) : q <= r

(* resolveWorkspace: what a key names, in the configuration or the catalog *)
Exists(k) == k \in Registered \cup catalog

SaveBinding(c, k, source) ==
  binding' = [binding EXCEPT ![c] = [key |-> k, source |-> source]]

CreateEntry(k) == catalog' = catalog \cup {k}

UpsertOverride(c, k, m) ==
  override' = [override EXCEPT ![c] =
                 [workspace |-> k, mode |-> m, expiresAt |-> clock + OverrideTtl]]

DeleteOverride(c) == override' = [override EXCEPT ![c] = NoOverride]

(* The insert of a chat without a row names the session's own workspace;   *)
(* an existing row keeps the workspace of the session it had.              *)
Kept(c) ==
  IF conversation[c].status = "unbound"
  THEN [conversation[c] EXCEPT !.workspace = DefaultKey] ELSE conversation[c]

MarkBindingResetOnlyMode(c) ==
  conversation' = [conversation EXCEPT ![c] =
    [Kept(c) EXCEPT !.mode = None, !.status = "reset", !.resetAt = Len(runs)]]

MarkBindingReset(c) ==
  conversation' = [conversation EXCEPT ![c] =
    [Kept(c) EXCEPT !.bridge = 0, !.mode = None, !.status = "reset", !.resetAt = Len(runs)]]

MarkBindingInvalidated(c, recovery) ==
  conversation' = [conversation EXCEPT ![c] =
    [Kept(c) EXCEPT !.bridge = 0, !.mode = None, !.status = "invalidated",
                    !.recovery = IF recovery = "none" THEN @ ELSE recovery]]

SaveBindingContinuation(r, s, recovered) ==
  conversation' = [conversation EXCEPT ![runs[r].chat] =
    [conversation[runs[r].chat] EXCEPT
              !.bridge = s, !.workspace = runs[r].workspace, !.mode = runs[r].mode,
              !.status = IF recovered THEN "recovered" ELSE "bound",
              !.recovery = IF recovered THEN "recovered" ELSE @]]

CreateQueuedRun(c, k, m, s) ==
  runs' = Append(runs, [chat |-> c, workspace |-> k, mode |-> m, requested |-> s,
                        status |-> "queued", position |-> -1])

UpdateQueuePosition(r, n) == runs' = [runs EXCEPT ![r].position = n]
MarkRun(r, status) == runs' = [runs EXCEPT ![r].status = status]

Enqueue(k, r) == queue' = [queue EXCEPT ![k] = Append(@, r)]

(* RedisRunQueue.aheadCount                                                *)
AheadCount(k, r, hasActive) ==
  LET before == {i \in DOMAIN queue[k] : \A j \in 1..i : queue[k][j] # r}
      index == IF \E i \in DOMAIN queue[k] : queue[k][i] = r THEN Cardinality(before) ELSE 0
  IN  index + (IF hasActive THEN 1 ELSE 0)

Tick ==
  /\ clock < MaxTime
  /\ clock' = clock + 1
  /\ UNCHANGED <<sessions, binding, catalog, override, conversation, runs, queue>>
===========================================================================

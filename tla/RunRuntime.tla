---------------------------- MODULE RunRuntime ----------------------------
(***************************************************************************)
(* The state that the gateway process and the executor process share: the  *)
(* agent_runs table in Postgres and the Redis keys that coordinate them    *)
(* (run queue, workspace lock, heartbeat, cancel signal).  Every operator  *)
(* below is one call of a driver, hence one atomic step: neither side uses *)
(* a transaction or a script that spans two calls.                         *)
(*                                                                         *)
(* Time is abstract.  A key with a TTL may expire at any later moment,     *)
(* because nothing bounds how long a run, a query or a paused process      *)
(* takes compared with the 30 s of the TTLs.                               *)
(***************************************************************************)
EXTENDS Naturals, Sequences, FiniteSets

CONSTANTS
  Runs,         \* run ids, numbered in the order of created_at
  Workspaces,   \* workspace paths
  Sessions,     \* chat sessions
  WorkspaceOf,  \* the workspace each run was resolved to
  SessionOf,    \* the session each run belongs to
  NoRun         \* the absence of a run id (a missing Redis key)

ASSUME RuntimeAssumption ==
  /\ Runs \subseteq Nat
  /\ NoRun \notin Runs
  /\ WorkspaceOf \in [Runs -> Workspaces]
  /\ SessionOf \in [Runs -> Sessions]

VARIABLES
  status,             \* agent_runs.status, "none" before the INSERT
  cancelRequestedAt,  \* agent_runs.cancel_requested_at IS NOT NULL
  runQueue,           \* carvis:queue:<workspace>, a Redis list
  lock,               \* carvis:lock:<workspace>
  lockTtl,            \* the lock key has an expiry
  heartbeat,          \* carvis:heartbeat:<run>
  cancelSignal        \* carvis:cancel:<run> is set

storeVars  == <<status, cancelRequestedAt>>
lockVars   == <<lock, lockTtl>>
signalVars == <<heartbeat, cancelSignal>>
runtimeVars == <<storeVars, runQueue, lockVars, signalVars>>

Terminal == {"completed", "failed", "cancelled"}
Active   == {"queued", "running"}
RunStatus == {"none"} \cup Active \cup Terminal

(* "stale" is a heartbeat older than its TTL by the clock value stored in  *)
(* it, whose key Redis has not dropped yet.                                *)
Heartbeat == {"none", "fresh", "stale"}

RuntimeTypeOK ==
  /\ status \in [Runs -> RunStatus]
  /\ cancelRequestedAt \in [Runs -> BOOLEAN]
  /\ runQueue \in [Workspaces -> Seq(Runs)]
  /\ lock \in [Workspaces -> Runs \cup {NoRun}]
  /\ lockTtl \in [Workspaces -> BOOLEAN]
  /\ heartbeat \in [Runs -> Heartbeat]
  /\ cancelSignal \in [Runs -> BOOLEAN]

RuntimeInit ==
  /\ status = [r \in Runs |-> "none"]
  /\ cancelRequestedAt = [r \in Runs |-> FALSE]
  /\ runQueue = [w \in Workspaces |-> <<>>]
  /\ lock = [w \in Workspaces |-> NoRun]
  /\ lockTtl = [w \in Workspaces |-> FALSE]
  /\ heartbeat = [r \in Runs |-> "none"]
  /\ cancelSignal = [r \in Runs |-> FALSE]

---------------------------------------------------------------------------
(* Postgres: the UPDATEs are unconditional, WHERE names only the id.       *)

MarkRun(r, s) == status' = [status EXCEPT ![r] = s]

---------------------------------------------------------------------------
(* Redis: RedisRunQueue, RedisWorkspaceLockManager, RedisHeartbeatMonitor, *)
(* RedisCancelSignalStore.                                                 *)

Enqueue(r) == runQueue' = [runQueue EXCEPT ![WorkspaceOf[r]] = Append(@, r)]
Dequeue(w) == runQueue' = [runQueue EXCEPT ![w] = Tail(@)]

QueuedWorkspaces == {w \in Workspaces : runQueue[w] # <<>>}

SetLock(r) ==
  /\ lock' = [lock EXCEPT ![WorkspaceOf[r]] = r]
  /\ lockTtl' = [lockTtl EXCEPT ![WorkspaceOf[r]] = FALSE]

ExpireLock(w) ==
  /\ lockTtl' = [lockTtl EXCEPT ![w] = (lock[w] # NoRun)]
  /\ UNCHANGED lock

DeleteLock(w) ==
  /\ lock' = [lock EXCEPT ![w] = NoRun]
  /\ lockTtl' = [lockTtl EXCEPT ![w] = FALSE]

Beat(r)       == heartbeat' = [heartbeat EXCEPT ![r] = "fresh"]
ClearBeat(r)  == heartbeat' = [heartbeat EXCEPT ![r] = "none"]

RequestCancellation(r) == cancelSignal' = [cancelSignal EXCEPT ![r] = TRUE]
ClearCancellation(r)   == cancelSignal' = [cancelSignal EXCEPT ![r] = FALSE]

(* The clock passes the TTL of a heartbeat.  The value was read from the   *)
(* executor's clock before PSETEX reached Redis, so it ages a little       *)
(* before the key goes; a scan that does not fall into that gap sees the   *)
(* key fresh and then not at all.                                          *)
HeartbeatAges(r) ==
  /\ heartbeat[r] = "fresh"
  /\ heartbeat' = [heartbeat EXCEPT ![r] = "stale"]
  /\ UNCHANGED <<storeVars, runQueue, lockVars, cancelSignal>>

HeartbeatEvicted(r) ==
  /\ heartbeat[r] # "none"
  /\ ClearBeat(r)
  /\ UNCHANGED <<storeVars, runQueue, lockVars, cancelSignal>>
===========================================================================

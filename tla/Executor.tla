----------------------------- MODULE Executor -----------------------------
(***************************************************************************)
(* The executor process: setInterval starts a call of processNext every    *)
(* pollIntervalMs whether or not the previous call has returned, so        *)
(* several calls (Ticks) run concurrently on one event loop.  A tick takes *)
(* a run from a queue, locks its workspace and drives the Codex bridge     *)
(* until the run ends.  Each action is what a tick does from one await to  *)
(* the next; pc[t] names the await it is at.                               *)
(***************************************************************************)
EXTENDS RunRuntime

CONSTANTS
  Ticks,        \* outstanding calls of processNext
  NoWorkspace

ASSUME ExecutorAssumption == NoWorkspace \notin Workspaces

VARIABLES
  pc,
  todo,        \* workspaces of the KEYS reply a tick has still to visit
  at,          \* the workspace whose queue a tick is about to pop
  job,         \* the run a tick has in hand
  event,       \* the bridge event a tick is handling
  resumable,   \* the next attempt resumes a Codex session (continuation)
  watcher,     \* the cancel watcher of a run: 10 ms polling of the signal
  controller,  \* CodexBridge.controllers: the AbortController of a run
  codex        \* the codex child process of a run

tickVars   == <<pc, todo, at, job, event, resumable>>
bridgeVars == <<watcher, controller, codex>>
executorVars == <<tickVars, bridgeVars>>

Outcome == {"completed", "failed", "cancelled"}
Event   == {"none", "delta", "invalid"} \cup Outcome

(* Steps before the lock is taken, while it is held, and its release.      *)
Looking   == {"idle", "scan", "dequeue"}
InHand    == {"acquire", "requeue"}
Preamble  == {"expire", "start", "checkCancel", "cancelEarly", "renew"}
Attempt   == {"prepare", "flush", "spawn", "stream", "check"}
Ending    == {"persist", "report", "catch", "clearBeat", "clearCancel"}
Releasing == {"releaseGet", "releaseDel"}
Locked    == Preamble \cup Attempt \cup Ending \cup Releasing

ExecutorTypeOK ==
  /\ pc \in [Ticks -> Looking \cup InHand \cup Locked]
  /\ todo \in [Ticks -> SUBSET Workspaces]
  /\ at \in [Ticks -> Workspaces \cup {NoWorkspace}]
  /\ job \in [Ticks -> Runs \cup {NoRun}]
  /\ event \in [Ticks -> Event]
  /\ resumable \in [Ticks -> BOOLEAN]
  /\ watcher \in [Runs -> {"off", "polling", "fired"}]
  /\ controller \in [Runs -> {"absent", "live", "aborted"}]
  /\ codex \in [Runs -> {"none", "running", "killed"}]

ExecutorInit ==
  /\ pc = [t \in Ticks |-> "idle"]
  /\ todo = [t \in Ticks |-> {}]
  /\ at = [t \in Ticks |-> NoWorkspace]
  /\ job = [t \in Ticks |-> NoRun]
  /\ event = [t \in Ticks |-> "none"]
  /\ resumable = [t \in Ticks |-> FALSE]
  /\ watcher = [r \in Runs |-> "off"]
  /\ controller = [r \in Runs |-> "absent"]
  /\ codex = [r \in Runs |-> "none"]

Move(t, from, to) ==
  /\ pc[t] = from
  /\ pc' = [pc EXCEPT ![t] = to]

(* processNext returns or throws: its locals are gone. *)
Return(t) ==
  /\ pc' = [pc EXCEPT ![t] = "idle"]
  /\ todo' = [todo EXCEPT ![t] = {}]
  /\ at' = [at EXCEPT ![t] = NoWorkspace]
  /\ job' = [job EXCEPT ![t] = NoRun]
  /\ event' = [event EXCEPT ![t] = "none"]
  /\ resumable' = [resumable EXCEPT ![t] = FALSE]

Holds(t, r) == job[t] = r /\ pc[t] \in Locked

---------------------------------------------------------------------------
(* processNext: looking for a run.                                         *)

ListWorkspaces(t) ==
  /\ Move(t, "idle", "scan")
  /\ QueuedWorkspaces # {}
  /\ todo' = [todo EXCEPT ![t] = QueuedWorkspaces]
  /\ UNCHANGED <<runtimeVars, at, job, event, resumable, bridgeVars>>

(* getActiveRunId: a locked workspace is skipped, an unlocked one popped.  *)
VisitWorkspace(t, w) ==
  /\ pc[t] = "scan"
  /\ w \in todo[t]
  /\ todo' = [todo EXCEPT ![t] = @ \ {w}]
  /\ IF lock[w] # NoRun
       THEN UNCHANGED <<pc, at>>
       ELSE /\ pc' = [pc EXCEPT ![t] = "dequeue"]
            /\ at' = [at EXCEPT ![t] = w]
  /\ UNCHANGED <<runtimeVars, job, event, resumable, bridgeVars>>

FindNothing(t) ==
  /\ pc[t] = "scan"
  /\ todo[t] = {}
  /\ Return(t)
  /\ UNCHANGED <<runtimeVars, bridgeVars>>

(* Mutant of PopRun: LINDEX instead of LPOP.                               *)
PopRunPeeking(t) ==
  /\ pc[t] = "dequeue"
  /\ at' = [at EXCEPT ![t] = NoWorkspace]
  /\ IF runQueue[at[t]] = <<>>
       THEN pc' = [pc EXCEPT ![t] = "scan"] /\ UNCHANGED job
       ELSE /\ pc' = [pc EXCEPT ![t] = "acquire"]
            /\ job' = [job EXCEPT ![t] = Head(runQueue[at[t]])]
  /\ UNCHANGED <<runtimeVars, todo, event, resumable, bridgeVars>>

(* LPOP; another tick may have emptied the list since the KEYS reply.      *)
PopRun(t) ==
  /\ pc[t] = "dequeue"
  /\ at' = [at EXCEPT ![t] = NoWorkspace]
  /\ IF runQueue[at[t]] = <<>>
       THEN /\ pc' = [pc EXCEPT ![t] = "scan"]
            /\ UNCHANGED <<runQueue, job>>
       ELSE /\ pc' = [pc EXCEPT ![t] = "acquire"]
            /\ job' = [job EXCEPT ![t] = Head(runQueue[at[t]])]
            /\ Dequeue(at[t])
  /\ UNCHANGED <<storeVars, lockVars, signalVars, todo, event, resumable, bridgeVars>>

(* Mutant of AcquireLock: SET without NX.                                  *)
AcquireLockBlindly(t) ==
  /\ Move(t, "acquire", "expire")
  /\ SetLock(job[t])
  /\ UNCHANGED <<storeVars, runQueue, signalVars, todo, at, job, event, resumable,
                 bridgeVars>>

(* SET NX, without an expiry: that is a call of its own.                   *)
AcquireLock(t) ==
  /\ pc[t] = "acquire"
  /\ IF lock[WorkspaceOf[job[t]]] = NoRun
       THEN /\ pc' = [pc EXCEPT ![t] = "expire"]
            /\ SetLock(job[t])
       ELSE /\ pc' = [pc EXCEPT ![t] = "requeue"]
            /\ UNCHANGED lockVars
  /\ UNCHANGED <<storeVars, runQueue, signalVars, todo, at, job, event, resumable,
                 bridgeVars>>

(* Mutants of RequeueRun: the run is not put back; the continue is missing. *)
RequeueRunDropping(t) ==
  /\ Move(t, "requeue", "scan")
  /\ job' = [job EXCEPT ![t] = NoRun]
  /\ UNCHANGED <<runtimeVars, todo, at, event, resumable, bridgeVars>>

RequeueRunContinuing(t) ==
  /\ Move(t, "requeue", "start")
  /\ Enqueue(job[t])
  /\ UNCHANGED <<storeVars, lockVars, signalVars, todo, at, job, event, resumable,
                 bridgeVars>>

RequeueRun(t) ==
  /\ Move(t, "requeue", "scan")
  /\ Enqueue(job[t])
  /\ job' = [job EXCEPT ![t] = NoRun]
  /\ UNCHANGED <<storeVars, lockVars, signalVars, todo, at, event, resumable, bridgeVars>>

(* Mutant of SetLockExpiry: no PEXPIRE.                                    *)
SetLockExpiryNever(t) ==
  /\ Move(t, "expire", "start")
  /\ UNCHANGED <<runtimeVars, todo, at, job, event, resumable, bridgeVars>>

SetLockExpiry(t) ==
  /\ Move(t, "expire", "start")
  /\ ExpireLock(WorkspaceOf[job[t]])
  /\ UNCHANGED <<storeVars, runQueue, signalVars, todo, at, job, event, resumable,
                 bridgeVars>>

---------------------------------------------------------------------------
(* processNext: from the lock to runController.execute.                    *)

StartRun(t) ==
  /\ Move(t, "start", "checkCancel")
  /\ MarkRun(job[t], "running")
  /\ UNCHANGED <<cancelRequestedAt, runQueue, lockVars, signalVars, todo, at, job, event,
                 resumable, bridgeVars>>

CheckCancel(t) ==
  /\ Move(t, "checkCancel", IF cancelSignal[job[t]] THEN "cancelEarly" ELSE "renew")
  /\ UNCHANGED <<runtimeVars, todo, at, job, event, resumable, bridgeVars>>

(* The run ends before Codex starts; its cancel signal is not cleared.     *)
CancelEarly(t) ==
  /\ Move(t, "cancelEarly", "releaseGet")
  /\ MarkRun(job[t], "cancelled")
  /\ UNCHANGED <<cancelRequestedAt, runQueue, lockVars, signalVars, todo, at, job, event,
                 resumable, bridgeVars>>

(* execute: first heartbeat, then the watcher starts polling.              *)
BeginExecute(t) ==
  /\ Move(t, "renew", "prepare")
  /\ Beat(job[t])
  /\ watcher' = [watcher EXCEPT ![job[t]] = "polling"]
  /\ \E continuation \in BOOLEAN : resumable' = [resumable EXCEPT ![t] = continuation]
  /\ UNCHANGED <<storeVars, runQueue, lockVars, cancelSignal, todo, at, job, event,
                 controller, codex>>

---------------------------------------------------------------------------
(* execute: one attempt, from the memory flush to the end of the stream.   *)

(* The flush is a bridge run of its own, under another id.                 *)
FlushMemory(t) ==
  /\ Move(t, "prepare", "flush")
  /\ UNCHANGED <<runtimeVars, todo, at, job, event, resumable, bridgeVars>>

StartBridge(t) ==
  /\ pc[t] \in {"prepare", "flush"}
  /\ pc' = [pc EXCEPT ![t] = "spawn"]
  /\ controller' = [controller EXCEPT ![job[t]] = "live"]
  /\ UNCHANGED <<runtimeVars, todo, at, job, event, resumable, watcher, codex>>

(* The transport spawns codex on the first read of the stream, after two   *)
(* awaits, and only then listens to the abort signal.                      *)
SpawnCodex(t) ==
  /\ Move(t, "spawn", "stream")
  /\ codex' = [codex EXCEPT ![job[t]] = "running"]
  /\ UNCHANGED <<runtimeVars, todo, at, job, event, resumable, watcher, controller>>

(* Every event of the stream renews the heartbeat before it is looked at.  *)
Deliver(t, e) ==
  /\ pc' = [pc EXCEPT ![t] = "check"]
  /\ event' = [event EXCEPT ![t] = e]
  /\ Beat(job[t])
  /\ UNCHANGED <<storeVars, runQueue, lockVars, cancelSignal, todo, at, job, resumable,
                 watcher, controller>>

CodexOutput(t) ==
  /\ pc[t] = "stream"
  /\ codex[job[t]] # "none"
  /\ Deliver(t, "delta")
  /\ UNCHANGED codex

(* What the transport yields once codex has exited.                        *)
ExitEvents(t) ==
  IF controller[job[t]] = "aborted"
    THEN {"cancelled"}
    ELSE {"completed", "failed"} \cup (IF resumable[t] THEN {"invalid"} ELSE {})

CodexExit(t) ==
  /\ pc[t] = "stream"
  /\ codex[job[t]] # "none"
  /\ \E e \in ExitEvents(t) : Deliver(t, e)
  /\ codex' = [codex EXCEPT ![job[t]] = "none"]

(* resolveSpawnCwd: the workspace is not a directory.                      *)
NoSpawnCwd(t) ==
  /\ pc[t] = "spawn"
  /\ Deliver(t, "failed")
  /\ UNCHANGED codex

(* The row is read again before an event counts.  An event that is not     *)
(* final, or of a run that is already terminal, is passed over; after the  *)
(* final one the stream ends.                                              *)
NextEvent(t) ==
  /\ Move(t, "check", "stream")
  /\ event[t] = "delta"
  /\ event' = [event EXCEPT ![t] = "none"]
  /\ UNCHANGED <<runtimeVars, todo, at, job, resumable, bridgeVars>>

DrainStream(t) ==
  /\ Move(t, "check", "clearBeat")
  /\ event[t] # "delta"
  /\ status[job[t]] \in Terminal
  /\ event' = [event EXCEPT ![t] = "none"]
  /\ controller' = [controller EXCEPT ![job[t]] = "absent"]
  /\ UNCHANGED <<runtimeVars, todo, at, job, resumable, watcher, codex>>

(* session_invalid: once more in the same run, with a fresh session.       *)
RetryFresh(t) ==
  /\ Move(t, "check", "prepare")
  /\ event[t] = "invalid"
  /\ status[job[t]] \notin Terminal
  /\ event' = [event EXCEPT ![t] = "none"]
  /\ resumable' = [resumable EXCEPT ![t] = FALSE]
  /\ controller' = [controller EXCEPT ![job[t]] = "absent"]
  /\ UNCHANGED <<runtimeVars, todo, at, job, watcher, codex>>

(* Mutant of TakeOutcome: session_invalid counts as an outcome.            *)
TakeOutcomeOfAny(t) ==
  /\ Move(t, "check", "persist")
  /\ event[t] # "delta"
  /\ status[job[t]] \notin Terminal
  /\ UNCHANGED <<runtimeVars, todo, at, job, event, resumable, bridgeVars>>

TakeOutcome(t) ==
  /\ Move(t, "check", "persist")
  /\ event[t] \in Outcome
  /\ status[job[t]] \notin Terminal
  /\ UNCHANGED <<runtimeVars, todo, at, job, event, resumable, bridgeVars>>

PersistOutcome(t) ==
  /\ Move(t, "persist", "report")
  /\ MarkRun(job[t], event[t])
  /\ event' = [event EXCEPT ![t] = "none"]
  /\ UNCHANGED <<cancelRequestedAt, runQueue, lockVars, signalVars, todo, at, job,
                 resumable, bridgeVars>>

(* The trigger's rows are updated and the chat is told, then the stream is *)
(* left.                                                                   *)
ReportOutcome(t) ==
  /\ Move(t, "report", "clearBeat")
  /\ controller' = [controller EXCEPT ![job[t]] = "absent"]
  /\ UNCHANGED <<runtimeVars, todo, at, job, event, resumable, watcher, codex>>

(* Anything thrown in an attempt (a file error, spawn's error, the output  *)
(* file missing) ends the stream and is caught.                            *)
AttemptThrows(t) ==
  /\ pc[t] \in {"prepare", "flush", "spawn", "stream"}
  /\ pc' = [pc EXCEPT ![t] = "catch"]
  /\ controller' = [controller EXCEPT ![job[t]] = "absent"]
  /\ codex' = [codex EXCEPT ![job[t]] = "none"]
  /\ UNCHANGED <<runtimeVars, todo, at, job, event, resumable, watcher>>

(* The catch block writes "failed" without reading the row.                *)
CatchFailure(t) ==
  /\ Move(t, "catch", "clearBeat")
  /\ MarkRun(job[t], "failed")
  /\ UNCHANGED <<cancelRequestedAt, runQueue, lockVars, signalVars, todo, at, job, event,
                 resumable, bridgeVars>>

---------------------------------------------------------------------------
(* The two finally blocks: execute's, then processNext's.                  *)

(* Mutant of StopWatching: the heartbeat is not cleared.                   *)
StopWatchingBeating(t) ==
  /\ Move(t, "clearBeat", "clearCancel")
  /\ watcher' = [watcher EXCEPT ![job[t]] = "off"]
  /\ UNCHANGED <<runtimeVars, todo, at, job, event, resumable, controller, codex>>

StopWatching(t) ==
  /\ Move(t, "clearBeat", "clearCancel")
  /\ watcher' = [watcher EXCEPT ![job[t]] = "off"]
  /\ ClearBeat(job[t])
  /\ UNCHANGED <<storeVars, runQueue, lockVars, cancelSignal, todo, at, job, event,
                 resumable, controller, codex>>

ClearSignal(t) ==
  /\ Move(t, "clearCancel", "releaseGet")
  /\ ClearCancellation(job[t])
  /\ UNCHANGED <<storeVars, runQueue, lockVars, heartbeat, todo, at, job, event,
                 resumable, bridgeVars>>

(* release: GET, compare, DEL.                                             *)
ReadLock(t) ==
  /\ pc[t] = "releaseGet"
  /\ IF lock[WorkspaceOf[job[t]]] = job[t]
       THEN /\ pc' = [pc EXCEPT ![t] = "releaseDel"]
            /\ UNCHANGED <<todo, at, job, event, resumable>>
       ELSE Return(t)
  /\ UNCHANGED <<runtimeVars, bridgeVars>>

ReleaseLock(t) ==
  /\ pc[t] = "releaseDel"
  /\ DeleteLock(WorkspaceOf[job[t]])
  /\ Return(t)
  /\ UNCHANGED <<storeVars, runQueue, signalVars, bridgeVars>>

---------------------------------------------------------------------------
(* Mutant of WatcherFires: aborts, but nothing kills codex.                *)
WatcherFiresInVain(r) ==
  /\ watcher[r] = "polling"
  /\ cancelSignal[r]
  /\ watcher' = [watcher EXCEPT ![r] = "fired"]
  /\ controller' = [controller EXCEPT ![r] = IF @ = "live" THEN "aborted" ELSE @]
  /\ UNCHANGED <<runtimeVars, tickVars, codex>>

(* The cancel watcher: the first time it sees the signal it calls          *)
(* bridge.cancelRun and returns, whatever cancelRun found to abort.  The   *)
(* abort kills codex only if codex has been spawned by then.               *)
WatcherFires(r) ==
  /\ watcher[r] = "polling"
  /\ cancelSignal[r]
  /\ watcher' = [watcher EXCEPT ![r] = "fired"]
  /\ controller' = [controller EXCEPT ![r] = IF @ = "live" THEN "aborted" ELSE @]
  /\ codex' = [codex EXCEPT ![r] =
                 IF controller[r] = "live" /\ @ = "running" THEN "killed" ELSE @]
  /\ UNCHANGED <<runtimeVars, tickVars>>

---------------------------------------------------------------------------
(* Failures.  A Redis or Postgres call of a tick is rejected: the finally  *)
(* and catch blocks of the point it is at decide what still happens.       *)

Catches == {"prepare", "stream", "check", "persist", "report"}

CallRejected(t) ==
  /\ \/ /\ pc[t] \in Looking \cup InHand \cup Releasing \cup {"expire"}
        /\ pc[t] # "idle"
        /\ Return(t)
        /\ UNCHANGED <<watcher, controller>>
     \/ /\ \/ pc[t] \in Catches /\ pc' = [pc EXCEPT ![t] = "catch"]
           \/ pc[t] = "catch" /\ pc' = [pc EXCEPT ![t] = "clearBeat"]
           \/ /\ pc[t] \in (Preamble \ {"expire"}) \cup {"clearBeat", "clearCancel"}
              /\ pc' = [pc EXCEPT ![t] = "releaseGet"]
        /\ event' = [event EXCEPT ![t] = "none"]
        /\ controller' = [controller EXCEPT ![job[t]] = "absent"]
        /\ watcher' = IF pc[t] = "clearBeat"
                        THEN [watcher EXCEPT ![job[t]] = "off"] ELSE watcher
        /\ UNCHANGED <<todo, at, job, resumable>>
  /\ UNCHANGED <<runtimeVars, codex>>

(* The process dies and is started again: locals and the bridge's map are  *)
(* lost, Redis, Postgres and the codex children are not.                   *)
Crash ==
  /\ \E t \in Ticks : pc[t] # "idle"
  /\ pc' = [t \in Ticks |-> "idle"]
  /\ todo' = [t \in Ticks |-> {}]
  /\ at' = [t \in Ticks |-> NoWorkspace]
  /\ job' = [t \in Ticks |-> NoRun]
  /\ event' = [t \in Ticks |-> "none"]
  /\ resumable' = [t \in Ticks |-> FALSE]
  /\ watcher' = [r \in Runs |-> "off"]
  /\ controller' = [r \in Runs |-> "absent"]
  /\ UNCHANGED <<runtimeVars, codex>>

(* A codex child that no stream reads any more ends on its own.            *)
OrphanExits(r) ==
  /\ codex[r] # "none"
  /\ controller[r] = "absent"
  /\ codex' = [codex EXCEPT ![r] = "none"]
  /\ UNCHANGED <<runtimeVars, tickVars, watcher, controller>>

---------------------------------------------------------------------------
Tick(t) ==
  \/ ListWorkspaces(t)
  \/ \E w \in Workspaces : VisitWorkspace(t, w)
  \/ FindNothing(t)
  \/ PopRun(t)
  \/ AcquireLock(t)
  \/ RequeueRun(t)
  \/ SetLockExpiry(t)
  \/ StartRun(t)
  \/ CheckCancel(t)
  \/ CancelEarly(t)
  \/ BeginExecute(t)
  \/ FlushMemory(t)
  \/ StartBridge(t)
  \/ SpawnCodex(t)
  \/ CodexOutput(t)
  \/ CodexExit(t)
  \/ NoSpawnCwd(t)
  \/ NextEvent(t)
  \/ DrainStream(t)
  \/ RetryFresh(t)
  \/ TakeOutcome(t)
  \/ PersistOutcome(t)
  \/ ReportOutcome(t)
  \/ AttemptThrows(t)
  \/ CatchFailure(t)
  \/ StopWatching(t)
  \/ ClearSignal(t)
  \/ ReadLock(t)
  \/ ReleaseLock(t)
===========================================================================

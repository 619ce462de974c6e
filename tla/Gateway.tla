------------------------------ MODULE Gateway ------------------------------
(***************************************************************************)
(* What the gateway process does to runs: a prompt creates a run and       *)
(* queues it, /abort asks for the cancellation of a run, and the reaper,   *)
(* started every second by setInterval without waiting for the previous    *)
(* sweep, fails the running runs whose heartbeat has expired.              *)
(***************************************************************************)
EXTENDS RunRuntime

CONSTANTS
  Sweeps,      \* outstanding calls of reapExpiredRuns
  MaxAborts    \* bound on the number of /abort commands

ASSUME GatewayAssumption == MaxAborts \in Nat

VARIABLES
  submit,      \* how far the handler of the prompt behind a run has come
  abortStep,   \* the /abort handler of a session
  abortRun,    \* the run that handler selected
  aborts,      \* /abort commands so far
  sweepStep,
  sweepTodo,   \* expired run ids a sweep has still to visit
  sweepRun     \* the one it is at

submitVars == <<submit>>
abortVars  == <<abortStep, abortRun, aborts>>
sweepVars  == <<sweepStep, sweepTodo, sweepRun>>
gatewayVars == <<submitVars, abortVars, sweepVars>>

GatewayTypeOK ==
  /\ submit \in [Runs -> {"none", "created", "queued", "lost"}]
  /\ abortStep \in [Sessions -> {"idle", "found", "marked"}]
  /\ abortRun \in [Sessions -> Runs \cup {NoRun}]
  /\ aborts \in 0..MaxAborts
  /\ sweepStep \in [Sweeps -> {"idle", "next", "discard", "fail", "cancel", "clear",
                               "releaseGet", "releaseDel"}]
  /\ sweepTodo \in [Sweeps -> SUBSET Runs]
  /\ sweepRun \in [Sweeps -> Runs \cup {NoRun}]

GatewayInit ==
  /\ submit = [r \in Runs |-> "none"]
  /\ abortStep = [s \in Sessions |-> "idle"]
  /\ abortRun = [s \in Sessions |-> NoRun]
  /\ aborts = 0
  /\ sweepStep = [k \in Sweeps |-> "idle"]
  /\ sweepTodo = [k \in Sweeps |-> {}]
  /\ sweepRun = [k \in Sweeps |-> NoRun]

---------------------------------------------------------------------------
(* onEnvelope, prompt branch: INSERT the row, then RPUSH.  The handlers of *)
(* two prompts interleave, so the order in the list may differ from the    *)
(* order of created_at.                                                    *)

CreateQueuedRun(r) ==
  /\ submit[r] = "none"
  /\ \A q \in Runs : q < r => submit[q] # "none"
  /\ submit' = [submit EXCEPT ![r] = "created"]
  /\ MarkRun(r, "queued")
  /\ UNCHANGED <<cancelRequestedAt, runQueue, lockVars, signalVars, abortVars, sweepVars>>

EnqueueRun(r) ==
  /\ submit[r] = "created"
  /\ submit' = [submit EXCEPT ![r] = "queued"]
  /\ Enqueue(r)
  /\ UNCHANGED <<storeVars, lockVars, signalVars, abortVars, sweepVars>>

(* RPUSH is rejected: the row stays.                                       *)
EnqueueRejected(r) ==
  /\ submit[r] = "created"
  /\ submit' = [submit EXCEPT ![r] = "lost"]
  /\ UNCHANGED <<runtimeVars, abortVars, sweepVars>>

---------------------------------------------------------------------------
(* handleAbortCommand.  findActiveRunBySession: the session's newest run   *)
(* that is queued or running.                                              *)

ActiveRuns(s) == {r \in Runs : SessionOf[r] = s /\ status[r] \in Active}

(* Mutant of AbortFind: goes to requestCancellation without                *)
(* markCancelRequested.                                                    *)
AbortFindUnmarked(s) ==
  /\ abortStep[s] = "idle"
  /\ aborts < MaxAborts
  /\ \E r \in ActiveRuns(s) :
       /\ \A q \in ActiveRuns(s) : q <= r
       /\ abortRun' = [abortRun EXCEPT ![s] = r]
  /\ abortStep' = [abortStep EXCEPT ![s] = "marked"]
  /\ aborts' = aborts + 1
  /\ UNCHANGED <<runtimeVars, submitVars, sweepVars>>

AbortFind(s) ==
  /\ abortStep[s] = "idle"
  /\ aborts < MaxAborts
  /\ \E r \in ActiveRuns(s) :
       /\ \A q \in ActiveRuns(s) : q <= r
       /\ abortRun' = [abortRun EXCEPT ![s] = r]
  /\ abortStep' = [abortStep EXCEPT ![s] = "found"]
  /\ aborts' = aborts + 1
  /\ UNCHANGED <<runtimeVars, submitVars, sweepVars>>

AbortMark(s) ==
  /\ abortStep[s] = "found"
  /\ abortStep' = [abortStep EXCEPT ![s] = "marked"]
  /\ cancelRequestedAt' = [cancelRequestedAt EXCEPT ![abortRun[s]] = TRUE]
  /\ UNCHANGED <<status, runQueue, lockVars, signalVars, abortRun, aborts, submitVars,
                 sweepVars>>

AbortSignal(s) ==
  /\ abortStep[s] = "marked"
  /\ abortStep' = [abortStep EXCEPT ![s] = "idle"]
  /\ abortRun' = [abortRun EXCEPT ![s] = NoRun]
  /\ RequestCancellation(abortRun[s])
  /\ UNCHANGED <<storeVars, runQueue, lockVars, heartbeat, aborts, submitVars, sweepVars>>

Abort(s) == AbortFind(s) \/ AbortMark(s) \/ AbortSignal(s)

---------------------------------------------------------------------------
(* reapExpiredRuns.                                                        *)

SweepMove(k, from, to) ==
  /\ sweepStep[k] = from
  /\ sweepStep' = [sweepStep EXCEPT ![k] = to]

(* findExpired; its KEYS and GETs are taken as one look at the keys.       *)
FindExpired(k) ==
  LET expiredRuns == {r \in Runs : heartbeat[r] = "stale"}
  IN /\ SweepMove(k, "idle", "next")
     /\ expiredRuns # {}
     /\ sweepTodo' = [sweepTodo EXCEPT ![k] = expiredRuns]
     /\ UNCHANGED <<runtimeVars, sweepRun, submitVars, abortVars>>

InspectRun(k, r) ==
  /\ r \in sweepTodo[k]
  /\ SweepMove(k, "next", IF status[r] = "running" THEN "fail" ELSE "discard")
  /\ sweepTodo' = [sweepTodo EXCEPT ![k] = @ \ {r}]
  /\ sweepRun' = [sweepRun EXCEPT ![k] = r]
  /\ UNCHANGED <<runtimeVars, submitVars, abortVars>>

DiscardHeartbeat(k) ==
  /\ SweepMove(k, "discard", "next")
  /\ ClearBeat(sweepRun[k])
  /\ sweepRun' = [sweepRun EXCEPT ![k] = NoRun]
  /\ UNCHANGED <<storeVars, runQueue, lockVars, cancelSignal, sweepTodo, submitVars,
                 abortVars>>

FailExpiredRun(k) ==
  /\ SweepMove(k, "fail", "cancel")
  /\ MarkRun(sweepRun[k], "failed")
  /\ UNCHANGED <<cancelRequestedAt, runQueue, lockVars, signalVars, sweepTodo, sweepRun,
                 submitVars, abortVars>>

CancelExpiredRun(k) ==
  /\ SweepMove(k, "cancel", "clear")
  /\ RequestCancellation(sweepRun[k])
  /\ UNCHANGED <<storeVars, runQueue, lockVars, heartbeat, sweepTodo, sweepRun, submitVars,
                 abortVars>>

ClearExpiredBeat(k) ==
  /\ SweepMove(k, "clear", "releaseGet")
  /\ ClearBeat(sweepRun[k])
  /\ UNCHANGED <<storeVars, runQueue, lockVars, cancelSignal, sweepTodo, sweepRun,
                 submitVars, abortVars>>

ReadExpiredLock(k) ==
  /\ SweepMove(k, "releaseGet",
               IF lock[WorkspaceOf[sweepRun[k]]] = sweepRun[k] THEN "releaseDel" ELSE "next")
  /\ sweepRun' = IF sweepStep'[k] = "next" THEN [sweepRun EXCEPT ![k] = NoRun] ELSE sweepRun
  /\ UNCHANGED <<runtimeVars, sweepTodo, submitVars, abortVars>>

ReleaseExpiredLock(k) ==
  /\ SweepMove(k, "releaseDel", "next")
  /\ DeleteLock(WorkspaceOf[sweepRun[k]])
  /\ sweepRun' = [sweepRun EXCEPT ![k] = NoRun]
  /\ UNCHANGED <<storeVars, runQueue, signalVars, sweepTodo, submitVars, abortVars>>

EndSweep(k) ==
  /\ SweepMove(k, "next", "idle")
  /\ sweepTodo[k] = {}
  /\ UNCHANGED <<runtimeVars, sweepTodo, sweepRun, submitVars, abortVars>>

Sweep(k) ==
  \/ FindExpired(k)
  \/ \E r \in Runs : InspectRun(k, r)
  \/ DiscardHeartbeat(k)
  \/ FailExpiredRun(k)
  \/ CancelExpiredRun(k)
  \/ ClearExpiredBeat(k)
  \/ ReadExpiredLock(k)
  \/ ReleaseExpiredLock(k)
  \/ EndSweep(k)

Submission(r) == CreateQueuedRun(r) \/ EnqueueRun(r)

(* The process dies and is started again: handlers and sweeps are cut off. *)
GatewayCrash ==
  /\ submit' = [r \in Runs |-> IF submit[r] = "created" THEN "lost" ELSE submit[r]]
  /\ abortStep' = [s \in Sessions |-> "idle"]
  /\ abortRun' = [s \in Sessions |-> NoRun]
  /\ sweepStep' = [k \in Sweeps |-> "idle"]
  /\ sweepTodo' = [k \in Sweeps |-> {}]
  /\ sweepRun' = [k \in Sweeps |-> NoRun]
  /\ UNCHANGED <<runtimeVars, aborts>>
============================================================================

------------------------ MODULE RunExecutionProofs ------------------------
(***************************************************************************)
(* Proofs about RunExecution for every set of runs, workspaces, sessions,  *)
(* ticks and sweeps and every bound: type correctness, that a run is       *)
(* delivered to one tick, that two ticks share a workspace only after the  *)
(* TTL or the reaper took the lock from one of them, that the composition  *)
(* implements RunLifecycle, and how a run ends.                            *)
(***************************************************************************)
EXTENDS RunExecution, SequenceTheorems, TLAPS

(* What the steps of a tick rely on: where a run is in hand, which queue   *)
(* is about to be popped, and which outcome is about to be stored.         *)
TickInv ==
  \A t \in Ticks :
    /\ job[t] # NoRun <=> pc[t] \in InHand \cup Locked
    /\ pc[t] = "dequeue" => at[t] \in Workspaces
    /\ pc[t] = "check" => event[t] # "none"
    /\ pc[t] = "persist" => event[t] \in Outcome

(* A sweep is at a run, and has failed it before it takes its lock away.   *)
SweepInv ==
  \A k \in Sweeps :
    /\ sweepStep[k] \notin {"idle", "next"} => sweepRun[k] \in Runs
    /\ sweepStep[k] \in {"cancel", "clear", "releaseGet", "releaseDel"}
         => sweepRun[k] \in reaped

(* A queue holds runs of its own workspace, pushed by their own handlers,  *)
(* each once.                                                              *)
QueueInv ==
  \A w \in Workspaces : \A i \in DOMAIN runQueue[w] :
    /\ WorkspaceOf[runQueue[w][i]] = w
    /\ submit[runQueue[w][i]] = "queued"
    /\ \A t \in Ticks : job[t] # runQueue[w][i]
    /\ \A j \in DOMAIN runQueue[w] : runQueue[w][i] = runQueue[w][j] => i = j

JobInv ==
  \A t \in Ticks :
    job[t] # NoRun =>
      /\ submit[job[t]] = "queued"
      /\ \A u \in Ticks : job[t] = job[u] => t = u

(* The lock of a workspace that was not disturbed names the run of the     *)
(* tick that works under it.                                               *)
LockInv ==
  \A t \in Ticks :
    pc[t] \in Locked =>
      lock[WorkspaceOf[job[t]]] = job[t] \/ Disturbed(WorkspaceOf[job[t]])

IInv == TypeOK /\ TickInv /\ SweepInv /\ QueueInv /\ JobInv /\ LockInv

---------------------------------------------------------------------------
(* The queues: what RPUSH adds and what LPOP takes.                        *)

(* RPUSH (RedisRunQueue.enqueue) puts the run behind what the list of its  *)
(* workspace held, and touches no other list.                              *)
LEMMA EnqueueContents ==
  ASSUME runQueue \in [Workspaces -> Seq(Runs)], NEW r \in Runs, Enqueue(r)
  PROVE  /\ runQueue' \in [Workspaces -> Seq(Runs)]
         /\ \A w \in Workspaces \ {WorkspaceOf[r]} : runQueue'[w] = runQueue[w]
         /\ DOMAIN runQueue'[WorkspaceOf[r]] = 1..Len(runQueue[WorkspaceOf[r]]) + 1
         /\ runQueue'[WorkspaceOf[r]][Len(runQueue[WorkspaceOf[r]]) + 1] = r
         /\ \A i \in 1..Len(runQueue[WorkspaceOf[r]]) :
              runQueue'[WorkspaceOf[r]][i] = runQueue[WorkspaceOf[r]][i]
<1> DEFINE q == runQueue[WorkspaceOf[r]]
<1>1. WorkspaceOf[r] \in Workspaces /\ q \in Seq(Runs)
  BY RuntimeAssumption
<1>2. /\ runQueue'[WorkspaceOf[r]] = Append(q, r)
      /\ \A w \in Workspaces \ {WorkspaceOf[r]} : runQueue'[w] = runQueue[w]
      /\ runQueue' = [w \in Workspaces |-> IF w = WorkspaceOf[r] THEN Append(q, r)
                                                               ELSE runQueue[w]]
  BY <1>1 DEF Enqueue
<1> HIDE DEF q
<1>3. /\ Append(q, r) \in Seq(Runs)
      /\ DOMAIN Append(q, r) = 1..Len(q) + 1
      /\ Append(q, r)[Len(q) + 1] = r
      /\ \A i \in 1..Len(q) : Append(q, r)[i] = q[i]
  BY <1>1, AppendProperties, LenProperties
<1>4. runQueue' \in [Workspaces -> Seq(Runs)]
  BY <1>2, <1>3
<1> QED
  BY <1>2, <1>3, <1>4 DEF q

(* LPOP (RedisRunQueue.dequeue) takes the first run of one list and shifts  *)
(* the rest.                                                               *)
LEMMA DequeueContents ==
  ASSUME runQueue \in [Workspaces -> Seq(Runs)], NEW w \in Workspaces,
         runQueue[w] # <<>>, Dequeue(w)
  PROVE  /\ runQueue' \in [Workspaces -> Seq(Runs)]
         /\ \A v \in Workspaces \ {w} : runQueue'[v] = runQueue[v]
         /\ Head(runQueue[w]) \in Runs
         /\ Head(runQueue[w]) = runQueue[w][1]
         /\ 1 \in DOMAIN runQueue[w]
         /\ \A i \in DOMAIN runQueue'[w] :
              /\ i \in Nat \ {0}
              /\ i + 1 \in DOMAIN runQueue[w]
              /\ runQueue'[w][i] = runQueue[w][i + 1]
<1> DEFINE q == runQueue[w]
<1>1. q \in Seq(Runs) /\ q # <<>>
  OBVIOUS
<1>2. /\ runQueue'[w] = Tail(q)
      /\ \A v \in Workspaces \ {w} : runQueue'[v] = runQueue[v]
      /\ runQueue' = [v \in Workspaces |-> IF v = w THEN Tail(q) ELSE runQueue[v]]
  BY DEF Dequeue
<1> HIDE DEF q
<1>3. /\ Head(q) \in Runs
      /\ Tail(q) \in Seq(Runs)
      /\ Len(Tail(q)) = Len(q) - 1
      /\ \A i \in 1..Len(Tail(q)) : Tail(q)[i] = q[i + 1]
  BY <1>1, HeadTailProperties
<1>4. /\ Len(q) \in Nat \ {0}
      /\ DOMAIN q = 1..Len(q)
      /\ DOMAIN Tail(q) = 1..Len(q) - 1
  BY <1>1, <1>3, EmptySeq, LenProperties
<1>5. Head(q) = q[1]
  BY <1>1
<1>6. runQueue' \in [Workspaces -> Seq(Runs)]
  BY <1>2, <1>3
<1> QED
  BY <1>2, <1>3, <1>4, <1>5, <1>6 DEF q

---------------------------------------------------------------------------
(* Type correctness.                                                       *)

(* Empty Redis, empty table, idle processes: the initial state is typed.   *)
THEOREM InitTyped == Init => TypeOK
<1> SUFFICES ASSUME Init PROVE TypeOK
  OBVIOUS
<1>1. RuntimeTypeOK
  BY RuntimeAssumption DEF Init, RuntimeInit, RuntimeTypeOK, RunStatus, Heartbeat
<1>2. ExecutorTypeOK
  BY DEF Init, ExecutorInit, ExecutorTypeOK, Looking, Event
<1>3. GatewayTypeOK
  BY GatewayAssumption DEF Init, GatewayInit, GatewayTypeOK
<1> QED
  BY <1>1, <1>2, <1>3, ExecutionAssumption DEF Init, TypeOK

(* No step of processNext or execute leaves the types: the run, workspace  *)
(* and outcome it uses are there at the step that uses them.               *)
LEMMA TickTyped ==
  ASSUME TypeOK, TickInv, NEW t \in Ticks, Tick(t)
  PROVE  RuntimeTypeOK' /\ ExecutorTypeOK'
<1> USE DEF runtimeVars, storeVars, lockVars, signalVars, bridgeVars, Move, Return,
        Looking, InHand, Locked, Preamble, Attempt, Ending, Releasing, Event, Outcome
<1>0. /\ RuntimeTypeOK
      /\ ExecutorTypeOK
      /\ pc[t] \in InHand \cup Locked => job[t] \in Runs
  BY DEF TypeOK, TickInv, ExecutorTypeOK
<1>1. CASE ListWorkspaces(t)
  BY <1>0, <1>1, RuntimeAssumption DEF ListWorkspaces, RuntimeTypeOK, ExecutorTypeOK, QueuedWorkspaces
<1>2. CASE FindNothing(t)
  BY <1>0, <1>2, RuntimeAssumption DEF FindNothing, RuntimeTypeOK, ExecutorTypeOK
<1>3. CASE PopRun(t)
  <2>1. at[t] \in Workspaces
    BY <1>3 DEF PopRun, TickInv
  <2>2. CASE runQueue[at[t]] = <<>>
    <3>1. /\ at' = [at EXCEPT ![t] = NoWorkspace]
          /\ pc' = [pc EXCEPT ![t] = "scan"]
          /\ UNCHANGED <<runQueue, job, storeVars, lockVars, signalVars, todo, event,
                         resumable, bridgeVars>>
      BY <1>3, <2>2 DEF PopRun
    <3>2. RuntimeTypeOK'
      BY <1>0, <3>1 DEF RuntimeTypeOK
    <3> QED
      BY <1>0, <3>1, <3>2 DEF ExecutorTypeOK
  <2>3. CASE runQueue[at[t]] # <<>>
    <3>1. Dequeue(at[t]) /\ runQueue \in [Workspaces -> Seq(Runs)]
      BY <1>0, <1>3, <2>3 DEF PopRun, RuntimeTypeOK
    <3>2. runQueue' \in [Workspaces -> Seq(Runs)] /\ Head(runQueue[at[t]]) \in Runs
      BY <2>1, <2>3, <3>1, DequeueContents
    <3>3. /\ at' = [at EXCEPT ![t] = NoWorkspace]
          /\ pc' = [pc EXCEPT ![t] = "acquire"]
          /\ job' = [job EXCEPT ![t] = Head(runQueue[at[t]])]
          /\ UNCHANGED <<storeVars, lockVars, signalVars, todo, event, resumable, bridgeVars>>
      BY <1>3, <2>3 DEF PopRun
    <3>4. RuntimeTypeOK'
      BY <1>0, <3>2, <3>3 DEF RuntimeTypeOK
    <3>5. job' \in [Ticks -> Runs \cup {NoRun}]
      BY <1>0, <3>2, <3>3 DEF ExecutorTypeOK
    <3> QED
      BY <1>0, <3>3, <3>4, <3>5 DEF ExecutorTypeOK
  <2> QED
    BY <2>2, <2>3
<1>4. CASE AcquireLock(t)
  <2>1. CASE lock[WorkspaceOf[job[t]]] = NoRun
    <3>1. /\ pc' = [pc EXCEPT ![t] = "expire"]
          /\ SetLock(job[t])
          /\ UNCHANGED <<storeVars, runQueue, signalVars, todo, at, job, event, resumable,
                         bridgeVars>>
      BY <1>4, <2>1 DEF AcquireLock
    <3>2. job[t] \in Runs
      BY <1>0, <1>4 DEF AcquireLock
    <3>3. RuntimeTypeOK'
      BY <1>0, <3>1, <3>2, RuntimeAssumption DEF RuntimeTypeOK, SetLock
    <3> QED
      BY <1>0, <3>1, <3>3 DEF ExecutorTypeOK
  <2>2. CASE lock[WorkspaceOf[job[t]]] # NoRun
    <3>1. /\ pc' = [pc EXCEPT ![t] = "requeue"]
          /\ UNCHANGED <<storeVars, runQueue, lockVars, signalVars, todo, at, job, event,
                         resumable, bridgeVars>>
      BY <1>4, <2>2 DEF AcquireLock
    <3> QED
      BY <1>0, <3>1 DEF RuntimeTypeOK, ExecutorTypeOK
  <2> QED
    BY <2>1, <2>2
<1>5. CASE RequeueRun(t)
  <2>1. Enqueue(job[t]) /\ job[t] \in Runs /\ runQueue \in [Workspaces -> Seq(Runs)]
    BY <1>0, <1>5 DEF RequeueRun, RuntimeTypeOK
  <2>2. runQueue' \in [Workspaces -> Seq(Runs)]
    BY <2>1, EnqueueContents
  <2> QED
    BY <1>0, <1>5, <2>2 DEF RequeueRun, RuntimeTypeOK, ExecutorTypeOK
<1>6. CASE SetLockExpiry(t)
  BY <1>0, <1>6, RuntimeAssumption DEF SetLockExpiry, RuntimeTypeOK, ExecutorTypeOK, ExpireLock
<1>7. CASE StartRun(t)
  BY <1>0, <1>7, RuntimeAssumption DEF StartRun, RuntimeTypeOK, ExecutorTypeOK, MarkRun, RunStatus, Active
<1>8. CASE CheckCancel(t)
  BY <1>0, <1>8, RuntimeAssumption DEF CheckCancel, RuntimeTypeOK, ExecutorTypeOK
<1>9. CASE CancelEarly(t)
  BY <1>0, <1>9, RuntimeAssumption DEF CancelEarly, RuntimeTypeOK, ExecutorTypeOK, MarkRun, RunStatus, Terminal
<1>10. CASE BeginExecute(t)
  BY <1>0, <1>10, RuntimeAssumption DEF BeginExecute, RuntimeTypeOK, ExecutorTypeOK, Beat, Heartbeat
<1>11. CASE FlushMemory(t)
  BY <1>0, <1>11, RuntimeAssumption DEF FlushMemory, RuntimeTypeOK, ExecutorTypeOK
<1>12. CASE StartBridge(t)
  BY <1>0, <1>12, RuntimeAssumption DEF StartBridge, RuntimeTypeOK, ExecutorTypeOK
<1>13. CASE SpawnCodex(t)
  BY <1>0, <1>13, RuntimeAssumption DEF SpawnCodex, RuntimeTypeOK, ExecutorTypeOK
<1>14. CASE CodexOutput(t)
  BY <1>0, <1>14, RuntimeAssumption DEF CodexOutput, RuntimeTypeOK, ExecutorTypeOK, Deliver, Beat, Heartbeat
<1>15. CASE CodexExit(t)
  BY <1>0, <1>15, RuntimeAssumption DEF CodexExit, RuntimeTypeOK, ExecutorTypeOK, Deliver, ExitEvents, Beat, Heartbeat
<1>16. CASE NoSpawnCwd(t)
  BY <1>0, <1>16, RuntimeAssumption DEF NoSpawnCwd, RuntimeTypeOK, ExecutorTypeOK, Deliver, Beat, Heartbeat
<1>17. CASE NextEvent(t)
  BY <1>0, <1>17 DEF NextEvent, RuntimeTypeOK, ExecutorTypeOK
<1>18. CASE DrainStream(t)
  BY <1>0, <1>18 DEF DrainStream, RuntimeTypeOK, ExecutorTypeOK
<1>19. CASE RetryFresh(t)
  BY <1>0, <1>19 DEF RetryFresh, RuntimeTypeOK, ExecutorTypeOK
<1>20. CASE TakeOutcome(t)
  BY <1>0, <1>20 DEF TakeOutcome, RuntimeTypeOK, ExecutorTypeOK
<1>21. CASE PersistOutcome(t)
  BY <1>0, <1>21, RuntimeAssumption DEF PersistOutcome, RuntimeTypeOK, ExecutorTypeOK, MarkRun, RunStatus, Terminal, TickInv
<1>22. CASE ReportOutcome(t)
  BY <1>0, <1>22, RuntimeAssumption DEF ReportOutcome, RuntimeTypeOK, ExecutorTypeOK
<1>23. CASE AttemptThrows(t)
  BY <1>0, <1>23, RuntimeAssumption DEF AttemptThrows, RuntimeTypeOK, ExecutorTypeOK
<1>24. CASE CatchFailure(t)
  BY <1>0, <1>24, RuntimeAssumption DEF CatchFailure, RuntimeTypeOK, ExecutorTypeOK, MarkRun, RunStatus, Terminal
<1>25. CASE StopWatching(t)
  BY <1>0, <1>25, RuntimeAssumption DEF StopWatching, RuntimeTypeOK, ExecutorTypeOK, ClearBeat, Heartbeat
<1>26. CASE ClearSignal(t)
  BY <1>0, <1>26, RuntimeAssumption DEF ClearSignal, RuntimeTypeOK, ExecutorTypeOK, ClearCancellation
<1>27. CASE ReadLock(t)
  <2>1. CASE lock[WorkspaceOf[job[t]]] = job[t]
    BY <1>0, <1>27, <2>1 DEF ReadLock, RuntimeTypeOK, ExecutorTypeOK
  <2>2. CASE ~(lock[WorkspaceOf[job[t]]] = job[t])
    <3>1. Return(t) /\ UNCHANGED <<runtimeVars, bridgeVars>>
      BY <1>27, <2>2 DEF ReadLock
    <3> QED
      BY <1>0, <3>1 DEF RuntimeTypeOK, ExecutorTypeOK
  <2> QED
    BY <2>1, <2>2
<1>28. CASE ReleaseLock(t)
  BY <1>0, <1>28, RuntimeAssumption DEF ReleaseLock, RuntimeTypeOK, ExecutorTypeOK, DeleteLock
<1>29. ASSUME NEW w \in Workspaces, VisitWorkspace(t, w)
      PROVE  RuntimeTypeOK' /\ ExecutorTypeOK'
  <2>1. /\ todo' = [todo EXCEPT ![t] = @ \ {w}]
        /\ UNCHANGED <<runtimeVars, job, event, resumable, bridgeVars>>
    BY <1>29 DEF VisitWorkspace
  <2>2. RuntimeTypeOK'
    BY <1>0, <2>1 DEF RuntimeTypeOK
  <2>3. CASE lock[w] # NoRun
    BY <1>0, <1>29, <2>1, <2>2, <2>3 DEF VisitWorkspace, ExecutorTypeOK
  <2>4. CASE lock[w] = NoRun
    <3>1. pc' = [pc EXCEPT ![t] = "dequeue"] /\ at' = [at EXCEPT ![t] = w]
      BY <1>29, <2>4 DEF VisitWorkspace
    <3> QED
      BY <1>0, <2>1, <2>2, <3>1 DEF ExecutorTypeOK
  <2> QED
    BY <2>3, <2>4
<1> QED
  BY <1>1, <1>2, <1>3, <1>4, <1>5, <1>6, <1>7, <1>8, <1>9, <1>10, <1>11, <1>12, <1>13, <1>14,
     <1>15, <1>16, <1>17, <1>18, <1>19, <1>20, <1>21, <1>22, <1>23, <1>24, <1>25, <1>26, <1>27, <1>28, <1>29 DEF Tick

(* The same of any step of the executor, watchers and orphaned codex       *)
(* processes included.                                                     *)
LEMMA ExecutorTyped ==
  ASSUME TypeOK, TickInv, ExecutorStep
  PROVE  TypeOK'
<1>0. /\ RuntimeTypeOK /\ ExecutorTypeOK /\ GatewayTypeOK
      /\ UNCHANGED <<gatewayVars, historyVars>>
  BY DEF TypeOK, ExecutorStep
<1>1. (GatewayTypeOK /\ expired \subseteq Runs /\ reaped \subseteq Runs
        /\ botched \subseteq Runs /\ mishaps \in 0..MaxMishaps)'
  BY <1>0 DEF TypeOK, GatewayTypeOK, gatewayVars, submitVars, abortVars, sweepVars, historyVars
<1>2. ASSUME NEW t \in Ticks, Tick(t)
      PROVE  RuntimeTypeOK' /\ ExecutorTypeOK'
  BY <1>2, TickTyped
<1>3. ASSUME NEW r \in Runs, WatcherFires(r)
      PROVE  RuntimeTypeOK' /\ ExecutorTypeOK'
  BY <1>0, <1>3 DEF WatcherFires, RuntimeTypeOK, ExecutorTypeOK, runtimeVars, storeVars,
     lockVars, signalVars, tickVars
<1>4. ASSUME NEW r \in Runs, OrphanExits(r)
      PROVE  RuntimeTypeOK' /\ ExecutorTypeOK'
  BY <1>0, <1>4 DEF OrphanExits, RuntimeTypeOK, ExecutorTypeOK, runtimeVars, storeVars,
     lockVars, signalVars, tickVars
<1> QED
  BY <1>1, <1>2, <1>3, <1>4 DEF ExecutorStep, TypeOK

(* Prompts and /abort keep the types.                                      *)
LEMMA GatewayTyped ==
  ASSUME TypeOK, GatewayStep
  PROVE  TypeOK'
<1> USE DEF runtimeVars, storeVars, lockVars, signalVars, submitVars, abortVars, sweepVars
<1>0. /\ RuntimeTypeOK /\ ExecutorTypeOK /\ GatewayTypeOK
      /\ UNCHANGED <<executorVars, historyVars>>
  BY DEF TypeOK, GatewayStep
<1>1. (ExecutorTypeOK /\ expired \subseteq Runs /\ reaped \subseteq Runs
        /\ botched \subseteq Runs /\ mishaps \in 0..MaxMishaps)'
  BY <1>0 DEF TypeOK, ExecutorTypeOK, executorVars, tickVars, bridgeVars, historyVars
<1>2. ASSUME NEW r \in Runs, CreateQueuedRun(r)
      PROVE  RuntimeTypeOK' /\ GatewayTypeOK'
  BY <1>0, <1>2 DEF CreateQueuedRun, MarkRun, RuntimeTypeOK, GatewayTypeOK, RunStatus, Active
<1>3. ASSUME NEW r \in Runs, EnqueueRun(r)
      PROVE  RuntimeTypeOK' /\ GatewayTypeOK'
  <2>1. runQueue' \in [Workspaces -> Seq(Runs)]
    BY <1>0, <1>3, EnqueueContents DEF EnqueueRun, RuntimeTypeOK
  <2> QED
    BY <1>0, <1>3, <2>1 DEF EnqueueRun, RuntimeTypeOK, GatewayTypeOK
<1>4. ASSUME NEW s \in Sessions, AbortFind(s)
      PROVE  RuntimeTypeOK' /\ GatewayTypeOK'
  BY <1>0, <1>4, GatewayAssumption DEF AbortFind, ActiveRuns, RuntimeTypeOK, GatewayTypeOK
<1>5. ASSUME NEW s \in Sessions, AbortMark(s)
      PROVE  RuntimeTypeOK' /\ GatewayTypeOK'
  BY <1>0, <1>5 DEF AbortMark, RuntimeTypeOK, GatewayTypeOK
<1>6. ASSUME NEW s \in Sessions, AbortSignal(s)
      PROVE  RuntimeTypeOK' /\ GatewayTypeOK'
  BY <1>0, <1>6 DEF AbortSignal, RequestCancellation, RuntimeTypeOK, GatewayTypeOK
<1> QED
  BY <1>1, <1>2, <1>3, <1>4, <1>5, <1>6 DEF GatewayStep, Submission, Abort, TypeOK

(* A sweep that has taken its next run keeps the types.                    *)
LEMMA ReaperTyped ==
  ASSUME TypeOK, SweepInv, ReaperStep
  PROVE  TypeOK'
<1> USE DEF runtimeVars, storeVars, lockVars, signalVars, submitVars, abortVars, SweepMove
<1>0. /\ RuntimeTypeOK /\ ExecutorTypeOK /\ GatewayTypeOK
      /\ UNCHANGED <<executorVars, expired, botched, mishaps>>
  BY DEF TypeOK, ReaperStep
<1>1. (ExecutorTypeOK /\ expired \subseteq Runs /\ botched \subseteq Runs
        /\ mishaps \in 0..MaxMishaps)'
  BY <1>0 DEF TypeOK, ExecutorTypeOK, executorVars, tickVars, bridgeVars
<1>2. PICK k \in Sweeps :
        /\ Sweep(k)
        /\ reaped' = IF sweepStep[k] = "fail" THEN reaped \cup {sweepRun[k]} ELSE reaped
  BY DEF ReaperStep
<1>3. reaped' \subseteq Runs
  BY <1>2 DEF TypeOK, SweepInv
<1>4. ASSUME FindExpired(k) PROVE RuntimeTypeOK' /\ GatewayTypeOK'
  BY <1>0, <1>4 DEF FindExpired, RuntimeTypeOK, GatewayTypeOK
<1>5. ASSUME NEW r \in Runs, InspectRun(k, r) PROVE RuntimeTypeOK' /\ GatewayTypeOK'
  BY <1>0, <1>5 DEF InspectRun, RuntimeTypeOK, GatewayTypeOK
<1>6. ASSUME DiscardHeartbeat(k) PROVE RuntimeTypeOK' /\ GatewayTypeOK'
  BY <1>0, <1>6 DEF DiscardHeartbeat, ClearBeat, Heartbeat, RuntimeTypeOK, GatewayTypeOK
<1>7. ASSUME FailExpiredRun(k) PROVE RuntimeTypeOK' /\ GatewayTypeOK'
  BY <1>0, <1>7 DEF FailExpiredRun, MarkRun, RunStatus, Terminal, RuntimeTypeOK, GatewayTypeOK
<1>8. ASSUME CancelExpiredRun(k) PROVE RuntimeTypeOK' /\ GatewayTypeOK'
  BY <1>0, <1>8 DEF CancelExpiredRun, RequestCancellation, RuntimeTypeOK, GatewayTypeOK
<1>9. ASSUME ClearExpiredBeat(k) PROVE RuntimeTypeOK' /\ GatewayTypeOK'
  BY <1>0, <1>9 DEF ClearExpiredBeat, ClearBeat, Heartbeat, RuntimeTypeOK, GatewayTypeOK
<1>10. ASSUME ReadExpiredLock(k) PROVE RuntimeTypeOK' /\ GatewayTypeOK'
  BY <1>0, <1>10 DEF ReadExpiredLock, RuntimeTypeOK, GatewayTypeOK
<1>11. ASSUME ReleaseExpiredLock(k) PROVE RuntimeTypeOK' /\ GatewayTypeOK'
  BY <1>0, <1>11, RuntimeAssumption DEF ReleaseExpiredLock, DeleteLock, RuntimeTypeOK, GatewayTypeOK
<1>12. ASSUME EndSweep(k) PROVE RuntimeTypeOK' /\ GatewayTypeOK'
  BY <1>0, <1>12 DEF EndSweep, RuntimeTypeOK, GatewayTypeOK
<1> QED
  BY <1>1, <1>2, <1>3, <1>4, <1>5, <1>6, <1>7, <1>8, <1>9, <1>10, <1>11, <1>12
  DEF Sweep, TypeOK

(* The expiry of a lock or a heartbeat keeps the types.                    *)
LEMMA ClockTyped ==
  ASSUME TypeOK, ClockStep
  PROVE  TypeOK'
<1> USE DEF storeVars, lockVars, signalVars, executorVars, tickVars, bridgeVars, gatewayVars,
        submitVars, abortVars, sweepVars, historyVars
<1>1. ASSUME NEW w \in Workspaces, LockExpires(w) PROVE TypeOK'
  BY <1>1 DEF LockExpires, DeleteLock, TypeOK, RuntimeTypeOK, ExecutorTypeOK, GatewayTypeOK
<1>2. ASSUME NEW r \in Runs, HeartbeatAges(r) \/ HeartbeatEvicted(r),
             UNCHANGED <<executorVars, gatewayVars, historyVars>>
      PROVE  TypeOK'
  <2>1. heartbeat' \in [Runs -> Heartbeat]
    BY <1>2 DEF HeartbeatAges, HeartbeatEvicted, ClearBeat, Heartbeat, TypeOK, RuntimeTypeOK
  <2>2. UNCHANGED <<storeVars, runQueue, lockVars, cancelSignal>>
    BY <1>2 DEF HeartbeatAges, HeartbeatEvicted
  <2> QED
    BY <1>2, <2>1, <2>2 DEF TypeOK, RuntimeTypeOK, ExecutorTypeOK, GatewayTypeOK
<1> QED
  BY <1>1, <1>2 DEF ClockStep

(* A crash or a rejected call keeps the types.                             *)
LEMMA MishapTyped ==
  ASSUME TypeOK, TickInv, Mishap
  PROVE  TypeOK'
<1> USE DEF storeVars, lockVars, signalVars, runtimeVars, executorVars, tickVars, bridgeVars,
        gatewayVars, submitVars, abortVars, sweepVars
<1>0. /\ mishaps' \in 0..MaxMishaps /\ expired' \subseteq Runs /\ reaped' \subseteq Runs
      /\ RuntimeTypeOK /\ ExecutorTypeOK /\ GatewayTypeOK
  BY ExecutionAssumption DEF Mishap, TypeOK
<1>1. ASSUME Crash, UNCHANGED <<gatewayVars, botched>> PROVE TypeOK'
  BY <1>0, <1>1 DEF Crash, TypeOK, RuntimeTypeOK, ExecutorTypeOK, GatewayTypeOK, Looking, Event
<1>2. ASSUME NEW t \in Ticks, CallRejected(t), UNCHANGED gatewayVars,
             botched' = IF pc[t] = "report" THEN botched \cup {job[t]} ELSE botched
      PROVE  TypeOK'
  <2>1. RuntimeTypeOK' /\ GatewayTypeOK'
    BY <1>0, <1>2 DEF CallRejected, RuntimeTypeOK, GatewayTypeOK
  <2>2. ExecutorTypeOK'
    <3>1. CASE Return(t) /\ UNCHANGED <<bridgeVars>>
      BY <1>0, <3>1 DEF Return, ExecutorTypeOK, Looking, Event
    <3>2. CASE /\ pc' \in {[pc EXCEPT ![t] = p] : p \in {"catch", "clearBeat", "releaseGet"}}
               /\ event' = [event EXCEPT ![t] = "none"]
               /\ UNCHANGED <<todo, at, job, resumable>>
               /\ controller' = [controller EXCEPT ![job[t]] = "absent"]
               /\ watcher' \in {watcher, [watcher EXCEPT ![job[t]] = "off"]}
               /\ UNCHANGED codex
      <4>1. pc' \in [Ticks -> Looking \cup InHand \cup Locked]
        BY <1>0, <3>2 DEF ExecutorTypeOK, Locked, Ending, Releasing
      <4>2. controller' \in [Runs -> {"absent", "live", "aborted"}]
        BY <1>0, <3>2 DEF ExecutorTypeOK
      <4>3. watcher' \in [Runs -> {"off", "polling", "fired"}]
        BY <1>0, <3>2 DEF ExecutorTypeOK
      <4> QED
        BY <1>0, <3>2, <4>1, <4>2, <4>3 DEF ExecutorTypeOK, Event
    <3> QED
      BY <1>2, <3>1, <3>2 DEF CallRejected
  <2>3. botched' \subseteq Runs
    BY <1>0, <1>2 DEF TypeOK, TickInv, ExecutorTypeOK, Locked, Ending
  <2> QED
    BY <1>0, <2>1, <2>2, <2>3 DEF TypeOK
<1>3. ASSUME GatewayCrash, UNCHANGED <<executorVars, botched>> PROVE TypeOK'
  BY <1>0, <1>3 DEF GatewayCrash, TypeOK, RuntimeTypeOK, ExecutorTypeOK, GatewayTypeOK
<1>4. ASSUME NEW r \in Runs, EnqueueRejected(r), UNCHANGED <<executorVars, botched>>
      PROVE  TypeOK'
  BY <1>0, <1>4 DEF EnqueueRejected, TypeOK, RuntimeTypeOK, ExecutorTypeOK, GatewayTypeOK
<1> QED
  BY <1>1, <1>2, <1>3, <1>4 DEF Mishap

(* Every step keeps the types, given what ticks and sweeps rely on.        *)
THEOREM TypeStep ==
  ASSUME TypeOK, TickInv, SweepInv, [Next]_vars
  PROVE  TypeOK'
<1>1. CASE UNCHANGED vars
  BY <1>1 DEF TypeOK, RuntimeTypeOK, ExecutorTypeOK, GatewayTypeOK, vars, runtimeVars, storeVars,
     lockVars, signalVars, executorVars, tickVars, bridgeVars, gatewayVars, submitVars, abortVars,
     sweepVars, historyVars
<1> QED
  BY <1>1, ExecutorTyped, GatewayTyped, ReaperTyped, ClockTyped, MishapTyped DEF Next

---------------------------------------------------------------------------
(* What a step of a tick does to the parts the invariants speak of.        *)

TickEffect(t) ==
  /\ \A u \in Ticks \ {t} :
       /\ pc'[u] = pc[u]
       /\ job'[u] = job[u]
       /\ at'[u] = at[u]
       /\ event'[u] = event[u]
  /\ job'[t] # NoRun <=> pc'[t] \in InHand \cup Locked
  /\ pc'[t] = "dequeue" => at'[t] \in Workspaces
  /\ pc'[t] = "check" => event'[t] # "none"
  /\ pc'[t] = "persist" => event'[t] \in Outcome
  /\ \/ PopRun(t)
     \/ RequeueRun(t)
     \/ runQueue' = runQueue /\ job'[t] \in {job[t], NoRun}
  /\ \/ AcquireLock(t)
     \/ ReleaseLock(t)
     \/ lock' = lock /\ (pc'[t] \in Locked => pc[t] \in Locked /\ job'[t] = job[t])

(* What a step of one tick does to its run, the queues and the lock is one  *)
(* of the effects listed in TickEffect.                                    *)
LEMMA TickSteps ==
  ASSUME TypeOK, TickInv, NEW t \in Ticks, Tick(t)
  PROVE  TickEffect(t)
<1> USE DEF runtimeVars, storeVars, lockVars, signalVars, bridgeVars, Move, Return, TickEffect,
        Looking, InHand, Locked, Preamble, Attempt, Ending, Releasing, Event, Outcome
<1>0. /\ ExecutorTypeOK
      /\ job[t] # NoRun <=> pc[t] \in InHand \cup Locked
      /\ pc \in [Ticks -> Looking \cup InHand \cup Locked]
      /\ job \in [Ticks -> Runs \cup {NoRun}]
      /\ at \in [Ticks -> Workspaces \cup {NoWorkspace}]
      /\ event \in [Ticks -> Event]
  BY DEF TypeOK, TickInv, ExecutorTypeOK
<1>1. CASE ListWorkspaces(t)
  BY <1>0, <1>1 DEF ListWorkspaces
<1>2. CASE FindNothing(t)
  BY <1>0, <1>2 DEF FindNothing
<1>3. CASE AcquireLock(t)
  BY <1>0, <1>3 DEF AcquireLock
<1>4. CASE SetLockExpiry(t)
  BY <1>0, <1>4 DEF SetLockExpiry, ExpireLock
<1>5. CASE StartRun(t)
  BY <1>0, <1>5 DEF StartRun
<1>6. CASE CheckCancel(t)
  BY <1>0, <1>6 DEF CheckCancel
<1>7. CASE CancelEarly(t)
  BY <1>0, <1>7 DEF CancelEarly
<1>8. CASE BeginExecute(t)
  BY <1>0, <1>8 DEF BeginExecute
<1>9. CASE FlushMemory(t)
  BY <1>0, <1>9 DEF FlushMemory
<1>10. CASE StartBridge(t)
  BY <1>0, <1>10 DEF StartBridge
<1>11. CASE SpawnCodex(t)
  BY <1>0, <1>11 DEF SpawnCodex
<1>12. CASE CodexOutput(t)
  BY <1>0, <1>12 DEF CodexOutput, Deliver
<1>13. CASE CodexExit(t)
  BY <1>0, <1>13 DEF CodexExit, Deliver, ExitEvents
<1>14. CASE NoSpawnCwd(t)
  BY <1>0, <1>14 DEF NoSpawnCwd, Deliver
<1>15. CASE NextEvent(t)
  BY <1>0, <1>15 DEF NextEvent
<1>16. CASE DrainStream(t)
  BY <1>0, <1>16 DEF DrainStream
<1>17. CASE RetryFresh(t)
  BY <1>0, <1>17 DEF RetryFresh
<1>18. CASE TakeOutcome(t)
  BY <1>0, <1>18 DEF TakeOutcome
<1>19. CASE PersistOutcome(t)
  BY <1>0, <1>19 DEF PersistOutcome
<1>20. CASE ReportOutcome(t)
  BY <1>0, <1>20 DEF ReportOutcome
<1>21. CASE AttemptThrows(t)
  BY <1>0, <1>21 DEF AttemptThrows
<1>22. CASE CatchFailure(t)
  BY <1>0, <1>22 DEF CatchFailure
<1>23. CASE StopWatching(t)
  BY <1>0, <1>23 DEF StopWatching
<1>24. CASE ClearSignal(t)
  BY <1>0, <1>24 DEF ClearSignal
<1>25. CASE ReleaseLock(t)
  BY <1>0, <1>25 DEF ReleaseLock
<1>26. ASSUME NEW w \in Workspaces, VisitWorkspace(t, w) PROVE TickEffect(t)
  BY <1>0, <1>26 DEF VisitWorkspace
<1>27. CASE PopRun(t)
  <2>1. CASE runQueue[at[t]] = <<>>
    BY <1>0, <1>27, <2>1 DEF PopRun
  <2>2. CASE runQueue[at[t]] # <<>>
    <3>1. at[t] \in Workspaces /\ Dequeue(at[t]) /\ runQueue \in [Workspaces -> Seq(Runs)]
      BY <1>27, <2>2 DEF PopRun, TickInv, TypeOK, RuntimeTypeOK
    <3>2. Head(runQueue[at[t]]) # NoRun
      BY <2>2, <3>1, DequeueContents, RuntimeAssumption
    <3> QED
      BY <1>0, <1>27, <2>2, <3>2 DEF PopRun
  <2> QED
    BY <2>1, <2>2
<1>28. CASE RequeueRun(t)
  BY <1>0, <1>28 DEF RequeueRun
<1>29. CASE ReadLock(t)
  <2>1. CASE lock[WorkspaceOf[job[t]]] = job[t]
    BY <1>0, <1>29, <2>1 DEF ReadLock
  <2>2. CASE ~(lock[WorkspaceOf[job[t]]] = job[t])
    <3>1. Return(t) /\ UNCHANGED <<runtimeVars, bridgeVars>>
      BY <1>29, <2>2 DEF ReadLock
    <3> QED
      BY <1>0, <3>1
  <2> QED
    BY <2>1, <2>2
<1> QED
  BY <1>1, <1>2, <1>3, <1>4, <1>5, <1>6, <1>7, <1>8, <1>9, <1>10, <1>11, <1>12, <1>13, <1>14,
     <1>15, <1>16, <1>17, <1>18, <1>19, <1>20, <1>21, <1>22, <1>23, <1>24, <1>25, <1>26, <1>27, <1>28, <1>29 DEF Tick

(* A rejected call ends the tick, or leaves it with its run and its lock   *)
(* on the way to the finally blocks.                                       *)
LEMMA RejectedEffect ==
  ASSUME TypeOK, TickInv, NEW t \in Ticks, CallRejected(t)
  PROVE  /\ \A u \in Ticks \ {t} :
              /\ pc'[u] = pc[u]
              /\ job'[u] = job[u]
              /\ at'[u] = at[u]
              /\ event'[u] = event[u]
         /\ job'[t] # NoRun <=> pc'[t] \in InHand \cup Locked
         /\ pc'[t] \notin {"dequeue", "check", "persist"}
         /\ job'[t] \in {job[t], NoRun}
         /\ pc'[t] \in Locked => pc[t] \in Locked /\ job'[t] = job[t]
         /\ UNCHANGED runtimeVars
<1> USE DEF Looking, InHand, Locked, Preamble, Attempt, Ending, Releasing
<1>0. /\ job[t] # NoRun <=> pc[t] \in InHand \cup Locked
      /\ pc \in [Ticks -> Looking \cup InHand \cup Locked]
      /\ job \in [Ticks -> Runs \cup {NoRun}]
      /\ at \in [Ticks -> Workspaces \cup {NoWorkspace}]
      /\ event \in [Ticks -> Event]
  BY DEF TypeOK, TickInv, ExecutorTypeOK
<1>1. CASE Return(t)
  BY <1>0, <1>1 DEF CallRejected, Return
<1>2. CASE ~Return(t)
  BY <1>0, <1>2 DEF CallRejected, Catches
<1> QED
  BY <1>1, <1>2

(* Every step is a step of one tick, a rejected call of one tick, a crash  *)
(* of the executor, the RPUSH of a new run, or leaves the ticks and the    *)
(* queues alone.                                                           *)
LEMMA WhoMoves ==
  ASSUME TypeOK, [Next]_vars
  PROVE  \/ \E t \in Ticks : Tick(t) /\ UNCHANGED <<gatewayVars, historyVars>>
         \/ \E t \in Ticks : CallRejected(t) /\ UNCHANGED <<gatewayVars, expired, reaped>>
         \/ Crash /\ UNCHANGED <<gatewayVars, expired, reaped>>
         \/ \E r \in Runs : EnqueueRun(r) /\ UNCHANGED <<executorVars, historyVars>>
         \/ /\ UNCHANGED <<tickVars, runQueue>>
            /\ \A r \in Runs : submit[r] = "queued" => submit'[r] = "queued"
<1> USE DEF runtimeVars, executorVars, gatewayVars, submitVars
<1>0. submit \in [Runs -> {"none", "created", "queued", "lost"}]
  BY DEF TypeOK, GatewayTypeOK
<1>1. CASE ExecutorStep
  BY <1>1 DEF ExecutorStep, WatcherFires, OrphanExits
<1>2. CASE GatewayStep
  BY <1>0, <1>2 DEF GatewayStep, Submission, CreateQueuedRun, Abort, AbortFind, AbortMark, AbortSignal
<1>3. CASE ReaperStep
  BY <1>3 DEF ReaperStep, Sweep, FindExpired, InspectRun, DiscardHeartbeat, FailExpiredRun,
     CancelExpiredRun, ClearExpiredBeat, ReadExpiredLock, ReleaseExpiredLock, EndSweep
<1>4. CASE ClockStep
  BY <1>4 DEF ClockStep, LockExpires, HeartbeatAges, HeartbeatEvicted
<1>5. CASE Mishap
  BY <1>0, <1>5 DEF Mishap, GatewayCrash, EnqueueRejected
<1>6. CASE UNCHANGED vars
  BY <1>6 DEF vars
<1> QED
  BY <1>1, <1>2, <1>3, <1>4, <1>5, <1>6 DEF Next

(* What ticks rely on is kept by every step, of whichever process.         *)
LEMMA TickInvStep ==
  ASSUME TypeOK, TickInv, [Next]_vars
  PROVE  TickInv'
<1>1. ASSUME NEW t \in Ticks, Tick(t) PROVE TickInv'
  BY <1>1, TickSteps DEF TickEffect, TickInv
<1>2. ASSUME NEW t \in Ticks, CallRejected(t) PROVE TickInv'
  BY <1>2, RejectedEffect DEF TickInv
<1>3. CASE Crash
  BY <1>3 DEF Crash, TickInv, InHand, Locked, Preamble, Attempt, Ending, Releasing
<1>4. CASE UNCHANGED tickVars
  BY <1>4 DEF tickVars, TickInv
<1> QED
  BY <1>1, <1>2, <1>3, <1>4, WhoMoves DEF executorVars

(* What sweeps rely on is kept by every step, and a run the reaper failed  *)
(* stays marked so.                                                        *)
LEMMA SweepInvStep ==
  ASSUME TypeOK, SweepInv, [Next]_vars
  PROVE  SweepInv' /\ reaped \subseteq reaped'
<1>1. CASE ReaperStep
  <2>1. PICK k \in Sweeps :
          /\ Sweep(k)
          /\ reaped' = IF sweepStep[k] = "fail" THEN reaped \cup {sweepRun[k]} ELSE reaped
    BY <1>1 DEF ReaperStep
  <2> USE DEF SweepMove
  <2>2. GatewayTypeOK
    BY DEF TypeOK
  <2>3. CASE FindExpired(k) \/ \E r \in Runs : InspectRun(k, r)
    BY <2>1, <2>2, <2>3 DEF FindExpired, InspectRun, SweepInv, GatewayTypeOK
  <2>4. CASE DiscardHeartbeat(k) \/ ReleaseExpiredLock(k) \/ EndSweep(k)
    BY <2>1, <2>2, <2>4 DEF DiscardHeartbeat, ReleaseExpiredLock, EndSweep, SweepInv, GatewayTypeOK
  <2>5. CASE FailExpiredRun(k)
    BY <2>1, <2>2, <2>5 DEF FailExpiredRun, SweepInv, GatewayTypeOK
  <2>6. CASE CancelExpiredRun(k) \/ ClearExpiredBeat(k)
    BY <2>1, <2>2, <2>6 DEF CancelExpiredRun, ClearExpiredBeat, SweepInv, GatewayTypeOK
  <2>7. CASE ReadExpiredLock(k)
    BY <2>1, <2>2, <2>7 DEF ReadExpiredLock, SweepInv, GatewayTypeOK
  <2> QED
    BY <2>1, <2>3, <2>4, <2>5, <2>6, <2>7 DEF Sweep
<1>2. CASE GatewayCrash /\ UNCHANGED reaped
  BY <1>2 DEF GatewayCrash, SweepInv
<1>3. CASE UNCHANGED <<sweepVars, reaped>>
  BY <1>3 DEF sweepVars, SweepInv
<1>4. \/ ReaperStep
      \/ GatewayCrash /\ UNCHANGED reaped
      \/ UNCHANGED <<sweepVars, reaped>>
  <2>1. CASE ExecutorStep \/ ClockStep
    BY <2>1 DEF ExecutorStep, ClockStep, LockExpires, gatewayVars, historyVars
  <2>2. CASE GatewayStep
    BY <2>2 DEF GatewayStep, Submission, CreateQueuedRun, EnqueueRun, Abort, AbortFind, AbortMark,
       AbortSignal, historyVars
  <2>3. CASE Mishap
    BY <2>3 DEF Mishap, EnqueueRejected, gatewayVars
  <2>4. CASE UNCHANGED vars
    BY <2>4 DEF vars, gatewayVars, historyVars
  <2> QED
    BY <2>1, <2>2, <2>3, <2>4 DEF Next
<1> QED
  BY <1>1, <1>2, <1>3, <1>4

---------------------------------------------------------------------------
(* One delivery.                                                           *)

DeliveryInv == QueueInv /\ JobInv

(* Steps that move no run between a queue and a tick. *)
LEMMA DeliveryFrame ==
  ASSUME DeliveryInv, TypeOK,
         runQueue' = runQueue,
         \A t \in Ticks : job'[t] \in {job[t], NoRun},
         \A r \in Runs : submit[r] = "queued" => submit'[r] = "queued"
  PROVE  DeliveryInv'
<1>0. runQueue \in [Workspaces -> Seq(Runs)] /\ job \in [Ticks -> Runs \cup {NoRun}]
  BY DEF TypeOK, RuntimeTypeOK, ExecutorTypeOK
<1>1. ASSUME NEW w \in Workspaces, NEW i \in DOMAIN runQueue[w]
      PROVE  runQueue[w][i] \in Runs
  BY <1>0, <1>1, ElementOfSeq, LenProperties
<1>2. QueueInv'
  <2> SUFFICES ASSUME NEW w \in Workspaces, NEW i \in DOMAIN runQueue[w]
               PROVE  /\ WorkspaceOf[runQueue[w][i]] = w
                      /\ submit'[runQueue[w][i]] = "queued"
                      /\ \A u \in Ticks : job'[u] # runQueue[w][i]
                      /\ \A j \in DOMAIN runQueue[w] :
                           runQueue[w][i] = runQueue[w][j] => i = j
    BY DEF QueueInv
  <2>1. /\ WorkspaceOf[runQueue[w][i]] = w
        /\ submit[runQueue[w][i]] = "queued"
        /\ \A u \in Ticks : job[u] # runQueue[w][i]
        /\ \A j \in DOMAIN runQueue[w] : runQueue[w][i] = runQueue[w][j] => i = j
    BY DEF DeliveryInv, QueueInv
  <2>2. \A u \in Ticks : job'[u] # runQueue[w][i]
    BY <1>1, <2>1, RuntimeAssumption
  <2> QED
    BY <1>1, <2>1, <2>2
<1>3. JobInv'
  BY <1>0 DEF DeliveryInv, JobInv
<1> QED
  BY <1>2, <1>3 DEF DeliveryInv

(* RPUSH of a run that is in no queue and in no tick's hands afterwards.   *)
LEMMA DeliveryByEnqueue ==
  ASSUME QueueInv, TypeOK, NEW r \in Runs, Enqueue(r), ~Waits(r),
         submit'[r] = "queued",
         \A q \in Runs : submit[q] = "queued" => submit'[q] = "queued",
         \A t \in Ticks : job'[t] \in {job[t], NoRun} \ {r}
  PROVE  QueueInv'
<1> DEFINE ws == WorkspaceOf[r]
           n == Len(runQueue[ws])
<1>0. /\ runQueue \in [Workspaces -> Seq(Runs)]
      /\ ws \in Workspaces
      /\ n \in Nat
      /\ DOMAIN runQueue[ws] = 1..n
  BY RuntimeAssumption, LenProperties DEF TypeOK, RuntimeTypeOK
<1>1. /\ \A w \in Workspaces \ {ws} : runQueue'[w] = runQueue[w]
      /\ DOMAIN runQueue'[ws] = 1..n + 1
      /\ runQueue'[ws][n + 1] = r
      /\ \A i \in 1..n : runQueue'[ws][i] = runQueue[ws][i]
  BY <1>0, EnqueueContents
<1>2. ASSUME NEW w \in Workspaces, NEW i \in DOMAIN runQueue[w]
      PROVE  /\ runQueue[w][i] \in Runs \ {r}
             /\ WorkspaceOf[runQueue[w][i]] = w
             /\ submit'[runQueue[w][i]] = "queued"
             /\ \A u \in Ticks : job'[u] # runQueue[w][i]
             /\ \A j \in DOMAIN runQueue[w] : runQueue[w][i] = runQueue[w][j] => i = j
  <2>1. runQueue[w][i] \in Runs
    BY <1>0, ElementOfSeq, LenProperties
  <2>2. /\ WorkspaceOf[runQueue[w][i]] = w
        /\ submit[runQueue[w][i]] = "queued"
        /\ \A u \in Ticks : job[u] # runQueue[w][i]
        /\ \A j \in DOMAIN runQueue[w] : runQueue[w][i] = runQueue[w][j] => i = j
    BY DEF QueueInv
  <2>3. runQueue[w][i] # r
    BY <2>2 DEF Waits
  <2>4. \A u \in Ticks : job'[u] # runQueue[w][i]
    BY <2>1, <2>2, RuntimeAssumption
  <2> QED
    BY <2>1, <2>2, <2>3, <2>4
<1>3. \A u \in Ticks : job'[u] # r
  OBVIOUS
<1> HIDE DEF ws, n
<1>4. ASSUME NEW w \in Workspaces, NEW i \in DOMAIN runQueue'[w]
      PROVE  /\ WorkspaceOf[runQueue'[w][i]] = w
             /\ submit'[runQueue'[w][i]] = "queued"
             /\ \A u \in Ticks : job'[u] # runQueue'[w][i]
             /\ \A j \in DOMAIN runQueue'[w] : runQueue'[w][i] = runQueue'[w][j] => i = j
  <2>1. CASE w # ws
    BY <1>1, <1>2, <2>1
  <2>2. CASE w = ws /\ i = n + 1
    <3>1. runQueue'[w][i] = r
      BY <1>1, <2>2
    <3>2. \A j \in 1..n : runQueue'[w][j] # r
      BY <1>0, <1>1, <1>2, <2>2
    <3>3. \A j \in DOMAIN runQueue'[w] : j \in 1..n \/ j = i
      BY <1>0, <1>1, <2>2
    <3> QED
      BY <1>3, <2>2, <3>1, <3>2, <3>3 DEF ws
  <2>3. CASE w = ws /\ i \in 1..n
    <3>1. \A j \in 1..n + 1 : runQueue'[w][i] = runQueue'[w][j] => i = j
      BY <1>0, <1>1, <1>2, <2>3
    <3> QED
      BY <1>0, <1>1, <1>2, <2>3, <3>1
  <2> QED
    BY <1>0, <1>1, <2>1, <2>2, <2>3
<1> QED
  BY <1>4 DEF QueueInv

(* LPOP by a tick moves a run from its queue into the hands of that tick.  *)
LEMMA DeliveryByPop ==
  ASSUME DeliveryInv, TypeOK, TickInv, NEW t \in Ticks, PopRun(t), UNCHANGED submit,
         \A u \in Ticks \ {t} : job'[u] = job[u]
  PROVE  DeliveryInv'
<1> DEFINE w == at[t]
           r == Head(runQueue[w])
<1>0. /\ runQueue \in [Workspaces -> Seq(Runs)]
      /\ job \in [Ticks -> Runs \cup {NoRun}]
      /\ w \in Workspaces
  BY DEF TypeOK, RuntimeTypeOK, ExecutorTypeOK, PopRun, TickInv
<1>1. CASE runQueue[w] = <<>>
  BY <1>0, <1>1, DeliveryFrame DEF PopRun
<1>2. CASE runQueue[w] # <<>>
  <2>1. /\ Dequeue(w)
        /\ job'[t] = r
    BY <1>0, <1>2 DEF PopRun
  <2>2. /\ \A v \in Workspaces \ {w} : runQueue'[v] = runQueue[v]
        /\ r \in Runs
        /\ r = runQueue[w][1]
        /\ 1 \in DOMAIN runQueue[w]
        /\ \A i \in DOMAIN runQueue'[w] :
             /\ i \in Nat \ {0}
             /\ i + 1 \in DOMAIN runQueue[w]
             /\ runQueue'[w][i] = runQueue[w][i + 1]
    BY <1>0, <1>2, <2>1, DequeueContents
  <2> HIDE DEF r, w
  <2>3. /\ submit[r] = "queued"
        /\ \A u \in Ticks : job[u] # r
        /\ WorkspaceOf[r] = w
    BY <1>0, <2>2 DEF DeliveryInv, QueueInv
  <2>4. JobInv'
    BY <1>0, <2>1, <2>2, <2>3 DEF DeliveryInv, JobInv
  <2>5. QueueInv'
    <3> SUFFICES ASSUME NEW v \in Workspaces, NEW i \in DOMAIN runQueue'[v]
                 PROVE  /\ WorkspaceOf[runQueue'[v][i]] = v
                        /\ submit[runQueue'[v][i]] = "queued"
                        /\ \A u \in Ticks : job'[u] # runQueue'[v][i]
                        /\ \A j \in DOMAIN runQueue'[v] :
                             runQueue'[v][i] = runQueue'[v][j] => i = j
      BY DEF QueueInv
    <3>1. PICK k \in DOMAIN runQueue[v] :
            /\ runQueue'[v][i] = runQueue[v][k]
            /\ v = w => k # 1 /\ k = i + 1 /\ i \in Nat
            /\ v # w => k = i
      BY <2>2
    <3>2. /\ WorkspaceOf[runQueue[v][k]] = v
          /\ submit[runQueue[v][k]] = "queued"
          /\ \A u \in Ticks : job[u] # runQueue[v][k]
          /\ \A j \in DOMAIN runQueue[v] : runQueue[v][k] = runQueue[v][j] => k = j
      BY DEF DeliveryInv, QueueInv
    <3>3. runQueue[v][k] # r
      BY <2>2, <2>3, <3>1, <3>2
    <3>4. \A u \in Ticks : job'[u] # runQueue[v][k]
      BY <2>1, <3>2, <3>3
    <3>5. ASSUME NEW j \in DOMAIN runQueue'[v], runQueue'[v][i] = runQueue'[v][j] PROVE i = j
      <4>1. CASE v = w
        BY <2>2, <3>1, <3>2, <3>5, <4>1
      <4>2. CASE v # w
        BY <2>2, <3>1, <3>2, <3>5, <4>2
      <4> QED
        BY <4>1, <4>2
    <3> QED
      BY <3>1, <3>2, <3>4, <3>5
  <2> QED
    BY <2>4, <2>5 DEF DeliveryInv
<1> QED
  BY <1>1, <1>2

(* Every step keeps each run in one place at most.                         *)
LEMMA DeliveryStep ==
  ASSUME DeliveryInv, TypeOK, TickInv, [Next]_vars
  PROVE  DeliveryInv'
<1>0. /\ job \in [Ticks -> Runs \cup {NoRun}]
      /\ submit \in [Runs -> {"none", "created", "queued", "lost"}]
  BY DEF TypeOK, ExecutorTypeOK, GatewayTypeOK
<1>1. ASSUME NEW t \in Ticks, Tick(t), UNCHANGED gatewayVars PROVE DeliveryInv'
  <2>1. TickEffect(t) /\ UNCHANGED submit
    BY <1>1, TickSteps DEF gatewayVars, submitVars
  <2>2. CASE PopRun(t)
    BY <2>1, <2>2, DeliveryByPop DEF TickEffect
  <2>3. CASE RequeueRun(t)
    <3>1. Enqueue(job[t]) /\ job' = [job EXCEPT ![t] = NoRun]
      BY <2>3 DEF RequeueRun
    <3>2. /\ job[t] \in Runs
          /\ submit[job[t]] = "queued"
          /\ \A u \in Ticks : job[t] = job[u] => t = u
      <4>1. job[t] # NoRun
        BY <2>3 DEF RequeueRun, Move, TickInv, InHand
      <4> QED
        BY <1>0, <4>1 DEF DeliveryInv, JobInv
    <3>3. ~Waits(job[t])
      <4>1. WorkspaceOf[job[t]] \in Workspaces
        BY <3>2, RuntimeAssumption
      <4>2. \A i \in DOMAIN runQueue[WorkspaceOf[job[t]]] :
              runQueue[WorkspaceOf[job[t]]][i] # job[t]
        BY <4>1 DEF DeliveryInv, QueueInv
      <4> QED
        BY <4>2 DEF Waits
    <3>4. \A u \in Ticks : job'[u] \in {job[u], NoRun} \ {job[t]}
      BY <1>0, <3>1, <3>2, RuntimeAssumption
    <3>5. QueueInv'
      BY <2>1, <3>1, <3>2, <3>3, <3>4, DeliveryByEnqueue DEF DeliveryInv
    <3>6. JobInv'
      BY <1>0, <2>1, <3>1 DEF DeliveryInv, JobInv
    <3> QED
      BY <3>5, <3>6 DEF DeliveryInv
  <2>4. CASE runQueue' = runQueue /\ job'[t] \in {job[t], NoRun}
    BY <2>1, <2>4, DeliveryFrame DEF TickEffect
  <2> QED
    BY <2>1, <2>2, <2>3, <2>4 DEF TickEffect
<1>2. ASSUME NEW t \in Ticks, CallRejected(t), UNCHANGED gatewayVars PROVE DeliveryInv'
  BY <1>2, RejectedEffect, DeliveryFrame DEF runtimeVars, gatewayVars, submitVars
<1>3. CASE Crash /\ UNCHANGED gatewayVars
  BY <1>3, DeliveryFrame DEF Crash, runtimeVars, gatewayVars, submitVars
<1>4. ASSUME NEW r \in Runs, EnqueueRun(r), UNCHANGED executorVars PROVE DeliveryInv'
  <2>1. /\ Enqueue(r)
        /\ submit[r] = "created"
        /\ submit' = [submit EXCEPT ![r] = "queued"]
        /\ UNCHANGED job
    BY <1>4 DEF EnqueueRun, executorVars, tickVars
  <2>2. ~Waits(r)
    BY <2>1, RuntimeAssumption DEF Waits, DeliveryInv, QueueInv
  <2>3. \A t \in Ticks : job'[t] \in {job[t], NoRun} \ {r}
    BY <1>0, <2>1, RuntimeAssumption DEF DeliveryInv, JobInv
  <2>4. /\ submit'[r] = "queued"
        /\ \A q \in Runs : submit[q] = "queued" => submit'[q] = "queued"
    BY <1>0, <2>1
  <2>5. QueueInv'
    BY <2>1, <2>2, <2>3, <2>4, DeliveryByEnqueue DEF DeliveryInv
  <2>6. JobInv'
    BY <1>0, <2>1, <2>4 DEF DeliveryInv, JobInv
  <2> QED
    BY <2>5, <2>6 DEF DeliveryInv
<1>5. ASSUME UNCHANGED <<tickVars, runQueue>>,
             \A r \in Runs : submit[r] = "queued" => submit'[r] = "queued"
      PROVE  DeliveryInv'
  BY <1>5, DeliveryFrame DEF tickVars
<1> QED
  BY <1>1, <1>2, <1>3, <1>4, <1>5, WhoMoves

---------------------------------------------------------------------------
(* One tick per workspace.                                                 *)

(* A step that writes no lock and lets no tick in keeps LockInv.           *)
LEMMA LockFrame ==
  ASSUME LockInv,
         lock' = lock, expired \subseteq expired', reaped \subseteq reaped',
         \A t \in Ticks : pc'[t] \in Locked => pc[t] \in Locked /\ job'[t] = job[t]
  PROVE  LockInv'
  BY DEF LockInv, Disturbed

(* The lock of a workspace goes only from a tick that was not disturbed    *)
(* and is done, or with its workspace disturbed.                           *)
LEMMA DisturbedSteps ==
  ASSUME IInv, [Next]_vars
  PROVE  reaped \subseteq reaped' /\ expired \subseteq expired'
<1>1. reaped \subseteq reaped'
  BY SweepInvStep DEF IInv
<1>2. expired \subseteq expired'
  BY DEF Next, ExecutorStep, GatewayStep, ReaperStep, ClockStep, LockExpires, Mishap, vars,
     historyVars
<1> QED
  BY <1>1, <1>2

(* Every step keeps the lock of an undisturbed workspace with the tick that  *)
(* works under it; the GET/DEL pairs of release are the case that matters.  *)
LEMMA LockInvStep ==
  ASSUME IInv, [Next]_vars
  PROVE  LockInv'
<1>0. /\ reaped \subseteq reaped'
      /\ expired \subseteq expired'
      /\ lock \in [Workspaces -> Runs \cup {NoRun}]
      /\ job \in [Ticks -> Runs \cup {NoRun}]
      /\ pc \in [Ticks -> Looking \cup InHand \cup Locked]
      /\ sweepRun \in [Sweeps -> Runs \cup {NoRun}]
  BY DisturbedSteps DEF IInv, TypeOK, RuntimeTypeOK, ExecutorTypeOK, GatewayTypeOK
<1>a. \A t \in Ticks : pc[t] \in Locked => job[t] \in Runs
  BY <1>0 DEF IInv, TickInv
<1>b. \A w \in Workspaces : Disturbed(w) => Disturbed(w)'
  BY <1>0 DEF Disturbed
<1>1. ASSUME NEW t \in Ticks, Tick(t) PROVE LockInv'
  <2>1. TickEffect(t)
    BY <1>1, TickSteps DEF IInv
  <2>2. CASE AcquireLock(t)
    <3>1. CASE lock[WorkspaceOf[job[t]]] = NoRun
      <4>1. lock' = [lock EXCEPT ![WorkspaceOf[job[t]]] = job[t]] /\ UNCHANGED job
        BY <2>2, <3>1 DEF AcquireLock, SetLock
      <4>2. job[t] \in Runs
        BY <1>0, <2>2 DEF AcquireLock, IInv, TickInv, InHand
      <4>3. \A u \in Ticks \ {t} : pc[u] \in Locked =>
              WorkspaceOf[job[u]] # WorkspaceOf[job[t]] \/ Disturbed(WorkspaceOf[job[u]])
        BY <1>a, <3>1, RuntimeAssumption DEF IInv, LockInv
      <4> QED
        BY <1>0, <1>a, <1>b, <2>1, <4>1, <4>2, <4>3, RuntimeAssumption
        DEF IInv, LockInv, TickEffect
    <3>2. CASE lock[WorkspaceOf[job[t]]] # NoRun
      <4>1. lock' = lock /\ pc'[t] = "requeue"
        BY <1>0, <2>2, <3>2 DEF AcquireLock, lockVars
      <4> QED
        BY <1>0, <2>1, <4>1, LockFrame
        DEF IInv, TickEffect, Locked, Preamble, Attempt, Ending, Releasing
    <3> QED
      BY <3>1, <3>2
  <2>3. CASE ReleaseLock(t)
    <3>1. /\ lock' = [lock EXCEPT ![WorkspaceOf[job[t]]] = NoRun]
          /\ pc[t] \in Locked
          /\ pc'[t] = "idle"
      BY <1>0, <2>3 DEF ReleaseLock, DeleteLock, Return, Locked, Releasing
    <3>2. "idle" \notin Locked
      BY DEF Locked, Preamble, Attempt, Ending, Releasing
    <3>3. ASSUME NEW u \in Ticks \ {t}, pc[u] \in Locked, ~Disturbed(WorkspaceOf[job[u]])
          PROVE  WorkspaceOf[job[u]] # WorkspaceOf[job[t]]
      <4>1. job[u] # job[t]
        BY <1>a, <3>3, RuntimeAssumption DEF IInv, JobInv
      <4>2. lock[WorkspaceOf[job[u]]] = job[u]
        BY <3>3 DEF IInv, LockInv
      <4>3. lock[WorkspaceOf[job[t]]] = job[t] \/ Disturbed(WorkspaceOf[job[t]])
        BY <3>1 DEF IInv, LockInv
      <4> QED
        BY <3>3, <4>1, <4>2, <4>3
    <3> QED
      BY <1>0, <1>a, <1>b, <2>1, <3>1, <3>2, <3>3, RuntimeAssumption
      DEF IInv, LockInv, TickEffect
  <2>4. CASE lock' = lock /\ (pc'[t] \in Locked => pc[t] \in Locked /\ job'[t] = job[t])
    BY <1>0, <2>1, <2>4, LockFrame DEF IInv, TickEffect
  <2> QED
    BY <2>1, <2>2, <2>3, <2>4 DEF TickEffect
<1>2. ASSUME NEW t \in Ticks, CallRejected(t) PROVE LockInv'
  BY <1>0, <1>2, RejectedEffect, LockFrame DEF IInv, runtimeVars, lockVars
<1>3. CASE Crash
  BY <1>3 DEF Crash, LockInv, Locked, Preamble, Attempt, Ending, Releasing
<1>4. CASE ReaperStep
  <2>1. PICK k \in Sweeps : Sweep(k)
    BY <1>4 DEF ReaperStep
  <2>2. UNCHANGED <<pc, job>>
    BY <1>4 DEF ReaperStep, executorVars, tickVars
  <2>3. CASE ReleaseExpiredLock(k)
    <3>1. /\ lock' = [lock EXCEPT ![WorkspaceOf[sweepRun[k]]] = NoRun]
          /\ sweepRun[k] \in reaped
      BY <2>3 DEF ReleaseExpiredLock, SweepMove, DeleteLock, IInv, SweepInv
    <3>2. Disturbed(WorkspaceOf[sweepRun[k]])
      BY <3>1 DEF Disturbed
    <3> QED
      BY <1>0, <1>a, <1>b, <2>2, <3>1, <3>2, RuntimeAssumption DEF IInv, LockInv
  <2>4. CASE lock' = lock
    BY <1>0, <2>2, <2>4, LockFrame DEF IInv
  <2> QED
    BY <2>1, <2>3, <2>4 DEF Sweep, FindExpired, InspectRun, DiscardHeartbeat, FailExpiredRun,
       CancelExpiredRun, ClearExpiredBeat, ReadExpiredLock, EndSweep, runtimeVars, lockVars
<1>5. ASSUME NEW w \in Workspaces, LockExpires(w) PROVE LockInv'
  <2>1. /\ lock' = [lock EXCEPT ![w] = NoRun]
        /\ lock[w] # NoRun
        /\ UNCHANGED <<pc, job>>
        /\ (\E t \in Ticks : Holds(t, lock[w])) => lock[w] \in expired'
    BY <1>5 DEF LockExpires, DeleteLock, executorVars, tickVars
  <2>2. ASSUME NEW t \in Ticks, pc[t] \in Locked, WorkspaceOf[job[t]] = w
        PROVE  Disturbed(w)'
    <3>1. CASE lock[w] = job[t]
      BY <2>1, <2>2, <3>1 DEF Holds, Disturbed
    <3>2. CASE lock[w] # job[t]
      BY <1>b, <2>2, <3>2 DEF IInv, LockInv
    <3> QED
      BY <3>1, <3>2
  <2> QED
    BY <1>0, <1>a, <1>b, <2>1, <2>2, RuntimeAssumption DEF IInv, LockInv
<1>6. CASE UNCHANGED <<lock, pc, job>>
  BY <1>0, <1>6, LockFrame DEF IInv
<1>7. \/ \E t \in Ticks : Tick(t) \/ CallRejected(t)
      \/ Crash
      \/ ReaperStep
      \/ \E w \in Workspaces : LockExpires(w)
      \/ UNCHANGED <<lock, pc, job>>
  <2> USE DEF runtimeVars, lockVars, executorVars, tickVars
  <2>1. CASE ExecutorStep
    BY <2>1 DEF ExecutorStep, WatcherFires, OrphanExits
  <2>2. CASE GatewayStep
    BY <2>2 DEF GatewayStep, Submission, CreateQueuedRun, EnqueueRun, Abort, AbortFind, AbortMark,
       AbortSignal
  <2>3. CASE ClockStep
    BY <2>3 DEF ClockStep, HeartbeatAges, HeartbeatEvicted
  <2>4. CASE Mishap
    BY <2>4 DEF Mishap, GatewayCrash, EnqueueRejected
  <2>5. CASE UNCHANGED vars
    BY <2>5 DEF vars
  <2> QED
    BY <2>1, <2>2, <2>3, <2>4, <2>5 DEF Next
<1> QED
  BY <1>1, <1>2, <1>3, <1>4, <1>5, <1>6, <1>7

---------------------------------------------------------------------------
(* The theorems.                                                           *)

(* The inductive invariant holds at the start.                             *)
LEMMA InitInv == Init => IInv
<1> SUFFICES ASSUME Init PROVE IInv
  OBVIOUS
<1>1. TypeOK
  BY InitTyped
<1>2. TickInv /\ JobInv /\ LockInv
  BY DEF Init, ExecutorInit, TickInv, JobInv, LockInv, InHand, Locked, Preamble, Attempt, Ending,
     Releasing
<1>3. SweepInv
  BY DEF Init, GatewayInit, SweepInv
<1>4. QueueInv
  BY DEF Init, RuntimeInit, QueueInv
<1> QED
  BY <1>1, <1>2, <1>3, <1>4 DEF IInv

(* The inductive invariant is kept by every step of either process.        *)
LEMMA StepInv == IInv /\ [Next]_vars => IInv'
  BY TypeStep, TickInvStep, SweepInvStep, DeliveryStep, LockInvStep DEF IInv, DeliveryInv

(* The inductive invariant holds always: what every interleaving of ticks,  *)
(* handlers, sweeps, expiries and crashes leaves true of Redis and Postgres.  *)
THEOREM Invariance == Spec => []IInv
  BY InitInv, StepInv, PTL DEF Spec

(* Every variable keeps its type: the statuses written to a row, the ids   *)
(* stored in a lock or a queue, the steps a handler can be at.             *)
THEOREM TypeCorrect == Spec => []TypeOK
<1>1. IInv => TypeOK
  BY DEF IInv
<1> QED
  BY <1>1, Invariance, PTL

(* However many ticks poll however many queues, whatever crashes or is     *)
(* rejected, a run is in one queue once or in the hands of one tick.       *)
THEOREM DeliveredOnce == Spec => []OneDelivery
<1>1. IInv => OneDelivery
  <2> SUFFICES ASSUME IInv PROVE OneDelivery
    OBVIOUS
  <2>1. \A r \in Runs : Waits(r) => ~InTick(r)
    BY RuntimeAssumption DEF Waits, InTick, IInv, QueueInv
  <2>2. \A w \in Workspaces : \A i, j \in DOMAIN runQueue[w] :
          runQueue[w][i] = runQueue[w][j] => i = j
    BY DEF IInv, QueueInv
  <2>3. \A t, u \in Ticks : job[t] = job[u] /\ job[t] # NoRun => t = u
    BY DEF IInv, JobInv
  <2> QED
    BY <2>1, <2>2, <2>3 DEF OneDelivery
<1> QED
  BY <1>1, Invariance, PTL

(* Two ticks are at work in one workspace only if a run of that workspace  *)
(* lost its lock to the TTL or its status to the reaper before: no         *)
(* interleaving of polls, requeues, releases, crashes and rejected calls   *)
(* alone brings it about.                                                  *)
THEOREM WorkspaceExclusion == Spec => []OneTickPerWorkspace
<1>1. IInv => OneTickPerWorkspace
  <2> SUFFICES ASSUME IInv, NEW t \in Ticks, NEW u \in Ticks, t # u,
                      pc[t] \in Locked, pc[u] \in Locked,
                      WorkspaceOf[job[t]] = WorkspaceOf[job[u]],
                      ~Disturbed(WorkspaceOf[job[t]])
               PROVE  FALSE
    BY DEF OneTickPerWorkspace
  <2>1. job[t] # NoRun
    BY DEF IInv, TickInv
  <2>2. lock[WorkspaceOf[job[t]]] = job[t] /\ lock[WorkspaceOf[job[u]]] = job[u]
    BY DEF IInv, LockInv
  <2> QED
    BY <2>1, <2>2 DEF IInv, JobInv
<1> QED
  BY <1>1, Invariance, PTL

---------------------------------------------------------------------------
(***************************************************************************)
(* RunExecution implements RunLifecycle: whatever the gateway and the      *)
(* executor do to the row of a run is one step of its lifecycle.  No       *)
(* UPDATE has a WHERE clause on the status, so this rests on where a run   *)
(* is (in a queue, in the hands of a tick, in those of a sweep) and not on *)
(* what the statement that writes the row checks.                          *)
(***************************************************************************)

contested == reaped \cup botched

Ended(r)   == status[r] \in Terminal
Claimed(r) == status[r] = "running" \/ (Ended(r) /\ r \in contested)

(* The steps at which a tick is sure of the status of its run: not yet     *)
(* written, written "running", written with the outcome.                   *)
BeforeStart == InHand \cup {"expire", "start"}
AtWork == {"checkCancel", "cancelEarly", "renew"} \cup Attempt \cup {"persist", "catch"}

TickStatus(t) ==
  /\ pc[t] \in BeforeStart => status[job[t]] = "queued"
  /\ pc[t] \in AtWork => Claimed(job[t])
  /\ pc[t] = "report" => Ended(job[t])

(* The status of a run, by the place it is at.                             *)
SubmitStatus ==
  \A r \in Runs :
    /\ submit[r] = "none" => status[r] = "none"
    /\ submit[r] = "created" => status[r] = "queued"

QueueStatus ==
  \A w \in Workspaces : \A i \in DOMAIN runQueue[w] : status[runQueue[w][i]] = "queued"

SweepStatus ==
  \A k \in Sweeps :
    sweepStep[k] = "fail" => status[sweepRun[k]] = "running" \/ Ended(sweepRun[k])

StatusInv ==
  /\ SubmitStatus
  /\ QueueStatus
  /\ SweepStatus
  /\ \A t \in Ticks : TickStatus(t)

LInv == IInv /\ StatusInv

---------------------------------------------------------------------------
(* What a step of one tick does to the status of its run.                  *)

Outcomes(r, s) == /\ r \in Runs
                  /\ s \in Terminal
                  /\ Claimed(r)
                  /\ status' = [status EXCEPT ![r] = s]

Starts(r) == /\ r \in Runs
             /\ status[r] = "queued"
             /\ status' = [status EXCEPT ![r] = "running"]

(* A tick writes "running" over "queued" or an outcome over a run it has   *)
(* claimed, and is then where the new status is expected.                  *)
LEMMA TickWrites ==
  ASSUME TypeOK, TickInv, QueueStatus, NEW t \in Ticks, TickStatus(t), Tick(t),
         UNCHANGED <<reaped, botched>>
  PROVE  /\ TickStatus(t)'
         /\ \/ UNCHANGED status
            \/ Starts(job[t]) /\ pc[t] \in Locked
            \/ \E s \in Terminal : Outcomes(job[t], s) /\ pc[t] \in Locked
<1> USE DEF runtimeVars, storeVars, lockVars, signalVars, bridgeVars, Move, Return, TickStatus,
        Looking, InHand, Locked, Preamble, Attempt, Ending, Releasing, BeforeStart, AtWork,
        Claimed, Ended, contested
<1>0. /\ pc[t] \in InHand \cup Locked => job[t] \in Runs
      /\ pc \in [Ticks -> Looking \cup InHand \cup Locked]
      /\ job \in [Ticks -> Runs \cup {NoRun}]
      /\ status \in [Runs -> RunStatus]
      /\ pc[t] = "persist" => event[t] \in Outcome
  BY DEF TypeOK, TickInv, ExecutorTypeOK, RuntimeTypeOK
<1>1. CASE ListWorkspaces(t)
  BY <1>0, <1>1 DEF ListWorkspaces
<1>2. CASE FindNothing(t)
  BY <1>0, <1>2 DEF FindNothing
<1>3. CASE AcquireLock(t)
  BY <1>0, <1>3 DEF AcquireLock
<1>4. CASE SetLockExpiry(t)
  BY <1>0, <1>4 DEF SetLockExpiry
<1>5. CASE StartRun(t)
  BY <1>0, <1>5 DEF StartRun, MarkRun, Starts
<1>6. CASE CheckCancel(t)
  BY <1>0, <1>6 DEF CheckCancel
<1>7. CASE CancelEarly(t)
  BY <1>0, <1>7 DEF CancelEarly, MarkRun, Outcomes, Terminal
<1>8. CASE BeginExecute(t)
  BY <1>0, <1>8 DEF BeginExecute
<1>9. CASE FlushMemory(t)
  BY <1>0, <1>9 DEF FlushMemory
<1>10. CASE StartBridge(t)
  BY <1>0, <1>10 DEF StartBridge
<1>11. CASE SpawnCodex(t)
  BY <1>0, <1>11 DEF SpawnCodex
<1>12. CASE CodexOutput(t)
  BY <1>0, <1>12 DEF CodexOutput, Deliver
<1>13. CASE CodexExit(t)
  BY <1>0, <1>13 DEF CodexExit, Deliver
<1>14. CASE NoSpawnCwd(t)
  BY <1>0, <1>14 DEF NoSpawnCwd, Deliver
<1>15. CASE NextEvent(t)
  BY <1>0, <1>15 DEF NextEvent
<1>16. CASE DrainStream(t)
  BY <1>0, <1>16 DEF DrainStream
<1>17. CASE RetryFresh(t)
  BY <1>0, <1>17 DEF RetryFresh
<1>18. CASE TakeOutcome(t)
  BY <1>0, <1>18 DEF TakeOutcome
<1>19. CASE PersistOutcome(t)
  BY <1>0, <1>19 DEF PersistOutcome, MarkRun, Outcomes, Outcome, Terminal
<1>20. CASE ReportOutcome(t)
  BY <1>0, <1>20 DEF ReportOutcome
<1>21. CASE AttemptThrows(t)
  BY <1>0, <1>21 DEF AttemptThrows
<1>22. CASE CatchFailure(t)
  BY <1>0, <1>22 DEF CatchFailure, MarkRun, Outcomes, Terminal
<1>23. CASE StopWatching(t)
  BY <1>0, <1>23 DEF StopWatching
<1>24. CASE ClearSignal(t)
  BY <1>0, <1>24 DEF ClearSignal
<1>25. CASE ReleaseLock(t)
  BY <1>0, <1>25 DEF ReleaseLock
<1>26. ASSUME NEW w \in Workspaces, VisitWorkspace(t, w)
       PROVE  TickStatus(t)' /\ UNCHANGED status
  BY <1>0, <1>26 DEF VisitWorkspace
<1>27. CASE PopRun(t)
  <2>1. CASE runQueue[at[t]] = <<>>
    BY <1>0, <1>27, <2>1 DEF PopRun
  <2>2. CASE runQueue[at[t]] # <<>>
    <3>1. at[t] \in Workspaces /\ Dequeue(at[t]) /\ runQueue \in [Workspaces -> Seq(Runs)]
      BY <1>27, <2>2 DEF PopRun, TickInv, TypeOK, RuntimeTypeOK
    <3>2. status[Head(runQueue[at[t]])] = "queued"
      BY <2>2, <3>1, DequeueContents DEF QueueStatus
    <3>3. pc'[t] = "acquire" /\ job'[t] = Head(runQueue[at[t]]) /\ status' = status
      BY <1>0, <1>27, <2>2 DEF PopRun
    <3> QED
      BY <3>2, <3>3
  <2> QED
    BY <2>1, <2>2
<1>28. CASE RequeueRun(t)
  BY <1>0, <1>28 DEF RequeueRun
<1>29. CASE ReadLock(t)
  BY <1>0, <1>29 DEF ReadLock
<1> QED
  BY <1>1, <1>2, <1>3, <1>4, <1>5, <1>6, <1>7, <1>8, <1>9, <1>10, <1>11, <1>12, <1>13, <1>14,
     <1>15, <1>16, <1>17, <1>18, <1>19, <1>20, <1>21, <1>22, <1>23, <1>24, <1>25, <1>26,
     <1>27, <1>28, <1>29 DEF Tick

(* A rejected call leaves the row as it is; if it was the report of an     *)
(* outcome, the run is contested and the catch block goes on to fail it.   *)
LEMMA RejectedStatus ==
  ASSUME TypeOK, TickInv, NEW t \in Ticks, TickStatus(t), CallRejected(t),
         UNCHANGED reaped,
         botched' = IF pc[t] = "report" THEN botched \cup {job[t]} ELSE botched
  PROVE  TickStatus(t)' /\ UNCHANGED status
<1> USE DEF runtimeVars, storeVars, Return, TickStatus, Looking, InHand, Locked, Preamble,
        Attempt, Ending, Releasing, BeforeStart, AtWork, Claimed, Ended, contested
<1>0. /\ pc[t] \in InHand \cup Locked => job[t] \in Runs
      /\ pc \in [Ticks -> Looking \cup InHand \cup Locked]
      /\ job \in [Ticks -> Runs \cup {NoRun}]
  BY DEF TypeOK, TickInv, ExecutorTypeOK
<1>1. status' = status
  BY DEF CallRejected
<1>2. CASE Return(t)
  BY <1>0, <1>1, <1>2
<1>3. CASE pc[t] = "report" /\ pc'[t] = "catch" /\ job' = job
  BY <1>0, <1>1, <1>3
<1>4. CASE pc[t] \in Catches \ {"report"} /\ pc'[t] = "catch" /\ job' = job
  BY <1>0, <1>1, <1>4 DEF Catches
<1>5. CASE pc'[t] \in {"clearBeat", "releaseGet"}
  BY <1>1, <1>5
<1> QED
  BY <1>0, <1>2, <1>3, <1>4, <1>5 DEF CallRejected

(* A tick that is not the one that moves keeps what it knows of its run.   *)
LEMMA OtherTicks ==
  ASSUME TypeOK, TickInv, NEW u \in Ticks, TickStatus(u),
         pc'[u] = pc[u], job'[u] = job[u],
         contested \subseteq contested',
         job[u] \in Runs => \/ status'[job[u]] = status[job[u]]
                            \/ /\ status'[job[u]] \in Terminal
                               /\ Ended(job[u]) \/ status[job[u]] = "running"
                               /\ job[u] \in contested'
  PROVE  TickStatus(u)'
<1>1. pc[u] \in BeforeStart \cup AtWork \cup {"report"} => job[u] \in Runs
  BY DEF TypeOK, TickInv, ExecutorTypeOK, Locked, Preamble, Attempt, Ending, BeforeStart, AtWork
<1>2. CASE pc[u] \in BeforeStart
  BY <1>1, <1>2 DEF TickStatus, Ended, Terminal, InHand, BeforeStart, AtWork, Attempt
<1>3. CASE pc[u] \in AtWork
  BY <1>1, <1>3 DEF TickStatus, Claimed, Ended, InHand, BeforeStart, AtWork, Attempt, contested
<1>4. CASE pc[u] = "report"
  BY <1>1, <1>4 DEF TickStatus, Ended, InHand, BeforeStart, AtWork, Attempt
<1>5. CASE pc[u] \notin BeforeStart \cup AtWork \cup {"report"}
  BY <1>5 DEF TickStatus
<1> QED
  BY <1>2, <1>3, <1>4, <1>5

(* A step of a tick writes the row of its own run only, which is in no     *)
(* queue, in no other tick's hands, and past its submission.               *)
LEMMA TickKeeps ==
  ASSUME LInv, NEW t \in Ticks, Tick(t), UNCHANGED <<gatewayVars, historyVars>>
  PROVE  StatusInv'
<1>0. /\ TypeOK /\ TickInv /\ QueueInv /\ JobInv
      /\ SubmitStatus /\ QueueStatus /\ SweepStatus
      /\ \A u \in Ticks : TickStatus(u)
      /\ UNCHANGED <<submit, sweepStep, sweepRun, reaped, botched>>
      /\ contested' = contested
      /\ status \in [Runs -> RunStatus]
      /\ runQueue \in [Workspaces -> Seq(Runs)]
      /\ job \in [Ticks -> Runs \cup {NoRun}]
  BY DEF LInv, IInv, StatusInv, gatewayVars, submitVars, sweepVars, historyVars, contested,
         TypeOK, RuntimeTypeOK, ExecutorTypeOK
<1>1. /\ TickStatus(t)'
      /\ \/ UNCHANGED status
         \/ Starts(job[t]) /\ pc[t] \in Locked
         \/ \E s \in Terminal : Outcomes(job[t], s) /\ pc[t] \in Locked
  BY <1>0, TickWrites
<1>2. TickEffect(t)
  BY <1>0, TickSteps
<1>3. /\ \A r \in Runs : r # job[t] => status'[r] = status[r]
      /\ status' # status => job[t] \in Runs
      /\ status' = status \/ status'[job[t]] = "running" \/ status'[job[t]] \in Terminal
  BY <1>0, <1>1 DEF Starts, Outcomes
<1>4. SubmitStatus'
  <2>1. \A r \in Runs : submit[r] # "queued" => status'[r] = status[r]
    BY <1>0, <1>3, RuntimeAssumption DEF JobInv
  <2> QED
    BY <1>0, <2>1 DEF SubmitStatus
<1>5. QueueStatus'
  <2>1. CASE PopRun(t) /\ runQueue[at[t]] # <<>>
    <3>1. at[t] \in Workspaces /\ Dequeue(at[t]) /\ status' = status
      BY <1>0, <2>1 DEF PopRun, TickInv, storeVars
    <3>2. \A v \in Workspaces \ {at[t]} : runQueue'[v] = runQueue[v]
      BY <1>0, <2>1, <3>1, DequeueContents
    <3>3. \A i \in DOMAIN runQueue'[at[t]] :
            i + 1 \in DOMAIN runQueue[at[t]] /\ runQueue'[at[t]][i] = runQueue[at[t]][i + 1]
      BY <1>0, <2>1, <3>1, DequeueContents
    <3>4. ASSUME NEW v \in Workspaces, v # at[t], NEW i \in DOMAIN runQueue'[v]
          PROVE  status'[runQueue'[v][i]] = "queued"
      BY <1>0, <3>1, <3>2, <3>4 DEF QueueStatus
    <3>5. ASSUME NEW i \in DOMAIN runQueue'[at[t]]
          PROVE  status'[runQueue'[at[t]][i]] = "queued"
      BY <1>0, <3>1, <3>3, <3>5 DEF QueueStatus
    <3> QED
      BY <3>4, <3>5 DEF QueueStatus
  <2>2. CASE RequeueRun(t)
    <3>1. Enqueue(job[t]) /\ job[t] \in Runs /\ status' = status /\ status[job[t]] = "queued"
      BY <1>0, <2>2 DEF RequeueRun, Move, storeVars, TickInv, InHand, TickStatus, BeforeStart
    <3> DEFINE w == WorkspaceOf[job[t]]
    <3>2. /\ \A v \in Workspaces \ {w} : runQueue'[v] = runQueue[v]
          /\ DOMAIN runQueue'[w] = 1..Len(runQueue[w]) + 1
          /\ runQueue'[w][Len(runQueue[w]) + 1] = job[t]
          /\ \A i \in 1..Len(runQueue[w]) : runQueue'[w][i] = runQueue[w][i]
      BY <1>0, <3>1, EnqueueContents
    <3>3. w \in Workspaces /\ DOMAIN runQueue[w] = 1..Len(runQueue[w]) /\ Len(runQueue[w]) \in Nat
      BY <1>0, <3>1, RuntimeAssumption, LenProperties
    <3> HIDE DEF w
    <3>4. \A i \in DOMAIN runQueue'[w] : status'[runQueue'[w][i]] = "queued"
      BY <1>0, <3>1, <3>2, <3>3 DEF QueueStatus
    <3>5. ASSUME NEW v \in Workspaces, v # w, NEW i \in DOMAIN runQueue'[v]
          PROVE  status'[runQueue'[v][i]] = "queued"
      BY <1>0, <3>1, <3>2, <3>5 DEF QueueStatus
    <3> QED
      BY <3>4, <3>5 DEF QueueStatus
  <2>3. CASE runQueue' = runQueue
    <3>1. \A w \in Workspaces : \A i \in DOMAIN runQueue[w] :
            runQueue[w][i] \in Runs /\ runQueue[w][i] # job[t]
      BY <1>0, ElementOfSeq, LenProperties DEF QueueInv
    <3> QED
      BY <1>0, <1>3, <2>3, <3>1 DEF QueueStatus
  <2> QED
    BY <1>2, <2>1, <2>2, <2>3 DEF TickEffect, PopRun
<1>6. SweepStatus'
  <2>1. \A r \in Runs \cup {NoRun} : status[r] = "running" \/ Ended(r) =>
          (r \in Runs => status'[r] = "running" \/ status'[r] \in Terminal)
    BY <1>3 DEF Ended
  <2>2. \A k \in Sweeps : sweepStep[k] = "fail" => sweepRun[k] \in Runs
    BY <1>0 DEF LInv, IInv, SweepInv
  <2> QED
    BY <1>0, <2>1, <2>2 DEF SweepStatus, Ended
<1>7. ASSUME NEW u \in Ticks, u # t PROVE TickStatus(u)'
  <2>1. pc'[u] = pc[u] /\ job'[u] = job[u]
    BY <1>2, <1>7 DEF TickEffect
  <2>2. job[u] \in Runs => status'[job[u]] = status[job[u]]
    BY <1>0, <1>3, <1>7, RuntimeAssumption DEF JobInv
  <2> QED
    BY <1>0, <2>1, <2>2, OtherTicks
<1> QED
  BY <1>1, <1>4, <1>5, <1>6, <1>7 DEF StatusInv

---------------------------------------------------------------------------
(* The steps of the gateway and of the clock.                              *)

(* A step that leaves every row, queue and tick alone leaves StatusInv.    *)
LEMMA StatusFrame ==
  ASSUME LInv,
         UNCHANGED <<status, runQueue, pc, job, reaped, botched>>,
         \A r \in Runs : submit'[r] \in {submit[r], "queued", "lost"},
         \A k \in Sweeps : sweepStep'[k] = "fail" =>
            \/ sweepStep[k] = "fail" /\ sweepRun'[k] = sweepRun[k]
            \/ status[sweepRun'[k]] = "running"
  PROVE  StatusInv'
<1>0. SubmitStatus /\ QueueStatus /\ SweepStatus /\ \A t \in Ticks : TickStatus(t)
  BY DEF LInv, StatusInv
<1>1. SubmitStatus'
  BY <1>0 DEF SubmitStatus
<1>2. QueueStatus'
  BY <1>0 DEF QueueStatus
<1>3. SweepStatus'
  BY <1>0 DEF SweepStatus, Ended
<1>4. \A t \in Ticks : TickStatus(t)'
  BY <1>0 DEF TickStatus, Claimed, Ended, contested
<1> QED
  BY <1>1, <1>2, <1>3, <1>4 DEF StatusInv

(* The INSERT of a prompt's run: nobody else knows the row yet.            *)
LEMMA CreateKeeps ==
  ASSUME LInv, NEW r \in Runs, CreateQueuedRun(r), UNCHANGED <<executorVars, historyVars>>
  PROVE  StatusInv' /\ status[r] = "none"
<1>0. /\ SubmitStatus /\ QueueStatus /\ SweepStatus /\ \A t \in Ticks : TickStatus(t)
      /\ TypeOK /\ TickInv
      /\ UNCHANGED <<pc, job, runQueue, sweepStep, sweepRun, reaped, botched>>
      /\ status' = [status EXCEPT ![r] = "queued"]
      /\ submit' = [submit EXCEPT ![r] = "created"]
      /\ status \in [Runs -> RunStatus]
      /\ submit \in [Runs -> {"none", "created", "queued", "lost"}]
  BY DEF LInv, IInv, StatusInv, CreateQueuedRun, MarkRun, executorVars, tickVars, historyVars,
         sweepVars, TypeOK, RuntimeTypeOK, GatewayTypeOK
<1>1. status[r] = "none"
  BY <1>0 DEF SubmitStatus, CreateQueuedRun
<1>2. SubmitStatus'
  BY <1>0 DEF SubmitStatus
<1>3. QueueStatus'
  BY <1>0, <1>1 DEF QueueStatus
<1>4. SweepStatus'
  BY <1>0, <1>1 DEF SweepStatus, Ended, Terminal
<1>5. ASSUME NEW t \in Ticks PROVE TickStatus(t)'
  BY <1>0, <1>1 DEF TickStatus, Claimed, Ended, Terminal, contested, LInv, IInv
<1> QED
  BY <1>1, <1>2, <1>3, <1>4, <1>5 DEF StatusInv

(* The RPUSH of a prompt's run, which is queued.                           *)
LEMMA EnqueueKeeps ==
  ASSUME LInv, NEW r \in Runs, EnqueueRun(r), UNCHANGED <<executorVars, historyVars>>
  PROVE  StatusInv' /\ UNCHANGED status
<1>0. /\ SubmitStatus /\ QueueStatus /\ SweepStatus /\ \A t \in Ticks : TickStatus(t)
      /\ UNCHANGED <<status, pc, job, sweepStep, sweepRun, reaped, botched>>
      /\ submit' = [submit EXCEPT ![r] = "queued"]
      /\ submit \in [Runs -> {"none", "created", "queued", "lost"}]
      /\ runQueue \in [Workspaces -> Seq(Runs)]
      /\ Enqueue(r)
      /\ status[r] = "queued"
  BY DEF LInv, IInv, StatusInv, EnqueueRun, SubmitStatus, executorVars, tickVars, historyVars,
         sweepVars, storeVars, TypeOK, RuntimeTypeOK, GatewayTypeOK
<1> DEFINE w == WorkspaceOf[r]
<1>1. /\ \A v \in Workspaces \ {w} : runQueue'[v] = runQueue[v]
      /\ DOMAIN runQueue'[w] = 1..Len(runQueue[w]) + 1
      /\ runQueue'[w][Len(runQueue[w]) + 1] = r
      /\ \A i \in 1..Len(runQueue[w]) : runQueue'[w][i] = runQueue[w][i]
  BY <1>0, EnqueueContents
<1>2. w \in Workspaces /\ DOMAIN runQueue[w] = 1..Len(runQueue[w]) /\ Len(runQueue[w]) \in Nat
  BY <1>0, RuntimeAssumption, LenProperties
<1> HIDE DEF w
<1>3. \A i \in DOMAIN runQueue'[w] : status'[runQueue'[w][i]] = "queued"
  BY <1>0, <1>1, <1>2 DEF QueueStatus
<1>4. QueueStatus'
  <2>1. ASSUME NEW v \in Workspaces, v # w, NEW i \in DOMAIN runQueue'[v]
        PROVE  status'[runQueue'[v][i]] = "queued"
    BY <1>0, <1>1, <2>1 DEF QueueStatus
  <2> QED
    BY <1>3, <2>1 DEF QueueStatus
<1>5. SubmitStatus'
  BY <1>0 DEF SubmitStatus
<1>6. SweepStatus' /\ \A t \in Ticks : TickStatus(t)'
  BY <1>0 DEF SweepStatus, TickStatus, Claimed, Ended, contested
<1> QED
  BY <1>0, <1>4, <1>5, <1>6 DEF StatusInv

(* The reaper fails a run that it saw running; by now it may have ended,   *)
(* but it is in no queue and not before its start.                         *)
LEMMA FailKeeps ==
  ASSUME LInv, NEW k \in Sweeps, FailExpiredRun(k),
         reaped' = reaped \cup {sweepRun[k]}, UNCHANGED <<executorVars, expired, botched>>
  PROVE  /\ StatusInv'
         /\ sweepRun[k] \in Runs
         /\ status[sweepRun[k]] \in {"running"} \cup Terminal
         /\ status' = [status EXCEPT ![sweepRun[k]] = "failed"]
<1> DEFINE r == sweepRun[k]
<1>0. /\ SubmitStatus /\ QueueStatus /\ SweepStatus /\ \A t \in Ticks : TickStatus(t)
      /\ TypeOK /\ TickInv
      /\ UNCHANGED <<pc, job, runQueue, submit, sweepRun, botched>>
      /\ status' = [status EXCEPT ![r] = "failed"]
      /\ status \in [Runs -> RunStatus]
      /\ sweepStep' = [sweepStep EXCEPT ![k] = "cancel"]
      /\ sweepStep[k] = "fail"
      /\ r \in Runs
  BY DEF LInv, IInv, StatusInv, SweepInv, FailExpiredRun, SweepMove, MarkRun, executorVars,
         tickVars, submitVars, TypeOK, RuntimeTypeOK, GatewayTypeOK
<1>1. status[r] = "running" \/ status[r] \in Terminal
  BY <1>0 DEF SweepStatus, Ended
<1> HIDE DEF r
<1>2. status[r] \notin {"none", "queued"}
  BY <1>1 DEF Terminal
<1>3. SubmitStatus'
  BY <1>0, <1>2 DEF SubmitStatus
<1>4. QueueStatus'
  BY <1>0, <1>2 DEF QueueStatus
<1>5. SweepStatus'
  <2>1. sweepStep \in [Sweeps -> {"idle", "next", "discard", "fail", "cancel", "clear",
                                 "releaseGet", "releaseDel"}]
    BY <1>0 DEF TypeOK, GatewayTypeOK
  <2>2. \A q \in Runs : status[q] = "running" \/ Ended(q) =>
                          status'[q] = "running" \/ status'[q] \in Terminal
    BY <1>0 DEF Ended, Terminal
  <2>3. \A j \in Sweeps : sweepStep[j] = "fail" => sweepRun[j] \in Runs
    BY DEF LInv, IInv, SweepInv
  <2> QED
    BY <1>0, <2>1, <2>2, <2>3 DEF SweepStatus, Ended
<1>6. ASSUME NEW t \in Ticks PROVE TickStatus(t)'
  <2>1. contested \subseteq contested' /\ r \in contested'
    BY <1>0 DEF contested, r
  <2>2. job[t] \in Runs => \/ status'[job[t]] = status[job[t]]
                            \/ /\ status'[job[t]] \in Terminal
                               /\ Ended(job[t]) \/ status[job[t]] = "running"
                               /\ job[t] \in contested'
    BY <1>0, <1>1, <2>1 DEF Ended, Terminal
  <2> QED
    BY <1>0, <2>1, <2>2, OtherTicks
<1> QED
  BY <1>0, <1>1, <1>3, <1>4, <1>5, <1>6 DEF StatusInv, r

---------------------------------------------------------------------------
(* Refinement.                                                             *)

LifecycleStep ==
  \/ UNCHANGED <<status, contested>>
  \/ \E r \in Runs :
       Lifecycle!Queue(r) \/ Lifecycle!Start(r) \/ Lifecycle!Finish(r) \/ Lifecycle!Contest(r)

(* The three forms in which a tick or the reaper writes a row are steps of *)
(* the lifecycle.                                                          *)
LEMMA WritesAreSteps ==
  ASSUME NEW r \in Runs, status \in [Runs -> RunStatus]
  PROVE  /\ Starts(r) /\ UNCHANGED contested => LifecycleStep
         /\ \A s \in Terminal : Outcomes(r, s) /\ UNCHANGED contested => LifecycleStep
         /\ /\ status[r] \in {"running"} \cup Terminal
            /\ status' = status \/ status' = [status EXCEPT ![r] = "failed"]
            /\ contested' = contested \cup {r}
            => LifecycleStep
<1>1. Starts(r) /\ UNCHANGED contested => Lifecycle!Start(r)
  BY DEF Starts, Lifecycle!Start, contested
<1>2. ASSUME NEW s \in Terminal, Outcomes(r, s), UNCHANGED contested
      PROVE  Lifecycle!Finish(r)
  BY <1>2 DEF Outcomes, Claimed, Ended, Lifecycle!Finish, Lifecycle!Terminal, Terminal, contested
<1>3. ASSUME status[r] \in {"running"} \cup Terminal,
             status' = status \/ status' = [status EXCEPT ![r] = "failed"],
             contested' = contested \cup {r}
      PROVE  Lifecycle!Contest(r)
  BY <1>3 DEF Lifecycle!Contest, Lifecycle!Terminal, Terminal, contested
<1> QED
  BY <1>1, <1>2, <1>3 DEF LifecycleStep

(* The executor's steps. *)
LEMMA ExecutorImplements ==
  ASSUME LInv, ExecutorStep
  PROVE  StatusInv' /\ LifecycleStep
<1>0. /\ TypeOK /\ TickInv /\ QueueStatus /\ \A t \in Ticks : TickStatus(t)
      /\ UNCHANGED <<gatewayVars, historyVars>>
      /\ status \in [Runs -> RunStatus]
      /\ UNCHANGED <<reaped, botched, contested>>
  BY DEF LInv, IInv, StatusInv, ExecutorStep, TypeOK, RuntimeTypeOK, historyVars, contested
<1>1. ASSUME NEW t \in Ticks, Tick(t) PROVE StatusInv' /\ LifecycleStep
  <2>1. StatusInv'
    BY <1>0, <1>1, TickKeeps
  <2>2. \/ UNCHANGED status
        \/ Starts(job[t])
        \/ \E s \in Terminal : Outcomes(job[t], s)
    BY <1>0, <1>1, TickWrites
  <2>3. CASE UNCHANGED status
    BY <1>0, <2>1, <2>3 DEF LifecycleStep
  <2>4. CASE Starts(job[t])
    <3>1. job[t] \in Runs
      BY <2>4 DEF Starts
    <3> QED
      BY <1>0, <2>1, <2>4, <3>1, WritesAreSteps
  <2>5. ASSUME NEW s \in Terminal, Outcomes(job[t], s) PROVE LifecycleStep
    <3>1. job[t] \in Runs
      BY <2>5 DEF Outcomes
    <3> QED
      BY <1>0, <2>5, <3>1, WritesAreSteps
  <2> QED
    BY <2>1, <2>2, <2>3, <2>4, <2>5
<1>2. ASSUME NEW r \in Runs, WatcherFires(r) \/ OrphanExits(r) PROVE StatusInv' /\ LifecycleStep
  <2>1. UNCHANGED <<status, runQueue, pc, job, submit, sweepStep, sweepRun>>
    BY <1>0, <1>2 DEF WatcherFires, OrphanExits, runtimeVars, storeVars, tickVars, gatewayVars,
       submitVars, sweepVars
  <2> QED
    BY <1>0, <2>1, StatusFrame DEF LifecycleStep
<1> QED
  BY <1>1, <1>2 DEF ExecutorStep

(* A prompt and /abort. *)
LEMMA GatewayImplements ==
  ASSUME LInv, GatewayStep
  PROVE  StatusInv' /\ LifecycleStep
<1>0. /\ UNCHANGED <<executorVars, historyVars, pc, job, reaped, botched, contested>>
      /\ status \in [Runs -> RunStatus]
  BY DEF LInv, IInv, GatewayStep, TypeOK, RuntimeTypeOK, executorVars, tickVars, historyVars,
         contested
<1>1. ASSUME NEW r \in Runs, CreateQueuedRun(r) PROVE StatusInv' /\ LifecycleStep
  <2>1. StatusInv' /\ status[r] = "none"
    BY <1>0, <1>1, CreateKeeps
  <2>2. Lifecycle!Queue(r)
    BY <1>0, <1>1, <2>1 DEF CreateQueuedRun, MarkRun, Lifecycle!Queue, contested
  <2> QED
    BY <2>1, <2>2 DEF LifecycleStep
<1>2. ASSUME NEW r \in Runs, EnqueueRun(r) PROVE StatusInv' /\ LifecycleStep
  BY <1>0, <1>2, EnqueueKeeps DEF LifecycleStep
<1>3. ASSUME NEW s \in Sessions, Abort(s) PROVE StatusInv' /\ LifecycleStep
  <2>1. UNCHANGED <<status, runQueue, submit, sweepStep, sweepRun>>
    BY <1>3 DEF Abort, AbortFind, AbortMark, AbortSignal, runtimeVars, storeVars, submitVars,
       sweepVars
  <2> QED
    BY <1>0, <2>1, StatusFrame DEF LifecycleStep
<1> QED
  BY <1>1, <1>2, <1>3 DEF GatewayStep, Submission

(* The reaper writes one row in a sweep's "fail" step and none elsewhere.  *)
LEMMA ReaperImplements ==
  ASSUME LInv, ReaperStep
  PROVE  StatusInv' /\ LifecycleStep
<1>1. PICK k \in Sweeps :
        /\ Sweep(k)
        /\ reaped' = IF sweepStep[k] = "fail" THEN reaped \cup {sweepRun[k]} ELSE reaped
  BY DEF ReaperStep
<1>0. /\ UNCHANGED <<executorVars, pc, job, expired, botched>>
      /\ status \in [Runs -> RunStatus]
      /\ sweepRun \in [Sweeps -> Runs \cup {NoRun}]
      /\ sweepStep \in [Sweeps -> {"idle", "next", "discard", "fail", "cancel", "clear",
                                   "releaseGet", "releaseDel"}]
  BY DEF LInv, IInv, ReaperStep, TypeOK, RuntimeTypeOK, GatewayTypeOK, executorVars, tickVars
<1>2. CASE FailExpiredRun(k)
  <2>1. reaped' = reaped \cup {sweepRun[k]}
    BY <1>1, <1>2 DEF FailExpiredRun, SweepMove
  <2>2. /\ StatusInv'
        /\ sweepRun[k] \in Runs
        /\ status[sweepRun[k]] \in {"running"} \cup Terminal
        /\ status' = [status EXCEPT ![sweepRun[k]] = "failed"]
    BY <1>0, <1>2, <2>1, FailKeeps
  <2>3. contested' = contested \cup {sweepRun[k]}
    BY <1>0, <2>1 DEF contested
  <2> QED
    BY <1>0, <2>2, <2>3, WritesAreSteps
<1>3. ASSUME NEW r \in Runs, InspectRun(k, r) PROVE StatusInv' /\ LifecycleStep
  <2>1. /\ UNCHANGED <<status, runQueue, submit, reaped, contested>>
        /\ sweepStep' = [sweepStep EXCEPT ![k] = IF status[r] = "running" THEN "fail" ELSE "discard"]
        /\ sweepRun' = [sweepRun EXCEPT ![k] = r]
    BY <1>0, <1>1, <1>3 DEF InspectRun, SweepMove, runtimeVars, storeVars, submitVars, contested
  <2> QED
    BY <1>0, <2>1, StatusFrame DEF LifecycleStep
<1>4. ASSUME \/ FindExpired(k) \/ DiscardHeartbeat(k) \/ CancelExpiredRun(k)
             \/ ClearExpiredBeat(k) \/ ReadExpiredLock(k) \/ ReleaseExpiredLock(k) \/ EndSweep(k)
      PROVE  StatusInv' /\ LifecycleStep
  <2>1. /\ UNCHANGED <<status, runQueue, submit, reaped, contested>>
        /\ sweepStep'[k] # "fail"
        /\ \A j \in Sweeps \ {k} : sweepStep'[j] = sweepStep[j] /\ sweepRun'[j] = sweepRun[j]
    BY <1>0, <1>1, <1>4 DEF FindExpired, DiscardHeartbeat, CancelExpiredRun, ClearExpiredBeat,
       ReadExpiredLock, ReleaseExpiredLock, EndSweep, SweepMove, runtimeVars, storeVars,
       submitVars, contested
  <2> QED
    BY <1>0, <2>1, StatusFrame DEF LifecycleStep
<1> QED
  BY <1>1, <1>2, <1>3, <1>4 DEF Sweep

(* Crashes and rejected calls. *)
LEMMA MishapImplements ==
  ASSUME LInv, Mishap
  PROVE  StatusInv' /\ LifecycleStep
<1>0. /\ TypeOK /\ TickInv /\ SubmitStatus /\ QueueStatus /\ SweepStatus
      /\ \A t \in Ticks : TickStatus(t)
      /\ UNCHANGED <<expired, reaped>>
      /\ status \in [Runs -> RunStatus]
      /\ submit \in [Runs -> {"none", "created", "queued", "lost"}]
  BY DEF LInv, IInv, StatusInv, Mishap, TypeOK, RuntimeTypeOK, GatewayTypeOK
<1>1. ASSUME Crash, UNCHANGED <<gatewayVars, botched>> PROVE StatusInv' /\ LifecycleStep
  <2>1. UNCHANGED <<status, runQueue, submit, sweepStep, sweepRun, contested>>
    BY <1>0, <1>1 DEF Crash, runtimeVars, storeVars, gatewayVars, submitVars, sweepVars, contested
  <2>2. SubmitStatus' /\ QueueStatus' /\ SweepStatus'
    BY <1>0, <2>1 DEF SubmitStatus, QueueStatus, SweepStatus, Ended
  <2>3. ASSUME NEW t \in Ticks PROVE TickStatus(t)'
    BY <1>1 DEF Crash, TickStatus, BeforeStart, AtWork, InHand, Attempt
  <2> QED
    BY <2>1, <2>2, <2>3 DEF StatusInv, LifecycleStep
<1>2. ASSUME NEW t \in Ticks, CallRejected(t), UNCHANGED gatewayVars,
             botched' = IF pc[t] = "report" THEN botched \cup {job[t]} ELSE botched
      PROVE  StatusInv' /\ LifecycleStep
  <2>1. TickStatus(t)' /\ UNCHANGED status
    BY <1>0, <1>2, RejectedStatus
  <2>2. UNCHANGED <<runQueue, submit, sweepStep, sweepRun>>
    BY <1>2 DEF CallRejected, runtimeVars, gatewayVars, submitVars, sweepVars
  <2>3. SubmitStatus' /\ QueueStatus' /\ SweepStatus'
    BY <1>0, <2>1, <2>2 DEF SubmitStatus, QueueStatus, SweepStatus, Ended
  <2>4. ASSUME NEW u \in Ticks, u # t PROVE TickStatus(u)'
    <3>1. pc'[u] = pc[u] /\ job'[u] = job[u]
      BY <1>0, <1>2, <2>4, RejectedEffect
    <3>2. contested \subseteq contested'
      BY <1>0, <1>2 DEF contested
    <3> QED
      BY <1>0, <2>1, <3>1, <3>2, OtherTicks
  <2>5. LifecycleStep
    <3>1. CASE pc[t] = "report"
      <4>1. job[t] \in Runs /\ status[job[t]] \in Terminal
        BY <1>0, <3>1 DEF TickStatus, Ended, TickInv, TypeOK, ExecutorTypeOK, Locked, Ending
      <4>2. contested' = contested \cup {job[t]}
        BY <1>0, <1>2, <3>1 DEF contested
      <4> QED
        BY <1>0, <2>1, <4>1, <4>2, WritesAreSteps
    <3>2. CASE pc[t] # "report"
      BY <1>0, <1>2, <2>1, <3>2 DEF LifecycleStep, contested
    <3> QED
      BY <3>1, <3>2
  <2> QED
    BY <2>1, <2>3, <2>4, <2>5 DEF StatusInv
<1>3. ASSUME GatewayCrash \/ \E r \in Runs : EnqueueRejected(r),
             UNCHANGED <<executorVars, botched>>
      PROVE  StatusInv' /\ LifecycleStep
  <2>1. /\ UNCHANGED <<status, runQueue, pc, job, contested>>
        /\ \A r \in Runs : submit'[r] \in {submit[r], "queued", "lost"}
        /\ \A k \in Sweeps : sweepStep'[k] = "fail" =>
              sweepStep[k] = "fail" /\ sweepRun'[k] = sweepRun[k]
    BY <1>0, <1>3 DEF GatewayCrash, EnqueueRejected, runtimeVars, storeVars, executorVars, tickVars,
       sweepVars, contested
  <2> QED
    BY <1>0, <1>3, <2>1, StatusFrame DEF LifecycleStep
<1> QED
  BY <1>1, <1>2, <1>3 DEF Mishap

(* Every step of either process keeps what is known of the statuses and is *)
(* a step of the lifecycle, or none.                                       *)
THEOREM StepImplements == LInv /\ [Next]_vars => LInv' /\ LifecycleStep
<1> SUFFICES ASSUME LInv, [Next]_vars PROVE StatusInv' /\ LifecycleStep
  BY StepInv DEF LInv
<1>1. CASE ClockStep
  <2>1. UNCHANGED <<status, runQueue, pc, job, submit, sweepStep, sweepRun, reaped, botched>>
    BY <1>1 DEF ClockStep, LockExpires, HeartbeatAges, HeartbeatEvicted, storeVars, executorVars,
       tickVars, gatewayVars, submitVars, sweepVars, historyVars
  <2> QED
    BY <2>1, StatusFrame DEF LifecycleStep, contested
<1>2. CASE UNCHANGED vars
  <2>1. UNCHANGED <<status, runQueue, pc, job, submit, sweepStep, sweepRun, reaped, botched>>
    BY <1>2 DEF vars, runtimeVars, storeVars, executorVars, tickVars, gatewayVars, submitVars,
       sweepVars, historyVars
  <2> QED
    BY <2>1, StatusFrame DEF LifecycleStep, contested
<1> QED
  BY <1>1, <1>2, ExecutorImplements, GatewayImplements, ReaperImplements, MishapImplements DEF Next

(* The gateway and the executor implement the lifecycle of a run: it is    *)
(* queued once, started once and ends once, and only the reaper or a       *)
(* failed report ever makes its end change.                                *)
THEOREM LifecycleImplemented == Spec => LifecycleSpec
<1>1. Init => LInv /\ Lifecycle!Init
  <2>1. Init => StatusInv
    BY DEF Init, RuntimeInit, ExecutorInit, GatewayInit, StatusInv, SubmitStatus, QueueStatus,
       SweepStatus, TickStatus, BeforeStart, AtWork, InHand, Attempt
  <2>2. Init => Lifecycle!Init
    BY DEF Init, RuntimeInit, Lifecycle!Init
  <2> QED
    BY <2>1, <2>2, InitInv DEF LInv
<1>2. LInv /\ [Next]_vars => LInv' /\ [Lifecycle!Next]_(Lifecycle!vars)
  <2>1. LifecycleStep => [Lifecycle!Next]_(Lifecycle!vars)
    BY DEF LifecycleStep, Lifecycle!Next, Lifecycle!vars, contested
  <2> QED
    BY <2>1, StepImplements
<1> QED
  BY <1>1, <1>2, PTL DEF Spec, LifecycleSpec, Lifecycle!Spec

---------------------------------------------------------------------------
(***************************************************************************)
(* How a run ends, for every instance of RunExecution: it is cancelled     *)
(* only if somebody asked for it, and as long as no call fails and no      *)
(* process dies it is never forgotten and leaves nothing behind.           *)
(***************************************************************************)

---------------------------------------------------------------------------
(* Cancelled on request.  A cancellation travels from /abort or a sweep    *)
(* over the signal, the watcher, the controller, codex and its last event  *)
(* to the row; at every place it is at, it was asked for.                  *)

Asked(r) == cancelRequestedAt[r] \/ r \in reaped

AskedRuns ==
  \A r \in Runs :
    cancelSignal[r] \/ controller[r] = "aborted" \/ codex[r] = "killed" \/ status[r] = "cancelled"
      => Asked(r)

TickAsked(t) ==
  /\ pc[t] = "cancelEarly" => Asked(job[t])
  /\ event[t] = "cancelled" => pc[t] \in {"check", "persist"} /\ Asked(job[t])

AbortAsked ==
  \A s \in Sessions :
    /\ abortStep[s] # "idle" => abortRun[s] \in Runs
    /\ abortStep[s] = "marked" => Asked(abortRun[s])

AskedInv == AskedRuns /\ AbortAsked /\ \A t \in Ticks : TickAsked(t)

(* A tick takes a cancellation one place further and never makes one up.   *)
LEMMA TickAsks ==
  ASSUME TypeOK, TickInv, AskedRuns, NEW t \in Ticks, TickAsked(t), Tick(t), UNCHANGED reaped
  PROVE  AskedRuns' /\ TickAsked(t)' /\ UNCHANGED cancelRequestedAt
<1> USE DEF runtimeVars, storeVars, lockVars, signalVars, bridgeVars, Move, Return, TickAsked,
        AskedRuns, Asked, InHand, Locked, Preamble, Attempt, Ending, Releasing, Looking
<1>0. /\ pc[t] \in InHand \cup Locked => job[t] \in Runs
      /\ pc \in [Ticks -> Looking \cup InHand \cup Locked]
      /\ job \in [Ticks -> Runs \cup {NoRun}]
      /\ event \in [Ticks -> Event]
      /\ status \in [Runs -> RunStatus]
      /\ cancelSignal \in [Runs -> BOOLEAN]
      /\ controller \in [Runs -> {"absent", "live", "aborted"}]
      /\ codex \in [Runs -> {"none", "running", "killed"}]
  BY DEF TypeOK, TickInv, ExecutorTypeOK, RuntimeTypeOK
<1>1. CASE ListWorkspaces(t)
  BY <1>0, <1>1 DEF ListWorkspaces
<1>2. CASE FindNothing(t)
  BY <1>0, <1>2 DEF FindNothing
<1>3. CASE AcquireLock(t)
  BY <1>0, <1>3 DEF AcquireLock
<1>4. CASE SetLockExpiry(t)
  BY <1>0, <1>4 DEF SetLockExpiry
<1>5. CASE StartRun(t)
  BY <1>0, <1>5 DEF StartRun, MarkRun
<1>6. CASE CheckCancel(t)
  BY <1>0, <1>6 DEF CheckCancel
<1>7. CASE CancelEarly(t)
  BY <1>0, <1>7 DEF CancelEarly, MarkRun
<1>8. CASE BeginExecute(t)
  BY <1>0, <1>8 DEF BeginExecute
<1>9. CASE FlushMemory(t)
  BY <1>0, <1>9 DEF FlushMemory
<1>10. CASE StartBridge(t)
  BY <1>0, <1>10 DEF StartBridge
<1>11. CASE SpawnCodex(t)
  BY <1>0, <1>11 DEF SpawnCodex
<1>12. CASE CodexOutput(t)
  BY <1>0, <1>12 DEF CodexOutput, Deliver
<1>13. CASE CodexExit(t)
  BY <1>0, <1>13 DEF CodexExit, Deliver, ExitEvents
<1>14. CASE NoSpawnCwd(t)
  BY <1>0, <1>14 DEF NoSpawnCwd, Deliver
<1>15. CASE NextEvent(t)
  BY <1>0, <1>15 DEF NextEvent
<1>16. CASE DrainStream(t)
  BY <1>0, <1>16 DEF DrainStream
<1>17. CASE RetryFresh(t)
  BY <1>0, <1>17 DEF RetryFresh
<1>18. CASE TakeOutcome(t)
  BY <1>0, <1>18 DEF TakeOutcome
<1>19. CASE PersistOutcome(t)
  BY <1>0, <1>19 DEF PersistOutcome, MarkRun
<1>20. CASE ReportOutcome(t)
  BY <1>0, <1>20 DEF ReportOutcome
<1>21. CASE AttemptThrows(t)
  BY <1>0, <1>21 DEF AttemptThrows
<1>22. CASE CatchFailure(t)
  BY <1>0, <1>22 DEF CatchFailure, MarkRun
<1>23. CASE StopWatching(t)
  BY <1>0, <1>23 DEF StopWatching
<1>24. CASE ClearSignal(t)
  BY <1>0, <1>24 DEF ClearSignal, ClearCancellation
<1>25. CASE ReleaseLock(t)
  BY <1>0, <1>25 DEF ReleaseLock
<1>26. CASE RequeueRun(t)
  BY <1>0, <1>26 DEF RequeueRun
<1>27. CASE ReadLock(t)
  BY <1>0, <1>27 DEF ReadLock
<1>28. ASSUME NEW w \in Workspaces, VisitWorkspace(t, w)
       PROVE  AskedRuns' /\ TickAsked(t)' /\ UNCHANGED cancelRequestedAt
  BY <1>0, <1>28 DEF VisitWorkspace
<1>29. CASE PopRun(t)
  BY <1>0, <1>29 DEF PopRun
<1> QED
  BY <1>1, <1>2, <1>3, <1>4, <1>5, <1>6, <1>7, <1>8, <1>9, <1>10, <1>11, <1>12, <1>13, <1>14,
     <1>15, <1>16, <1>17, <1>18, <1>19, <1>20, <1>21, <1>22, <1>23, <1>24, <1>25, <1>26,
     <1>27, <1>28, <1>29 DEF Tick

(* A step that changes nothing of a cancellation but to take it back, or   *)
(* to have it asked for, keeps AskedInv.                                   *)
LEMMA AskedFrame ==
  ASSUME AskedInv,
         \A r \in Runs : Asked(r) => Asked(r)',
         \A r \in Runs :
           cancelSignal'[r] \/ controller'[r] = "aborted" \/ codex'[r] = "killed"
             \/ status'[r] = "cancelled"
           => Asked(r)' \/ cancelSignal[r] \/ controller[r] = "aborted"
                \/ codex[r] = "killed" \/ status[r] = "cancelled",
         \A s \in Sessions :
           \/ abortStep'[s] = "idle"
           \/ abortStep'[s] = abortStep[s] /\ abortRun'[s] = abortRun[s]
           \/ abortStep'[s] = "found" /\ abortRun'[s] \in Runs
           \/ abortStep'[s] = "marked" /\ abortRun'[s] \in Runs /\ Asked(abortRun[s])'
                /\ abortRun'[s] = abortRun[s],
         UNCHANGED <<pc, job, event>>,
         \A t \in Ticks : pc[t] \in {"cancelEarly", "check", "persist"} => job[t] \in Runs
  PROVE  AskedInv'
<1>1. AskedRuns'
  BY DEF AskedInv, AskedRuns, Asked
<1>2. AbortAsked'
  BY DEF AskedInv, AbortAsked, Asked
<1>3. ASSUME NEW t \in Ticks PROVE TickAsked(t)'
  BY DEF AskedInv, TickAsked, Asked
<1> QED
  BY <1>1, <1>2, <1>3 DEF AskedInv

(* What a tick is at when it deals with a cancellation has a run.          *)
LEMMA AtHasRun ==
  ASSUME TypeOK, TickInv, NEW t \in Ticks, pc[t] \in {"cancelEarly", "check", "persist"}
  PROVE  job[t] \in Runs
BY DEF TypeOK, TickInv, ExecutorTypeOK, Locked, Preamble, Attempt, Ending

(* The executor passes a cancellation on: its ticks, its watchers, and the *)
(* codex processes that end.                                               *)
LEMMA ExecutorAsks ==
  ASSUME TypeOK, TickInv, AskedInv, ExecutorStep
  PROVE  AskedInv'
<1>0. /\ UNCHANGED <<gatewayVars, historyVars>>
      /\ UNCHANGED <<abortStep, abortRun, reaped>>
      /\ watcher \in [Runs -> {"off", "polling", "fired"}]
      /\ controller \in [Runs -> {"absent", "live", "aborted"}]
      /\ codex \in [Runs -> {"none", "running", "killed"}]
  BY DEF ExecutorStep, gatewayVars, abortVars, historyVars, TypeOK, ExecutorTypeOK
<1>1. ASSUME NEW t \in Ticks, Tick(t) PROVE AskedInv'
  <2>1. AskedRuns' /\ TickAsked(t)' /\ UNCHANGED cancelRequestedAt
    BY <1>0, <1>1, TickAsks DEF AskedInv
  <2>2. AbortAsked'
    BY <1>0, <2>1 DEF AskedInv, AbortAsked, Asked
  <2>3. ASSUME NEW u \in Ticks, u # t PROVE TickAsked(u)'
    <3>1. pc'[u] = pc[u] /\ job'[u] = job[u] /\ event'[u] = event[u]
      BY <1>1, <2>3, TickSteps DEF TickEffect
    <3> QED
      BY <1>0, <2>1, <3>1 DEF AskedInv, TickAsked, Asked
  <2> QED
    BY <2>1, <2>2, <2>3 DEF AskedInv
<1>2. ASSUME NEW r \in Runs, WatcherFires(r) \/ OrphanExits(r) PROVE AskedInv'
  <2>1. /\ UNCHANGED <<cancelRequestedAt, cancelSignal, status, pc, job, event>>
        /\ UNCHANGED <<abortStep, abortRun, reaped>>
    BY <1>0, <1>2 DEF WatcherFires, OrphanExits, runtimeVars, storeVars, signalVars, tickVars
  <2>2. \A q \in Runs : Asked(q) => Asked(q)'
    BY <2>1 DEF Asked
  <2>3. \A q \in Runs :
          controller'[q] = "aborted" \/ codex'[q] = "killed"
            => cancelSignal[q] \/ controller[q] = "aborted" \/ codex[q] = "killed"
    BY <1>0, <1>2 DEF WatcherFires, OrphanExits
  <2> QED
    BY <2>1, <2>2, <2>3, AskedFrame, AtHasRun
<1> QED
  BY <1>1, <1>2 DEF ExecutorStep

(* /abort marks the row before it sets the signal; a prompt cancels none.  *)
LEMMA GatewayAsks ==
  ASSUME TypeOK, TickInv, AskedInv, GatewayStep
  PROVE  AskedInv'
<1>0. /\ UNCHANGED <<executorVars, historyVars>>
      /\ UNCHANGED <<pc, job, event, controller, codex, reaped>>
      /\ status \in [Runs -> RunStatus]
      /\ cancelSignal \in [Runs -> BOOLEAN]
      /\ cancelRequestedAt \in [Runs -> BOOLEAN]
      /\ abortStep \in [Sessions -> {"idle", "found", "marked"}]
      /\ abortRun \in [Sessions -> Runs \cup {NoRun}]
  BY DEF GatewayStep, executorVars, tickVars, bridgeVars, historyVars, TypeOK, RuntimeTypeOK,
         GatewayTypeOK
<1>1. ASSUME NEW r \in Runs, Submission(r) PROVE AskedInv'
  <2>1. /\ UNCHANGED <<cancelRequestedAt, cancelSignal, abortStep, abortRun>>
        /\ \A q \in Runs : status'[q] = "cancelled" => status[q] = "cancelled"
    BY <1>0, <1>1 DEF Submission, CreateQueuedRun, EnqueueRun, MarkRun, signalVars, storeVars,
       abortVars
  <2>2. \A q \in Runs : Asked(q) => Asked(q)'
    BY <1>0, <2>1 DEF Asked
  <2> QED
    BY <1>0, <2>1, <2>2, AskedFrame, AtHasRun
<1>2. ASSUME NEW s \in Sessions, AbortFind(s) PROVE AskedInv'
  <2>1. /\ UNCHANGED <<cancelRequestedAt, cancelSignal, status>>
        /\ \A z \in Sessions \ {s} : abortStep'[z] = abortStep[z] /\ abortRun'[z] = abortRun[z]
        /\ abortStep'[s] = "found" /\ abortRun'[s] \in Runs
    BY <1>0, <1>2 DEF AbortFind, ActiveRuns, runtimeVars, storeVars, signalVars
  <2>2. \A q \in Runs : Asked(q) => Asked(q)'
    BY <1>0, <2>1 DEF Asked
  <2> QED
    BY <1>0, <2>1, <2>2, AskedFrame, AtHasRun
<1>3. ASSUME NEW s \in Sessions, AbortMark(s) PROVE AskedInv'
  <2>1. /\ UNCHANGED <<cancelSignal, status, abortRun>>
        /\ \A z \in Sessions \ {s} : abortStep'[z] = abortStep[z]
        /\ abortStep'[s] = "marked" /\ abortRun[s] \in Runs
        /\ cancelRequestedAt' = [cancelRequestedAt EXCEPT ![abortRun[s]] = TRUE]
    BY <1>0, <1>3 DEF AbortMark, AskedInv, AbortAsked, signalVars
  <2>2. /\ \A q \in Runs : Asked(q) => Asked(q)'
        /\ Asked(abortRun[s])'
    BY <1>0, <2>1 DEF Asked
  <2> QED
    BY <1>0, <2>1, <2>2, AskedFrame, AtHasRun
<1>4. ASSUME NEW s \in Sessions, AbortSignal(s) PROVE AskedInv'
  <2>1. /\ UNCHANGED <<cancelRequestedAt, status>>
        /\ \A z \in Sessions \ {s} : abortStep'[z] = abortStep[z] /\ abortRun'[z] = abortRun[z]
        /\ abortStep'[s] = "idle"
        /\ Asked(abortRun[s])
        /\ cancelSignal' = [cancelSignal EXCEPT ![abortRun[s]] = TRUE]
    BY <1>0, <1>4 DEF AbortSignal, RequestCancellation, AskedInv, AbortAsked, storeVars
  <2>2. \A q \in Runs : Asked(q) => Asked(q)'
    BY <1>0, <2>1 DEF Asked
  <2>3. \A q \in Runs : cancelSignal'[q] => cancelSignal[q] \/ Asked(q)'
    BY <1>0, <2>1 DEF Asked
  <2> QED
    BY <1>0, <2>1, <2>2, <2>3, AskedFrame, AtHasRun
<1> QED
  BY <1>1, <1>2, <1>3, <1>4 DEF GatewayStep, Abort

(* The reaper signals the runs it has failed.                              *)
LEMMA ReaperAsks ==
  ASSUME TypeOK, TickInv, SweepInv, AskedInv, ReaperStep, reaped \subseteq reaped'
  PROVE  AskedInv'
<1>0. /\ UNCHANGED executorVars
      /\ UNCHANGED <<pc, job, event, controller, codex>>
      /\ status \in [Runs -> RunStatus]
      /\ cancelSignal \in [Runs -> BOOLEAN]
  BY DEF ReaperStep, executorVars, tickVars, bridgeVars, TypeOK, RuntimeTypeOK
<1>1. PICK k \in Sweeps : Sweep(k)
  BY DEF ReaperStep
<1>2. UNCHANGED <<cancelRequestedAt, abortStep, abortRun>>
  BY <1>1 DEF Sweep, FindExpired, InspectRun, DiscardHeartbeat, FailExpiredRun, CancelExpiredRun,
     ClearExpiredBeat, ReadExpiredLock, ReleaseExpiredLock, EndSweep, runtimeVars, storeVars, abortVars
<1>3. \A r \in Runs : Asked(r) => Asked(r)'
  BY <1>2 DEF Asked
<1>4. CASE CancelExpiredRun(k)
  <2>1. /\ status' = status
        /\ sweepRun[k] \in reaped
        /\ cancelSignal' = [cancelSignal EXCEPT ![sweepRun[k]] = TRUE]
    BY <1>4 DEF CancelExpiredRun, SweepMove, SweepInv, RequestCancellation, storeVars
  <2>2. \A q \in Runs : cancelSignal'[q] => cancelSignal[q] \/ Asked(q)'
    BY <1>0, <2>1 DEF Asked
  <2> QED
    BY <1>0, <1>2, <1>3, <2>1, <2>2, AskedFrame, AtHasRun
<1>5. CASE FailExpiredRun(k)
  <2>1. /\ cancelSignal' = cancelSignal
        /\ \A r \in Runs : status'[r] = "cancelled" => status[r] = "cancelled"
    BY <1>0, <1>5 DEF FailExpiredRun, MarkRun, signalVars
  <2> QED
    BY <1>0, <1>2, <1>3, <2>1, AskedFrame, AtHasRun
<1>6. CASE ~CancelExpiredRun(k) /\ ~FailExpiredRun(k)
  <2>1. UNCHANGED <<cancelSignal, status>>
    BY <1>1, <1>6 DEF Sweep, FindExpired, InspectRun, DiscardHeartbeat, ClearExpiredBeat,
       ReadExpiredLock, ReleaseExpiredLock, EndSweep, runtimeVars, storeVars, signalVars
  <2> QED
    BY <1>0, <1>2, <1>3, <2>1, AskedFrame, AtHasRun
<1> QED
  BY <1>4, <1>5, <1>6

(* A crash or a rejected call forgets cancellations and adds none.         *)
LEMMA MishapAsks ==
  ASSUME TypeOK, TickInv, AskedInv, Mishap
  PROVE  AskedInv'
<1>0. /\ UNCHANGED <<runtimeVars, reaped>>
      /\ UNCHANGED <<status, cancelRequestedAt, cancelSignal, codex>>
  BY DEF Mishap, Crash, CallRejected, GatewayCrash, EnqueueRejected, runtimeVars, storeVars,
     signalVars, executorVars, bridgeVars
<1>1. \A r \in Runs : Asked(r) <=> Asked(r)'
  BY <1>0 DEF Asked
<1>2. CASE Crash /\ UNCHANGED gatewayVars
  <2>1. AskedRuns'
    BY <1>0, <1>1, <1>2 DEF Crash, AskedInv, AskedRuns
  <2>2. AbortAsked'
    BY <1>0, <1>2 DEF AskedInv, AbortAsked, Asked, gatewayVars, abortVars
  <2>3. \A t \in Ticks : TickAsked(t)'
    BY <1>2 DEF Crash, TickAsked
  <2> QED
    BY <2>1, <2>2, <2>3 DEF AskedInv
<1>3. ASSUME NEW t \in Ticks, CallRejected(t), UNCHANGED gatewayVars PROVE AskedInv'
  <2>0. /\ controller \in [Runs -> {"absent", "live", "aborted"}]
        /\ event \in [Ticks -> Event]
        /\ pc \in [Ticks -> Looking \cup InHand \cup Locked]
    BY DEF TypeOK, ExecutorTypeOK
  <2>1. \A r \in Runs : controller'[r] = "aborted" => controller[r] = "aborted"
    BY <1>3, <2>0 DEF CallRejected
  <2>2. AskedRuns'
    BY <1>0, <1>1, <2>1 DEF AskedInv, AskedRuns
  <2>3. AbortAsked'
    BY <1>0, <1>3 DEF AskedInv, AbortAsked, Asked, gatewayVars, abortVars
  <2>4. TickAsked(t)'
    <3>1. event'[t] = "none" /\ pc'[t] # "cancelEarly"
      BY <1>3, <2>0 DEF CallRejected, Return
    <3> QED
      BY <3>1 DEF TickAsked
  <2>5. ASSUME NEW u \in Ticks, u # t PROVE TickAsked(u)'
    <3>1. pc'[u] = pc[u] /\ job'[u] = job[u] /\ event'[u] = event[u]
      BY <1>3, <2>5, RejectedEffect
    <3> QED
      BY <1>0, <3>1 DEF AskedInv, TickAsked, Asked
  <2> QED
    BY <2>2, <2>3, <2>4, <2>5 DEF AskedInv
<1>4. CASE (GatewayCrash \/ \E r \in Runs : EnqueueRejected(r)) /\ UNCHANGED executorVars
  <2>1. /\ UNCHANGED <<pc, job, event, controller, codex>>
        /\ \A s \in Sessions : \/ abortStep'[s] = "idle"
                               \/ abortStep'[s] = abortStep[s] /\ abortRun'[s] = abortRun[s]
    BY <1>4 DEF GatewayCrash, EnqueueRejected, executorVars, tickVars, bridgeVars, abortVars
  <2> QED
    BY <1>0, <1>1, <2>1, AskedFrame, AtHasRun
<1> QED
  BY <1>2, <1>3, <1>4 DEF Mishap

(* Every step keeps AskedInv.                                              *)
LEMMA AskedStep ==
  ASSUME IInv, AskedInv, [Next]_vars
  PROVE  AskedInv'
<1>0. TypeOK /\ TickInv /\ SweepInv /\ reaped \subseteq reaped'
  BY SweepInvStep DEF IInv
<1>1. CASE ClockStep \/ UNCHANGED vars
  <2>1. /\ UNCHANGED <<status, cancelRequestedAt, cancelSignal, pc, job, event, controller, codex>>
        /\ UNCHANGED <<abortStep, abortRun, reaped>>
    BY <1>1 DEF ClockStep, LockExpires, HeartbeatAges, HeartbeatEvicted, vars, runtimeVars,
       storeVars, signalVars, executorVars, tickVars, bridgeVars, gatewayVars, abortVars, historyVars
  <2>2. \A r \in Runs : Asked(r) => Asked(r)'
    BY <2>1 DEF Asked
  <2> QED
    BY <1>0, <2>1, <2>2, AskedFrame, AtHasRun
<1> QED
  BY <1>0, <1>1, ExecutorAsks, GatewayAsks, ReaperAsks, MishapAsks DEF Next

(* A run is killed or recorded as cancelled only if a user asked for it or *)
(* the reaper had failed it -- whatever the ticks, the watchers, /abort,   *)
(* the sweeps, crashes and rejected calls do in between.                   *)
THEOREM CancellationAsked == Spec => []CancelledOnRequest
<1>1. Init => AskedInv
  BY DEF Init, RuntimeInit, ExecutorInit, GatewayInit, AskedInv, AskedRuns, AbortAsked, TickAsked
<1>2. IInv /\ AskedInv /\ [Next]_vars => (IInv /\ AskedInv)'
  BY AskedStep, StepInv
<1>3. AskedInv => CancelledOnRequest
  BY DEF AskedInv, AskedRuns, Asked, CancelledOnRequest
<1> QED
  BY <1>1, <1>2, <1>3, InitInv, PTL DEF Spec

---------------------------------------------------------------------------
(* No run is forgotten.  A run that is queued or running has a place: its  *)
(* handler has still to push it, a queue holds it, or a tick does; and a   *)
(* tick that is past its attempt has seen it end, so it may let go of it.  *)

Finishing == {"clearBeat", "clearCancel"} \cup Releasing

EndStatus(t) == pc[t] \in Finishing => Ended(job[t])

Placed(r) ==
  /\ status[r] = "queued" /\ submit[r] = "queued" => Waits(r) \/ InTick(r)
  /\ status[r] = "running" => InTick(r)

KeptInv == mishaps = 0 => (\A r \in Runs : Placed(r)) /\ (\A t \in Ticks : EndStatus(t))

(* A tick keeps its run until it has pushed it back or has seen it end.    *)
LEMMA TickEnds ==
  ASSUME TypeOK, TickInv, NEW t \in Ticks, TickStatus(t), EndStatus(t), Tick(t)
  PROVE  /\ EndStatus(t)'
         /\ \/ job'[t] = job[t]
            \/ job[t] = NoRun
            \/ RequeueRun(t)
            \/ pc[t] \in Releasing
<1> USE DEF runtimeVars, storeVars, lockVars, signalVars, bridgeVars, Move, Return, EndStatus,
        Finishing, Ended, TickStatus, InHand, Locked, Preamble, Attempt, Ending, Releasing, Looking
<1>0. /\ pc[t] \in InHand \cup Locked <=> job[t] # NoRun
      /\ pc[t] \in InHand \cup Locked => job[t] \in Runs
      /\ pc[t] = "persist" => event[t] \in Outcome
      /\ pc \in [Ticks -> Looking \cup InHand \cup Locked]
      /\ job \in [Ticks -> Runs \cup {NoRun}]
      /\ status \in [Runs -> RunStatus]
      /\ Outcome = Terminal
  BY DEF TypeOK, TickInv, ExecutorTypeOK, RuntimeTypeOK, Outcome, Terminal
<1>1. CASE ListWorkspaces(t)
  BY <1>0, <1>1 DEF ListWorkspaces
<1>2. CASE FindNothing(t)
  BY <1>0, <1>2 DEF FindNothing
<1>3. CASE AcquireLock(t)
  BY <1>0, <1>3 DEF AcquireLock
<1>4. CASE SetLockExpiry(t)
  BY <1>0, <1>4 DEF SetLockExpiry
<1>5. CASE StartRun(t)
  BY <1>0, <1>5 DEF StartRun, MarkRun
<1>6. CASE CheckCancel(t)
  BY <1>0, <1>6 DEF CheckCancel
<1>7. CASE CancelEarly(t)
  BY <1>0, <1>7 DEF CancelEarly, MarkRun, Terminal
<1>8. CASE BeginExecute(t)
  BY <1>0, <1>8 DEF BeginExecute
<1>9. CASE FlushMemory(t)
  BY <1>0, <1>9 DEF FlushMemory
<1>10. CASE StartBridge(t)
  BY <1>0, <1>10 DEF StartBridge
<1>11. CASE SpawnCodex(t)
  BY <1>0, <1>11 DEF SpawnCodex
<1>12. CASE CodexOutput(t)
  BY <1>0, <1>12 DEF CodexOutput, Deliver
<1>13. CASE CodexExit(t)
  BY <1>0, <1>13 DEF CodexExit, Deliver
<1>14. CASE NoSpawnCwd(t)
  BY <1>0, <1>14 DEF NoSpawnCwd, Deliver
<1>15. CASE NextEvent(t)
  BY <1>0, <1>15 DEF NextEvent
<1>16. CASE DrainStream(t)
  BY <1>0, <1>16 DEF DrainStream
<1>17. CASE RetryFresh(t)
  BY <1>0, <1>17 DEF RetryFresh
<1>18. CASE TakeOutcome(t)
  BY <1>0, <1>18 DEF TakeOutcome
<1>19. CASE PersistOutcome(t)
  BY <1>0, <1>19 DEF PersistOutcome, MarkRun, Terminal
<1>20. CASE ReportOutcome(t)
  BY <1>0, <1>20 DEF ReportOutcome
<1>21. CASE AttemptThrows(t)
  BY <1>0, <1>21 DEF AttemptThrows
<1>22. CASE CatchFailure(t)
  BY <1>0, <1>22 DEF CatchFailure, MarkRun, Terminal
<1>23. CASE StopWatching(t)
  BY <1>0, <1>23 DEF StopWatching
<1>24. CASE ClearSignal(t)
  BY <1>0, <1>24 DEF ClearSignal
<1>25. CASE ReleaseLock(t)
  BY <1>0, <1>25 DEF ReleaseLock
<1>26. CASE RequeueRun(t)
  BY <1>0, <1>26 DEF RequeueRun
<1>27. CASE ReadLock(t)
  BY <1>0, <1>27 DEF ReadLock
<1>28. ASSUME NEW w \in Workspaces, VisitWorkspace(t, w)
       PROVE  EndStatus(t)' /\ job'[t] = job[t]
  BY <1>0, <1>28 DEF VisitWorkspace
<1>29. CASE PopRun(t)
  BY <1>0, <1>29 DEF PopRun
<1> QED
  BY <1>1, <1>2, <1>3, <1>4, <1>5, <1>6, <1>7, <1>8, <1>9, <1>10, <1>11, <1>12, <1>13,
     <1>14, <1>15, <1>16, <1>17, <1>18, <1>19, <1>20, <1>21, <1>22, <1>23, <1>24, <1>25,
     <1>26, <1>27, <1>28, <1>29 DEF Tick

(* RPUSH makes its run wait and leaves the others waiting.                 *)
LEMMA EnqueueWaits ==
  ASSUME runQueue \in [Workspaces -> Seq(Runs)], NEW r \in Runs, Enqueue(r)
  PROVE  Waits(r)' /\ \A q \in Runs : Waits(q) => Waits(q)'
<1> DEFINE w == WorkspaceOf[r]
           n == Len(runQueue[w])
<1>1. /\ w \in Workspaces
      /\ n \in Nat
      /\ DOMAIN runQueue[w] = 1..n
  BY RuntimeAssumption, LenProperties
<1>2. /\ \A v \in Workspaces \ {w} : runQueue'[v] = runQueue[v]
      /\ DOMAIN runQueue'[w] = 1..n + 1
      /\ runQueue'[w][n + 1] = r
      /\ \A i \in 1..n : runQueue'[w][i] = runQueue[w][i]
  BY EnqueueContents
<1> HIDE DEF n
<1>3. Waits(r)'
  <2>1. n + 1 \in DOMAIN runQueue'[w]
    BY <1>1, <1>2
  <2> QED
    BY <1>2, <2>1 DEF Waits
<1>4. ASSUME NEW q \in Runs, Waits(q) PROVE Waits(q)'
  <2>1. PICK i \in DOMAIN runQueue[WorkspaceOf[q]] : runQueue[WorkspaceOf[q]][i] = q
    BY <1>4 DEF Waits
  <2>2. CASE WorkspaceOf[q] = w
    <3>1. i \in 1..n /\ i \in DOMAIN runQueue'[w] /\ runQueue'[w][i] = q
      BY <1>1, <1>2, <2>1, <2>2
    <3> QED
      BY <2>2, <3>1 DEF Waits
  <2>3. CASE WorkspaceOf[q] # w
    <3>1. runQueue'[WorkspaceOf[q]] = runQueue[WorkspaceOf[q]]
      BY <1>2, <2>3, RuntimeAssumption
    <3> QED
      BY <2>1, <3>1 DEF Waits
  <2> QED
    BY <2>2, <2>3
<1> QED
  BY <1>3, <1>4

(* A run that waits goes on waiting, unless the tick has popped it; one    *)
(* that is pushed back waits.                                              *)
LEMMA WaitingHolds ==
  ASSUME TypeOK, TickInv, QueueInv, NEW t \in Ticks, Tick(t)
  PROVE  /\ \A r \in Runs : Waits(r) => Waits(r)' \/ job'[t] = r
         /\ \A r \in Runs : RequeueRun(t) /\ job[t] = r => Waits(r)'
<1>0. /\ TickEffect(t)
      /\ runQueue \in [Workspaces -> Seq(Runs)]
  BY TickSteps DEF TypeOK, RuntimeTypeOK
<1>1. CASE PopRun(t)
  <2>1. CASE runQueue[at[t]] = <<>>
    BY <1>1, <2>1 DEF PopRun, RequeueRun, Move, Waits
  <2>2. CASE runQueue[at[t]] # <<>>
    <3>1. /\ at[t] \in Workspaces /\ Dequeue(at[t])
          /\ job' = [job EXCEPT ![t] = Head(runQueue[at[t]])]
          /\ job \in [Ticks -> Runs \cup {NoRun}]
      BY <1>1, <2>2 DEF PopRun, TickInv, TypeOK, ExecutorTypeOK
    <3> DEFINE w == at[t]
               q == runQueue[w]
    <3>2. /\ \A v \in Workspaces \ {w} : runQueue'[v] = runQueue[v]
          /\ job'[t] = q[1]
      BY <1>0, <2>2, <3>1, DequeueContents
    <3>3. \A i \in DOMAIN q \ {1} : i - 1 \in DOMAIN runQueue'[w] /\ runQueue'[w][i - 1] = q[i]
      <4>1. q \in Seq(Runs) /\ q # <<>> /\ runQueue'[w] = Tail(q)
        BY <1>0, <2>2, <3>1 DEF Dequeue
      <4> HIDE DEF q, w
      <4>2. /\ Len(Tail(q)) = Len(q) - 1
            /\ \A i \in 1..Len(Tail(q)) : Tail(q)[i] = q[i + 1]
            /\ Tail(q) \in Seq(Runs)
        BY <4>1, HeadTailProperties
      <4>3. /\ Len(q) \in Nat
            /\ DOMAIN q = 1..Len(q)
            /\ DOMAIN Tail(q) = 1..Len(Tail(q))
        BY <4>1, <4>2, LenProperties
      <4> QED
        BY <4>1, <4>2, <4>3
    <3> HIDE DEF q
    <3>4. ASSUME NEW r \in Runs, Waits(r) PROVE Waits(r)' \/ job'[t] = r
      <4>1. PICK i \in DOMAIN runQueue[WorkspaceOf[r]] : runQueue[WorkspaceOf[r]][i] = r
        BY <3>4 DEF Waits
      <4>2. WorkspaceOf[r] \in Workspaces
        BY RuntimeAssumption
      <4> QED
        BY <3>2, <3>3, <4>1, <4>2 DEF Waits, q
    <3>5. ~RequeueRun(t)
      BY <1>1 DEF PopRun, RequeueRun, Move
    <3> QED
      BY <3>4, <3>5
  <2> QED
    BY <2>1, <2>2
<1>2. CASE RequeueRun(t)
  <2>1. Enqueue(job[t]) /\ job[t] \in Runs
    BY <1>2 DEF RequeueRun, Move, TickInv, TypeOK, ExecutorTypeOK, InHand
  <2>2. /\ \A r \in Runs : Waits(r) => Waits(r)'
        /\ \A r \in Runs : job[t] = r => Waits(r)'
    BY <1>0, <2>1, EnqueueWaits
  <2> QED
    BY <2>2
<1>3. CASE runQueue' = runQueue /\ ~RequeueRun(t)
  BY <1>3 DEF Waits
<1> QED
  BY <1>0, <1>1, <1>2, <1>3 DEF TickEffect

(* A step of a tick loses no run.                                          *)
LEMMA TickKeepsPlace ==
  ASSUME LInv, mishaps = 0, KeptInv,
         NEW t \in Ticks, Tick(t), UNCHANGED <<gatewayVars, historyVars>>
  PROVE  KeptInv'
<1>0. /\ TypeOK /\ TickInv /\ QueueInv /\ JobInv /\ QueueStatus
      /\ \A u \in Ticks : TickStatus(u) /\ EndStatus(u)
      /\ \A r \in Runs : Placed(r)
      /\ UNCHANGED <<submit, reaped, botched>>
      /\ job \in [Ticks -> Runs \cup {NoRun}]
      /\ status \in [Runs -> RunStatus]
  BY DEF LInv, IInv, StatusInv, KeptInv, gatewayVars, submitVars, historyVars, TypeOK,
         ExecutorTypeOK, RuntimeTypeOK
<1>1. /\ \/ UNCHANGED status
         \/ Starts(job[t]) /\ pc[t] \in Locked
         \/ \E s \in Terminal : Outcomes(job[t], s) /\ pc[t] \in Locked
      /\ \A u \in Ticks \ {t} : pc'[u] = pc[u] /\ job'[u] = job[u]
  BY <1>0, TickWrites, TickSteps DEF TickEffect
<1>2. /\ EndStatus(t)'
      /\ job'[t] = job[t] \/ job[t] = NoRun \/ RequeueRun(t) \/ pc[t] \in Releasing
  BY <1>0, TickEnds
<1>3. /\ \A r \in Runs : Waits(r) => Waits(r)' \/ job'[t] = r
      /\ \A r \in Runs : RequeueRun(t) /\ job[t] = r => Waits(r)'
  BY <1>0, WaitingHolds
<1>4. ASSUME NEW u \in Ticks PROVE EndStatus(u)'
  <2>1. CASE u = t
    BY <1>2, <2>1
  <2>2. CASE u # t /\ pc[u] \in Finishing
    <3>1. job[u] \in Runs /\ job[u] # job[t]
      BY <1>0, <2>2 DEF TickInv, JobInv, Finishing, Releasing, Locked, Ending
    <3>2. status'[job[u]] = status[job[u]]
      BY <1>0, <1>1, <3>1 DEF Starts, Outcomes
    <3> QED
      BY <1>0, <1>1, <2>2, <3>2 DEF EndStatus, Ended
  <2>3. CASE u # t /\ pc[u] \notin Finishing
    BY <1>1, <2>3 DEF EndStatus
  <2> QED
    BY <2>1, <2>2, <2>3
<1>5. ASSUME NEW r \in Runs PROVE Placed(r)'
  <2>1. ASSUME status'[r] \notin Terminal, InTick(r)
        PROVE  (Waits(r)' /\ status[r] = "queued") \/ InTick(r)'
    <3>1. PICK u \in Ticks : job[u] = r
      BY <2>1 DEF InTick
    <3>2. CASE u # t
      BY <1>1, <3>1, <3>2 DEF InTick
    <3>3. CASE u = t /\ job'[t] = job[t]
      BY <3>1, <3>3 DEF InTick
    <3>4. CASE u = t /\ RequeueRun(t)
      <4>1. status[r] = "queued"
        BY <1>0, <3>1, <3>4 DEF RequeueRun, Move, TickStatus, BeforeStart, InHand
      <4> QED
        BY <1>3, <3>1, <3>4, <4>1
    <3>5. CASE u = t /\ pc[t] \in Releasing
      <4>1. status[r] \in Terminal
        BY <1>0, <3>1, <3>5 DEF EndStatus, Ended, Finishing
      <4>2. ~Starts(job[t])
        BY <3>1, <3>5, <4>1 DEF Starts, Terminal
      <4> QED
        BY <1>0, <1>1, <2>1, <3>1, <3>5, <4>1, <4>2 DEF Outcomes
    <3> QED
      BY <1>2, <3>1, <3>2, <3>3, <3>4, <3>5, RuntimeAssumption
  <2>2. CASE status'[r] = status[r]
    <3>1. status'[r] = "queued" /\ submit'[r] = "queued" => Waits(r)' \/ InTick(r)'
      BY <1>0, <1>3, <2>1, <2>2 DEF Placed, InTick, Terminal
    <3>2. status'[r] = "running" => InTick(r)'
      BY <1>0, <2>1, <2>2 DEF Placed, Terminal
    <3> QED
      BY <3>1, <3>2 DEF Placed
  <2>3. CASE Starts(job[t]) /\ r = job[t] /\ pc[t] \in Locked
    <3>1. pc[t] \notin Releasing /\ ~RequeueRun(t)
      BY <1>0, <2>3 DEF Starts, EndStatus, Ended, Finishing, Terminal, RequeueRun, Move, Locked,
         Preamble, Attempt, Ending, Releasing
    <3>2. InTick(r)'
      BY <1>0, <1>2, <2>3, <3>1, RuntimeAssumption DEF InTick
    <3> QED
      BY <3>2 DEF Placed
  <2>4. CASE status'[r] \in Terminal
    BY <2>4 DEF Placed, Terminal
  <2> QED
    BY <1>0, <1>1, <2>2, <2>3, <2>4 DEF Starts, Outcomes
<1> QED
  BY <1>4, <1>5 DEF KeptInv

(* A step that takes no run from a queue or a tick loses none.             *)
LEMMA KeptFrame ==
  ASSUME LInv, mishaps = 0, KeptInv, UNCHANGED <<pc, job>>,
         \A r \in Runs : Waits(r) => Waits(r)',
         \A r \in Runs :
           \/ status'[r] = status[r] /\ (submit'[r] = "queued" => submit[r] = "queued" \/ Waits(r)')
           \/ status'[r] \in Terminal
           \/ submit'[r] # "queued" /\ status[r] = "none" /\ status'[r] = "queued"
  PROVE  KeptInv'
<1>0. TypeOK /\ TickInv
  BY DEF LInv, IInv
<1>1. ASSUME NEW r \in Runs PROVE Placed(r)'
  BY DEF KeptInv, Placed, InTick, Terminal
<1>2. ASSUME NEW t \in Ticks PROVE EndStatus(t)'
  <2>1. pc[t] \in Finishing => job[t] \in Runs
    BY <1>0 DEF TypeOK, TickInv, ExecutorTypeOK, Finishing, Releasing, Locked, Ending
  <2> QED
    BY <2>1 DEF KeptInv, EndStatus, Ended, Terminal
<1> QED
  BY <1>1, <1>2 DEF KeptInv

(* Nor does a prompt, whose run is queued behind the others.               *)
LEMMA GatewayKeepsPlace ==
  ASSUME LInv, mishaps = 0, KeptInv, GatewayStep
  PROVE  KeptInv'
<1>0. /\ UNCHANGED <<pc, job>>
      /\ status \in [Runs -> RunStatus]
      /\ submit \in [Runs -> {"none", "created", "queued", "lost"}]
      /\ runQueue \in [Workspaces -> Seq(Runs)]
      /\ SubmitStatus
  BY DEF GatewayStep, executorVars, tickVars, LInv, IInv, StatusInv, TypeOK, RuntimeTypeOK,
         GatewayTypeOK
<1>1. ASSUME NEW r \in Runs, CreateQueuedRun(r) PROVE KeptInv'
  <2>1. /\ runQueue' = runQueue
        /\ status' = [status EXCEPT ![r] = "queued"]
        /\ submit' = [submit EXCEPT ![r] = "created"]
        /\ status[r] = "none"
    BY <1>0, <1>1 DEF CreateQueuedRun, MarkRun, SubmitStatus
  <2>2. \A q \in Runs : Waits(q) => Waits(q)'
    BY <2>1 DEF Waits
  <2> QED
    BY <1>0, <2>1, <2>2, KeptFrame
<1>2. ASSUME NEW r \in Runs, EnqueueRun(r) PROVE KeptInv'
  <2>1. /\ Enqueue(r)
        /\ status' = status
        /\ submit' = [submit EXCEPT ![r] = "queued"]
    BY <1>2 DEF EnqueueRun, storeVars
  <2>2. Waits(r)' /\ \A q \in Runs : Waits(q) => Waits(q)'
    BY <1>0, <2>1, EnqueueWaits
  <2> QED
    BY <1>0, <2>1, <2>2, KeptFrame
<1>3. ASSUME NEW s \in Sessions, Abort(s) PROVE KeptInv'
  <2>1. UNCHANGED <<runQueue, status, submit>>
    BY <1>3 DEF Abort, AbortFind, AbortMark, AbortSignal, runtimeVars, storeVars, submitVars
  <2>2. \A q \in Runs : Waits(q) => Waits(q)'
    BY <2>1 DEF Waits
  <2> QED
    BY <1>0, <2>1, <2>2, KeptFrame
<1> QED
  BY <1>1, <1>2, <1>3 DEF GatewayStep, Submission

(* A step with no mishap so far keeps every run in its place.              *)
LEMMA KeptStep ==
  ASSUME LInv, KeptInv, [Next]_vars
  PROVE  KeptInv'
<1> SUFFICES ASSUME mishaps' = 0 PROVE KeptInv'
  BY DEF KeptInv
<1>0. ~Mishap /\ mishaps = 0
  <2>1. mishaps \in 0..MaxMishaps /\ MaxMishaps \in Nat
    BY ExecutionAssumption DEF LInv, IInv, TypeOK
  <2>2. ~Mishap
    BY <2>1 DEF Mishap
  <2>3. UNCHANGED mishaps
    BY <2>2 DEF Next, ExecutorStep, GatewayStep, ReaperStep, ClockStep, LockExpires, historyVars, vars
  <2> QED
    BY <2>2, <2>3
<1>1. CASE ExecutorStep
  <2>1. ASSUME NEW r \in Runs, WatcherFires(r) \/ OrphanExits(r) PROVE KeptInv'
    <3>1. UNCHANGED <<status, runQueue, pc, job, submit>>
      BY <1>1, <2>1 DEF ExecutorStep, WatcherFires, OrphanExits, runtimeVars, storeVars, tickVars,
         gatewayVars, submitVars
    <3>2. \A q \in Runs : Waits(q) => Waits(q)'
      BY <3>1 DEF Waits
    <3> QED
      BY <1>0, <3>1, <3>2, KeptFrame
  <2> QED
    BY <1>0, <1>1, <2>1, TickKeepsPlace DEF ExecutorStep
<1>2. CASE ReaperStep
  <2>1. PICK k \in Sweeps : Sweep(k)
    BY <1>2 DEF ReaperStep
  <2>2. UNCHANGED <<runQueue, pc, job, submit>>
    BY <1>2, <2>1 DEF ReaperStep, Sweep, FindExpired, InspectRun, DiscardHeartbeat, FailExpiredRun,
       CancelExpiredRun, ClearExpiredBeat, ReadExpiredLock, ReleaseExpiredLock, EndSweep,
       runtimeVars, executorVars, tickVars, submitVars
  <2>3. status \in [Runs -> RunStatus]
    BY DEF LInv, IInv, TypeOK, RuntimeTypeOK
  <2>4. \A r \in Runs : status'[r] = status[r] \/ status'[r] \in Terminal
    BY <2>1, <2>3 DEF Sweep, FindExpired, InspectRun, DiscardHeartbeat, FailExpiredRun,
       CancelExpiredRun, ClearExpiredBeat, ReadExpiredLock, ReleaseExpiredLock, EndSweep,
       runtimeVars, storeVars, MarkRun, Terminal
  <2>5. \A q \in Runs : Waits(q) => Waits(q)'
    BY <2>2 DEF Waits
  <2> QED
    BY <1>0, <2>2, <2>4, <2>5, KeptFrame
<1>3. CASE ClockStep \/ UNCHANGED vars
  <2>1. UNCHANGED <<status, runQueue, pc, job, submit>>
    BY <1>3 DEF ClockStep, LockExpires, HeartbeatAges, HeartbeatEvicted, vars, runtimeVars,
       storeVars, executorVars, tickVars, gatewayVars, submitVars
  <2>2. \A q \in Runs : Waits(q) => Waits(q)'
    BY <2>1 DEF Waits
  <2> QED
    BY <1>0, <2>1, <2>2, KeptFrame
<1> QED
  BY <1>0, <1>1, <1>2, <1>3, GatewayKeepsPlace DEF Next

(* LInv is an invariant: where a run is tells its status.                  *)
LEMMA StatusesKnown == Spec => []LInv
<1>1. Init => LInv
  <2>1. Init => StatusInv
    BY DEF Init, RuntimeInit, ExecutorInit, GatewayInit, StatusInv, SubmitStatus, QueueStatus,
       SweepStatus, TickStatus, BeforeStart, AtWork, InHand, Attempt
  <2> QED
    BY <2>1, InitInv DEF LInv
<1> QED
  BY <1>1, StepImplements, PTL DEF Spec

(* As long as no call is rejected and no process dies, a queued run waits  *)
(* in Redis or is in the hands of a tick and a running one is in the hands *)
(* of a tick: the LPOP without an acknowledgement, the requeue of a run    *)
(* whose workspace is locked and the reaper lose none.                     *)
THEOREM NobodyStranded == Spec => []NoStrandedRun
<1>1. Init => KeptInv
  BY DEF Init, RuntimeInit, ExecutorInit, KeptInv, Placed, EndStatus, Finishing, Releasing
<1>2. LInv /\ KeptInv /\ [Next]_vars => KeptInv'
  BY KeptStep
<1>3. KeptInv => NoStrandedRun
  BY DEF KeptInv, Placed, NoStrandedRun
<1> QED
  BY <1>1, <1>2, <1>3, StatusesKnown, PTL DEF Spec

---------------------------------------------------------------------------
(* Nothing is left behind.  What a run owns besides its row goes with the  *)
(* step its tick is at; a run in the hands of no tick owns nothing.        *)

Bare(r) ==
  /\ lock[WorkspaceOf[r]] # r
  /\ heartbeat[r] = "none"
  /\ watcher[r] = "off"
  /\ controller[r] = "absent"
  /\ codex[r] = "none"

Executing == Attempt \cup {"persist", "report", "catch", "clearBeat"}
Bridged   == {"spawn", "stream", "check", "persist", "report"}

Clean(t) ==
  job[t] # NoRun =>
    /\ pc[t] \in InHand => lock[WorkspaceOf[job[t]]] # job[t]
    /\ pc[t] \notin Executing => heartbeat[job[t]] = "none" /\ watcher[job[t]] = "off"
    /\ pc[t] \notin Bridged => controller[job[t]] = "absent"
    /\ codex[job[t]] # "none" => pc[t] \in {"stream", "check"}
    /\ codex[job[t]] # "none" /\ pc[t] = "check" => event[t] = "delta"

TidyInv == mishaps = 0 => (\A t \in Ticks : Clean(t)) /\ (\A r \in Runs : ~InTick(r) => Bare(r))

(* A tick touches what its own run owns, and lets go of a bare run only.   *)
LEMMA TickTidies ==
  ASSUME TypeOK, TickInv, NEW t \in Ticks, Clean(t), Tick(t)
  PROVE  /\ job'[t] = job[t] => Clean(t)'
         /\ \A r \in Runs : job[t] = r /\ job'[t] # r => Bare(r)'
         /\ job'[t] # job[t] /\ job'[t] # NoRun => pc'[t] = "acquire"
         /\ \A r \in Runs : job[t] # r =>
              /\ lock'[WorkspaceOf[r]] = r => lock[WorkspaceOf[r]] = r
              /\ heartbeat'[r] = heartbeat[r]
              /\ watcher'[r] = watcher[r]
              /\ controller'[r] = controller[r]
              /\ codex'[r] = codex[r]
<1> USE DEF runtimeVars, storeVars, lockVars, signalVars, bridgeVars, Move, Return, Clean, Bare,
        Executing, Bridged, InHand, Locked, Preamble, Attempt, Ending, Releasing, Looking
<1>0. /\ pc[t] \in InHand \cup Locked <=> job[t] # NoRun
      /\ job[t] # NoRun => job[t] \in Runs
      /\ pc \in [Ticks -> Looking \cup InHand \cup Locked]
      /\ job \in [Ticks -> Runs \cup {NoRun}]
      /\ event \in [Ticks -> Event]
      /\ lock \in [Workspaces -> Runs \cup {NoRun}]
      /\ heartbeat \in [Runs -> Heartbeat]
      /\ watcher \in [Runs -> {"off", "polling", "fired"}]
      /\ controller \in [Runs -> {"absent", "live", "aborted"}]
      /\ codex \in [Runs -> {"none", "running", "killed"}]
      /\ \A r \in Runs : WorkspaceOf[r] \in Workspaces /\ r # NoRun
  BY RuntimeAssumption DEF TypeOK, TickInv, ExecutorTypeOK, RuntimeTypeOK
<1>1. CASE ListWorkspaces(t)
  BY <1>0, <1>1 DEF ListWorkspaces
<1>2. CASE FindNothing(t)
  BY <1>0, <1>2 DEF FindNothing
<1>3. CASE AcquireLock(t)
  BY <1>0, <1>3 DEF AcquireLock, SetLock
<1>4. CASE SetLockExpiry(t)
  BY <1>0, <1>4 DEF SetLockExpiry, ExpireLock
<1>5. CASE StartRun(t)
  BY <1>0, <1>5 DEF StartRun
<1>6. CASE CheckCancel(t)
  BY <1>0, <1>6 DEF CheckCancel
<1>7. CASE CancelEarly(t)
  BY <1>0, <1>7 DEF CancelEarly
<1>8. CASE BeginExecute(t)
  BY <1>0, <1>8 DEF BeginExecute, Beat
<1>9. CASE FlushMemory(t)
  BY <1>0, <1>9 DEF FlushMemory
<1>10. CASE StartBridge(t)
  BY <1>0, <1>10 DEF StartBridge
<1>11. CASE SpawnCodex(t)
  BY <1>0, <1>11 DEF SpawnCodex
<1>12. CASE CodexOutput(t)
  BY <1>0, <1>12 DEF CodexOutput, Deliver, Beat
<1>13. CASE CodexExit(t)
  BY <1>0, <1>13 DEF CodexExit, Deliver, Beat, ExitEvents
<1>14. CASE NoSpawnCwd(t)
  BY <1>0, <1>14 DEF NoSpawnCwd, Deliver, Beat
<1>15. CASE NextEvent(t)
  BY <1>0, <1>15 DEF NextEvent
<1>16. CASE DrainStream(t)
  BY <1>0, <1>16 DEF DrainStream
<1>17. CASE RetryFresh(t)
  BY <1>0, <1>17 DEF RetryFresh
<1>18. CASE TakeOutcome(t)
  BY <1>0, <1>18 DEF TakeOutcome, Outcome
<1>19. CASE PersistOutcome(t)
  BY <1>0, <1>19 DEF PersistOutcome
<1>20. CASE ReportOutcome(t)
  BY <1>0, <1>20 DEF ReportOutcome
<1>21. CASE AttemptThrows(t)
  BY <1>0, <1>21 DEF AttemptThrows
<1>22. CASE CatchFailure(t)
  BY <1>0, <1>22 DEF CatchFailure
<1>23. CASE StopWatching(t)
  BY <1>0, <1>23 DEF StopWatching, ClearBeat
<1>24. CASE ClearSignal(t)
  BY <1>0, <1>24 DEF ClearSignal
<1>25. CASE ReleaseLock(t)
  BY <1>0, <1>25 DEF ReleaseLock, DeleteLock
<1>26. CASE RequeueRun(t)
  BY <1>0, <1>26 DEF RequeueRun
<1>27. CASE ReadLock(t)
  BY <1>0, <1>27 DEF ReadLock
<1>28. ASSUME NEW w \in Workspaces, VisitWorkspace(t, w)
       PROVE  /\ Clean(t)'
              /\ job' = job
              /\ UNCHANGED <<lock, heartbeat, watcher, controller, codex>>
  BY <1>0, <1>28 DEF VisitWorkspace
<1>29. CASE PopRun(t)
  BY <1>0, <1>29 DEF PopRun
<1> QED
  BY <1>1, <1>2, <1>3, <1>4, <1>5, <1>6, <1>7, <1>8, <1>9, <1>10, <1>11, <1>12, <1>13,
     <1>14, <1>15, <1>16, <1>17, <1>18, <1>19, <1>20, <1>21, <1>22, <1>23, <1>24, <1>25,
     <1>26, <1>27, <1>28, <1>29 DEF Tick

(* A step that gives no run anything leaves the rest tidy.                 *)
LEMMA TidyFrame ==
  ASSUME TypeOK, TickInv, mishaps = 0, TidyInv, UNCHANGED <<pc, job, event>>,
         \A r \in Runs :
           /\ lock'[WorkspaceOf[r]] = r => lock[WorkspaceOf[r]] = r
           /\ heartbeat[r] = "none" => heartbeat'[r] = "none"
           /\ watcher[r] = "off" => watcher'[r] = "off"
           /\ controller[r] = "absent" => controller'[r] = "absent"
           /\ codex[r] = "none" => codex'[r] = "none"
  PROVE  TidyInv'
<1>1. ASSUME NEW t \in Ticks PROVE Clean(t)'
  <2>1. job[t] # NoRun => job[t] \in Runs
    BY DEF TypeOK, ExecutorTypeOK
  <2> QED
    BY <2>1 DEF TidyInv, Clean
<1>2. ASSUME NEW r \in Runs, ~InTick(r)' PROVE Bare(r)'
  BY <1>2 DEF TidyInv, Bare, InTick
<1> QED
  BY <1>1, <1>2 DEF TidyInv

(* A tick leaves nothing behind.                                           *)
LEMMA TickKeepsTidy ==
  ASSUME IInv, JobInv', mishaps = 0, TidyInv, NEW t \in Ticks, Tick(t)
  PROVE  TidyInv'
<1>0. /\ TypeOK /\ TickInv /\ JobInv
      /\ \A u \in Ticks : Clean(u)
      /\ \A r \in Runs : ~InTick(r) => Bare(r)
      /\ job \in [Ticks -> Runs \cup {NoRun}]
      /\ NoRun \notin Runs
  BY RuntimeAssumption DEF IInv, TidyInv, TypeOK, ExecutorTypeOK
<1>1. /\ job'[t] = job[t] => Clean(t)'
      /\ \A r \in Runs : job[t] = r /\ job'[t] # r => Bare(r)'
      /\ job'[t] # job[t] /\ job'[t] # NoRun => pc'[t] = "acquire"
      /\ \A r \in Runs : job[t] # r =>
           /\ lock'[WorkspaceOf[r]] = r => lock[WorkspaceOf[r]] = r
           /\ heartbeat'[r] = heartbeat[r]
           /\ watcher'[r] = watcher[r]
           /\ controller'[r] = controller[r]
           /\ codex'[r] = codex[r]
  BY <1>0, TickTidies
<1>2. \A u \in Ticks \ {t} : pc'[u] = pc[u] /\ job'[u] = job[u] /\ event'[u] = event[u]
  BY <1>0, TickSteps DEF TickEffect
<1>3. ASSUME NEW r \in Runs, ~InTick(r)' PROVE Bare(r)'
  <2>1. CASE job[t] = r
    BY <1>1, <1>3, <2>1 DEF InTick
  <2>2. CASE job[t] # r
    <3>1. ~InTick(r)
      BY <1>2, <1>3, <2>2 DEF InTick
    <3> QED
      BY <1>0, <1>1, <2>2, <3>1 DEF Bare
  <2> QED
    BY <2>1, <2>2
<1>4. ASSUME NEW u \in Ticks, u # t PROVE Clean(u)'
  <2>1. job[u] # NoRun => job[u] \in Runs /\ job[u] # job[t]
    BY <1>0, <1>4 DEF JobInv
  <2> QED
    BY <1>0, <1>1, <1>2, <1>4, <2>1 DEF Clean
<1>5. Clean(t)'
  <2>1. CASE job'[t] = job[t]
    BY <1>1, <2>1
  <2>2. CASE job'[t] = NoRun
    BY <2>2 DEF Clean
  <2>3. CASE job'[t] # job[t] /\ job'[t] # NoRun
    <3>1. job'[t] \in Runs /\ pc'[t] = "acquire"
      BY <1>0, <1>1, <2>3, TickTyped DEF ExecutorTypeOK
    <3>2. ~InTick(job'[t])
      <4>1. \A u \in Ticks : job[u] # job'[t]
        BY <1>2, <2>3 DEF JobInv
      <4> QED
        BY <4>1 DEF InTick
    <3>3. Bare(job'[t])
      BY <1>0, <3>1, <3>2
    <3> QED
      BY <1>1, <2>3, <3>1, <3>3 DEF Clean, Bare, Executing, Attempt, Bridged
  <2> QED
    BY <2>1, <2>2, <2>3
<1> QED
  BY <1>3, <1>4, <1>5 DEF TidyInv

(* Every step taken with no mishap leaves the rest tidy.                   *)
LEMMA TidyStep ==
  ASSUME IInv, IInv', TidyInv, [Next]_vars
  PROVE  TidyInv'
<1> SUFFICES ASSUME mishaps' = 0 PROVE TidyInv'
  BY DEF TidyInv
<1>0. /\ TypeOK /\ TickInv /\ JobInv'
      /\ mishaps = 0
      /\ ~Mishap
  <2>1. mishaps \in 0..MaxMishaps /\ MaxMishaps \in Nat
    BY ExecutionAssumption DEF IInv, TypeOK
  <2>2. ~Mishap
    BY <2>1 DEF Mishap
  <2>3. UNCHANGED mishaps
    BY <2>2 DEF Next, ExecutorStep, GatewayStep, ReaperStep, ClockStep, LockExpires, historyVars, vars
  <2> QED
    BY <2>2, <2>3 DEF IInv
<1>1. CASE ExecutorStep
  <2>1. ASSUME NEW r \in Runs, WatcherFires(r) \/ OrphanExits(r) PROVE TidyInv'
    <3>0. /\ watcher \in [Runs -> {"off", "polling", "fired"}]
          /\ controller \in [Runs -> {"absent", "live", "aborted"}]
          /\ codex \in [Runs -> {"none", "running", "killed"}]
      BY <1>0 DEF TypeOK, ExecutorTypeOK
    <3>1. UNCHANGED <<pc, job, event, lock, heartbeat>>
      BY <2>1 DEF WatcherFires, OrphanExits, runtimeVars, lockVars, signalVars, tickVars
    <3>2. \A q \in Runs :
            /\ watcher[q] = "off" => watcher'[q] = "off"
            /\ controller[q] = "absent" => controller'[q] = "absent"
            /\ codex[q] = "none" => codex'[q] = "none"
      BY <2>1, <3>0 DEF WatcherFires, OrphanExits
    <3> QED
      BY <1>0, <3>1, <3>2, TidyFrame
  <2> QED
    BY <1>0, <1>1, <2>1, TickKeepsTidy DEF ExecutorStep
<1>2. CASE GatewayStep \/ UNCHANGED vars
  <2>1. UNCHANGED <<pc, job, event, lock, heartbeat, watcher, controller, codex>>
    BY <1>2 DEF GatewayStep, Submission, CreateQueuedRun, EnqueueRun, Abort, AbortFind, AbortMark,
       AbortSignal, vars, runtimeVars, lockVars, signalVars, executorVars, tickVars, bridgeVars
  <2> QED
    BY <1>0, <2>1, TidyFrame
<1>3. CASE ReaperStep \/ ClockStep
  <2>0. /\ lock \in [Workspaces -> Runs \cup {NoRun}]
        /\ heartbeat \in [Runs -> Heartbeat]
        /\ \A r \in Runs : WorkspaceOf[r] \in Workspaces /\ r # NoRun
    BY <1>0, RuntimeAssumption DEF TypeOK, RuntimeTypeOK
  <2>1. UNCHANGED <<pc, job, event, watcher, controller, codex>>
    BY <1>3 DEF ReaperStep, ClockStep, LockExpires, executorVars, tickVars, bridgeVars
  <2>2. \/ UNCHANGED lock
        \/ \E w : DeleteLock(w)
    BY <1>3 DEF ReaperStep, Sweep, FindExpired, InspectRun, DiscardHeartbeat, FailExpiredRun,
       CancelExpiredRun, ClearExpiredBeat, ReadExpiredLock, ReleaseExpiredLock, EndSweep,
       ClockStep, LockExpires, HeartbeatAges, HeartbeatEvicted, runtimeVars, lockVars
  <2>3. \/ UNCHANGED heartbeat
        \/ \E r : ClearBeat(r)
        \/ \E r \in Runs : HeartbeatAges(r)
    BY <1>3 DEF ReaperStep, Sweep, FindExpired, InspectRun, DiscardHeartbeat, FailExpiredRun,
       CancelExpiredRun, ClearExpiredBeat, ReadExpiredLock, ReleaseExpiredLock, EndSweep,
       ClockStep, LockExpires, HeartbeatEvicted, runtimeVars, signalVars
  <2>4. \A r \in Runs : lock'[WorkspaceOf[r]] = r => lock[WorkspaceOf[r]] = r
    BY <2>0, <2>2 DEF DeleteLock
  <2>5. \A r \in Runs : heartbeat[r] = "none" => heartbeat'[r] = "none"
    BY <2>0, <2>3 DEF ClearBeat, HeartbeatAges
  <2> QED
    BY <1>0, <2>1, <2>4, <2>5, TidyFrame
<1> QED
  BY <1>0, <1>1, <1>2, <1>3 DEF Next

(* As long as no call is rejected and no process dies, the finally blocks  *)
(* leave nothing behind: every lock, heartbeat, watcher, abort controller  *)
(* and codex process belongs to a run that a tick still has under its lock. *)
THEOREM NothingLeftBehind == Spec => []NoLeftovers
<1>1. Init => TidyInv
  <2>1. \A r \in Runs : WorkspaceOf[r] \in Workspaces /\ r # NoRun
    BY RuntimeAssumption
  <2> QED
    BY <2>1 DEF Init, RuntimeInit, ExecutorInit, TidyInv, Clean, Bare
<1>2. IInv /\ [Next]_vars => IInv'
  BY StepInv
<1>3. IInv /\ IInv' /\ TidyInv /\ [Next]_vars => TidyInv'
  BY TidyStep
<1>4. IInv /\ TidyInv => NoLeftovers
  <2> SUFFICES ASSUME IInv, TidyInv, mishaps = 0, NEW r \in Runs,
                      ~ \E t \in Ticks : Holds(t, r)
               PROVE  Bare(r)
    BY DEF NoLeftovers, Bare
  <2>1. CASE ~InTick(r)
    BY <2>1 DEF TidyInv
  <2>2. CASE InTick(r)
    <3>1. PICK t \in Ticks : job[t] = r
      BY <2>2 DEF InTick
    <3>2. pc[t] \in InHand /\ r # NoRun
      BY <3>1, RuntimeAssumption DEF IInv, TickInv, Holds
    <3> QED
      BY <3>1, <3>2 DEF TidyInv, Clean, Bare, InHand, Executing, Attempt, Bridged
  <2> QED
    BY <2>1, <2>2
<1> QED
  BY <1>1, <1>2, <1>3, <1>4, InitInv, PTL DEF Spec
===========================================================================

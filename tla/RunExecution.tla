--------------------------- MODULE RunExecution ---------------------------
(***************************************************************************)
(* The gateway and the executor over the shared runtime: from the prompt   *)
(* to the end of the run, with lock and heartbeat expiry, crashes of       *)
(* either process and rejected calls.                                      *)
(***************************************************************************)
EXTENDS Executor, Gateway

CONSTANTS
  MaxMishaps,   \* bound on crashes and rejected calls together
  Hangs         \* the runs whose codex may work for ever

ASSUME ExecutionAssumption == MaxMishaps \in Nat /\ Hangs \subseteq Runs

(* History of what happened to runs while a tick was at work on them; no   *)
(* guard reads it.                                                         *)
VARIABLES
  expired,   \* the lock expired while a tick held it
  reaped,    \* the reaper declared the run failed
  botched,   \* its outcome was stored, then reporting it was rejected
  mishaps    \* crashes and rejected calls so far

historyVars == <<expired, reaped, botched, mishaps>>
vars == <<runtimeVars, executorVars, gatewayVars, historyVars>>

TypeOK ==
  /\ RuntimeTypeOK
  /\ ExecutorTypeOK
  /\ GatewayTypeOK
  /\ expired \subseteq Runs
  /\ reaped \subseteq Runs
  /\ botched \subseteq Runs
  /\ mishaps \in 0..MaxMishaps

Init ==
  /\ RuntimeInit
  /\ ExecutorInit
  /\ GatewayInit
  /\ expired = {}
  /\ reaped = {}
  /\ botched = {}
  /\ mishaps = 0

(* The 30 s of a workspace lock are over; nothing renews them.             *)
LockExpires(w) ==
  /\ lock[w] # NoRun
  /\ lockTtl[w]
  /\ DeleteLock(w)
  /\ expired' = IF \E t \in Ticks : Holds(t, lock[w])
                  THEN expired \cup {lock[w]} ELSE expired
  /\ UNCHANGED <<storeVars, runQueue, signalVars, executorVars, gatewayVars, reaped,
                 botched, mishaps>>

ExecutorStep ==
  /\ \/ \E t \in Ticks : Tick(t)
     \/ \E r \in Runs : WatcherFires(r) \/ OrphanExits(r)
  /\ UNCHANGED <<gatewayVars, historyVars>>

GatewayStep ==
  /\ \/ \E r \in Runs : Submission(r)
     \/ \E s \in Sessions : Abort(s)
  /\ UNCHANGED <<executorVars, historyVars>>

ReaperStep ==
  /\ \E k \in Sweeps :
       /\ Sweep(k)
       /\ reaped' = IF sweepStep[k] = "fail" THEN reaped \cup {sweepRun[k]} ELSE reaped
  /\ UNCHANGED <<executorVars, expired, botched, mishaps>>

ClockStep ==
  \/ \E w \in Workspaces : LockExpires(w)
  \/ /\ \E r \in Runs : HeartbeatAges(r) \/ HeartbeatEvicted(r)
     /\ UNCHANGED <<executorVars, gatewayVars, historyVars>>

Mishap ==
  /\ mishaps < MaxMishaps
  /\ mishaps' = mishaps + 1
  /\ \/ /\ Crash
        /\ UNCHANGED <<gatewayVars, botched>>
     \/ /\ \E t \in Ticks :
             /\ CallRejected(t)
             /\ botched' = IF pc[t] = "report" THEN botched \cup {job[t]} ELSE botched
        /\ UNCHANGED gatewayVars
     \/ /\ GatewayCrash \/ \E r \in Runs : EnqueueRejected(r)
        /\ UNCHANGED <<executorVars, botched>>
  /\ UNCHANGED <<expired, reaped>>

Next == ExecutorStep \/ GatewayStep \/ ReaperStep \/ ClockStep \/ Mishap

Spec == Init /\ [][Next]_vars

---------------------------------------------------------------------------
(* Fairness.  Both processes keep running (setInterval polls for ever and  *)
(* a call that is awaited settles); codex is a program that ends, but for  *)
(* the runs in Hangs.                                                      *)

TickStep(t) == Tick(t) /\ UNCHANGED <<gatewayVars, historyVars>>

ProcessFairness ==
  /\ \A t \in Ticks : WF_vars(TickStep(t))
  /\ \A r \in Runs :
       /\ WF_vars(WatcherFires(r) /\ UNCHANGED <<gatewayVars, historyVars>>)
       /\ WF_vars(EnqueueRun(r) /\ UNCHANGED <<executorVars, historyVars>>)
  /\ \A s \in Sessions :
       WF_vars((AbortMark(s) \/ AbortSignal(s)) /\ UNCHANGED <<executorVars, historyVars>>)
  /\ \A k \in Sweeps :
       WF_vars(Sweep(k) /\ ReaperStep)

(* Of a codex that may work for ever, only the one that was sent SIGTERM   *)
(* is known to exit.                                                       *)
CodexTerminates ==
  \A t \in Ticks :
    SF_vars(/\ \E r \in Runs : job[t] = r /\ (r \in Hangs => codex[r] = "killed")
            /\ CodexExit(t)
            /\ UNCHANGED <<gatewayVars, historyVars>>)

(* Redis drops every key whose TTL is over.                                *)
ClockFairness ==
  /\ \A w \in Workspaces : WF_vars(LockExpires(w))
  /\ \A r \in Runs :
       WF_vars(/\ HeartbeatAges(r) \/ HeartbeatEvicted(r)
               /\ UNCHANGED <<executorVars, gatewayVars, historyVars>>)

FairSpec == Spec /\ ProcessFairness /\ CodexTerminates /\ ClockFairness

---------------------------------------------------------------------------
(* Safety.                                                                 *)

Waits(r) == \E i \in DOMAIN runQueue[WorkspaceOf[r]] : runQueue[WorkspaceOf[r]][i] = r
InTick(r) == \E t \in Ticks : job[t] = r

(* A run is handed to at most one tick, once: it is never twice in a queue *)
(* (requeueing included), never in a queue while a tick has it in hand,    *)
(* and never in the hands of two ticks.                                    *)
OneDelivery ==
  /\ \A w \in Workspaces : \A i, j \in DOMAIN runQueue[w] :
       runQueue[w][i] = runQueue[w][j] => i = j
  /\ \A r \in Runs : Waits(r) => ~InTick(r)
  /\ \A t, u \in Ticks : job[t] = job[u] /\ job[t] # NoRun => t = u

(* Two ticks work in one workspace at a time only if a run of that         *)
(* workspace had lost its lock to the TTL, or its status to the reaper,    *)
(* while a tick was still at work on it -- through crashes, requeues and   *)
(* the GET/DEL pair of release.                                            *)
Disturbed(w) == \E r \in expired \cup reaped : WorkspaceOf[r] = w

OneTickPerWorkspace ==
  \A t, u \in Ticks :
    /\ t # u
    /\ pc[t] \in Locked
    /\ pc[u] \in Locked
    /\ WorkspaceOf[job[t]] = WorkspaceOf[job[u]]
    => Disturbed(WorkspaceOf[job[t]])

(* Without a crash or a rejected call no run is forgotten: a queued run    *)
(* waits in Redis or is in the hands of a tick, a running one is in the    *)
(* hands of a tick.                                                        *)
NoStrandedRun ==
  mishaps = 0 =>
    \A r \in Runs :
      /\ status[r] = "queued" /\ submit[r] = "queued" => Waits(r) \/ InTick(r)
      /\ status[r] = "running" => InTick(r)

(* Without a crash or a rejected call a tick leaves nothing behind: every  *)
(* lock, heartbeat, watcher, abort controller and codex process belongs to *)
(* a run that a tick still has under its lock.                             *)
NoLeftovers ==
  mishaps = 0 =>
    \A r \in Runs :
      \/ \E t \in Ticks : Holds(t, r)
      \/ /\ lock[WorkspaceOf[r]] # r
         /\ heartbeat[r] = "none"
         /\ watcher[r] = "off"
         /\ controller[r] = "absent"
         /\ codex[r] = "none"

(* A run is killed or recorded as cancelled only if a user asked for it    *)
(* (the column cancel_requested_at says so) or the reaper had failed it.   *)
CancelledOnRequest ==
  \A r \in Runs :
    status[r] = "cancelled" \/ codex[r] = "killed" => cancelRequestedAt[r] \/ r \in reaped

(* The statuses follow the lifecycle of RunLifecycle.                      *)
Lifecycle == INSTANCE RunLifecycle WITH contested <- reaped \cup botched
LifecycleSpec == Lifecycle!Spec

---------------------------------------------------------------------------
(* Liveness.                                                               *)

(* Every run that reaches the queue ends, if its own codex does and        *)
(* nothing fails: not even a codex that works for ever in its workspace    *)
(* keeps it waiting for good, as long as another tick is free.             *)
QueuedRunEnds ==
  \A r \in Runs \ Hangs : submit[r] = "queued" ~> status[r] \in Terminal

(* A cancellation that reaches the run while its codex works ends the run, *)
(* even if codex alone would work for ever -- in an attempt that is not    *)
(* retried: a watcher that fires between the session_invalid of a resumed  *)
(* attempt and the fresh one has nothing to abort and does not fire again. *)
AbortStopsCodex ==
  \A r \in Runs :
    /\ cancelSignal[r]
    /\ watcher[r] = "polling"
    /\ codex[r] = "running"
    /\ \A t \in Ticks : job[t] = r => ~resumable[t]
    ~> status[r] \in Terminal

---------------------------------------------------------------------------
(* What the repository's documents say of runs, and the code does not do.  *)

(* specs/001-feishu-codex-mvp/spec.md FR-003: at any time a workspace has  *)
(* at most one active run.                                                 *)
SingleActiveRun ==
  \A q, r \in Runs :
    status[q] = "running" /\ status[r] = "running" /\ WorkspaceOf[q] = WorkspaceOf[r]
      => q = r
============================================================================

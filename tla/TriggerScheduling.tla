------------------------- MODULE TriggerScheduling ------------------------
(***************************************************************************)
(* The trigger subsystem: the scheduler's passes, the requests, the agent  *)
(* that manages schedules, the executor that reports on the runs, and a    *)
(* gateway process that may crash or have a call of a worker rejected at   *)
(* any point.                                                              *)
(***************************************************************************)
EXTENDS ScheduleManagement

CONSTANT MaxMishaps   \* bound on crashes and rejected calls

ASSUME MishapAssumption == MaxMishaps \in Nat

VARIABLES
  mishaps,
  overlapped   \* history: two handlers were at work at once, or one was cut short

vars == <<clock, storeVars, gateway, workerVars, managerVars, mishaps, overlapped>>

AtWork == {w \in Workers : step[w] # "idle"}
Busy == Cardinality(AtWork) + (IF managerStep = "idle" THEN 0 ELSE 1)

TypeOK ==
  /\ StoreTypeOK
  /\ SchedulerTypeOK
  /\ ManagementTypeOK
  /\ mishaps \in 0..MaxMishaps
  /\ overlapped \in BOOLEAN

Init ==
  /\ StoreInit
  /\ SchedulerInit
  /\ ManagementInit
  /\ mishaps = 0
  /\ overlapped = FALSE

---------------------------------------------------------------------------
(* What the executor writes of an execution: running when the run starts,  *)
(* its outcome when it ends.                                               *)

RunStarts(i) ==
  /\ executions[i].run = "queued"
  /\ executions' = [executions EXCEPT ![i].run = "running", ![i].status = "running"]
  /\ UNCHANGED <<clock, rows, overrides, gateway, workerVars, managerVars>>

RunEnds(i) ==
  /\ executions[i].run = "running"
  /\ executions' = [executions EXCEPT ![i].run = "finished", ![i].status = "finished"]
  /\ UNCHANGED <<clock, rows, overrides, gateway, workerVars, managerVars>>

---------------------------------------------------------------------------
StartGateway ==
  /\ gateway = "down"
  /\ gateway' = "starting"
  /\ UNCHANGED <<clock, storeVars, workerVars, managerVars>>

(* A rejected call ends the worker that made it; in the gateway's first    *)
(* sync it ends the gateway's start.                                       *)
CallRejected(w) ==
  /\ step[w] # "idle"
  /\ Release(w)
  /\ gateway' = IF gateway = "starting" THEN "down" ELSE gateway
  /\ UNCHANGED <<clock, storeVars, managerVars>>

ManagerCallRejected ==
  /\ managerStep # "idle"
  /\ ReleaseManager
  /\ UNCHANGED <<clock, storeVars, gateway, workerVars, managed>>

Crash ==
  /\ gateway # "down"
  /\ gateway' = "down"
  /\ step' = [w \in Workers |-> "idle"]
  /\ todo' = [w \in Workers |-> {}]
  /\ seen' = [w \in Workers |-> NothingSeen]
  /\ seenAt' = [w \in Workers |-> 0]
  /\ job' = [w \in Workers |-> NoJob]
  /\ ReleaseManager
  /\ UNCHANGED <<clock, storeVars, managed>>

Mishap ==
  /\ mishaps < MaxMishaps
  /\ mishaps' = mishaps + 1
  /\ (\E w \in Workers : CallRejected(w)) \/ ManagerCallRejected \/ Crash

---------------------------------------------------------------------------
LoopStep(l) ==
  \/ StartPass(l)
  \/ \E d \in Definitions :
       NotDue(l, d) \/ SetFirstDue(l, d) \/ RecordSkipped(l, d) \/ RecordMissed(l, d)
         \/ DispatchDue(l, d)

DispatcherStep(w) ==
  CreateRun(w) \/ PushRun(w) \/ MarkQueued(w) \/ AdvanceDispatched(w) \/ AdvanceRecorded(w)

RequestStep(r) ==
  \/ StartSync(r) \/ FinishSync(r)
  \/ \E d \in Definitions : UpsertDefinition(r, d) \/ DisableDefinition(r, d)
  \/ \E d \in Definitions : RejectWebhook(r, d) \/ AcceptWebhook(r, d)

ManagerStep ==
  \/ \E d \in Definitions, s \in ManagedSchedules : CreateSchedule(d, s) \/ Update(d, s)
  \/ \E d \in Definitions : Disable(d) \/ Enable(d)
  \/ UpsertOverride \/ Reschedule \/ ReadBaseline \/ WriteAudit

ExecutorStep == \E i \in 1..Len(executions) : RunStarts(i) \/ RunEnds(i)

WorkerStep ==
  \/ \E l \in Loops : LoopStep(l)
  \/ \E w \in Workers : DispatcherStep(w)
  \/ \E r \in Requests : RequestStep(r)

TimePasses == Tick /\ UNCHANGED <<gateway, workerVars, managerVars>>

WellBehaved ==
  /\ UNCHANGED mishaps
  /\ \/ WorkerStep /\ UNCHANGED managerVars
     \/ ManagerStep
     \/ ExecutorStep
     \/ TimePasses
     \/ StartGateway

Observe == overlapped' = (overlapped \/ Busy' > 1 \/ mishaps' # mishaps)

Next == (WellBehaved \/ Mishap) /\ Observe

Spec == Init /\ [][Next]_vars

---------------------------------------------------------------------------
(* Properties.                                                             *)

Recorded(d, t) ==
  \E i \in 1..Len(executions) : executions[i].definition = d /\ executions[i].due = t

(* No due time of a schedule is lost, whatever overlaps, crashes or fails: *)
(* from the creation of a definition that no agent has touched since,      *)
(* every due time that is not ahead of the row's next_due_at has an        *)
(* execution, be it dispatched, missed or skipped.                         *)
NoDueTimeLost ==
  \A d \in Definitions :
    (d \in Configured \/ rows[d].origin = "agent") /\ ~overrides[d].overridden =>
      \A t \in rows[d].schedule :
        rows[d].createdAt < t /\ t <= clock =>
          Recorded(d, t) \/ (rows[d].nextDue # Never /\ rows[d].nextDue <= t)

(* A due time is dispatched twice only if two handlers overlapped or one   *)
(* was cut short; each alone leaves no way to repeat one.                  *)
RepeatNeedsOverlap ==
  ~overlapped =>
    \A i, j \in 1..Len(executions) :
      /\ executions[i].definition = executions[j].definition
      /\ executions[i].due = executions[j].due
      /\ rows[executions[i].definition].schedule # {}
      => i = j

(* What an execution says of its run is never ahead of the run: one that   *)
(* is called queued or more has a run that was pushed.                     *)
QueuedIsPushed ==
  \A i \in 1..Len(executions) :
    executions[i].status \in {"queued", "running", "finished"} =>
      executions[i].run \in {"queued", "running", "finished"}

(* Unless something failed, an accepted execution is being dispatched: the *)
(* trigger was not just noted and forgotten.                               *)
AcceptedIsDispatched ==
  mishaps = 0 =>
    \A i \in 1..Len(executions) :
      executions[i].status = "accepted" =>
        \E w \in Workers : job[w].execution = i

(* What an agent disabled stays disabled until an agent enables it: no     *)
(* sync and no update brings it back.                                      *)
DisableHolds ==
  [][\A d \in Definitions :
       overrides[d].overridden /\ ~Effective(d).enabled /\ Effective(d)'.enabled =>
         request.operation = "enable"]_vars
===========================================================================

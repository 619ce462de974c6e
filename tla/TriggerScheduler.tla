------------------------- MODULE TriggerScheduler -------------------------
(***************************************************************************)
(* The workers of the gateway that fire triggers: passes of the scheduler  *)
(* loop (setInterval starts one every second without waiting for the last) *)
(* and HTTP requests, which synchronise the definitions with the           *)
(* configuration first and may be an external webhook.  Both use the       *)
(* dispatcher, whose calls interleave with those of every other worker.    *)
(***************************************************************************)
EXTENDS TriggerDefinitions

CONSTANTS
  Loops,         \* overlapping passes of the scheduler loop
  Requests,      \* outstanding HTTP requests that synchronise
  Window,        \* dispatchWindowMs, in minutes
  NoDefinition

Workers == Loops \cup Requests

ASSUME SchedulerAssumption ==
  /\ Loops \cap Requests = {}
  /\ Window \in Nat
  /\ NoDefinition \notin Definitions

VARIABLES
  gateway,   \* the process: down, starting (before its first sync is done) or up
  step,      \* the call each worker is about to make
  todo,      \* the definitions it has still to treat
  seen,      \* the rows it read at its start
  seenAt,    \* when a sync started
  job        \* the execution a worker is at, and the due time it stores after it

workerVars == <<step, todo, seen, seenAt, job>>

NoJob == [definition |-> NoDefinition, nextDue |-> Never, execution |-> 0]
NothingSeen == [d \in Definitions |-> NoRow]

SchedulerTypeOK ==
  /\ gateway \in {"down", "starting", "up"}
  /\ step \in [Workers -> {"idle", "scan", "createRun", "push", "markQueued", "advance",
                           "advanceRecorded", "sync"}]
  /\ todo \in [Workers -> SUBSET Definitions]
  /\ seen \in [Workers -> [Definitions -> Row]]
  /\ seenAt \in [Workers -> 0..MaxTime]
  /\ job \in [Workers -> [definition : Definitions \cup {NoDefinition},
                          nextDue : {Never} \cup Minutes, execution : 0..MaxExecutions]]

SchedulerInit ==
  /\ gateway = "down"
  /\ step = [w \in Workers |-> "idle"]
  /\ todo = [w \in Workers |-> {}]
  /\ seen = [w \in Workers |-> NothingSeen]
  /\ seenAt = [w \in Workers |-> 0]
  /\ job = [w \in Workers |-> NoJob]

Goto(w, s) == step' = [step EXCEPT ![w] = s]

(* A worker is done, or is given up.                                       *)
Release(w) ==
  /\ Goto(w, "idle")
  /\ todo' = [todo EXCEPT ![w] = {}]
  /\ seen' = [seen EXCEPT ![w] = NothingSeen]
  /\ seenAt' = [seenAt EXCEPT ![w] = 0]
  /\ job' = [job EXCEPT ![w] = NoJob]

(* The pass has treated d and goes on with the next definition.            *)
LeaveDefinition(l, d) ==
  IF todo[l] = {d}
    THEN Release(l)
    ELSE /\ Goto(l, "scan")
         /\ todo' = [todo EXCEPT ![l] = @ \ {d}]
         /\ seen' = [seen EXCEPT ![l][d] = NoRow]
         /\ job' = [job EXCEPT ![l] = NoJob]
         /\ UNCHANGED seenAt

---------------------------------------------------------------------------
(* scheduler.runOnce.  Definitions are treated in the order of their ids,  *)
(* here the order of CHOOSE.                                               *)

First(definitions) == CHOOSE d \in definitions : TRUE

StartPass(l) ==
  LET scheduled == {d \in Definitions : Effective(d).schedule # {}} IN
  /\ gateway = "up"
  /\ step[l] = "idle"
  /\ scheduled # {}
  /\ Goto(l, "scan")
  /\ todo' = [todo EXCEPT ![l] = scheduled]
  /\ seen' = [seen EXCEPT ![l] =
                [d \in Definitions |-> IF d \in scheduled THEN Effective(d) ELSE NoRow]]
  /\ UNCHANGED <<clock, storeVars, gateway, seenAt, job>>

Scans(l, d) == step[l] = "scan" /\ todo[l] # {} /\ d = First(todo[l])
IsDue(l, d) == seen[l][d].nextDue # Never /\ seen[l][d].nextDue <= clock
IsLate(l, d) == clock - seen[l][d].nextDue > Window
AfterThis(l, d) == Following(seen[l][d].schedule, seen[l][d].nextDue)

NotDue(l, d) ==
  /\ Scans(l, d)
  /\ seen[l][d].nextDue > clock
  /\ LeaveDefinition(l, d)
  /\ UNCHANGED <<clock, storeVars, gateway>>

SetFirstDue(l, d) ==
  /\ Scans(l, d)
  /\ seen[l][d].nextDue = Never
  /\ SetDue(d, Following(seen[l][d].schedule, clock))
  /\ LeaveDefinition(l, d)
  /\ UNCHANGED <<clock, overrides, executions, gateway>>

(* The execution is written first; the due time moves in a second call.    *)
Record(w, d, due, status, nextDue, then) ==
  /\ CreateExecution(d, due, status)
  /\ job' = [job EXCEPT ![w] = [definition |-> d, nextDue |-> nextDue,
                                execution |-> Len(executions) + 1]]
  /\ Goto(w, then)
  /\ UNCHANGED <<clock, rows, overrides, gateway, todo, seen, seenAt>>

RecordSkipped(l, d) ==
  /\ Scans(l, d) /\ IsDue(l, d)
  /\ ~seen[l][d].enabled
  /\ Record(l, d, seen[l][d].nextDue, "skipped", AfterThis(l, d), "advanceRecorded")

(* Mutant of RecordMissed: a status the table does not know.               *)
RecordExpired(l, d) ==
  /\ Scans(l, d) /\ IsDue(l, d)
  /\ seen[l][d].enabled /\ IsLate(l, d)
  /\ Record(l, d, seen[l][d].nextDue, "expired", AfterThis(l, d), "advanceRecorded")

RecordMissed(l, d) ==
  /\ Scans(l, d) /\ IsDue(l, d)
  /\ seen[l][d].enabled /\ IsLate(l, d)
  /\ Record(l, d, seen[l][d].nextDue, "missed", AfterThis(l, d), "advanceRecorded")

(* Mutant of DispatchDue: the execution is noted, its run is forgotten.    *)
DispatchNothing(l, d) ==
  /\ Scans(l, d) /\ IsDue(l, d)
  /\ seen[l][d].enabled /\ ~IsLate(l, d)
  /\ Record(l, d, seen[l][d].nextDue, "accepted", AfterThis(l, d), "advance")

DispatchDue(l, d) ==
  /\ Scans(l, d) /\ IsDue(l, d)
  /\ seen[l][d].enabled /\ ~IsLate(l, d)
  /\ Record(l, d, seen[l][d].nextDue, "accepted", AfterThis(l, d), "createRun")

---------------------------------------------------------------------------
(* dispatchDefinition after its execution, one action per call.            *)

SetRun(w, run) ==
  executions' = [executions EXCEPT ![job[w].execution].run = run]

(* Mutant of CreateRun: the run is not pushed to the queue.                *)
CreateRunOnly(w) ==
  /\ step[w] = "createRun"
  /\ SetRun(w, "created")
  /\ Goto(w, "markQueued")
  /\ UNCHANGED <<clock, rows, overrides, gateway, todo, seen, seenAt, job>>

CreateRun(w) ==
  /\ step[w] = "createRun"
  /\ SetRun(w, "created")
  /\ Goto(w, "push")
  /\ UNCHANGED <<clock, rows, overrides, gateway, todo, seen, seenAt, job>>

PushRun(w) ==
  /\ step[w] = "push"
  /\ SetRun(w, "queued")
  /\ Goto(w, "markQueued")
  /\ UNCHANGED <<clock, rows, overrides, gateway, todo, seen, seenAt, job>>

MarkQueued(w) ==
  /\ step[w] = "markQueued"
  /\ executions' = [executions EXCEPT ![job[w].execution].status = "queued"]
  /\ Goto(w, "advance")
  /\ UNCHANGED <<clock, rows, overrides, gateway, todo, seen, seenAt, job>>

(* Mutant of AdvanceDispatched: the due time is not moved on.              *)
StayAtDue(w) ==
  /\ step[w] = "advance"
  /\ IF w \in Loops THEN LeaveDefinition(w, job[w].definition) ELSE Release(w)
  /\ UNCHANGED <<clock, storeVars, gateway>>

(* A pass breaks out of the definition's loop after one dispatch.          *)
AdvanceDispatched(w) ==
  /\ step[w] = "advance"
  /\ SetDue(job[w].definition, job[w].nextDue)
  /\ IF w \in Loops THEN LeaveDefinition(w, job[w].definition) ELSE Release(w)
  /\ UNCHANGED <<clock, overrides, executions, gateway>>

(* recordExecution's second call; a pass goes on with the following due    *)
(* time of the same definition.                                            *)
AdvanceRecorded(w) ==
  /\ step[w] = "advanceRecorded"
  /\ SetDue(job[w].definition, job[w].nextDue)
  /\ IF w \in Loops
       THEN /\ Goto(w, "scan")
            /\ seen' = [seen EXCEPT ![w][job[w].definition].nextDue = job[w].nextDue]
            /\ job' = [job EXCEPT ![w] = NoJob]
            /\ UNCHANGED <<todo, seenAt>>
       ELSE Release(w)
  /\ UNCHANGED <<clock, overrides, executions, gateway>>

---------------------------------------------------------------------------
(* syncDefinitions: at the start of the gateway, and in every request for  *)
(* /webhooks/external and /internal/triggers/definitions.  Rows that the   *)
(* configuration no longer has are disabled last; those of an agent are    *)
(* left alone.                                                             *)

(* Mutant of NoLongerConfigured: the rows of an agent are disabled too.    *)
NotConfigured == {d \in Definitions \ Configured : rows[d].origin # "none"}

NoLongerConfigured == {d \in Definitions \ Configured : rows[d].origin = "config"}

StartSync(r) ==
  /\ \/ gateway = "starting" /\ \A w \in Workers : step[w] = "idle"
     \/ gateway = "up"
  /\ step[r] = "idle"
  /\ Goto(r, "sync")
  /\ todo' = [todo EXCEPT ![r] = Configured \cup NoLongerConfigured]
  /\ seen' = [seen EXCEPT ![r] =
                [d \in Definitions |-> IF d \in Configured THEN rows[d] ELSE NoRow]]
  /\ seenAt' = [seenAt EXCEPT ![r] = clock]
  /\ UNCHANGED <<clock, storeVars, gateway, job>>

(* Mutant of SelectNextDueAt: a due time that has come is not kept.        *)
ComputeNextDueAt(existing, schedule, t) ==
  IF schedule = {} THEN Never ELSE Following(schedule, t)

(* An existing due time that has come is kept; any other is computed anew  *)
(* from the configured schedule.                                           *)
SelectNextDueAt(existing, schedule, t) ==
  IF existing # Never /\ existing <= t THEN existing
  ELSE IF schedule = {} THEN Never ELSE Following(schedule, t)

Persisted(r, d) ==
  [origin    |-> IF seen[r][d].origin = "none" THEN "config" ELSE seen[r][d].origin,
   enabled   |-> ConfigEnabled[d],
   schedule  |-> ConfigSchedule[d],
   nextDue   |-> SelectNextDueAt(seen[r][d].nextDue, ConfigSchedule[d], seenAt[r]),
   createdAt |-> IF rows[d].origin = "none" THEN seenAt[r] ELSE rows[d].createdAt]

UpsertDefinition(r, d) ==
  /\ step[r] = "sync"
  /\ todo[r] \cap Configured # {} /\ d = First(todo[r] \cap Configured)
  /\ rows' = [rows EXCEPT ![d] = Persisted(r, d)]
  /\ todo' = [todo EXCEPT ![r] = @ \ {d}]
  /\ seen' = [seen EXCEPT ![r][d] = NoRow]
  /\ UNCHANGED <<clock, overrides, executions, gateway, step, seenAt, job>>

DisableDefinition(r, d) ==
  /\ step[r] = "sync"
  /\ todo[r] \cap Configured = {} /\ todo[r] # {} /\ d = First(todo[r])
  /\ rows' = [rows EXCEPT ![d].enabled = FALSE, ![d].nextDue = Never]
  /\ todo' = [todo EXCEPT ![r] = @ \ {d}]
  /\ UNCHANGED <<clock, overrides, executions, gateway, step, seen, seenAt, job>>

(* The sync is over: the gateway is up, or a query is answered.            *)
Synced(r) == step[r] = "sync" /\ todo[r] = {}

FinishSync(r) ==
  /\ Synced(r)
  /\ gateway' = "up"
  /\ Release(r)
  /\ UNCHANGED <<clock, storeVars>>

---------------------------------------------------------------------------
(* A request for /webhooks/external/:slug goes on with the persisted row.  *)

Hooks == {d \in Configured : ConfigSchedule[d] = {}}

(* Disabled, badly signed, unparsable or without a required field.         *)
RejectWebhook(r, d) ==
  /\ Synced(r) /\ gateway = "up"
  /\ d \in Hooks
  /\ Record(r, d, clock, "rejected", Never, "advanceRecorded")

AcceptWebhook(r, d) ==
  /\ Synced(r) /\ gateway = "up"
  /\ d \in Hooks /\ rows[d].enabled
  /\ Record(r, d, clock, "accepted", Never, "createRun")
===========================================================================

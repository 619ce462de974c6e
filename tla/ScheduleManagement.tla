------------------------ MODULE ScheduleManagement ------------------------
(***************************************************************************)
(* The operations an agent has on the schedules of its workspace.  They    *)
(* reach the gateway through the request directory of the workspace, whose *)
(* server handles one request at a time, so there is one manager.  A       *)
(* request that is rejected, needs a clarification or only lists changes   *)
(* nothing here.  Audit rows are left out.                                 *)
(***************************************************************************)
EXTENDS TriggerScheduler

CONSTANTS
  ManagedSchedules,  \* the schedules an agent may ask for
  MaxManaged         \* bound on the number of operations

ASSUME ManagementAssumption ==
  /\ ManagedSchedules \subseteq Schedules
  /\ MaxManaged \in Nat

VARIABLES
  managerStep,   \* the call the handler is about to make
  request,       \* the operation, with the definition as it was matched
  baseline,      \* the row updateDefinitionAudit has read
  managed        \* operations so far

managerVars == <<managerStep, request, baseline, managed>>

NoRequest == [operation |-> "none", definition |-> NoDefinition, enabled |-> FALSE,
              schedule |-> {}, rescheduled |-> FALSE]

ManagementTypeOK ==
  /\ managerStep \in {"idle", "override", "due", "baseline", "audit"}
  /\ request \in [operation : {"none", "update", "disable", "enable"},
                  definition : Definitions \cup {NoDefinition}, enabled : BOOLEAN,
                  schedule : Schedules \cup {{}}, rescheduled : BOOLEAN]
  /\ baseline \in Row
  /\ managed \in 0..MaxManaged

ManagementInit ==
  /\ managerStep = "idle"
  /\ request = NoRequest
  /\ baseline = NoRow
  /\ managed = 0

ReleaseManager ==
  /\ managerStep' = "idle"
  /\ request' = NoRequest
  /\ baseline' = NoRow

ManagerFree == gateway = "up" /\ managerStep = "idle" /\ managed < MaxManaged

(* create: a new id, one statement.                                        *)
CreateSchedule(d, schedule) ==
  /\ ManagerFree
  /\ d \notin Configured /\ rows[d].origin = "none"
  /\ rows' = [rows EXCEPT ![d] = [origin |-> "agent", enabled |-> TRUE, schedule |-> schedule,
                                  nextDue |-> Following(schedule, clock), createdAt |-> clock]]
  /\ managed' = managed + 1
  /\ UNCHANGED <<clock, overrides, executions, gateway, workerVars, managerStep, request, baseline>>

(* update, disable and enable first match against the effective            *)
(* definitions and keep what they saw of the one they match.               *)
Match(d, operation, enabled, schedule, rescheduled) ==
  /\ ManagerFree
  /\ Effective(d).schedule # {}
  /\ managerStep' = "override"
  /\ request' = [operation |-> operation, definition |-> d, enabled |-> enabled,
                 schedule |-> schedule, rescheduled |-> rescheduled]
  /\ managed' = managed + 1
  /\ UNCHANGED <<clock, storeVars, gateway, workerVars, baseline>>

(* Mutant of Update: an update enables the schedule.                       *)
UpdateEnabling(d, schedule) ==
  Match(d, "update", TRUE, schedule, schedule # Effective(d).schedule)

Update(d, schedule) ==
  Match(d, "update", Effective(d).enabled, schedule, schedule # Effective(d).schedule)

Disable(d) == Match(d, "disable", FALSE, Effective(d).schedule, FALSE)

Enable(d) == Match(d, "enable", TRUE, Effective(d).schedule, TRUE)

UpsertOverride ==
  /\ managerStep = "override"
  /\ SetOverride(request.definition, request.enabled, request.schedule)
  /\ managerStep' = IF request.rescheduled THEN "due" ELSE "baseline"
  /\ UNCHANGED <<clock, rows, executions, gateway, workerVars, request, baseline, managed>>

Reschedule ==
  /\ managerStep = "due"
  /\ SetDue(request.definition, Following(request.schedule, clock))
  /\ managerStep' = "baseline"
  /\ UNCHANGED <<clock, overrides, executions, gateway, workerVars, request, baseline, managed>>

(* updateDefinitionAudit reads the row and writes all of it back.          *)
ReadBaseline ==
  /\ managerStep = "baseline"
  /\ baseline' = rows[request.definition]
  /\ managerStep' = "audit"
  /\ UNCHANGED <<clock, storeVars, gateway, workerVars, request, managed>>

WriteAudit ==
  /\ managerStep = "audit"
  /\ rows' = [rows EXCEPT ![request.definition] = baseline]
  /\ ReleaseManager
  /\ UNCHANGED <<clock, overrides, executions, gateway, workerVars, managed>>
===========================================================================

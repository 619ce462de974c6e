------------------------ MODULE TriggerDefinitions ------------------------
(***************************************************************************)
(* The tables the trigger subsystem keeps in Postgres: trigger_definitions *)
(* (what fires and when it is due), trigger_definition_overrides (what an  *)
(* agent changed of a definition) and trigger_executions (what fired).     *)
(* Every operator is one statement, hence one atomic step.                 *)
(*                                                                         *)
(* A schedule is the set of minutes at which its cron expression matches,  *)
(* up to MaxTime + 1: a cron expression always has a next match, and the   *)
(* clock stops at MaxTime.  A definition with an empty schedule is an      *)
(* external webhook.  Labels, prompts, delivery targets and audit columns  *)
(* are left out.                                                           *)
(***************************************************************************)
EXTENDS Naturals, Sequences, FiniteSets

CONSTANTS
  Definitions,     \* definition ids
  Configured,      \* those of the runtime configuration
  ConfigEnabled,   \* their enabled flag there
  ConfigSchedule,  \* their schedule there
  OldRows,         \* rows left by an earlier configuration
  MaxTime,         \* bound on the clock, in minutes
  MaxExecutions    \* bound on the rows of trigger_executions

Never == 0         \* next_due_at IS NULL
Minutes == 1..(MaxTime + 1)
Schedules == {s \in SUBSET Minutes : MaxTime + 1 \in s}

VARIABLES
  clock,
  rows,        \* trigger_definitions
  overrides,   \* trigger_definition_overrides
  executions   \* trigger_executions, in the order of created_at, each with the run it starts

storeVars == <<rows, overrides, executions>>

Row == [origin : {"none", "config", "agent"}, enabled : BOOLEAN,
        schedule : Schedules \cup {{}}, nextDue : {Never} \cup Minutes, createdAt : 0..MaxTime]
NoRow == [origin |-> "none", enabled |-> FALSE, schedule |-> {}, nextDue |-> Never,
          createdAt |-> 0]

Override == [overridden : BOOLEAN, enabled : BOOLEAN, schedule : Schedules \cup {{}}]
NoOverride == [overridden |-> FALSE, enabled |-> FALSE, schedule |-> {}]

(* "finished" stands for the outcome of the run: completed, failed or      *)
(* cancelled.  run is agent_runs.status of the run with this               *)
(* trigger_execution_id; "created" is queued but not in the Redis list.    *)
Execution == [definition : Definitions, due : Minutes \cup {0},
              status : {"accepted", "queued", "running", "finished",
                        "skipped", "missed", "rejected"},
              run : {"none", "created", "queued", "running", "finished"}]

ASSUME TriggerAssumption ==
  /\ Configured \subseteq Definitions
  /\ ConfigEnabled \in [Configured -> BOOLEAN]
  /\ ConfigSchedule \in [Configured -> Schedules \cup {{}}]
  /\ OldRows \in [Definitions -> Row]
  /\ \A d \in Configured : OldRows[d] = NoRow
  /\ \A d \in Definitions : OldRows[d].origin = "none" => OldRows[d] = NoRow
  \* An agent's row is as it was created: one that was moved on since would
  \* come with executions, and the history starts with none.
  /\ \A d \in Definitions : OldRows[d].origin = "agent" =>
       /\ OldRows[d].nextDue # Never
       /\ \A t \in OldRows[d].schedule :
            OldRows[d].createdAt < t => OldRows[d].nextDue <= t
  /\ MaxTime \in Nat
  /\ MaxExecutions \in Nat

StoreTypeOK ==
  /\ clock \in 0..MaxTime
  /\ rows \in [Definitions -> Row]
  /\ overrides \in [Definitions -> Override]
  /\ executions \in Seq(Execution)

StoreInit ==
  /\ clock = 0
  /\ rows = OldRows
  /\ overrides = [d \in Definitions |-> NoOverride]
  /\ executions = << >>

(* computeNextScheduledAt: the first match of a schedule after t.          *)
Following(schedule, t) ==
  CHOOSE u \in schedule : u > t /\ \A v \in schedule : v > t => u <= v

(* listEffectiveDefinitions: COALESCE of the override and the row.  Due    *)
(* times are not overridden, they are always those of the row.             *)
Effective(d) ==
  IF overrides[d].overridden
    THEN [rows[d] EXCEPT !.enabled = overrides[d].enabled, !.schedule = overrides[d].schedule]
    ELSE rows[d]

(* updateDefinitionRuntimeState: a due time that is not given stays.       *)
SetDue(d, due) ==
  rows' = IF due = Never THEN rows ELSE [rows EXCEPT ![d].nextDue = due]

CreateExecution(d, due, status) ==
  /\ Len(executions) < MaxExecutions
  /\ executions' = Append(executions, [definition |-> d, due |-> due, status |-> status,
                                       run |-> "none"])

SetOverride(d, enabled, schedule) ==
  overrides' = [overrides EXCEPT ![d] =
                 [overridden |-> TRUE, enabled |-> enabled, schedule |-> schedule]]

Tick ==
  /\ clock < MaxTime
  /\ clock' = clock + 1
  /\ UNCHANGED storeVars
===========================================================================

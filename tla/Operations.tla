----------------------------- MODULE Operations ----------------------------
(***************************************************************************)
(* An operator and the command line, the daemons it starts, and the two    *)
(* processes and the infrastructure they look after.  Commands may be      *)
(* given while earlier ones are still on their way; processes and daemons  *)
(* crash and docker compose fails.                                         *)
(***************************************************************************)
EXTENDS StatusSummary

CONSTANTS
  Commands,     \* the commands the operator uses
  MaxCommands   \* bound

ASSUME OperatorAssumption == MaxCommands \in Nat

VARIABLES
  given,      \* commands so far
  restarted,  \* history: the last command was a restart that reached a daemon,
              \* and nothing failed since
  warm,       \* history: and that found the infrastructure accepting connections
  cut         \* history: two calls have been at work at once, or one was cut short

operatorVars == <<given, restarted, warm, cut>>
vars == <<supervisorVars, operatorVars>>

TypeOK ==
  /\ ProcessesTypeOK /\ ManagerTypeOK /\ SupervisorTypeOK
  /\ given \in 0..MaxCommands
  /\ restarted \in BOOLEAN /\ warm \in BOOLEAN /\ cut \in BOOLEAN

Init ==
  /\ SupervisorInit
  /\ given = 0 /\ restarted = FALSE /\ warm = FALSE /\ cut = FALSE

---------------------------------------------------------------------------
(* The command line.  `start` spawns a daemon, whether or not there is one; *)
(* `restart` spawns it at once if none can be reached.                     *)

Requests == {"infra_status", "infra_stop", "infra_start", "infra_restart"}

SpawnDaemon == Launch /\ UNCHANGED <<managerVars, socket, daemonFile, infraFile>>

Request(action, asker) == \E d \in Daemons : Accept(d, action, asker)

DaemonStart == "start" \in Commands /\ SpawnDaemon /\ restarted' = FALSE
DaemonStop == "stop" \in Commands /\ Request("daemon_stop", "cli") /\ restarted' = FALSE
DaemonRestart ==
  /\ "restart" \in Commands
  /\ \/ Request("daemon_stop", "restart") /\ restarted' = TRUE
     \/ Reachable = {} /\ SpawnDaemon /\ restarted' = FALSE
AskDaemon ==
  \E action \in Requests \cap Commands : Request(action, "cli") /\ restarted' = FALSE

(* configure, or the wizard again: the files say something else.           *)
Configure ==
  /\ "configure" \in Commands
  /\ restarted' = FALSE
  /\ config < MaxConfigs
  /\ config' = config + 1
  /\ UNCHANGED <<infra, fingerprint, process, stateFile, faults, calls, daemonVars>>

Command ==
  /\ given < MaxCommands
  /\ given' = given + 1
  /\ DaemonStart \/ DaemonStop \/ DaemonRestart \/ AskDaemon \/ Configure
  /\ warm' = (restarted' /\ infra = "up")

---------------------------------------------------------------------------
(* What the history notes of any step.                                     *)

Overlap == \E c, k \in Calls : c # k /\ Managing(c) /\ Managing(k)
CutShort == \E c \in Calls : Managing(c) /\ daemon'[calls[c].daemon] = "none"

NotesCut == cut' = (cut \/ Overlap' \/ CutShort)

RuntimeStep ==
  /\ InfraAccepts \/ \E p \in Processes : ProcessStep(p)
  /\ UNCHANGED <<calls, daemonVars>>
ProcessCrash == \E p \in Processes : Crashes(p) /\ UNCHANGED <<calls, daemonVars>>
DaemonCrash == \E d \in Daemons : DaemonCrashes(d)
Daemon == \/ \E d \in Daemons : DaemonStep(d)
          \/ \E c \in Calls : HandlerStep(c)

Next ==
  /\ \/ Command
     \/ /\ RuntimeStep \/ ProcessCrash \/ DaemonCrash \/ Daemon
        /\ restarted' = (restarted /\ faults' = faults)
        /\ UNCHANGED <<given, warm>>
  /\ NotesCut

Spec == Init /\ [][Next]_vars

(* Fairness: a handler that can go on does (its timers run out), and a     *)
(* process that can leave does.  Nothing is assumed of the rest.           *)
Leaving ==
  /\ \E p \in Processes : Leaves(p)
  /\ UNCHANGED <<calls, daemonVars, given, restarted, warm>> /\ NotesCut

Handling ==
  /\ \E c \in Calls : HandlerStep(c)
  /\ restarted' = (restarted /\ faults' = faults)
  /\ UNCHANGED <<given, warm>> /\ NotesCut

FairSpec == Spec /\ WF_vars(Leaving) /\ WF_vars(Handling)

---------------------------------------------------------------------------
(* Properties.                                                             *)

(* A gateway or executor that no state file names is out of the reach of   *)
(* stop, of the status and of every later start (process-manager.ts 148:   *)
(* stop goes by the files).  As long as calls neither overlapped nor were  *)
(* cut short there is none, whatever crashed, timed out or was rolled back. *)
Quiet ==
  /\ \A c \in Calls : ~Managing(c)
  /\ \A p \in Processes : ~Alive(p) \/ Phase(p) = "serving"
StrayNeedsOverlap ==
  Quiet /\ ~cut => \A p \in Processes : Alive(p) => Recorded(RoleOf(p)) = p

(* A gateway takes requests and an executor takes runs.                    *)
Serving ==
  /\ \E g \in Gateways : Phase(g) = "serving" /\ process[g].status = "ready"
  /\ \E e \in Executors : Phase(e) = "serving" /\ process[e].status = "ready"

(* What the status calls ready has a live gateway and a live executor that *)
(* was ready, although it reads files that outlive their processes         *)
(* (status.ts 146-158).                                                    *)
ReadyIsServing ==
  OverallStatus = "ready" =>
    /\ \E g \in Gateways : Phase(g) \in {"serving", "stopping"}
    /\ \E e \in Executors : Phase(e) \in {"serving", "stopping"} /\ process[e].status = "ready"

(* daemon_stop ends the daemon, even if a process does not leave on        *)
(* SIGTERM and whatever other requests are in its hands (supervisor.ts     *)
(* 120, process-manager.ts 176-193).                                       *)
StopEnds == (\E c \in Calls : StillStops(c)) ~> (\A c \in Calls : ~StillStops(c))

(* Nothing is on its way.                                                  *)
AtRest ==
  /\ \A c \in Calls : ~Open(c)
  /\ \A d \in Daemons : daemon[d] \in {"none", "serving"}
  /\ \A p \in Processes : ~Alive(p) \/ Phase(p) = "serving"

(* `carvis daemon restart` has brought the runtime back, when it is through, *)
(* from whatever crashes, failed starts and other commands left behind, if *)
(* Postgres and Redis accepted connections when it was asked for, calls    *)
(* did not overlap and the configuration is the one that the processes     *)
(* last published (supervisor.ts 120-139 and 150-198).                     *)
Published == \A role \in Roles : fingerprint[role] \in {0, config}
RestartHeals == AtRest /\ restarted /\ warm /\ ~cut /\ Published => Serving

---------------------------------------------------------------------------
(* specs/016-daemon-deployment/contracts/carvis-layered-status-and-        *)
(* doctor.md: the remedy for a configuration that was written and not yet  *)
(* loaded is `carvis daemon restart`.                                      *)
RestartLoadsConfig == AtRest /\ restarted /\ warm /\ ~cut => Serving
============================================================================

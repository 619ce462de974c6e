-------------------------- MODULE RuntimeProcesses -------------------------
(***************************************************************************)
(* The gateway and the executor as processes of the host: how each comes   *)
(* up, what it says of itself in its state file and, for the gateway, at   *)
(* its health path, how the two find that they run with different          *)
(* configurations, and how each goes down.  The infrastructure (Postgres   *)
(* and Redis under docker compose) is up or down as a whole, and between   *)
(* the two its containers run and do not accept connections yet; a         *)
(* configuration is the fingerprint that is built from it.                 *)
(***************************************************************************)
EXTENDS Integers, FiniteSets, Sequences

CONSTANTS
  Gateways, Executors,  \* the processes that may be alive at once
  Hangs,                \* processes that do not leave on SIGTERM
  NoProcess,
  MaxConfigs,           \* bound: configurations an operator writes
  MaxFaults             \* bound: what goes wrong by itself

Processes == Gateways \cup Executors
Roles == {"gateway", "executor"}
RoleOf(p) == IF p \in Gateways THEN "gateway" ELSE "executor"
Of(role) == IF role = "gateway" THEN Gateways ELSE Executors

ASSUME ProcessAssumption ==
  /\ Gateways \cap Executors = {}
  /\ Hangs \subseteq Processes
  /\ NoProcess \notin Processes
  /\ MaxConfigs \in Nat \ {0} /\ MaxFaults \in Nat

VARIABLES
  config,       \* the fingerprint of what the configuration files say
  infra,        \* Postgres and Redis: the containers are stopped; run; run and
                \* accept connections
  fingerprint,  \* Redis: what each role published last; 0: nothing yet
  process,
  stateFile,    \* ~/.carvis/state/{gateway,executor}.json
  faults

processVars == <<config, infra, fingerprint, process, stateFile, faults>>

Phases == {"none", "booting", "published", "serving", "stopping"}
Statuses == {"starting", "ready", "degraded", "failed", "stopped"}

Nothing == [phase |-> "none", config |-> 0, status |-> "starting"]
NoFile == [pid |-> NoProcess, status |-> "stopped"]

ProcessesTypeOK ==
  /\ config \in 1..MaxConfigs
  /\ infra \in {"down", "starting", "up"}
  /\ fingerprint \in [Roles -> 0..MaxConfigs]
  /\ process \in [Processes -> [phase : Phases, config : 0..MaxConfigs, status : Statuses]]
  /\ \A role \in Roles :
       stateFile[role] \in [pid : Of(role) \cup {NoProcess}, status : Statuses]
  /\ faults \in 0..MaxFaults

ProcessesInit ==
  /\ config = 1
  /\ infra = "down"
  /\ fingerprint = [role \in Roles |-> 0]
  /\ process = [p \in Processes |-> Nothing]
  /\ stateFile = [role \in Roles |-> NoFile]
  /\ faults = 0

Alive(p) == p \in Processes /\ process[p].phase # "none"
Phase(p) == process[p].phase
ComingUp(p) == Phase(p) \in {"booting", "published"}

Fault == faults < MaxFaults /\ faults' = faults + 1
NoFault == UNCHANGED faults

---------------------------------------------------------------------------
(* detectRuntimeFingerprintDrift, for a process of a role.                 *)
Peer(role) == IF role = "gateway" THEN "executor" ELSE "gateway"
Drifts(p) == fingerprint[Peer(RoleOf(p))] \notin {0, process[p].config}

(* A process is what it was but for these fields; its file says its status. *)
Becomes(p, phase, status) ==
  process' = [process EXCEPT ![p].phase = phase, ![p].status = status]
Writes(p, status) ==
  stateFile' = [stateFile EXCEPT ![RoleOf(p)] = [pid |-> p, status |-> status]]

Clears(role) == stateFile' = [stateFile EXCEPT ![role] = NoFile]

Dies(p) == process' = [process EXCEPT ![p] = Nothing]

(* A process that is at work has its signal handlers; an earlier one just  *)
(* dies of SIGTERM.                                                        *)
Terminate(p) ==
  process' = CASE ~Alive(p) -> process
               [] Alive(p) /\ Phase(p) \in {"serving", "stopping"} ->
                    [process EXCEPT ![p].phase = "stopping"]
               [] OTHER -> [process EXCEPT ![p] = Nothing]

(* The containers that compose has started take connections at last.       *)
InfraAccepts ==
  /\ infra = "starting"
  /\ infra' = "up"
  /\ UNCHANGED <<config, fingerprint, process, stateFile>> /\ NoFault

---------------------------------------------------------------------------
(* The gateway.                                                            *)

Publish(p) == fingerprint' = [fingerprint EXCEPT ![RoleOf(p)] = config]

(* Configuration, connections and the Feishu ingress, whose readiness is   *)
(* the first thing that the state file is told; then the fingerprint.      *)
GatewayConnects(g) ==
  /\ Phase(g) = "booting"
  /\ infra = "up"
  /\ process' = [process EXCEPT ![g] = [phase |-> "published", config |-> config,
                                        status |-> "starting"]]
  /\ Writes(g, "starting")
  /\ Publish(g)
  /\ UNCHANGED <<config, infra>> /\ NoFault

HoldsPort(g) == Phase(g) \in {"serving", "stopping"}
PortTaken == \E g \in Gateways : HoldsPort(g)

GatewayListens(g) ==
  /\ Phase(g) = "published"
  /\ ~PortTaken
  /\ Becomes(g, "serving", "ready")
  /\ Writes(g, "ready")
  /\ UNCHANGED <<config, infra, fingerprint>> /\ NoFault

(* The database does not answer its one SELECT, be it stopped or still     *)
(* starting, or another gateway holds the port.                            *)
GatewayGivesUp(g) ==
  /\ \/ Phase(g) = "booting" /\ infra # "up"
     \/ Phase(g) = "published" /\ PortTaken
  /\ Dies(g)
  /\ UNCHANGED <<config, infra, fingerprint, stateFile>> /\ NoFault

(* What a request to the health path finds: the gateway that holds the     *)
(* port compares the fingerprints and then says what it is.  Without Redis *)
(* the request fails, and changes nothing.                                 *)
Answering(g) == Phase(g) = "serving" /\ infra = "up"

Health(g) == IF Drifts(g) THEN "degraded" ELSE "ready"

RefreshHealth(g) ==
  /\ process' = [process EXCEPT ![g].status = Health(g)]
  /\ IF Health(g) = "degraded" \/ process[g].status = "degraded"
       THEN Writes(g, Health(g))
       ELSE UNCHANGED stateFile

---------------------------------------------------------------------------
(* The executor.                                                           *)

ExecutorPublishes(e) ==
  /\ Phase(e) = "booting"
  /\ infra = "up"
  /\ process' = [process EXCEPT ![e] = [phase |-> "published", config |-> config,
                                        status |-> "starting"]]
  /\ Publish(e)
  /\ UNCHANGED <<config, infra, stateFile>> /\ NoFault

(* evaluateExecutorReadiness: the peer's fingerprint, then the probes, of  *)
(* which codex's may fail.                                                 *)
Evaluate(e, failing) ==
  \/ LET status == IF Drifts(e) THEN failing ELSE "ready"
     IN  Becomes(e, "serving", status) /\ Writes(e, status) /\ NoFault
  \/ Becomes(e, "serving", failing) /\ Writes(e, failing) /\ Fault

ExecutorReports(e) ==
  /\ Phase(e) = "published"
  /\ infra = "up"
  /\ Evaluate(e, "failed")
  /\ UNCHANGED <<config, infra, fingerprint>>

(* One that failed at startup does nothing in its ticks.                   *)
ExecutorTicks(e) ==
  /\ Phase(e) = "serving"
  /\ process[e].status # "failed"
  /\ infra = "up"
  /\ Evaluate(e, "degraded")
  /\ UNCHANGED <<config, infra, fingerprint>>

(* The fingerprint cannot be read: at startup that ends the process, and   *)
(* in a tick the rejection that nobody handles may.                        *)
ExecutorGivesUp(e) ==
  /\ \/ Phase(e) \in {"booting", "published"}
     \/ Phase(e) = "serving" /\ process[e].status # "failed"
  /\ infra # "up"
  /\ Dies(e)
  /\ UNCHANGED <<config, infra, fingerprint, stateFile>> /\ NoFault

---------------------------------------------------------------------------
(* The end of either: its stop() and the last word in its file; without    *)
(* Redis stop() may throw first.                                           *)
Leaves(p) ==
  /\ Phase(p) = "stopping"
  /\ p \notin Hangs
  /\ Dies(p)
  /\ \/ Writes(p, "stopped")
     \/ infra # "up" /\ UNCHANGED stateFile
  /\ UNCHANGED <<config, infra, fingerprint>> /\ NoFault

Crashes(p) ==
  /\ Alive(p)
  /\ Fault
  /\ Dies(p)
  /\ UNCHANGED <<config, infra, fingerprint, stateFile>>

ProcessStep(p) ==
  \/ p \in Gateways /\ (GatewayConnects(p) \/ GatewayListens(p) \/ GatewayGivesUp(p))
  \/ p \in Executors /\ (\/ ExecutorPublishes(p) \/ ExecutorReports(p)
                         \/ ExecutorTicks(p) \/ ExecutorGivesUp(p))
  \/ Leaves(p)
============================================================================

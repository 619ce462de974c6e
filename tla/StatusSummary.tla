---------------------------- MODULE StatusSummary --------------------------
(***************************************************************************)
(* What `carvis status` says: the layers, from the state files and the     *)
(* files of the daemon, and the one word for all of them.                  *)
(* carvis is installed, docker answers, codex and the Feishu credentials   *)
(* are good: the layers of installation and of external dependencies are   *)
(* ready throughout.                                                       *)
(***************************************************************************)
EXTENDS DaemonSupervisor

(* Mutant: a file counts, whatever became of the process. *)
CountsUnseen(role) == stateFile[role].pid # NoProcess

(* A file counts while the process that it names is alive.                 *)
Counts(role) == Alive(stateFile[role].pid)

(* healthSnapshot.ready of the file.  The health path is asked later, and  *)
(* its answer replaces the snapshot that is shown, not the word for it.    *)
GatewayReady == Counts("gateway") /\ stateFile["gateway"].status = "ready"

GatewayStatus ==
  IF ~Counts("gateway") THEN "stopped" ELSE stateFile["gateway"].status

ExecutorStatus == IF Counts("executor") THEN stateFile["executor"].status ELSE "stopped"

(* resolveOverallStatus: of the runtime.                                   *)
RuntimeStatus ==
  LET both == {GatewayStatus, ExecutorStatus}
  IN  CASE both = {"stopped"} -> "stopped"
        [] both # {"stopped"} /\ GatewayReady /\ ExecutorStatus = "ready" -> "ready"
        [] OTHER -> IF "failed" \in both THEN "failed"
                    ELSE IF "degraded" \in both THEN "degraded" ELSE "starting"

(* The file at the socket's path is enough.                                *)
DaemonStatus == IF socket # NoDaemon THEN "ready"
                ELSE IF daemonFile = "none" THEN "stopped" ELSE daemonFile

(* resolveLayeredOverallStatus; deriveComponentLayerStatus keeps what the  *)
(* two components of the infrastructure, always alike here, say.           *)
Layers == {infraFile, DaemonStatus, RuntimeStatus, "ready"}
OverallStatus ==
  IF "failed" \in Layers THEN "failed"
  ELSE IF "degraded" \in Layers THEN "degraded"
  ELSE IF Layers = {"ready"} THEN "ready" ELSE "starting"
============================================================================

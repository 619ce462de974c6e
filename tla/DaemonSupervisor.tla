-------------------------- MODULE DaemonSupervisor -------------------------
(***************************************************************************)
(* carvis daemon: it listens on its socket, reconciles infrastructure and  *)
(* runtime once when it starts, and answers requests, each in a handler of *)
(* its own with nothing that keeps two of them apart.                      *)
(***************************************************************************)
EXTENDS ProcessManager

VARIABLES
  daemon,      \* phase of each daemon process
  socket,      \* the daemon that made the file at the socket's path
  daemonFile,  \* daemon.json: serviceState
  infraFile    \* infra.json

daemonVars == <<daemon, socket, daemonFile, infraFile>>
supervisorVars == <<managerVars, daemonVars>>

SupervisorTypeOK ==
  /\ daemon \in [Daemons -> {"none", "booting", "cleared", "serving", "closing"}]
  /\ socket \in Daemons \cup {NoDaemon}
  /\ daemonFile \in {"none", "starting", "ready", "stopped"}
  /\ infraFile \in {"ready", "stopped", "failed"}

(* A daemon has been launched on a host where nothing runs yet.             *)
SupervisorInit ==
  /\ ManagerInit
  /\ \E first \in Daemons :
       /\ first = CHOOSE d \in Daemons : TRUE
       /\ daemon = [d \in Daemons |-> IF d = first THEN "booting" ELSE "none"]
  /\ socket = NoDaemon
  /\ daemonFile = "none"
  /\ infraFile = "stopped"

Both(verb) == << <<verb, "both">> >>

(* What a daemon does by itself when it starts, and what each request asks. *)
Boot == Both("up") \o Both("reconcile") \o AfterStart
Plan(action) ==
  CASE action = "infra_status" -> Both("probe") \o Both("refresh") \o Both("reply")
    [] action = "infra_stop" -> Both("down") \o Stop \o Both("refresh") \o Both("reply")
    [] action = "infra_start" -> Both("up") \o Both("refresh") \o Both("reply")
    [] action = "infra_restart" ->
         Stop \o Both("down") \o Both("up") \o Both("refresh") \o Both("reply")
    [] action = "daemon_stop" -> Stop \o Both("reply") \o Both("close")

StillStops(c) == Open(c) /\ \E i \in DOMAIN calls[c].todo : calls[c].todo[i] = <<"close", "both">>

OpenCall(d, todo, asker) ==
  \E c \in Calls :
    /\ ~Open(c)
    /\ c = CHOOSE k \in Calls : ~Open(k)
    /\ calls' = [calls EXCEPT ![c] = [NoCall EXCEPT !.daemon = d, !.todo = todo,
                                                    !.asker = asker]]

(* A daemon that ends takes its calls along.                               *)
WithoutCallsOf(d) == [c \in Calls |-> IF calls[c].daemon = d THEN NoCall ELSE calls[c]]

---------------------------------------------------------------------------
(* Start of a daemon.                                                      *)

Unused == {d \in Daemons : daemon[d] = "none"}
NextDaemon == CHOOSE d \in Unused : TRUE
Launch == Unused # {} /\ daemon' = [daemon EXCEPT ![NextDaemon] = "booting"]

RemoveSocket(d) ==
  /\ daemon[d] = "booting"
  /\ socket' = NoDaemon
  /\ daemonFile' = "starting"
  /\ daemon' = [daemon EXCEPT ![d] = "cleared"]
  /\ UNCHANGED <<managerVars, infraFile>>

Listen(d) ==
  /\ daemon[d] = "cleared"
  /\ socket = NoDaemon
  /\ socket' = d
  /\ daemon' = [daemon EXCEPT ![d] = "serving"]
  /\ OpenCall(d, Boot, "nobody")
  /\ UNCHANGED <<processVars, daemonFile, infraFile>>

AddressInUse(d) ==
  /\ daemon[d] = "cleared"
  /\ socket # NoDaemon
  /\ daemon' = [daemon EXCEPT ![d] = "none"]
  /\ UNCHANGED <<managerVars, socket, daemonFile, infraFile>>

Reachable == {d \in Daemons : socket = d /\ daemon[d] = "serving"}

Accept(d, action, asker) ==
  /\ d \in Reachable
  /\ OpenCall(d, Plan(action), asker)
  /\ UNCHANGED <<processVars, daemonVars>>

---------------------------------------------------------------------------
(* The infrastructure, by docker compose.                                  *)

Reconciles(c) == Rest(c) # <<>> /\ Head(Rest(c)) = <<"reconcile", "both">>

(* Compose returns when the containers run, and one that has no health     *)
(* check counts as ready at once; one that ran already goes on.            *)
InfraUp(c) ==
  /\ At(c, "up", "both")
  /\ \/ /\ infra' = IF infra = "down" THEN "starting" ELSE infra
        /\ infraFile' = "ready"
        /\ Continue(c, IF Reconciles(c) THEN Start \o Tail(Rest(c)) ELSE Rest(c))
        /\ NoFault
     \/ /\ infraFile' = "failed"
        /\ Continue(c, IF Reconciles(c) THEN Stop \o Tail(Rest(c)) ELSE Rest(c))
        /\ UNCHANGED infra
        /\ Fault
  /\ UNCHANGED <<config, fingerprint, process, stateFile, daemon, socket, daemonFile>>

(* A restart that cannot stop the containers does not start them either.   *)
StartsAgain(c) == Rest(c) # <<>> /\ Head(Rest(c)) = <<"up", "both">>

InfraDown(c) ==
  /\ At(c, "down", "both")
  /\ \/ /\ infra' = "down" /\ infraFile' = "stopped"
        /\ Continue(c, Rest(c))
        /\ NoFault
     \/ /\ infraFile' = "failed"
        /\ Continue(c, IF StartsAgain(c) THEN Tail(Rest(c)) ELSE Rest(c))
        /\ UNCHANGED infra
        /\ Fault
  /\ UNCHANGED <<config, fingerprint, process, stateFile, daemon, socket, daemonFile>>

InfraProbe(c) ==
  /\ At(c, "probe", "both")
  /\ infraFile' = IF infra = "down" THEN "stopped" ELSE "ready"
  /\ Continue(c, Rest(c))
  /\ Silent
  /\ UNCHANGED <<daemon, socket, daemonFile>>

---------------------------------------------------------------------------
(* The rest of a handler.                                                  *)

WriteReady(c) ==
  /\ At(c, "ready", "both")
  /\ daemonFile' = "ready"
  /\ Continue(c, Rest(c))
  /\ Silent
  /\ UNCHANGED <<daemon, socket, infraFile>>

(* refreshLayeredStatus: the status service drops the files of dead        *)
(* processes and, if one is left for the gateway, asks the health path.    *)
RefreshStatus(c) ==
  /\ At(c, "refresh", "both")
  /\ \/ /\ Cleaned["gateway"] # NoFile
        /\ \E g \in Gateways :
             /\ Answering(g)
             /\ process' = [process EXCEPT ![g].status = Health(g)]
             /\ stateFile' = IF Health(g) = "degraded" \/ process[g].status = "degraded"
                               THEN [Cleaned EXCEPT !["gateway"] = [pid |-> g,
                                                                    status |-> Health(g)]]
                               ELSE Cleaned
     \/ /\ Cleaned["gateway"] = NoFile \/ \A g \in Gateways : ~Answering(g)
        /\ stateFile' = Cleaned
        /\ UNCHANGED process
  /\ Continue(c, Rest(c))
  /\ UNCHANGED <<config, infra, fingerprint, daemonVars>> /\ NoFault

(* The answer; that of daemon_stop ends the listening, and a restart of    *)
(* the command line then spawns the next daemon.                           *)
Reply(c) ==
  /\ At(c, "reply", "both")
  /\ IF StillStops(c)
       THEN /\ daemonFile' = "stopped"
            /\ calls[c].asker = "restart" => Unused # {}
            /\ daemon' = [d \in Daemons |->
                            CASE d = calls[c].daemon -> "closing"
                              [] calls[c].asker = "restart" /\ d = NextDaemon -> "booting"
                              [] OTHER -> daemon[d]]
       ELSE UNCHANGED <<daemon, daemonFile>>
  /\ Continue(c, Rest(c))
  /\ Silent
  /\ UNCHANGED <<socket, infraFile>>

(* server.close() waits for the connections that are still open; process.exit *)
(* then may or may not leave the removal of the socket's path its time.    *)
Close(c) ==
  /\ At(c, "close", "both")
  /\ \A k \in Calls \ {c} :
       calls[k].daemon = calls[c].daemon =>
         calls[k].asker = "nobody" \/ At(k, "close", "both")
  /\ daemon' = [daemon EXCEPT ![calls[c].daemon] = "none"]
  /\ calls' = WithoutCallsOf(calls[c].daemon)
  /\ socket' \in {socket, NoDaemon}
  /\ Silent
  /\ UNCHANGED <<daemonFile, infraFile>>

DaemonCrashes(d) ==
  /\ daemon[d] # "none"
  /\ Fault
  /\ daemon' = [daemon EXCEPT ![d] = "none"]
  /\ calls' = WithoutCallsOf(d)
  /\ UNCHANGED <<config, infra, fingerprint, process, stateFile, socket, daemonFile, infraFile>>

DaemonStep(d) == RemoveSocket(d) \/ Listen(d) \/ AddressInUse(d)
HandlerStep(c) ==
  \/ ManagerStep(c) /\ UNCHANGED daemonVars
  \/ InfraUp(c) \/ InfraDown(c) \/ InfraProbe(c)
  \/ WriteReady(c) \/ RefreshStatus(c) \/ Reply(c) \/ Close(c)
============================================================================

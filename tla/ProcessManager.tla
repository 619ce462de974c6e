--------------------------- MODULE ProcessManager --------------------------
(***************************************************************************)
(* createProcessManager: start and stop of the two processes, as the steps *)
(* of a call.  A call is what its daemon still has to do, as a sequence of *)
(* stages; several calls may be on their way, and what one knows of the    *)
(* processes it knows from the state files.                                *)
(***************************************************************************)
EXTENDS RuntimeProcesses

CONSTANTS
  Calls,         \* calls that may be on their way at once
  Daemons,
  NoDaemon

VARIABLE calls

managerVars == <<processVars, calls>>

(* Whose it is, what it still does, who waits for its answer, and the      *)
(* processes that its start has spawned or its stop has signalled.         *)
NoCall == [daemon |-> NoDaemon, todo |-> <<>>, asker |-> "nobody",
           handle |-> [role \in Roles |-> NoProcess]]
Askers == {"nobody", "cli", "restart"}

Verbs == {"clean", "spawn", "await", "kill", "reap", "signal", "gone",
          "up", "down", "reconcile", "probe", "ready", "refresh", "reply", "close"}

Start == << <<"clean", "both">>, <<"spawn", "gateway">>, <<"await", "gateway">>,
            <<"spawn", "executor">>, <<"await", "executor">> >>
Rollback == << <<"kill", "executor">>, <<"reap", "executor">>,
               <<"kill", "gateway">>, <<"reap", "gateway">> >>
(* Mutant: a stop that leaves the gateway. *)
StopExecutorOnly == << <<"signal", "executor">> >>
Stop == << <<"signal", "executor">>, <<"signal", "gateway">> >>

ManagerTypeOK ==
  \A c \in Calls :
    /\ calls[c].daemon \in Daemons \cup {NoDaemon}
    /\ calls[c].todo \in Seq(Verbs \X (Roles \cup {"both"}))
    /\ calls[c].asker \in Askers
    /\ \A role \in Roles : calls[c].handle[role] \in Of(role) \cup {NoProcess}

ManagerInit == ProcessesInit /\ calls = [c \in Calls |-> NoCall]

Open(c) == calls[c].todo # <<>>
At(c, verb, role) == Open(c) /\ Head(calls[c].todo) = <<verb, role>>
Rest(c) == Tail(calls[c].todo)
Continue(c, todo) ==
  calls' = [calls EXCEPT ![c] = IF todo = <<>> THEN NoCall ELSE [@ EXCEPT !.todo = todo]]

(* What follows the start, in the one call that starts: that of a daemon's *)
(* own reconcile.                                                          *)
AfterStart == << <<"ready", "both">>, <<"refresh", "both">> >>

Reporting == {"ready", "refresh", "reply", "close"}
Managing(c) == \E i \in DOMAIN calls[c].todo : calls[c].todo[i][1] \notin Reporting

LetGo(c, role) ==
  calls' = [calls EXCEPT ![c] = IF Rest(c) = <<>> THEN NoCall
                                ELSE [@ EXCEPT !.todo = Rest(c), !.handle[role] = NoProcess]]

OnlyFiles == UNCHANGED <<config, infra, fingerprint, process>> /\ NoFault
OnlyProcesses == UNCHANGED <<config, infra, fingerprint, stateFile>> /\ NoFault
Silent == UNCHANGED <<config, infra, fingerprint, process, stateFile>> /\ NoFault

(* cleanupStale of the state store.                                        *)
Cleaned == [role \in Roles |-> IF Alive(stateFile[role].pid) THEN stateFile[role] ELSE NoFile]

---------------------------------------------------------------------------
(* start()                                                                 *)

(* Mutant: a start that does not look whether something runs. *)
CleanOnly(c) ==
  /\ At(c, "clean", "both")
  /\ stateFile' = Cleaned
  /\ Continue(c, Rest(c))
  /\ OnlyFiles

(* ALREADY_RUNNING if a file is left.                                      *)
CleanAndCheck(c) ==
  /\ At(c, "clean", "both")
  /\ stateFile' = Cleaned
  /\ Continue(c, IF \A role \in Roles : Cleaned[role] = NoFile THEN Rest(c) ELSE AfterStart)
  /\ OnlyFiles

(* A pid that is named nowhere.                                            *)
Fresh(role) ==
  {p \in Of(role) : /\ ~Alive(p)
                    /\ stateFile[role].pid # p
                    /\ \A c \in Calls : calls[c].handle[role] # p}

Spawn(c, role) ==
  /\ At(c, "spawn", role)
  /\ \E p \in Fresh(role) :
       /\ p = CHOOSE q \in Fresh(role) : TRUE
       /\ process' = [process EXCEPT ![p] = [Nothing EXCEPT !.phase = "booting"]]
       /\ calls' = [calls EXCEPT ![c] = [@ EXCEPT !.todo = Rest(c), !.handle[role] = p]]
  /\ OnlyProcesses

(* waitForGatewayReady asks the port; whoever holds it answers.            *)
AwaitGateway(c) ==
  /\ At(c, "await", "gateway")
  /\ \E g \in Gateways :
       /\ Answering(g)
       /\ RefreshHealth(g)
       /\ IF Health(g) = "ready" THEN Continue(c, Rest(c)) ELSE UNCHANGED calls
  /\ UNCHANGED <<config, infra, fingerprint>> /\ NoFault

(* waitForExecutorState reads the file, whoever wrote it.                  *)
AwaitExecutor(c) ==
  /\ At(c, "await", "executor")
  /\ stateFile["executor"].status \in {"ready", "failed"}
  /\ Continue(c, IF stateFile["executor"].status = "ready" THEN Rest(c)
                                                            ELSE Rollback \o AfterStart)
  /\ Silent

(* Thirty seconds are over.  They are more than a process needs to come up *)
(* or to say that it will not: an earlier end of the wait is a fault.      *)
Settled(role) ==
  /\ \A p \in Of(role) : ~ComingUp(p)
  /\ IF role = "gateway" THEN \A g \in Gateways : Answering(g) => Drifts(g)
                         ELSE stateFile[role].status \notin {"ready", "failed"}

Timeout(c, role) ==
  /\ At(c, "await", role)
  /\ \/ Settled(role) /\ NoFault
     \/ ~Settled(role) /\ Fault
  /\ Continue(c, Rollback \o AfterStart)
  /\ UNCHANGED <<config, infra, fingerprint, process, stateFile>>

(* rollback: the processes it spawned itself, without a limit to the wait. *)
KillSpawned(c, role) ==
  /\ At(c, "kill", role)
  /\ Terminate(calls[c].handle[role])
  /\ Continue(c, Rest(c))
  /\ OnlyProcesses

ReapSpawned(c, role) ==
  /\ At(c, "reap", role)
  /\ ~Alive(calls[c].handle[role])
  /\ Clears(role)
  /\ LetGo(c, role)
  /\ OnlyFiles

---------------------------------------------------------------------------
(* stop(), of the process that the role's state file names.                *)

Recorded(role) == stateFile[role].pid

SignalRecorded(c, role) ==
  /\ At(c, "signal", role)
  /\ IF Alive(Recorded(role))
       THEN /\ Terminate(Recorded(role))
            /\ calls' = [calls EXCEPT ![c] = [@ EXCEPT !.todo = << <<"gone", role>> >> \o Rest(c),
                                                       !.handle[role] = Recorded(role)]]
            /\ UNCHANGED stateFile
       ELSE /\ Clears(role)
            /\ Continue(c, Rest(c))
            /\ UNCHANGED process
  /\ UNCHANGED <<config, infra, fingerprint>> /\ NoFault

(* Mutant: no SIGKILL for a process that does not leave. *)
AwaitRecorded(c, role) ==
  /\ At(c, "gone", role)
  /\ ~Alive(calls[c].handle[role])
  /\ Clears(role)
  /\ LetGo(c, role)
  /\ OnlyFiles

(* Gone within five seconds, or SIGKILL.                                   *)
ForgetRecorded(c, role) ==
  /\ At(c, "gone", role)
  /\ IF Alive(calls[c].handle[role])
       THEN (calls[c].handle[role] \in Hangs \/ faults < MaxFaults) /\ Dies(calls[c].handle[role])
       ELSE UNCHANGED process
  /\ faults' = IF Alive(calls[c].handle[role]) /\ calls[c].handle[role] \notin Hangs
                 THEN faults + 1 ELSE faults
  /\ Clears(role)
  /\ LetGo(c, role)
  /\ UNCHANGED <<config, infra, fingerprint>>

ManagerStep(c) ==
  \/ CleanAndCheck(c) \/ AwaitGateway(c) \/ AwaitExecutor(c)
  \/ \E role \in Roles :
       \/ Spawn(c, role) \/ Timeout(c, role) \/ KillSpawned(c, role) \/ ReapSpawned(c, role)
       \/ SignalRecorded(c, role) \/ ForgetRecorded(c, role)
============================================================================

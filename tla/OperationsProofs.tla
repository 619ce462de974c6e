-------------------------- MODULE OperationsProofs -------------------------
(***************************************************************************)
(* What holds of the operation of a host for any number of processes,      *)
(* daemons, calls and commands: the types of the state, that a status      *)
(* "ready" has processes behind it, that no process is out of reach, and   *)
(* that a restart heals.                                                   *)
(***************************************************************************)
EXTENDS Operations, SequenceTheorems, TLAPS

---------------------------------------------------------------------------
Stages == Verbs \X (Roles \cup {"both"})
Files == [pid : Processes \cup {NoProcess}, status : Statuses]
Todos == Seq(Stages)
CallsOf == [daemon : Daemons \cup {NoDaemon}, todo : Todos, asker : Askers,
            handle : [Roles -> Processes \cup {NoProcess}]]

(* The type invariant, variable by variable, and that what it says of the  *)
(* fields of the files and of the calls is all there is to them.           *)
HostTyped ==
  /\ config \in 1..MaxConfigs
  /\ infra \in {"down", "starting", "up"}
  /\ fingerprint \in [Roles -> 0..MaxConfigs]
  /\ process \in [Processes -> [phase : Phases, config : 0..MaxConfigs, status : Statuses]]
  /\ faults \in 0..MaxFaults
FilesTyped ==
  /\ stateFile \in [Roles -> Files]
  /\ \A role \in Roles : stateFile[role].pid \in Of(role) \cup {NoProcess}
CallsTyped ==
  /\ calls \in [Calls -> CallsOf]
  /\ \A c \in Calls : \A role \in Roles : calls[c].handle[role] \in Of(role) \cup {NoProcess}
OperatorTyped ==
  /\ given \in 0..MaxCommands
  /\ restarted \in BOOLEAN /\ warm \in BOOLEAN /\ cut \in BOOLEAN

BaseInv == HostTyped /\ FilesTyped /\ CallsTyped /\ SupervisorTypeOK /\ OperatorTyped

---------------------------------------------------------------------------
(* A file that says ready, and whose process is alive, is right about it.  *)
TrueFile(role) ==
  Alive(stateFile[role].pid) /\ stateFile[role].status = "ready" =>
    /\ Phase(stateFile[role].pid) \in {"serving", "stopping"}
    /\ role = "executor" => process[stateFile[role].pid].status = "ready"
ReadyInv == BaseInv /\ \A role \in Roles : TrueFile(role)

---------------------------------------------------------------------------
(* What a call may still have to do, from here on: the boot of a daemon,   *)
(* what is left of a start or of its rollback, or a sequence without       *)
(* either, which may be in the middle of a stop.                           *)
Start0 == << <<"clean", "both">>, <<"spawn", "gateway">>, <<"await", "gateway">>,
             <<"spawn", "executor">>, <<"await", "executor">>,
             <<"ready", "both">>, <<"refresh", "both">> >>
Start1 == << <<"spawn", "gateway">>, <<"await", "gateway">>,
             <<"spawn", "executor">>, <<"await", "executor">>,
             <<"ready", "both">>, <<"refresh", "both">> >>
Start2 == << <<"await", "gateway">>, <<"spawn", "executor">>, <<"await", "executor">>,
             <<"ready", "both">>, <<"refresh", "both">> >>
Start3 == << <<"spawn", "executor">>, <<"await", "executor">>,
             <<"ready", "both">>, <<"refresh", "both">> >>
Start4 == << <<"await", "executor">>, <<"ready", "both">>, <<"refresh", "both">> >>
Back0 == << <<"kill", "executor">>, <<"reap", "executor">>,
            <<"kill", "gateway">>, <<"reap", "gateway">>,
            <<"ready", "both">>, <<"refresh", "both">> >>
Back1 == << <<"reap", "executor">>, <<"kill", "gateway">>, <<"reap", "gateway">>,
            <<"ready", "both">>, <<"refresh", "both">> >>
Back2 == << <<"kill", "gateway">>, <<"reap", "gateway">>,
            <<"ready", "both">>, <<"refresh", "both">> >>
Back3 == << <<"reap", "gateway">>, <<"ready", "both">>, <<"refresh", "both">> >>
Boot0 == << <<"up", "both">>, <<"reconcile", "both">>,
            <<"ready", "both">>, <<"refresh", "both">> >>

Forward == {Start1, Start2, Start3, Start4}
Backward == {Back0, Back1, Back2, Back3}

PlainVerbs == {"up", "down", "signal", "probe", "ready", "refresh", "reply", "close"}
Plain(todo) == \A i \in 1..Len(todo) : todo[i][1] \in PlainVerbs
Waits(todo) == todo # <<>> /\ Head(todo)[1] = "gone" /\ Plain(Tail(todo))

Shape(todo) ==
  todo \in {Boot0, Start0} \cup Forward \cup Backward \/ Plain(todo) \/ Waits(todo)
ShapeInv == BaseInv /\ \A c \in Calls : Shape(calls[c].todo)

(* A call is in the hands of a daemon that serves, or did.                 *)
Owned(c) ==
  Open(c) => calls[c].daemon \in Daemons /\ daemon[calls[c].daemon] \in {"serving", "closing"}
OwnedInv == ShapeInv /\ \A c \in Calls : Owned(c)

---------------------------------------------------------------------------
(* As long as no two calls managed at once and none was cut short: which   *)
(* processes the files name, and which the handles of the call that is in  *)
(* the middle of a start.                                                  *)
Starts(c) == calls[c].todo \in Forward \cup Backward
Told(p) ==
  /\ Alive(p)
  /\ \/ Phase(p) \in {"serving", "stopping"}
     \/ p \in Gateways /\ Phase(p) = "published"
Dead(role) == \A p \in Of(role) : ~Alive(p)
Cleared(role) == Dead(role) /\ stateFile[role] = NoFile

OneManages == \A c, k \in Calls : Managing(c) /\ Managing(k) => c = k
ToldAreNamed == \A p \in Processes : Told(p) => Recorded(RoleOf(p)) = p
AllAreNamed ==
  (\A c \in Calls : ~Starts(c)) => \A p \in Processes : Alive(p) => Recorded(RoleOf(p)) = p
StartsHold(c) ==
  /\ Starts(c) => \A p \in Processes : Alive(p) => calls[c].handle[RoleOf(p)] = p
  /\ calls[c].todo = Start1 => Dead("gateway")
  /\ calls[c].todo \in {Start1, Start2, Start3} => Cleared("executor")
  /\ calls[c].todo \in {Start3, Start4} => \A g \in Gateways : Alive(g) => Told(g)
  /\ calls[c].todo = Start4 =>
       stateFile["executor"] = NoFile \/ Recorded("executor") = calls[c].handle["executor"]
  /\ calls[c].todo \in {Back2, Back3} => Dead("executor")
GoneHolds(c) ==
  \A role \in Roles :
    At(c, "gone", role) => \A p \in Of(role) : Alive(p) => p = calls[c].handle[role]

Reach ==
  /\ OneManages /\ ToldAreNamed /\ AllAreNamed
  /\ \A c \in Calls : StartsHold(c) /\ GoneHolds(c)
ReachInv == OwnedInv /\ (~cut => Reach)

---------------------------------------------------------------------------
(* Types.                                                                  *)

LEMMA RolesAre ==
  /\ Roles = {"gateway", "executor"}
  /\ \A p \in Processes : RoleOf(p) \in Roles /\ p \in Of(RoleOf(p))
  /\ \A role \in Roles : Of(role) \subseteq Processes
  /\ \A role \in Roles : \A p \in Of(role) : RoleOf(p) = role
  /\ \A p \in Gateways : RoleOf(p) = "gateway"
  /\ \A p \in Executors : RoleOf(p) = "executor"
  /\ NoProcess \notin Processes
  /\ \A role \in Roles : NoProcess \notin Of(role)
BY ProcessAssumption DEF Roles, RoleOf, Of, Processes

LEMMA TodosTyped ==
  /\ <<>> \in Todos
  /\ Boot \in Todos /\ Start \in Todos /\ Stop \in Todos /\ Rollback \in Todos
  /\ AfterStart \in Todos
  /\ \A action \in Requests \cup {"daemon_stop"} : Plan(action) \in Todos
  /\ \A role \in Roles : << <<"gone", role>> >> \in Todos
  /\ \A s, t \in Todos : s \o t \in Todos
  /\ \A t \in Todos : t # <<>> => Tail(t) \in Todos
<1>1. \A s, t \in Todos : s \o t \in Todos
  BY ConcatProperties DEF Todos
<1>2. \A t \in Todos : t # <<>> => Tail(t) \in Todos
  BY HeadTailProperties DEF Todos
<1>3. <<>> \in Todos /\ Start \in Todos /\ Stop \in Todos /\ Rollback \in Todos
  BY DEF Todos, Start, Stop, Rollback, Stages, Verbs, Roles
<1>4. AfterStart \in Todos
  BY DEF Todos, AfterStart, Stages, Verbs, Roles
<1>5. \A verb \in Verbs : Both(verb) \in Todos
  BY DEF Todos, Both, Stages, Roles
<1>6. \A role \in Roles : << <<"gone", role>> >> \in Todos
  BY DEF Todos, Stages, Verbs, Roles
<1>7. Boot \in Todos
  BY <1>1, <1>4, <1>5 DEF Boot, Verbs
<1>8. \A action \in Requests \cup {"daemon_stop"} : Plan(action) \in Todos
  <2> TAKE action \in Requests \cup {"daemon_stop"}
  <2>0. /\ Both("probe") \in Todos /\ Both("refresh") \in Todos /\ Both("reply") \in Todos
        /\ Both("down") \in Todos /\ Both("up") \in Todos /\ Both("close") \in Todos
    BY <1>5 DEF Verbs
  <2>1. CASE action = "infra_status"
    BY <1>1, <2>0, <2>1 DEF Plan
  <2>2. CASE action = "infra_stop"
    BY <1>1, <1>3, <2>0, <2>2 DEF Plan
  <2>3. CASE action = "infra_start"
    BY <1>1, <2>0, <2>3 DEF Plan
  <2>4. CASE action = "infra_restart"
    BY <1>1, <1>3, <2>0, <2>4 DEF Plan
  <2>5. CASE action = "daemon_stop"
    BY <1>1, <1>3, <2>0, <2>5 DEF Plan
  <2> QED
    BY <2>1, <2>2, <2>3, <2>4, <2>5 DEF Requests
<1> QED
  BY <1>1, <1>2, <1>3, <1>4, <1>6, <1>7, <1>8

LEMMA NoCallTyped ==
  NoCall \in CallsOf /\ \A role \in Roles : NoCall.handle[role] = NoProcess
BY TodosTyped DEF NoCall, CallsOf, Askers

LEMMA OpensTyped ==
  ASSUME CallsTyped, NEW c \in Calls, Open(c)
  PROVE  calls[c].todo \in Todos /\ calls[c].todo # <<>> /\ Rest(c) \in Todos
BY TodosTyped DEF CallsTyped, CallsOf, Open, Rest

(* What a step makes of its own call: what it still has to do and, unless  *)
(* that is nothing, the rest of it as it was but for the handle.           *)
Onward(c, todo) ==
  /\ \A k \in Calls \ {c} : calls'[k] = calls[k]
  /\ calls'[c].todo = todo
  /\ todo # <<>> => /\ calls'[c].daemon = calls[c].daemon
                    /\ calls'[c].asker = calls[c].asker

LEMMA ContinueDoes ==
  ASSUME CallsTyped, NEW c \in Calls, NEW todo \in Todos, Continue(c, todo)
  PROVE  /\ CallsTyped' /\ Onward(c, todo)
         /\ todo # <<>> => calls'[c].handle = calls[c].handle
<1>1. CASE todo = <<>>
  <2>1. calls' = [calls EXCEPT ![c] = NoCall]
    BY <1>1 DEF Continue
  <2>2. calls'[c].todo = <<>>
    BY <2>1 DEF NoCall, CallsTyped
  <2> QED
    BY <1>1, <2>1, <2>2, NoCallTyped DEF CallsTyped, Onward
<1>2. CASE todo # <<>>
  <2>1. calls' = [calls EXCEPT ![c] = [calls[c] EXCEPT !.todo = todo]]
    BY <1>2 DEF Continue
  <2>2. [calls[c] EXCEPT !.todo = todo] \in CallsOf
    BY DEF CallsTyped, CallsOf
  <2>3. /\ [calls[c] EXCEPT !.todo = todo].handle = calls[c].handle
        /\ [calls[c] EXCEPT !.todo = todo].todo = todo
        /\ [calls[c] EXCEPT !.todo = todo].daemon = calls[c].daemon
        /\ [calls[c] EXCEPT !.todo = todo].asker = calls[c].asker
    BY DEF CallsTyped, CallsOf
  <2> QED
    BY <2>1, <2>2, <2>3 DEF CallsTyped, Onward
<1> QED
  BY <1>1, <1>2

LEMMA LetGoDoes ==
  ASSUME CallsTyped, NEW c \in Calls, Open(c), NEW role \in Roles, LetGo(c, role)
  PROVE  /\ CallsTyped' /\ Onward(c, Rest(c))
         /\ Rest(c) # <<>> =>
              calls'[c].handle = [calls[c].handle EXCEPT ![role] = NoProcess]
<1>1. CASE Rest(c) = <<>>
  <2>1. calls' = [calls EXCEPT ![c] = NoCall]
    BY <1>1 DEF LetGo
  <2>2. calls'[c].todo = <<>>
    BY <2>1 DEF NoCall, CallsTyped
  <2> QED
    BY <1>1, <2>1, <2>2, NoCallTyped DEF CallsTyped, Onward
<1>2. CASE Rest(c) # <<>>
  <2> DEFINE call == [calls[c] EXCEPT !.todo = Rest(c), !.handle[role] = NoProcess]
  <2>1. calls' = [calls EXCEPT ![c] = call]
    BY <1>2 DEF LetGo
  <2>2. /\ call \in CallsOf
        /\ call.todo = Rest(c) /\ call.daemon = calls[c].daemon /\ call.asker = calls[c].asker
        /\ call.handle = [calls[c].handle EXCEPT ![role] = NoProcess]
    BY OpensTyped DEF CallsTyped, CallsOf
  <2>3. \A r \in Roles : call.handle[r] \in Of(r) \cup {NoProcess}
    BY DEF CallsTyped, CallsOf
  <2> HIDE DEF call
  <2> QED
    BY <2>1, <2>2, <2>3 DEF CallsTyped, Onward
<1> QED
  BY <1>1, <1>2

LEMMA OpenCallDoes ==
  ASSUME CallsTyped, NEW d \in Daemons, NEW todo \in Todos, NEW asker \in Askers,
         OpenCall(d, todo, asker)
  PROVE  /\ CallsTyped'
         /\ \E c \in Calls :
              /\ ~Open(c)
              /\ \A k \in Calls \ {c} : calls'[k] = calls[k]
              /\ calls'[c].todo = todo /\ calls'[c].daemon = d /\ calls'[c].asker = asker
<1> DEFINE call == [NoCall EXCEPT !.daemon = d, !.todo = todo, !.asker = asker]
<1>1. PICK c \in Calls : ~Open(c) /\ calls' = [calls EXCEPT ![c] = call]
  BY DEF OpenCall
<1>2. call \in CallsOf
  BY NoCallTyped DEF CallsOf
<1>3. call.handle = NoCall.handle /\ call.todo = todo /\ call.daemon = d /\ call.asker = asker
  BY NoCallTyped DEF CallsOf
<1>4. CallsTyped'
  BY <1>1, <1>2, <1>3, NoCallTyped DEF CallsTyped
<1> HIDE DEF call
<1>5. calls'[c] = call /\ \A k \in Calls \ {c} : calls'[k] = calls[k]
  BY <1>1 DEF CallsTyped
<1> QED
  BY <1>1, <1>3, <1>4, <1>5

Hands(c, todo, role, p) ==
  calls' = [calls EXCEPT ![c] = [@ EXCEPT !.todo = todo, !.handle[role] = p]]

LEMMA HandsDo ==
  ASSUME CallsTyped, NEW c \in Calls, NEW todo \in Todos, NEW role \in Roles,
         NEW p \in Of(role), Hands(c, todo, role, p)
  PROVE  /\ CallsTyped' /\ Onward(c, todo)
         /\ calls'[c].handle = [calls[c].handle EXCEPT ![role] = p]
<1> DEFINE call == [calls[c] EXCEPT !.todo = todo, !.handle[role] = p]
<1>1. calls' = [calls EXCEPT ![c] = call]
  BY DEF Hands
<1>0. p \in Processes
  BY RolesAre
<1>2. /\ call \in CallsOf
      /\ call.todo = todo /\ call.daemon = calls[c].daemon /\ call.asker = calls[c].asker
      /\ call.handle = [calls[c].handle EXCEPT ![role] = p]
  BY <1>0 DEF CallsTyped, CallsOf
<1>3. \A r \in Roles : call.handle[r] \in Of(r) \cup {NoProcess}
  BY DEF CallsTyped, CallsOf
<1> HIDE DEF call
<1> QED
  BY <1>1, <1>2, <1>3 DEF CallsTyped, Onward

LEMMA WithoutTyped ==
  ASSUME CallsTyped, NEW d, calls' = WithoutCallsOf(d)
  PROVE  CallsTyped'
<1>1. \A c \in Calls : calls'[c] = calls[c] \/ calls'[c] = NoCall
  BY DEF WithoutCallsOf
<1>2. calls' \in [Calls -> CallsOf]
  BY NoCallTyped DEF WithoutCallsOf, CallsTyped
<1>3. ASSUME NEW c \in Calls, NEW role \in Roles
      PROVE  calls'[c].handle[role] \in Of(role) \cup {NoProcess}
  BY <1>1, NoCallTyped DEF CallsTyped
<1> QED
  BY <1>2, <1>3 DEF CallsTyped

(* And what becomes of the files.                                          *)
LEMMA WritesTyped ==
  ASSUME FilesTyped, NEW p \in Processes, NEW status \in Statuses, Writes(p, status)
  PROVE  FilesTyped'
BY RolesAre DEF FilesTyped, Writes, Files

LEMMA ClearsTyped ==
  ASSUME FilesTyped, NEW role \in Roles, Clears(role)
  PROVE  FilesTyped'
BY RolesAre DEF FilesTyped, Clears, Files, NoFile, Statuses

LEMMA CleanedTyped ==
  /\ FilesTyped => Cleaned \in [Roles -> Files]
  /\ FilesTyped => \A role \in Roles : Cleaned[role].pid \in Of(role) \cup {NoProcess}
  /\ \A role \in Roles : Cleaned[role] \in {stateFile[role], NoFile}
BY RolesAre DEF FilesTyped, Cleaned, Files, NoFile, Statuses

(* A process that becomes something of its kind.                           *)
LEMMA FaultsTyped ==
  /\ HostTyped /\ Fault => faults' \in 0..MaxFaults
  /\ HostTyped /\ NoFault => faults' \in 0..MaxFaults
BY ProcessAssumption DEF HostTyped, Fault, NoFault

LEMMA BecomesTyped ==
  ASSUME HostTyped, NEW p \in Processes, NEW x \in [phase : Phases, config : 0..MaxConfigs,
                                                   status : Statuses],
         process' = [process EXCEPT ![p] = x]
  PROVE  process' \in [Processes -> [phase : Phases, config : 0..MaxConfigs, status : Statuses]]
BY DEF HostTyped

LEMMA BecomesSo ==
  ASSUME HostTyped, NEW p \in Processes, NEW phase \in Phases, NEW status \in Statuses,
         Becomes(p, phase, status)
  PROVE  process' \in [Processes -> [phase : Phases, config : 0..MaxConfigs, status : Statuses]]
<1> DEFINE x == [process[p] EXCEPT !.phase = phase, !.status = status]
<1>1. x \in [phase : Phases, config : 0..MaxConfigs, status : Statuses]
  BY DEF HostTyped
<1>2. process' = [process EXCEPT ![p] = x]
  BY DEF Becomes
<1> QED
  BY <1>1, <1>2, BecomesTyped

LEMMA NothingTyped ==
  ASSUME HostTyped
  PROVE  /\ Nothing \in [phase : Phases, config : 0..MaxConfigs, status : Statuses]
         /\ \A p \in Processes : process[p] \in [phase : Phases, config : 0..MaxConfigs,
                                                 status : Statuses]
BY ProcessAssumption DEF Nothing, Phases, Statuses, HostTyped

LEMMA DiesTyped ==
  ASSUME HostTyped, NEW p \in Processes, Dies(p)
  PROVE  process' \in [Processes -> [phase : Phases, config : 0..MaxConfigs, status : Statuses]]
BY NothingTyped DEF HostTyped, Dies

LEMMA PublishTyped ==
  ASSUME HostTyped, NEW p \in Processes, Publish(p)
  PROVE  fingerprint' \in [Roles -> 0..MaxConfigs]
BY RolesAre DEF HostTyped, Publish

LEMMA TerminateTyped ==
  ASSUME HostTyped, NEW p, Terminate(p)
  PROVE  process' \in [Processes -> [phase : Phases, config : 0..MaxConfigs, status : Statuses]]
<1>1. CASE ~Alive(p)
  BY <1>1 DEF Terminate, HostTyped
<1>2. CASE Alive(p) /\ Phase(p) \in {"serving", "stopping"}
  <2>1. process' = [process EXCEPT ![p].phase = "stopping"]
    BY <1>2 DEF Terminate
  <2> QED
    BY <2>1 DEF HostTyped, Phases
<1>3. CASE Alive(p) /\ Phase(p) \notin {"serving", "stopping"}
  <2>1. process' = [process EXCEPT ![p] = Nothing]
    BY <1>3 DEF Terminate
  <2> QED
    BY <2>1, NothingTyped DEF HostTyped
<1> QED
  BY <1>1, <1>2, <1>3

(* One step of a process, or its crash.                                    *)
LEMMA ProcessTyped ==
  ASSUME HostTyped, FilesTyped, NEW p \in Processes, ProcessStep(p) \/ Crashes(p)
  PROVE  HostTyped' /\ FilesTyped'
<1> USE RolesAre
<1>1. CASE p \in Gateways /\ GatewayConnects(p)
  <2>1. Writes(p, "starting") /\ Publish(p) /\ "starting" \in Statuses
    BY <1>1 DEF GatewayConnects, Statuses
  <2>2. FilesTyped' /\ fingerprint' \in [Roles -> 0..MaxConfigs]
    BY <2>1, WritesTyped, PublishTyped
  <2> QED
    BY <1>1, <2>2 DEF GatewayConnects, NoFault, HostTyped, Phases, Statuses
<1>2. CASE p \in Gateways /\ GatewayListens(p)
  <2>1. FilesTyped'
    BY <1>2, WritesTyped DEF GatewayListens, Statuses
  <2>2. Becomes(p, "serving", "ready") /\ "serving" \in Phases /\ "ready" \in Statuses
    BY <1>2 DEF GatewayListens, Phases, Statuses
  <2>3. process' \in [Processes -> [phase : Phases, config : 0..MaxConfigs, status : Statuses]]
    BY <2>2, BecomesSo
  <2> QED
    BY <1>2, <2>1, <2>3 DEF GatewayListens, NoFault, HostTyped
<1>3. CASE p \in Gateways /\ GatewayGivesUp(p)
  BY <1>3, DiesTyped DEF GatewayGivesUp, NoFault, HostTyped, FilesTyped
<1>4. CASE p \in Executors /\ ExecutorPublishes(p)
  <2>1. fingerprint' \in [Roles -> 0..MaxConfigs]
    BY <1>4, PublishTyped DEF ExecutorPublishes
  <2> QED
    BY <1>4, <2>1 DEF ExecutorPublishes, NoFault, HostTyped, FilesTyped, Phases, Statuses
<1>5. ASSUME NEW failing \in {"failed", "degraded"}, Evaluate(p, failing),
             UNCHANGED <<config, infra, fingerprint>>
      PROVE  HostTyped' /\ FilesTyped'
  <2>1. PICK status \in {"ready", "failed", "degraded"} :
          /\ Becomes(p, "serving", status) /\ Writes(p, status)
          /\ Fault \/ NoFault
    BY <1>5 DEF Evaluate
  <2>2. FilesTyped'
    BY <2>1, WritesTyped DEF Statuses
  <2>3. faults' \in 0..MaxFaults
    BY <2>1, FaultsTyped
  <2>4. "serving" \in Phases /\ status \in Statuses
    BY DEF Phases, Statuses
  <2>5. process' \in [Processes -> [phase : Phases, config : 0..MaxConfigs, status : Statuses]]
    BY <2>1, <2>4, BecomesSo
  <2> QED
    BY <1>5, <2>2, <2>3, <2>5 DEF HostTyped
<1>6. CASE p \in Executors /\ (ExecutorReports(p) \/ ExecutorTicks(p))
  BY <1>5, <1>6 DEF ExecutorReports, ExecutorTicks
<1>7. CASE p \in Executors /\ ExecutorGivesUp(p)
  BY <1>7, DiesTyped DEF ExecutorGivesUp, NoFault, HostTyped, FilesTyped
<1>8. CASE Leaves(p)
  <2>1. FilesTyped'
    BY <1>8, WritesTyped DEF Leaves, Statuses, FilesTyped
  <2> QED
    BY <1>8, <2>1, DiesTyped DEF Leaves, NoFault, HostTyped
<1>9. CASE Crashes(p)
  <2>1. faults' \in 0..MaxFaults
    BY <1>9, FaultsTyped DEF Crashes
  <2> QED
    BY <1>9, <2>1, DiesTyped DEF Crashes, HostTyped, FilesTyped
<1> QED
  BY <1>1, <1>2, <1>3, <1>4, <1>6, <1>7, <1>8, <1>9 DEF ProcessStep

LEMMA HealthTyped ==
  ASSUME HostTyped, FilesTyped, NEW g \in Gateways, RefreshHealth(g)
  PROVE  /\ FilesTyped'
         /\ process' \in [Processes -> [phase : Phases, config : 0..MaxConfigs,
                                        status : Statuses]]
<1>1. Health(g) \in Statuses /\ g \in Processes
  BY DEF Health, Statuses, Processes
<1>2. FilesTyped'
  BY <1>1, WritesTyped DEF RefreshHealth, FilesTyped
<1> QED
  BY <1>1, <1>2 DEF RefreshHealth, HostTyped

LEMMA AtOpens ==
  ASSUME NEW c, NEW verb, NEW role, At(c, verb, role)
  PROVE  Open(c)
BY DEF At

(* One step of a call in the process manager.                              *)
LEMMA ManagerTyped ==
  ASSUME HostTyped, FilesTyped, CallsTyped, NEW c \in Calls, ManagerStep(c)
  PROVE  HostTyped' /\ FilesTyped' /\ CallsTyped'
<1>0. Open(c)
  BY DEF ManagerStep, CleanAndCheck, AwaitGateway, AwaitExecutor, Spawn, Timeout, KillSpawned,
         ReapSpawned, SignalRecorded, ForgetRecorded, At
<1>1. Rest(c) \in Todos /\ AfterStart \in Todos /\ Rollback \o AfterStart \in Todos
  BY <1>0, OpensTyped, TodosTyped
<1>2. \A role \in Roles : << <<"gone", role>> >> \o Rest(c) \in Todos
  BY <1>1, TodosTyped
<1>3. CASE CleanAndCheck(c)
  <2>1. CallsTyped'
    BY <1>1, <1>3, ContinueDoes DEF CleanAndCheck
  <2> QED
    BY <1>3, <2>1, CleanedTyped DEF CleanAndCheck, OnlyFiles, NoFault, HostTyped, FilesTyped
<1>4. CASE AwaitGateway(c)
  <2>1. PICK g \in Gateways :
          /\ RefreshHealth(g)
          /\ IF Health(g) = "ready" THEN Continue(c, Rest(c)) ELSE UNCHANGED calls
    BY <1>4 DEF AwaitGateway
  <2>2. CallsTyped'
    <3>1. CASE Health(g) = "ready"
      BY <1>1, <2>1, <3>1, ContinueDoes
    <3>2. CASE Health(g) # "ready"
      BY <2>1, <3>2 DEF CallsTyped
    <3> QED
      BY <3>1, <3>2
  <2> QED
    BY <1>4, <2>1, <2>2, HealthTyped DEF AwaitGateway, NoFault, HostTyped
<1>5. CASE AwaitExecutor(c)
  <2>1. CallsTyped'
    BY <1>1, <1>5, ContinueDoes DEF AwaitExecutor
  <2> QED
    BY <1>5, <2>1 DEF AwaitExecutor, Silent, NoFault, HostTyped, FilesTyped
<1>6. ASSUME NEW role \in Roles, Spawn(c, role)
      PROVE  HostTyped' /\ FilesTyped' /\ CallsTyped'
  <2>1. PICK p \in Of(role) :
          /\ process' = [process EXCEPT ![p] = [Nothing EXCEPT !.phase = "booting"]]
          /\ Hands(c, Rest(c), role, p)
    BY <1>6 DEF Spawn, Fresh, Hands
  <2>2. CallsTyped'
    BY <1>1, <2>1, HandsDo
  <2>3. [Nothing EXCEPT !.phase = "booting"] \in [phase : Phases, config : 0..MaxConfigs,
                                                  status : Statuses]
    BY ProcessAssumption DEF Nothing, Phases, Statuses
  <2>4. p \in Processes
    BY RolesAre
  <2> QED
    BY <1>6, <2>1, <2>2, <2>3, <2>4, BecomesTyped
       DEF Spawn, OnlyProcesses, NoFault, HostTyped, FilesTyped
<1>7. ASSUME NEW role \in Roles, Timeout(c, role)
      PROVE  HostTyped' /\ FilesTyped' /\ CallsTyped'
  <2>1. CallsTyped'
    BY <1>1, <1>7, ContinueDoes DEF Timeout
  <2>2. faults' \in 0..MaxFaults
    BY <1>7, FaultsTyped DEF Timeout
  <2> QED
    BY <1>7, <2>1, <2>2 DEF Timeout, HostTyped, FilesTyped
<1>8. ASSUME NEW role \in Roles, KillSpawned(c, role)
      PROVE  HostTyped' /\ FilesTyped' /\ CallsTyped'
  <2>1. CallsTyped'
    BY <1>1, <1>8, ContinueDoes DEF KillSpawned
  <2>2. process' \in [Processes -> [phase : Phases, config : 0..MaxConfigs,
                                    status : Statuses]]
    BY <1>8, TerminateTyped DEF KillSpawned
  <2> QED
    BY <1>8, <2>1, <2>2 DEF KillSpawned, OnlyProcesses, NoFault, HostTyped, FilesTyped
<1>9. ASSUME NEW role \in Roles, ReapSpawned(c, role)
      PROVE  HostTyped' /\ FilesTyped' /\ CallsTyped'
  <2>1. CallsTyped' /\ FilesTyped'
    BY <1>0, <1>9, LetGoDoes, ClearsTyped DEF ReapSpawned
  <2> QED
    BY <1>9, <2>1 DEF ReapSpawned, OnlyFiles, NoFault, HostTyped
<1>10. ASSUME NEW role \in Roles, SignalRecorded(c, role)
       PROVE  HostTyped' /\ FilesTyped' /\ CallsTyped'
  <2>1. CASE Alive(Recorded(role))
    <3>1. /\ Terminate(Recorded(role))
          /\ Hands(c, << <<"gone", role>> >> \o Rest(c), role, Recorded(role))
          /\ UNCHANGED stateFile
      BY <1>10, <2>1 DEF SignalRecorded, Hands
    <3>2. Recorded(role) \in Of(role)
      BY <2>1, RolesAre DEF Alive, Recorded, FilesTyped
    <3>3. CallsTyped'
      BY <1>2, <3>1, <3>2, HandsDo
    <3> QED
      BY <1>10, <3>1, <3>3, TerminateTyped DEF SignalRecorded, NoFault, HostTyped, FilesTyped
  <2>2. CASE ~Alive(Recorded(role))
    <3>1. CallsTyped' /\ FilesTyped'
      BY <1>1, <1>10, <2>2, ContinueDoes, ClearsTyped DEF SignalRecorded
    <3> QED
      BY <1>10, <2>2, <3>1 DEF SignalRecorded, NoFault, HostTyped
  <2> QED
    BY <2>1, <2>2
<1>11. ASSUME NEW role \in Roles, ForgetRecorded(c, role)
       PROVE  HostTyped' /\ FilesTyped' /\ CallsTyped'
  <2> DEFINE p == calls[c].handle[role]
  <2>1. CallsTyped' /\ FilesTyped'
    BY <1>0, <1>11, LetGoDoes, ClearsTyped DEF ForgetRecorded
  <2>2. process' \in [Processes -> [phase : Phases, config : 0..MaxConfigs,
                                    status : Statuses]]
    <3>1. CASE Alive(p)
      BY <1>11, <3>1, DiesTyped DEF ForgetRecorded, Alive
    <3>2. CASE ~Alive(p)
      BY <1>11, <3>2 DEF ForgetRecorded, HostTyped
    <3> QED
      BY <3>1, <3>2
  <2>3. faults' \in 0..MaxFaults
    <3>1. CASE Alive(p) /\ p \notin Hangs
      <4>1. faults < MaxFaults /\ faults' = faults + 1
        BY <1>11, <3>1 DEF ForgetRecorded
      <4> QED
        BY <4>1, ProcessAssumption DEF HostTyped
    <3>2. CASE ~(Alive(p) /\ p \notin Hangs)
      <4>1. faults' = faults
        BY <1>11, <3>2 DEF ForgetRecorded
      <4> QED
        BY <4>1 DEF HostTyped
    <3> QED
      BY <3>1, <3>2
  <2> QED
    BY <1>11, <2>1, <2>2, <2>3 DEF ForgetRecorded, HostTyped
<1> QED
  BY <1>3, <1>4, <1>5, <1>6, <1>7, <1>8, <1>9, <1>10, <1>11 DEF ManagerStep

(* One step of a handler of the daemon.                                    *)
LEMMA HandlerTyped ==
  ASSUME HostTyped, FilesTyped, CallsTyped, SupervisorTypeOK, NEW c \in Calls, HandlerStep(c)
  PROVE  HostTyped' /\ FilesTyped' /\ CallsTyped' /\ SupervisorTypeOK'
<1>1. CASE ManagerStep(c) /\ UNCHANGED daemonVars
  BY <1>1, ManagerTyped DEF daemonVars, SupervisorTypeOK
<1>2. ASSUME Open(c)
      PROVE  /\ Rest(c) \in Todos
             /\ Reconciles(c) => /\ Start \o Tail(Rest(c)) \in Todos
                                /\ Stop \o Tail(Rest(c)) \in Todos
             /\ StartsAgain(c) => Tail(Rest(c)) \in Todos
  BY <1>2, OpensTyped, TodosTyped DEF Reconciles, StartsAgain
<1>3. CASE InfraUp(c)
  <2>1. PICK todo \in Todos : Continue(c, todo)
    BY <1>2, <1>3, OpensTyped DEF InfraUp, At
  <2>2. CallsTyped'
    BY <2>1, ContinueDoes
  <2>3. faults' \in 0..MaxFaults
    BY <1>3, FaultsTyped DEF InfraUp
  <2> QED
    BY <1>3, <2>2, <2>3 DEF InfraUp, HostTyped, FilesTyped, SupervisorTypeOK
<1>4. CASE InfraDown(c)
  <2>1. PICK todo \in Todos : Continue(c, todo)
    BY <1>2, <1>4, OpensTyped DEF InfraDown, At
  <2>2. CallsTyped'
    BY <2>1, ContinueDoes
  <2>3. faults' \in 0..MaxFaults
    BY <1>4, FaultsTyped DEF InfraDown
  <2> QED
    BY <1>4, <2>2, <2>3 DEF InfraDown, HostTyped, FilesTyped, SupervisorTypeOK
<1>5. ASSUME Open(c), Continue(c, Rest(c))
      PROVE  CallsTyped'
  BY <1>5, OpensTyped, ContinueDoes
<1>6. CASE InfraProbe(c)
  BY <1>5, <1>6 DEF InfraProbe, At, Silent, NoFault, HostTyped, FilesTyped, SupervisorTypeOK
<1>7. CASE WriteReady(c)
  BY <1>5, <1>7 DEF WriteReady, At, Silent, NoFault, HostTyped, FilesTyped, SupervisorTypeOK
<1>8. CASE RefreshStatus(c)
  <2>1. CallsTyped'
    BY <1>5, <1>8 DEF RefreshStatus, At
  <2>2. /\ FilesTyped'
        /\ process' \in [Processes -> [phase : Phases, config : 0..MaxConfigs,
                                       status : Statuses]]
    <3>1. ASSUME stateFile' = Cleaned, UNCHANGED process
          PROVE  /\ FilesTyped'
                 /\ process' \in [Processes -> [phase : Phases, config : 0..MaxConfigs,
                                                status : Statuses]]
      BY <3>1, CleanedTyped DEF FilesTyped, HostTyped
    <3>2. ASSUME NEW g \in Gateways,
                 process' = [process EXCEPT ![g].status = Health(g)],
                 \/ stateFile' = [Cleaned EXCEPT !["gateway"] = [pid |-> g,
                                                                 status |-> Health(g)]]
                 \/ stateFile' = Cleaned
          PROVE  /\ FilesTyped'
                 /\ process' \in [Processes -> [phase : Phases, config : 0..MaxConfigs,
                                                status : Statuses]]
      <4>1. Health(g) \in Statuses /\ g \in Processes /\ g \in Of("gateway")
        BY DEF Health, Statuses, Processes, Of
      <4>2. [pid |-> g, status |-> Health(g)] \in Files
        BY <4>1 DEF Files
      <4>3. FilesTyped'
        BY <3>2, <4>1, <4>2, CleanedTyped, RolesAre DEF FilesTyped
      <4> QED
        BY <3>2, <4>1, <4>3 DEF HostTyped
    <3> QED
      BY <1>8, <3>1, <3>2 DEF RefreshStatus
  <2> QED
    BY <1>8, <2>1, <2>2 DEF RefreshStatus, NoFault, HostTyped, daemonVars, SupervisorTypeOK
<1>9. CASE Reply(c)
  <2>1. SupervisorTypeOK'
    BY <1>9 DEF Reply, SupervisorTypeOK
  <2> QED
    BY <1>5, <1>9, <2>1 DEF Reply, At, Silent, NoFault, HostTyped, FilesTyped
<1>10. CASE Close(c)
  <2>1. SupervisorTypeOK'
    BY <1>10 DEF Close, SupervisorTypeOK
  <2>2. CallsTyped'
    BY <1>10, WithoutTyped DEF Close
  <2> QED
    BY <1>10, <2>1, <2>2 DEF Close, Silent, NoFault, HostTyped, FilesTyped
<1> QED
  BY <1>1, <1>3, <1>4, <1>6, <1>7, <1>8, <1>9, <1>10 DEF HandlerStep

LEMMA DaemonTyped ==
  ASSUME HostTyped, FilesTyped, CallsTyped, SupervisorTypeOK, NEW d \in Daemons,
         DaemonStep(d) \/ DaemonCrashes(d)
  PROVE  HostTyped' /\ FilesTyped' /\ CallsTyped' /\ SupervisorTypeOK'
<1>1. CASE RemoveSocket(d) \/ AddressInUse(d)
  BY <1>1 DEF RemoveSocket, AddressInUse, managerVars, processVars, HostTyped, FilesTyped,
              CallsTyped, SupervisorTypeOK
<1>2. CASE Listen(d)
  <2>1. CallsTyped'
    BY <1>2, TodosTyped, OpenCallDoes DEF Listen, Askers
  <2> QED
    BY <1>2, <2>1 DEF Listen, processVars, HostTyped, FilesTyped, SupervisorTypeOK
<1>3. CASE DaemonCrashes(d)
  <2>1. CallsTyped'
    BY <1>3, WithoutTyped DEF DaemonCrashes
  <2>2. faults' \in 0..MaxFaults
    BY <1>3, FaultsTyped DEF DaemonCrashes
  <2> QED
    BY <1>3, <2>1, <2>2 DEF DaemonCrashes, HostTyped, FilesTyped, SupervisorTypeOK
<1> QED
  BY <1>1, <1>2, <1>3 DEF DaemonStep

(* A command either starts a daemon, or asks one, or changes the files.    *)
LEMMA RequestTyped ==
  ASSUME HostTyped, FilesTyped, CallsTyped, SupervisorTypeOK,
         NEW action \in Requests \cup {"daemon_stop"}, NEW asker \in Askers,
         Request(action, asker)
  PROVE  HostTyped' /\ FilesTyped' /\ CallsTyped' /\ SupervisorTypeOK'
<1>1. PICK d \in Daemons : Accept(d, action, asker)
  BY DEF Request
<1>2. CallsTyped'
  BY <1>1, TodosTyped, OpenCallDoes DEF Accept
<1> QED
  BY <1>1, <1>2 DEF Accept, processVars, daemonVars, HostTyped, FilesTyped, SupervisorTypeOK

LEMMA CommandTyped ==
  ASSUME BaseInv, Command
  PROVE  /\ HostTyped' /\ FilesTyped' /\ CallsTyped' /\ SupervisorTypeOK'
         /\ given' \in 0..MaxCommands /\ restarted' \in BOOLEAN /\ warm' \in BOOLEAN
<1> USE DEF BaseInv
<1>0. given' \in 0..MaxCommands
  BY OperatorAssumption DEF Command, OperatorTyped
<1>1. ASSUME restarted' \in BOOLEAN
      PROVE  warm' \in BOOLEAN
  BY <1>1 DEF Command
<1>2. ASSUME SpawnDaemon
      PROVE  HostTyped' /\ FilesTyped' /\ CallsTyped' /\ SupervisorTypeOK'
  BY <1>2 DEF SpawnDaemon, Launch, managerVars, processVars, HostTyped, FilesTyped, CallsTyped,
              SupervisorTypeOK
<1>3. CASE DaemonStart
  BY <1>0, <1>1, <1>2, <1>3 DEF DaemonStart
<1>4. CASE DaemonStop
  BY <1>0, <1>1, <1>4, RequestTyped DEF DaemonStop, Askers
<1>5. CASE DaemonRestart
  BY <1>0, <1>1, <1>2, <1>5, RequestTyped DEF DaemonRestart, Askers
<1>6. CASE AskDaemon
  BY <1>0, <1>1, <1>6, RequestTyped DEF AskDaemon, Askers
<1>7. CASE Configure
  <2>1. config' \in 1..MaxConfigs
    BY <1>7, ProcessAssumption DEF Configure, HostTyped
  <2>2. restarted' \in BOOLEAN
    BY <1>7 DEF Configure
  <2> QED
    BY <1>0, <1>1, <1>7, <2>1, <2>2
       DEF Configure, daemonVars, HostTyped, FilesTyped, CallsTyped, SupervisorTypeOK
<1> QED
  BY <1>3, <1>4, <1>5, <1>6, <1>7 DEF Command

LEMMA NextTyped ==
  ASSUME BaseInv, Next
  PROVE  BaseInv'
<1> USE DEF BaseInv
<1>1. cut' \in BOOLEAN
  BY DEF Next, NotesCut, OperatorTyped
<1>2. CASE Command
  BY <1>1, <1>2, CommandTyped DEF OperatorTyped
<1>3. CASE /\ RuntimeStep \/ ProcessCrash \/ DaemonCrash \/ Daemon
           /\ restarted' = (restarted /\ faults' = faults)
           /\ UNCHANGED <<given, warm>>
  <2>1. OperatorTyped'
    BY <1>1, <1>3 DEF OperatorTyped
  <2>2. CASE RuntimeStep \/ ProcessCrash
    <3>1. InfraAccepts => HostTyped' /\ FilesTyped'
      BY DEF InfraAccepts, NoFault, HostTyped, FilesTyped
    <3> QED
      BY <2>1, <2>2, <3>1, ProcessTyped
         DEF RuntimeStep, ProcessCrash, daemonVars, CallsTyped, SupervisorTypeOK
  <2>3. CASE DaemonCrash \/ Daemon
    BY <2>1, <2>3, DaemonTyped, HandlerTyped DEF DaemonCrash, Daemon
  <2> QED
    BY <1>3, <2>2, <2>3
<1> QED
  BY <1>2, <1>3 DEF Next

LEMMA InitTyped ==
  ASSUME Init
  PROVE  BaseInv
<1> USE DEF Init, SupervisorInit, ManagerInit, ProcessesInit
<1>1. HostTyped
  BY ProcessAssumption DEF HostTyped, Nothing, Phases, Statuses
<1>2. FilesTyped
  BY RolesAre DEF FilesTyped, NoFile, Files, Statuses
<1>3. CallsTyped
  BY NoCallTyped DEF CallsTyped
<1>4. SupervisorTypeOK
  BY DEF SupervisorTypeOK
<1>5. OperatorTyped
  <2>1. given \in 0..MaxCommands
    BY OperatorAssumption
  <2>2. restarted \in BOOLEAN /\ warm \in BOOLEAN /\ cut \in BOOLEAN
    OBVIOUS
  <2> QED
    BY <2>1, <2>2 DEF OperatorTyped
<1> QED
  BY <1>1, <1>2, <1>3, <1>4, <1>5 DEF BaseInv

LEMMA BaseGivesTypes == BaseInv => TypeOK
BY DEF BaseInv, HostTyped, FilesTyped, CallsTyped, CallsOf, OperatorTyped, TypeOK, Files, Todos,
       Stages, ProcessesTypeOK, ManagerTypeOK

LEMMA BaseStutters == BaseInv /\ UNCHANGED vars => BaseInv'
BY DEF BaseInv, HostTyped, FilesTyped, CallsTyped, SupervisorTypeOK, OperatorTyped, vars,
       supervisorVars, managerVars, processVars, daemonVars, operatorVars

(* The host, the daemons and their calls stay what they are declared to be: *)
(* a file of a role names a process of that role or none, a call holds     *)
(* processes of the right role and has only known stages to do.            *)
THEOREM TypesHold == Spec => []TypeOK
<1>1. Init => BaseInv
  BY InitTyped
<1>2. BaseInv /\ [Next]_vars => BaseInv'
  BY NextTyped, BaseStutters
<1>3. BaseInv => TypeOK
  BY BaseGivesTypes
<1> QED
  BY <1>1, <1>2, <1>3, PTL DEF Spec

---------------------------------------------------------------------------
(* A status ready has processes behind it.                                 *)

(* A file stays true if its process stays what it is, or dies.             *)
LEMMA TrueFileStays ==
  ASSUME NEW role \in Roles, TrueFile(role), stateFile'[role] = stateFile[role],
         Alive(stateFile[role].pid)' =>
           Alive(stateFile[role].pid) /\ process'[stateFile[role].pid] = process[stateFile[role].pid]
  PROVE  TrueFile(role)'
BY DEF TrueFile, Alive, Phase

(* What one process becomes is nothing to the file of the other role.      *)
LEMMA OtherFileStays ==
  ASSUME HostTyped, FilesTyped, NEW p \in Processes, NEW role \in Roles, RoleOf(p) # role,
         TrueFile(role), stateFile'[role] = stateFile[role],
         \A q \in Processes \ {p} : process'[q] = process[q]
  PROVE  TrueFile(role)'
<1>1. stateFile[role].pid # p
  BY RolesAre DEF FilesTyped
<1>2. Alive(stateFile[role].pid)' =>
        Alive(stateFile[role].pid) /\ process'[stateFile[role].pid] = process[stateFile[role].pid]
  BY <1>1 DEF Alive
<1> QED
  BY <1>2, TrueFileStays

LEMMA WritesDoes ==
  ASSUME FilesTyped, NEW p \in Processes, NEW status, Writes(p, status)
  PROVE  /\ stateFile'[RoleOf(p)] = [pid |-> p, status |-> status]
         /\ \A role \in Roles : role # RoleOf(p) => stateFile'[role] = stateFile[role]
BY RolesAre DEF Writes, FilesTyped

LEMMA ProcessReady ==
  ASSUME BaseInv, \A role \in Roles : TrueFile(role), NEW p \in Processes,
         ProcessStep(p) \/ Crashes(p)
  PROVE  \A role \in Roles : TrueFile(role)'
<1> USE DEF BaseInv
<1>0. PICK r \in Roles : r = RoleOf(p)
  BY RolesAre
<1>1. /\ \A q \in Processes \ {p} : process'[q] = process[q]
      /\ \A role \in Roles : role # r => stateFile'[role] = stateFile[role]
  <2>1. ASSUME NEW status, Writes(p, status)
        PROVE  \A role \in Roles : role # r => stateFile'[role] = stateFile[role]
    BY <1>0, <2>1, WritesDoes
  <2> QED
    BY <2>1 DEF ProcessStep, GatewayConnects, GatewayListens, GatewayGivesUp, ExecutorPublishes,
                ExecutorReports, ExecutorTicks, ExecutorGivesUp, Evaluate, Leaves, Crashes,
                Becomes, Dies, HostTyped
<1>2. TrueFile(r)'
  <2>1. ASSUME Dies(p), UNCHANGED stateFile
        PROVE  TrueFile(r)'
    <3>1. process'[p].phase = "none"
      BY <2>1 DEF Dies, Nothing, HostTyped
    <3>2. Alive(stateFile[r].pid)' =>
            Alive(stateFile[r].pid) /\ process'[stateFile[r].pid] = process[stateFile[r].pid]
      BY <1>1, <2>1, <3>1 DEF Alive
    <3> QED
      BY <1>0, <2>1, <3>2, TrueFileStays
  <2>2. ASSUME NEW status, Writes(p, status), status # "ready"
        PROVE  TrueFile(r)'
    <3>1. stateFile'[r] = [pid |-> p, status |-> status]
      BY <1>0, <2>2, WritesDoes
    <3>2. stateFile'[r].status # "ready"
      BY <2>2, <3>1
    <3> QED
      BY <3>2 DEF TrueFile
  <2>3. ASSUME NEW status \in Statuses, Writes(p, status), Becomes(p, "serving", status)
        PROVE  TrueFile(r)'
    <3>1. process'[p].phase = "serving" /\ process'[p].status = status
      BY <2>3 DEF Becomes, HostTyped
    <3>2. stateFile'[r] = [pid |-> p, status |-> status]
      BY <1>0, <2>3, WritesDoes
    <3>3. stateFile'[r].pid = p /\ stateFile'[r].status = status
      BY <3>2
    <3> QED
      BY <3>1, <3>3 DEF TrueFile, Phase
  <2>4. CASE p \in Gateways /\ GatewayConnects(p)
    BY <2>2, <2>4 DEF GatewayConnects
  <2>5. CASE p \in Gateways /\ GatewayListens(p)
    BY <2>3, <2>5 DEF GatewayListens, Statuses
  <2>6. CASE p \in Gateways /\ GatewayGivesUp(p)
    BY <2>1, <2>6 DEF GatewayGivesUp
  <2>7. CASE p \in Executors /\ ExecutorPublishes(p)
    <3>1. stateFile[r].pid = p => stateFile[r].status # "ready"
      BY <1>0, <2>7 DEF ExecutorPublishes, TrueFile, Alive, Phase
    <3>2. stateFile' = stateFile
      BY <2>7 DEF ExecutorPublishes
    <3>3. CASE stateFile[r].pid = p
      BY <3>1, <3>2, <3>3 DEF TrueFile
    <3>4. CASE stateFile[r].pid # p
      <4>1. Alive(stateFile[r].pid)' =>
             Alive(stateFile[r].pid) /\ process'[stateFile[r].pid] = process[stateFile[r].pid]
        BY <1>1, <3>2, <3>4 DEF Alive
      <4> QED
        BY <1>0, <3>2, <4>1, TrueFileStays
    <3> QED
      BY <3>3, <3>4
  <2>8. CASE p \in Executors /\ (ExecutorReports(p) \/ ExecutorTicks(p))
    BY <2>3, <2>8 DEF ExecutorReports, ExecutorTicks, Evaluate, Statuses
  <2>9. CASE p \in Executors /\ ExecutorGivesUp(p)
    BY <2>1, <2>9 DEF ExecutorGivesUp
  <2>10. CASE Leaves(p)
    BY <2>1, <2>2, <2>10 DEF Leaves
  <2>11. CASE Crashes(p)
    BY <2>1, <2>11 DEF Crashes
  <2> QED
    BY <2>4, <2>5, <2>6, <2>7, <2>8, <2>9, <2>10, <2>11 DEF ProcessStep
<1> QED
  BY <1>0, <1>1, <1>2, OtherFileStays

(* A gateway that is asked writes what it is.                              *)
LEMMA HealthReady ==
  ASSUME BaseInv, \A role \in Roles : TrueFile(role), NEW g \in Gateways, Answering(g),
         process' = [process EXCEPT ![g].status = Health(g)],
         \/ stateFile'["gateway"] = [pid |-> g, status |-> Health(g)]
         \/ stateFile'["gateway"] \in {stateFile["gateway"], NoFile},
         stateFile'["executor"] \in {stateFile["executor"], NoFile}
  PROVE  \A role \in Roles : TrueFile(role)'
<1> USE DEF BaseInv
<1>0. g \in Processes /\ RoleOf(g) = "gateway"
  BY RolesAre DEF Processes
<1>1. /\ \A q \in Processes \ {g} : process'[q] = process[q]
      /\ \A q \in Processes : process'[q].phase = process[q].phase
  BY <1>0 DEF HostTyped
<1>2. process[g].phase = "serving"
  BY DEF Answering, Phase
<1>3. TrueFile("gateway")'
  <2>1. TrueFile("gateway")
    BY DEF Roles
  <2> QED
    BY <1>0, <1>1, <1>2, <2>1 DEF TrueFile, Alive, Phase, NoFile
<1>4. TrueFile("executor")'
  <2>1. TrueFile("executor")
    BY DEF Roles
  <2>2. stateFile["executor"].pid # g
    BY <1>0, RolesAre DEF FilesTyped
  <2> QED
    BY <1>0, <1>1, <2>1, <2>2 DEF TrueFile, Alive, Phase, NoFile
<1> QED
  BY <1>3, <1>4 DEF Roles

(* Files that go leave nothing to be wrong.                                *)
LEMMA DroppedReady ==
  ASSUME \A role \in Roles : TrueFile(role),
         \A role \in Roles : stateFile'[role] \in {stateFile[role], NoFile},
         \A q \in Processes : \/ process'[q] = process[q]
                              \/ process'[q].phase = "none"
                              \/ /\ process[q].phase \in {"serving", "stopping"}
                                 /\ process'[q] = [process[q] EXCEPT !.phase = "stopping"]
                              \/ \A role \in Roles : stateFile[role].pid # q,
         HostTyped
  PROVE  \A role \in Roles : TrueFile(role)'
<1> SUFFICES ASSUME NEW role \in Roles
             PROVE  TrueFile(role)'
  OBVIOUS
<1>1. CASE stateFile'[role] = NoFile
  BY <1>1 DEF TrueFile, NoFile
<1>2. CASE stateFile'[role] = stateFile[role]
  <2> DEFINE p == stateFile[role].pid
  <2>1. CASE p \notin Processes
    BY <1>2, <2>1 DEF TrueFile, Alive
  <2>2. CASE p \in Processes /\ process'[p] = process[p]
    BY <1>2, <2>2, TrueFileStays DEF Alive
  <2>3. CASE p \in Processes /\ process'[p].phase = "none"
    BY <1>2, <2>3 DEF TrueFile, Alive
  <2>4. CASE /\ p \in Processes /\ process[p].phase \in {"serving", "stopping"}
             /\ process'[p] = [process[p] EXCEPT !.phase = "stopping"]
    <3>1. process'[p].phase = "stopping" /\ process'[p].status = process[p].status
      BY <2>4 DEF HostTyped
    <3>2. Alive(p)
      BY <2>4 DEF Alive
    <3> QED
      BY <1>2, <2>4, <3>1, <3>2 DEF TrueFile, Phase
  <2> QED
    BY <2>1, <2>2, <2>3, <2>4
<1> QED
  BY <1>1, <1>2

LEMMA TerminateDoes ==
  ASSUME HostTyped, NEW p, Terminate(p)
  PROVE  \A q \in Processes :
           \/ process'[q] = process[q]
           \/ q = p /\ process'[q].phase = "none"
           \/ /\ q = p /\ process[q].phase \in {"serving", "stopping"}
              /\ process'[q] = [process[q] EXCEPT !.phase = "stopping"]
<1>1. CASE ~Alive(p)
  BY <1>1 DEF Terminate
<1>2. CASE Alive(p) /\ Phase(p) \in {"serving", "stopping"}
  <2>1. process' = [process EXCEPT ![p].phase = "stopping"]
    BY <1>2 DEF Terminate
  <2> QED
    BY <1>2, <2>1 DEF HostTyped, Phase
<1>3. CASE Alive(p) /\ Phase(p) \notin {"serving", "stopping"}
  <2>1. process' = [process EXCEPT ![p] = Nothing]
    BY <1>3 DEF Terminate
  <2> QED
    BY <2>1 DEF HostTyped, Nothing
<1> QED
  BY <1>1, <1>2, <1>3

LEMMA ClearsDoes ==
  ASSUME FilesTyped, NEW role \in Roles, Clears(role)
  PROVE  /\ stateFile'[role] = NoFile
         /\ \A r \in Roles : r # role => stateFile'[r] = stateFile[r]
         /\ \A r \in Roles : stateFile'[r] \in {stateFile[r], NoFile}
BY DEF FilesTyped, Clears

LEMMA RefreshDoes ==
  ASSUME FilesTyped, NEW g \in Gateways, RefreshHealth(g)
  PROVE  /\ process' = [process EXCEPT ![g].status = Health(g)]
         /\ \/ stateFile'["gateway"] = [pid |-> g, status |-> Health(g)]
            \/ stateFile'["gateway"] = stateFile["gateway"]
         /\ stateFile'["executor"] = stateFile["executor"]
<1>1. g \in Processes /\ RoleOf(g) = "gateway"
  BY RolesAre DEF Processes
<1> QED
  BY <1>1, WritesDoes, RolesAre DEF RefreshHealth

LEMMA HandlerReady ==
  ASSUME BaseInv, \A role \in Roles : TrueFile(role), NEW c \in Calls, HandlerStep(c)
  PROVE  \A role \in Roles : TrueFile(role)'
<1> USE DEF BaseInv
<1>1. ASSUME UNCHANGED process, UNCHANGED stateFile
      PROVE  \A role \in Roles : TrueFile(role)'
  BY <1>1, TrueFileStays DEF Alive
<1>2. ASSUME UNCHANGED process,
             \A role \in Roles : stateFile'[role] \in {stateFile[role], NoFile}
      PROVE  \A role \in Roles : TrueFile(role)'
  BY <1>2, DroppedReady
<1>3. CASE CleanAndCheck(c)
  BY <1>2, <1>3, CleanedTyped DEF CleanAndCheck, OnlyFiles
<1>4. CASE AwaitGateway(c)
  BY <1>4, RefreshDoes, HealthReady DEF AwaitGateway
<1>5. CASE AwaitExecutor(c)
  BY <1>1, <1>5 DEF AwaitExecutor, Silent
<1>6. ASSUME NEW role \in Roles, Spawn(c, role)
      PROVE  \A r \in Roles : TrueFile(r)'
  <2>1. PICK p \in Fresh(role) :
          process' = [process EXCEPT ![p] = [Nothing EXCEPT !.phase = "booting"]]
    BY <1>6 DEF Spawn
  <2>2. p \in Of(role) /\ stateFile[role].pid # p
    BY DEF Fresh
  <2>3. \A r \in Roles : stateFile[r].pid # p
    BY <2>2, RolesAre DEF FilesTyped
  <2>4. \A q \in Processes : process'[q] = process[q] \/ \A r \in Roles : stateFile[r].pid # q
    BY <2>1, <2>3 DEF HostTyped
  <2>5. stateFile' = stateFile
    BY <1>6 DEF Spawn, OnlyProcesses
  <2> QED
    BY <2>4, <2>5, DroppedReady
<1>7. ASSUME NEW role \in Roles, Timeout(c, role)
      PROVE  \A r \in Roles : TrueFile(r)'
  BY <1>1, <1>7 DEF Timeout
<1>8. ASSUME NEW p, Terminate(p), UNCHANGED stateFile
      PROVE  \A r \in Roles : TrueFile(r)'
  <2>1. \A q \in Processes :
           \/ process'[q] = process[q]
           \/ q = p /\ process'[q].phase = "none"
           \/ /\ q = p /\ process[q].phase \in {"serving", "stopping"}
              /\ process'[q] = [process[q] EXCEPT !.phase = "stopping"]
    BY <1>8, TerminateDoes
  <2> QED
    BY <1>8, <2>1, DroppedReady
<1>9. ASSUME NEW role \in Roles, KillSpawned(c, role)
      PROVE  \A r \in Roles : TrueFile(r)'
  BY <1>8, <1>9 DEF KillSpawned, OnlyProcesses
<1>10. ASSUME NEW role \in Roles, ReapSpawned(c, role)
       PROVE  \A r \in Roles : TrueFile(r)'
  BY <1>2, <1>10, ClearsDoes DEF ReapSpawned, OnlyFiles
<1>11. ASSUME NEW role \in Roles, SignalRecorded(c, role)
       PROVE  \A r \in Roles : TrueFile(r)'
  BY <1>2, <1>8, <1>11, ClearsDoes DEF SignalRecorded
<1>12. ASSUME NEW role \in Roles, ForgetRecorded(c, role)
       PROVE  \A r \in Roles : TrueFile(r)'
  <2>1. \A q \in Processes : process'[q] = process[q] \/ process'[q].phase = "none"
    BY <1>12 DEF ForgetRecorded, Dies, HostTyped, Nothing
  <2>2. \A r \in Roles : stateFile'[r] \in {stateFile[r], NoFile}
    BY <1>12, ClearsDoes DEF ForgetRecorded
  <2> QED
    BY <2>1, <2>2, DroppedReady
<1>13. CASE InfraUp(c) \/ InfraDown(c)
  BY <1>1, <1>13 DEF InfraUp, InfraDown
<1>14. CASE InfraProbe(c) \/ WriteReady(c) \/ Reply(c) \/ Close(c)
  BY <1>1, <1>14 DEF InfraProbe, WriteReady, Reply, Close, Silent
<1>15. CASE RefreshStatus(c)
  <2>1. \A r \in Roles : Cleaned[r] \in {stateFile[r], NoFile}
    BY CleanedTyped
  <2>2. ASSUME NEW g \in Gateways, Answering(g),
               process' = [process EXCEPT ![g].status = Health(g)],
               \/ stateFile' = [Cleaned EXCEPT !["gateway"] = [pid |-> g, status |-> Health(g)]]
               \/ stateFile' = Cleaned
        PROVE  \A r \in Roles : TrueFile(r)'
    <3>1. Cleaned \in [Roles -> Files]
      BY CleanedTyped
    <3>2. /\ \/ stateFile'["gateway"] = [pid |-> g, status |-> Health(g)]
             \/ stateFile'["gateway"] = Cleaned["gateway"]
          /\ stateFile'["executor"] = Cleaned["executor"]
      BY <2>2, <3>1 DEF Roles
    <3>3. /\ Cleaned["gateway"] \in {stateFile["gateway"], NoFile}
          /\ Cleaned["executor"] \in {stateFile["executor"], NoFile}
      BY <2>1 DEF Roles
    <3> QED
      BY <2>2, <3>2, <3>3, HealthReady
  <2>3. ASSUME stateFile' = Cleaned, UNCHANGED process
        PROVE  \A r \in Roles : TrueFile(r)'
    BY <1>2, <2>1, <2>3
  <2> QED
    BY <1>15, <2>2, <2>3 DEF RefreshStatus
<1> QED
  BY <1>3, <1>4, <1>5, <1>6, <1>7, <1>9, <1>10, <1>11, <1>12, <1>13, <1>14, <1>15
     DEF HandlerStep, ManagerStep

LEMMA NextReady ==
  ASSUME ReadyInv, Next
  PROVE  ReadyInv'
<1> USE DEF ReadyInv
<1>1. BaseInv'
  BY NextTyped
<1>2. ASSUME UNCHANGED process, UNCHANGED stateFile
      PROVE  \A role \in Roles : TrueFile(role)'
  BY <1>2, TrueFileStays DEF Alive
<1>3. CASE Command
  BY <1>1, <1>2, <1>3
     DEF Command, DaemonStart, DaemonStop, DaemonRestart, AskDaemon, Configure, SpawnDaemon,
         Request, Accept, managerVars, processVars
<1>4. CASE RuntimeStep \/ ProcessCrash
  BY <1>1, <1>2, <1>4, ProcessReady DEF RuntimeStep, ProcessCrash, InfraAccepts
<1>5. CASE DaemonCrash
  BY <1>1, <1>2, <1>5 DEF DaemonCrash, DaemonCrashes
<1>6. CASE Daemon
  BY <1>1, <1>2, <1>6, HandlerReady
     DEF Daemon, DaemonStep, RemoveSocket, Listen, AddressInUse, managerVars, processVars
<1> QED
  BY <1>3, <1>4, <1>5, <1>6 DEF Next

LEMMA ReadyGives == ReadyInv => ReadyIsServing
<1> SUFFICES ASSUME ReadyInv, OverallStatus = "ready"
             PROVE  /\ \E g \in Gateways : Phase(g) \in {"serving", "stopping"}
                    /\ \E e \in Executors : /\ Phase(e) \in {"serving", "stopping"}
                                            /\ process[e].status = "ready"
  BY DEF ReadyIsServing
<1>1. RuntimeStatus = "ready"
  BY DEF OverallStatus, Layers
<1>2. GatewayReady /\ ExecutorStatus = "ready"
  BY <1>1 DEF RuntimeStatus
<1>3. /\ Alive(stateFile["gateway"].pid) /\ stateFile["gateway"].status = "ready"
      /\ Alive(stateFile["executor"].pid) /\ stateFile["executor"].status = "ready"
  BY <1>2 DEF GatewayReady, ExecutorStatus, Counts
<1>4. TrueFile("gateway") /\ TrueFile("executor")
  BY DEF ReadyInv, Roles
<1>5. stateFile["gateway"].pid \in Gateways /\ stateFile["executor"].pid \in Executors
  BY <1>3, RolesAre DEF ReadyInv, BaseInv, FilesTyped, Alive, Of
<1> QED
  BY <1>3, <1>4, <1>5 DEF TrueFile

(* When the status is ready, a live gateway holds or held the port and a   *)
(* live executor has found itself ready: the files that it reads outlive   *)
(* their processes, but one of a live process is never more hopeful than   *)
(* the process (status.ts 146-158).                                        *)
THEOREM ReadyHolds == Spec => []ReadyIsServing
<1>1. Init => ReadyInv
  <2>1. Init => \A role \in Roles : stateFile[role].status = "stopped"
    BY DEF Init, SupervisorInit, ManagerInit, ProcessesInit, NoFile
  <2> QED
    BY <2>1, InitTyped DEF ReadyInv, TrueFile
<1>2. ReadyInv /\ [Next]_vars => ReadyInv'
  <2>1. ReadyInv /\ UNCHANGED vars => ReadyInv'
    BY BaseStutters, TrueFileStays
       DEF ReadyInv, vars, supervisorVars, managerVars, processVars, Alive
  <2> QED
    BY <2>1, NextReady
<1>3. ReadyInv => ReadyIsServing
  BY ReadyGives
<1> QED
  BY <1>1, <1>2, <1>3, PTL DEF Spec

---------------------------------------------------------------------------
(* What calls have to do.                                                  *)

LEMMA JoinsAre ==
  /\ Boot = Boot0
  /\ Start \o AfterStart = Start0
  /\ Rollback \o AfterStart = Back0
<1>1. Start0 \in Todos /\ Back0 \in Todos /\ Boot0 \in Todos
  BY DEF Todos, Start0, Back0, Boot0, Stages, Verbs, Roles
<1>2. Start \o AfterStart = Start0
  <2> DEFINE s == Start \o AfterStart
  <2>1. /\ s \in Seq(Stages) /\ Len(s) = 7
        /\ \A i \in 1..7 : s[i] = IF i <= 5 THEN Start[i] ELSE AfterStart[i - 5]
    <3>1. Start \in Seq(Stages) /\ AfterStart \in Seq(Stages)
      BY TodosTyped DEF Todos
    <3>2. Len(Start) = 5 /\ Len(AfterStart) = 2
      BY DEF Start, AfterStart
    <3>3. /\ s \in Seq(Stages) /\ Len(s) = Len(Start) + Len(AfterStart)
          /\ \A i \in 1..(Len(Start) + Len(AfterStart)) :
               s[i] = IF i <= Len(Start) THEN Start[i] ELSE AfterStart[i - Len(Start)]
      BY <3>1, ConcatProperties
    <3> HIDE DEF s
    <3> QED
      BY <3>2, <3>3
  <2> HIDE DEF s
  <2>2. /\ s[1] = Start0[1] /\ s[2] = Start0[2] /\ s[3] = Start0[3] /\ s[4] = Start0[4]
        /\ s[5] = Start0[5] /\ s[6] = Start0[6] /\ s[7] = Start0[7]
    BY <2>1 DEF Start, AfterStart, Start0
  <2>3. Len(Start0) = 7
    BY DEF Start0
  <2>4. \A i \in 1..Len(s) : s[i] = Start0[i]
    BY <2>1, <2>2
  <2>5. Start0 \in Seq(Stages) /\ Len(s) = Len(Start0)
    BY <1>1, <2>1, <2>3 DEF Todos
  <2>6. s = Start0
    BY <2>1, <2>4, <2>5, SeqEqual
  <2> QED
    BY <2>6 DEF s
<1>3. Rollback \o AfterStart = Back0
  <2> DEFINE s == Rollback \o AfterStart
  <2>1. /\ s \in Seq(Stages) /\ Len(s) = 6
        /\ \A i \in 1..6 : s[i] = IF i <= 4 THEN Rollback[i] ELSE AfterStart[i - 4]
    <3>1. Rollback \in Seq(Stages) /\ AfterStart \in Seq(Stages)
      BY TodosTyped DEF Todos
    <3>2. Len(Rollback) = 4 /\ Len(AfterStart) = 2
      BY DEF Rollback, AfterStart
    <3>3. /\ s \in Seq(Stages) /\ Len(s) = Len(Rollback) + Len(AfterStart)
          /\ \A i \in 1..(Len(Rollback) + Len(AfterStart)) :
               s[i] = IF i <= Len(Rollback) THEN Rollback[i] ELSE AfterStart[i - Len(Rollback)]
      BY <3>1, ConcatProperties
    <3> HIDE DEF s
    <3> QED
      BY <3>2, <3>3
  <2> HIDE DEF s
  <2>2. /\ s[1] = Back0[1] /\ s[2] = Back0[2] /\ s[3] = Back0[3] /\ s[4] = Back0[4]
        /\ s[5] = Back0[5] /\ s[6] = Back0[6]
    BY <2>1 DEF Rollback, AfterStart, Back0
  <2>3. Len(Back0) = 6
    BY DEF Back0
  <2>4. \A i \in 1..Len(s) : s[i] = Back0[i]
    BY <2>1, <2>2
  <2>5. Back0 \in Seq(Stages) /\ Len(s) = Len(Back0)
    BY <1>1, <2>1, <2>3 DEF Todos
  <2>6. s = Back0
    BY <2>1, <2>4, <2>5, SeqEqual
  <2> QED
    BY <2>6 DEF s
<1>4. Boot = Boot0
  <2> DEFINE up == Both("up")
             head == up \o Both("reconcile")
             s == head \o AfterStart
  <2>1. up \in Seq(Stages) /\ Both("reconcile") \in Seq(Stages) /\ AfterStart \in Seq(Stages)
    BY TodosTyped DEF Todos, Both, Stages, Verbs, Roles
  <2>2. /\ Len(up) = 1 /\ Len(Both("reconcile")) = 1 /\ Len(AfterStart) = 2
        /\ up[1] = <<"up", "both">> /\ Both("reconcile")[1] = <<"reconcile", "both">>
    BY DEF Both, AfterStart
  <2>3. /\ head \in Seq(Stages) /\ Len(head) = 2
        /\ head[1] = <<"up", "both">> /\ head[2] = <<"reconcile", "both">>
    <3> HIDE DEF up
    <3>1. /\ head \in Seq(Stages) /\ Len(head) = 1 + 1
          /\ \A i \in 1..(1 + 1) : head[i] = IF i <= 1 THEN up[i] ELSE Both("reconcile")[i - 1]
      BY <2>1, <2>2, ConcatProperties
    <3> HIDE DEF head
    <3> QED
      BY <2>2, <3>1
  <2> HIDE DEF head
  <2>4. /\ s \in Seq(Stages) /\ Len(s) = 4
        /\ \A i \in 1..4 : s[i] = IF i <= 2 THEN head[i] ELSE AfterStart[i - 2]
    <3>1. /\ s \in Seq(Stages) /\ Len(s) = Len(head) + Len(AfterStart)
          /\ \A i \in 1..(Len(head) + Len(AfterStart)) :
               s[i] = IF i <= Len(head) THEN head[i] ELSE AfterStart[i - Len(head)]
      BY <2>1, <2>3, ConcatProperties
    <3> HIDE DEF s
    <3> QED
      BY <2>2, <2>3, <3>1
  <2> HIDE DEF s
  <2>5. /\ s[1] = Boot0[1] /\ s[2] = Boot0[2] /\ s[3] = Boot0[3] /\ s[4] = Boot0[4]
    BY <2>3, <2>4 DEF AfterStart, Boot0
  <2>6. Len(Boot0) = 4
    BY DEF Boot0
  <2>7. \A i \in 1..Len(s) : s[i] = Boot0[i]
    BY <2>4, <2>5
  <2>8. s = Boot0
    BY <1>1, <2>4, <2>6, <2>7, SeqEqual DEF Todos
  <2> QED
    BY <2>8 DEF Boot, s, head, up
<1> QED
  BY <1>2, <1>3, <1>4

LEMMA TailsAre ==
  /\ Tail(Boot0) # <<>> /\ Head(Tail(Boot0)) = <<"reconcile", "both">>
  /\ Tail(Tail(Boot0)) = AfterStart
  /\ Tail(Start0) = Start1 /\ Tail(Start1) = Start2 /\ Tail(Start2) = Start3
  /\ Tail(Start3) = Start4 /\ Tail(Start4) = AfterStart
  /\ Tail(Back0) = Back1 /\ Tail(Back1) = Back2 /\ Tail(Back2) = Back3
  /\ Tail(Back3) = AfterStart
  /\ AfterStart # <<>>
<1> DEFINE mid == << <<"reconcile", "both">>, <<"ready", "both">>, <<"refresh", "both">> >>
<1>1. Tail(Boot0) = mid
  BY DEF Boot0
<1>2. Tail(mid) = AfterStart /\ mid # <<>> /\ Head(mid) = <<"reconcile", "both">>
  BY DEF AfterStart
<1> HIDE DEF mid
<1>3. /\ Tail(Tail(Boot0)) = AfterStart
      /\ Tail(Boot0) # <<>> /\ Head(Tail(Boot0)) = <<"reconcile", "both">>
  BY <1>1, <1>2
<1>4. /\ Tail(Start0) = Start1 /\ Tail(Start1) = Start2 /\ Tail(Start2) = Start3
      /\ Tail(Start3) = Start4 /\ Tail(Start4) = AfterStart
  BY DEF Start0, Start1, Start2, Start3, Start4, AfterStart
<1>5. /\ Tail(Back0) = Back1 /\ Tail(Back1) = Back2 /\ Tail(Back2) = Back3
      /\ Tail(Back3) = AfterStart
  BY DEF Back0, Back1, Back2, Back3, AfterStart
<1>6. AfterStart # <<>>
  BY DEF AfterStart
<1> QED
  BY <1>3, <1>4, <1>5, <1>6

LEMMA HeadsAre ==
  /\ Boot0 # <<>> /\ Head(Boot0) = <<"up", "both">>
  /\ Start0 # <<>> /\ Head(Start0) = <<"clean", "both">>
  /\ Start1 # <<>> /\ Head(Start1) = <<"spawn", "gateway">>
  /\ Start2 # <<>> /\ Head(Start2) = <<"await", "gateway">>
  /\ Start3 # <<>> /\ Head(Start3) = <<"spawn", "executor">>
  /\ Start4 # <<>> /\ Head(Start4) = <<"await", "executor">>
  /\ Back0 # <<>> /\ Head(Back0) = <<"kill", "executor">>
  /\ Back1 # <<>> /\ Head(Back1) = <<"reap", "executor">>
  /\ Back2 # <<>> /\ Head(Back2) = <<"kill", "gateway">>
  /\ Back3 # <<>> /\ Head(Back3) = <<"reap", "gateway">>
BY DEF Boot0, Start0, Start1, Start2, Start3, Start4, Back0, Back1, Back2, Back3

LEMMA PlainAre ==
  /\ Plain(<<>>) /\ Plain(AfterStart) /\ Plain(Stop)
  /\ \A verb \in PlainVerbs : Plain(Both(verb)) /\ Both(verb) \in Todos
  /\ \A s, t \in Todos : Plain(s) /\ Plain(t) => Plain(s \o t)
  /\ \A t \in Todos : Plain(t) /\ t # <<>> => Plain(Tail(t)) /\ Head(t)[1] \in PlainVerbs
<1>1. Plain(<<>>)
  BY DEF Plain
<1>2. Plain(AfterStart)
  BY DEF Plain, AfterStart, PlainVerbs
<1>3. Plain(Stop)
  BY DEF Plain, Stop, PlainVerbs
<1>4. \A verb \in PlainVerbs : Plain(Both(verb))
  BY DEF Plain, Both
<1>5. \A verb \in PlainVerbs : Both(verb) \in Todos
  BY DEF Both, Todos, PlainVerbs, Stages, Verbs, Roles
<1>6. ASSUME NEW s \in Todos, NEW t \in Todos, Plain(s), Plain(t)
      PROVE  Plain(s \o t)
  <2>1. /\ Len(s \o t) = Len(s) + Len(t)
        /\ \A i \in 1..(Len(s) + Len(t)) :
             (s \o t)[i] = IF i <= Len(s) THEN s[i] ELSE t[i - Len(s)]
    BY ConcatProperties DEF Todos
  <2>2. Len(s) \in Nat /\ Len(t) \in Nat
    BY LenProperties DEF Todos
  <2> SUFFICES ASSUME NEW i \in 1..(Len(s) + Len(t))
               PROVE  (s \o t)[i][1] \in PlainVerbs
    BY <2>1 DEF Plain
  <2>3. CASE i <= Len(s)
    <3>1. i \in 1..Len(s)
      BY <2>2, <2>3
    <3>2. (s \o t)[i] = s[i]
      BY <2>1, <2>3
    <3> QED
      BY <3>1, <3>2, <1>6 DEF Plain
  <2>4. CASE ~(i <= Len(s))
    <3>1. i - Len(s) \in 1..Len(t)
      BY <2>2, <2>4
    <3>2. (s \o t)[i] = t[i - Len(s)]
      BY <2>1, <2>4
    <3> QED
      BY <3>1, <3>2, <1>6 DEF Plain
  <2> QED
    BY <2>3, <2>4
<1>7. ASSUME NEW t \in Todos, Plain(t), t # <<>>
      PROVE  Plain(Tail(t)) /\ Head(t)[1] \in PlainVerbs
  <2>1. /\ Len(Tail(t)) = Len(t) - 1
        /\ \A i \in 1..Len(Tail(t)) : Tail(t)[i] = t[i + 1]
    BY <1>7, HeadTailProperties DEF Todos
  <2>2. Len(t) \in Nat \ {0} /\ Head(t) = t[1]
    BY <1>7, EmptySeq DEF Todos
  <2>3. 1 \in 1..Len(t)
    BY <2>2
  <2>4. ASSUME NEW i \in 1..Len(Tail(t))
        PROVE  Tail(t)[i][1] \in PlainVerbs
    <3>1. i + 1 \in 1..Len(t)
      BY <2>1, <2>2
    <3> QED
      BY <1>7, <2>1, <3>1 DEF Plain
  <2> QED
    BY <1>7, <2>2, <2>3, <2>4 DEF Plain
<1> QED
  BY <1>1, <1>2, <1>3, <1>4, <1>5, <1>6, <1>7

(* A request is plain, and so is a stop in place of a start.               *)
LEMMA PlansPlain ==
  \A action \in Requests \cup {"daemon_stop"} : Plain(Plan(action))
<1> TAKE action \in Requests \cup {"daemon_stop"}
<1>0. \A verb \in {"probe", "refresh", "reply", "down", "up", "close"} :
        Plain(Both(verb)) /\ Both(verb) \in Todos
  BY PlainAre DEF PlainVerbs
<1>1. CASE action = "infra_status"
  BY <1>0, <1>1, PlainAre, TodosTyped DEF Plan
<1>2. CASE action = "infra_stop"
  BY <1>0, <1>2, PlainAre, TodosTyped DEF Plan
<1>3. CASE action = "infra_start"
  BY <1>0, <1>3, PlainAre, TodosTyped DEF Plan
<1>4. CASE action = "infra_restart"
  BY <1>0, <1>4, PlainAre, TodosTyped DEF Plan
<1>5. CASE action = "daemon_stop"
  BY <1>0, <1>5, PlainAre, TodosTyped DEF Plan
<1> QED
  BY <1>1, <1>2, <1>3, <1>4, <1>5 DEF Requests

(* A stop that is under way.                                               *)
LEMMA WaitsWhen ==
  ASSUME NEW role \in Roles, NEW t \in Todos, Plain(t)
  PROVE  /\ Waits(<< <<"gone", role>> >> \o t)
         /\ << <<"gone", role>> >> \o t # <<>>
         /\ Head(<< <<"gone", role>> >> \o t) = <<"gone", role>>
         /\ Tail(<< <<"gone", role>> >> \o t) = t
<1> DEFINE one == << <<"gone", role>> >>
           s == one \o t
<1>1. one \in Seq(Stages) /\ Len(one) = 1 /\ one[1] = <<"gone", role>>
  BY DEF Stages, Verbs
<1>2. t \in Seq(Stages) /\ Len(t) \in Nat
  BY LenProperties DEF Todos
<1> HIDE DEF one
<1>3. /\ s \in Seq(Stages) /\ Len(s) = 1 + Len(t)
      /\ \A i \in 1..(1 + Len(t)) : s[i] = IF i <= 1 THEN one[i] ELSE t[i - 1]
  <2>1. /\ s \in Seq(Stages) /\ Len(s) = Len(one) + Len(t)
        /\ \A i \in 1..(Len(one) + Len(t)) :
             s[i] = IF i <= Len(one) THEN one[i] ELSE t[i - Len(one)]
    BY <1>1, <1>2, ConcatProperties, SMTT(30)
  <2> HIDE DEF s
  <2> QED
    BY <1>1, <2>1
<1> HIDE DEF s
<1>4. s[1] = <<"gone", role>> /\ \A i \in 1..Len(t) : s[i + 1] = t[i]
  <2>1. s[1] = one[1]
    BY <1>2, <1>3
  <2>2. ASSUME NEW i \in 1..Len(t)
        PROVE  s[i + 1] = t[i]
    <3>1. i + 1 \in 1..(1 + Len(t)) /\ ~(i + 1 <= 1) /\ (i + 1) - 1 = i
      BY <1>2
    <3> QED
      BY <1>3, <3>1
  <2> QED
    BY <1>1, <2>1, <2>2
<1>5. s # <<>>
  BY <1>2, <1>3, EmptySeq
<1>6. /\ Head(s) = s[1] /\ Tail(s) \in Seq(Stages) /\ Len(Tail(s)) = Len(s) - 1
      /\ \A i \in 1..Len(Tail(s)) : Tail(s)[i] = s[i + 1]
  BY <1>3, <1>5, HeadTailProperties
<1>7. Len(Tail(s)) = Len(t)
  BY <1>2, <1>3, <1>6
<1>8. Tail(s) = t
  <2>1. \A i \in 1..Len(Tail(s)) : Tail(s)[i] = t[i]
    BY <1>4, <1>6, <1>7
  <2> QED
    BY <1>2, <1>6, <1>7, <2>1, SeqEqual
<1>9. Head(s) = <<"gone", role>> /\ Head(s)[1] = "gone"
  BY <1>4, <1>6
<1>10. Waits(s)
  BY <1>5, <1>8, <1>9 DEF Waits
<1> QED
  BY <1>5, <1>8, <1>9, <1>10 DEF s, one

(* What stands at the head says what all of it is.                         *)
LEMMA HeadSays ==
  ASSUME BaseInv, NEW c \in Calls, Shape(calls[c].todo), NEW verb, NEW role, At(c, verb, role)
  PROVE  /\ verb = "clean" => calls[c].todo = Start0
         /\ verb = "spawn" => \/ role = "gateway" /\ calls[c].todo = Start1
                              \/ role = "executor" /\ calls[c].todo = Start3
         /\ verb = "await" => \/ role = "gateway" /\ calls[c].todo = Start2
                              \/ role = "executor" /\ calls[c].todo = Start4
         /\ verb = "kill" => \/ role = "executor" /\ calls[c].todo = Back0
                             \/ role = "gateway" /\ calls[c].todo = Back2
         /\ verb = "reap" => \/ role = "executor" /\ calls[c].todo = Back1
                             \/ role = "gateway" /\ calls[c].todo = Back3
         /\ verb = "gone" => Waits(calls[c].todo)
         /\ verb = "up" => calls[c].todo = Boot0 \/ Plain(calls[c].todo)
         /\ verb \in PlainVerbs \ {"up"} => Plain(calls[c].todo)
<1> DEFINE t == calls[c].todo
<1>1. t # <<>> /\ Head(t) = <<verb, role>> /\ t \in Todos
  BY OpensTyped DEF At, Open, BaseInv
<1> HIDE DEF t
<1>2. CASE t \in {Boot0, Start0} \cup Forward \cup Backward
  BY <1>1, <1>2, HeadsAre DEF Forward, Backward, PlainVerbs, t
<1>3. CASE Plain(t)
  <2>1. Head(t)[1] \in PlainVerbs
    BY <1>1, <1>3, PlainAre
  <2>2. verb \in PlainVerbs
    BY <1>1, <2>1
  <2> QED
    BY <1>3, <2>2 DEF PlainVerbs, t
<1>4. CASE Waits(t)
  <2>1. verb = "gone"
    BY <1>1, <1>4 DEF Waits
  <2> QED
    BY <1>4, <2>1 DEF PlainVerbs, t
<1> QED
  BY <1>2, <1>3, <1>4 DEF Shape, t

(* A call that does more than report.                                      *)
LEMMA ManagesWhen ==
  ASSUME BaseInv, NEW c \in Calls
  PROVE  /\ \A verb \in Verbs \ Reporting : \A role : At(c, verb, role) => Managing(c)
         /\ Starts(c) => Managing(c)
         /\ calls[c].todo \in {Boot0, Start0} => Managing(c)
<1>1. ASSUME Open(c), Head(calls[c].todo)[1] \notin Reporting
      PROVE  Managing(c)
  <2>1. calls[c].todo \in Seq(Stages) /\ calls[c].todo # <<>>
    BY <1>1, OpensTyped DEF BaseInv, Todos
  <2>2. /\ Len(calls[c].todo) \in Nat \ {0}
        /\ DOMAIN calls[c].todo = 1..Len(calls[c].todo)
    BY <2>1, EmptySeq, LenProperties
  <2>3. 1 \in DOMAIN calls[c].todo /\ Head(calls[c].todo) = calls[c].todo[1]
    BY <2>1, <2>2
  <2> QED
    BY <1>1, <2>3 DEF Managing
<1>2. \A verb \in Verbs \ Reporting : \A role : At(c, verb, role) => Managing(c)
  BY <1>1 DEF At
<1>3. ASSUME calls[c].todo \in {Boot0, Start0} \cup Forward \cup Backward
      PROVE  Managing(c)
  <2>1. calls[c].todo # <<>> /\ Head(calls[c].todo)[1] \notin Reporting
    BY <1>3, HeadsAre DEF Forward, Backward, Reporting
  <2> QED
    BY <1>1, <2>1 DEF Open
<1> QED
  BY <1>2, <1>3 DEF Starts

LEMMA AloneManages ==
  ASSUME BaseInv, OneManages, NEW c \in Calls, Managing(c), NEW k \in Calls, k # c
  PROVE  /\ ~Managing(k) /\ ~Starts(k)
         /\ \A role : ~At(k, "gone", role)
<1>1. ~Managing(k)
  BY DEF OneManages
<1>2. "gone" \in Verbs \ Reporting
  BY DEF Verbs, Reporting
<1> QED
  BY <1>1, <1>2, ManagesWhen

(* Todos that leave nothing half done.                                     *)
Calm(todo) ==
  todo \notin Forward \cup Backward /\ ~(todo # <<>> /\ Head(todo)[1] = "gone")

LEMMA CalmAre ==
  /\ Calm(Boot0) /\ Calm(Start0)
  /\ \A todo \in Todos : Plain(todo) => Calm(todo)
<1>1. Calm(Boot0) /\ Calm(Start0)
  BY HeadsAre DEF Calm, Forward, Backward
<1>2. ASSUME NEW todo \in Todos, Plain(todo)
      PROVE  Calm(todo)
  <2>1. todo # <<>> => Head(todo)[1] \in PlainVerbs
    BY <1>2, PlainAre
  <2> QED
    BY <2>1, HeadsAre DEF Calm, Forward, Backward, PlainVerbs
<1> QED
  BY <1>1, <1>2

(* Two of a role are never alive together.                                 *)
LEMMA Single ==
  ASSUME BaseInv, Reach, NEW p \in Processes, NEW q \in Processes, Alive(p), Alive(q),
         RoleOf(p) = RoleOf(q)
  PROVE  p = q
<1>1. CASE \E c \in Calls : Starts(c)
  BY <1>1 DEF Reach, StartsHold
<1>2. CASE \A c \in Calls : ~Starts(c)
  BY <1>2 DEF Reach, AllAreNamed
<1> QED
  BY <1>1, <1>2

(* What happens to the processes and the files in a step that spawns none: *)
(* some die; a file changes because what it names is dead, or because a    *)
(* live process of its role writes it.                                     *)
Thins ==
  \A p \in Processes :
    /\ Alive(p)' => Alive(p)
    /\ Told(p)' => Told(p) \/ stateFile'[RoleOf(p)].pid = p
    /\ Told(p) /\ Alive(p)' => Told(p)'
FileMoves ==
  \A role \in Roles :
    \/ stateFile'[role] = stateFile[role]
    \/ stateFile'[role] = NoFile /\ ~(stateFile[role].pid \in Processes
                                      /\ process'[stateFile[role].pid].phase # "none")
    \/ \E p \in Of(role) : Alive(p) /\ stateFile'[role].pid = p

LEMMA NamesStay ==
  ASSUME BaseInv, Reach, Thins, FileMoves, NEW p \in Processes, Alive(p)',
         Recorded(RoleOf(p)) = p
  PROVE  Recorded(RoleOf(p))' = p
<1> DEFINE r == RoleOf(p)
<1>1. Alive(p) /\ RoleOf(p) \in Roles /\ stateFile[RoleOf(p)].pid = p
  BY RolesAre DEF Thins, Recorded
<1>2. CASE stateFile'[RoleOf(p)] = stateFile[RoleOf(p)]
  BY <1>1, <1>2 DEF Recorded
<1>3. CASE stateFile'[RoleOf(p)] = NoFile
           /\ ~(stateFile[RoleOf(p)].pid \in Processes
                /\ process'[stateFile[RoleOf(p)].pid].phase # "none")
  BY <1>1, <1>3 DEF Alive
<1>4. CASE \E q \in Of(RoleOf(p)) : Alive(q) /\ stateFile'[RoleOf(p)].pid = q
  <2>1. PICK q \in Of(RoleOf(p)) : Alive(q) /\ stateFile'[RoleOf(p)].pid = q
    BY <1>4
  <2>2. q = p
    BY <1>1, <2>1, Single, RolesAre
  <2> QED
    BY <2>1, <2>2 DEF Recorded
<1> QED
  BY <1>1, <1>2, <1>3, <1>4 DEF FileMoves

LEMMA ToldStay ==
  ASSUME BaseInv, Reach, Thins, FileMoves
  PROVE  ToldAreNamed'
<1> SUFFICES ASSUME NEW p \in Processes, Told(p)'
             PROVE  Recorded(RoleOf(p))' = p
  BY DEF ToldAreNamed
<1>1. Alive(p)'
  BY DEF Told
<1>2. CASE Told(p)
  <2>1. Recorded(RoleOf(p)) = p
    BY <1>2 DEF Reach, ToldAreNamed
  <2> QED
    BY <1>1, <2>1, NamesStay
<1>3. CASE stateFile'[RoleOf(p)].pid = p
  BY <1>3 DEF Recorded
<1> QED
  BY <1>2, <1>3 DEF Thins

LEMMA ClearedStays ==
  ASSUME Thins, FileMoves, NEW role \in Roles
  PROVE  /\ Dead(role) => Dead(role)'
         /\ Cleared(role) => Cleared(role)'
<1>1. Dead(role) => Dead(role)'
  BY RolesAre DEF Dead, Thins
<1>2. Cleared(role) => stateFile'[role] = NoFile
  BY RolesAre DEF Cleared, Dead, FileMoves
<1> QED
  BY <1>1, <1>2 DEF Cleared

(* A call that is not touched keeps what it holds.                         *)
LEMMA HoldsStay ==
  ASSUME BaseInv, Reach, Thins, FileMoves, NEW c \in Calls, calls'[c] = calls[c]
  PROVE  StartsHold(c)' /\ GoneHolds(c)'
<1>0. StartsHold(c) /\ GoneHolds(c)
  BY DEF Reach
<1>1. GoneHolds(c)'
  BY <1>0, RolesAre DEF GoneHolds, At, Open, Thins
<1>2. Starts(c)' = Starts(c)
  BY DEF Starts
<1>3. Starts(c)' => \A p \in Processes : Alive(p)' => calls'[c].handle[RoleOf(p)] = p
  BY <1>0, <1>2 DEF StartsHold, Thins
<1>4. calls'[c].todo = Start1 => Dead("gateway")'
  BY <1>0, ClearedStays DEF StartsHold, Roles
<1>5. calls'[c].todo \in {Start1, Start2, Start3} => Cleared("executor")'
  BY <1>0, ClearedStays DEF StartsHold, Roles
<1>6. calls'[c].todo \in {Start3, Start4} => \A g \in Gateways : Alive(g)' => Told(g)'
  BY <1>0 DEF StartsHold, Thins, Processes
<1>7. calls'[c].todo = Start4 =>
        \/ stateFile'["executor"] = NoFile
        \/ stateFile'["executor"].pid = calls'[c].handle["executor"]
  <2> SUFFICES ASSUME calls[c].todo = Start4
               PROVE  \/ stateFile'["executor"] = NoFile
                      \/ stateFile'["executor"].pid = calls[c].handle["executor"]
    OBVIOUS
  <2>1. \/ stateFile["executor"] = NoFile
        \/ stateFile["executor"].pid = calls[c].handle["executor"]
    BY <1>0 DEF StartsHold, Recorded
  <2>2. \A p \in Of("executor") : Alive(p) => calls[c].handle["executor"] = p
    BY <1>0, RolesAre DEF StartsHold, Starts, Forward
  <2> QED
    BY <2>1, <2>2 DEF FileMoves, Roles
<1>8. calls'[c].todo \in {Back2, Back3} => Dead("executor")'
  BY <1>0, ClearedStays DEF StartsHold, Roles
<1> QED
  BY <1>1, <1>3, <1>4, <1>5, <1>6, <1>7, <1>8 DEF StartsHold, Recorded

(* One that has nothing half done holds nothing.                           *)
LEMMA CalmHolds ==
  ASSUME NEW c \in Calls, Calm(calls'[c].todo), calls'[c].todo \in Todos
  PROVE  ~Starts(c)' /\ StartsHold(c)' /\ GoneHolds(c)'
<1>1. ~Starts(c)' /\ StartsHold(c)'
  BY DEF Calm, Starts, StartsHold, Forward, Backward
<1>2. \A role : ~At(c, "gone", role)'
  <2> SUFFICES ASSUME NEW role, At(c, "gone", role)'
               PROVE  FALSE
    OBVIOUS
  <2>1. calls'[c].todo # <<>> /\ Head(calls'[c].todo)[1] = "gone"
    BY DEF At, Open
  <2> QED
    BY <2>1 DEF Calm
<1> QED
  BY <1>1, <1>2 DEF GoneHolds

(* A step after which no more is half done than before.                    *)
LEMMA CalmStep ==
  ASSUME BaseInv, BaseInv', Reach, Thins, FileMoves, OneManages',
         \A c \in Calls : calls'[c] = calls[c] \/ (~Starts(c) /\ Calm(calls'[c].todo))
  PROVE  Reach'
<1>1. \A c \in Calls : calls'[c].todo \in Todos
  BY DEF BaseInv, CallsTyped, CallsOf
<1>2. ASSUME NEW c \in Calls
      PROVE  StartsHold(c)' /\ GoneHolds(c)'
  BY <1>1, HoldsStay, CalmHolds
<1>3. AllAreNamed'
  <2> SUFFICES ASSUME \A c \in Calls : ~Starts(c)', NEW p \in Processes, Alive(p)'
               PROVE  Recorded(RoleOf(p))' = p
    BY DEF AllAreNamed
  <2>1. \A c \in Calls : ~Starts(c)
    BY DEF Starts
  <2>2. Recorded(RoleOf(p)) = p
    BY <2>1 DEF Reach, AllAreNamed, Thins
  <2> QED
    BY <2>2, NamesStay
<1> QED
  BY <1>2, <1>3, ToldStay DEF Reach

---------------------------------------------------------------------------
(* What thins out the processes and moves the files.                       *)

LEMMA StillThins ==
  ASSUME UNCHANGED process, UNCHANGED stateFile
  PROVE  Thins /\ FileMoves
BY DEF Thins, FileMoves, Alive, Told, Phase

LEMMA DropsThin ==
  ASSUME UNCHANGED process, NEW role \in Roles,
         FilesTyped, Clears(role), ~Alive(stateFile[role].pid)
  PROVE  Thins /\ FileMoves
<1>1. FileMoves
  BY ClearsDoes DEF FileMoves, Alive
<1> QED
  BY <1>1 DEF Thins, Alive, Told, Phase

LEMMA CleanedMoves ==
  ASSUME NEW role \in Roles, \A p \in Processes : process'[p].phase = process[p].phase
  PROVE  \/ Cleaned[role] = stateFile[role]
         \/ Cleaned[role] = NoFile /\ ~(stateFile[role].pid \in Processes
                                        /\ process'[stateFile[role].pid].phase # "none")
<1>1. CASE Alive(stateFile[role].pid)
  BY <1>1 DEF Cleaned
<1>2. CASE ~Alive(stateFile[role].pid)
  <2>1. Cleaned[role] = NoFile
    BY <1>2 DEF Cleaned
  <2> QED
    BY <1>2, <2>1 DEF Alive
<1> QED
  BY <1>1, <1>2

LEMMA CleaningThins ==
  ASSUME UNCHANGED process, stateFile' = Cleaned
  PROVE  Thins /\ FileMoves
<1>1. FileMoves
  BY CleanedMoves DEF FileMoves
<1> QED
  BY <1>1 DEF Thins, Alive, Told, Phase

(* An answer of the gateway changes its status, not its phase.             *)
LEMMA AnswerThins ==
  ASSUME HostTyped, NEW g \in Gateways, Answering(g),
         process' = [process EXCEPT ![g].status = Health(g)],
         \A role \in Roles :
           \/ stateFile'[role] = stateFile[role]
           \/ stateFile'[role] = Cleaned[role]
           \/ role = "gateway" /\ stateFile'[role] = [pid |-> g, status |-> Health(g)]
  PROVE  Thins /\ FileMoves
<1>1. \A p \in Processes : process'[p].phase = process[p].phase
  BY DEF HostTyped
<1>2. Alive(g) /\ g \in Of("gateway")
  BY DEF Answering, Phase, Alive, Processes, Of
<1>3. FileMoves
  BY <1>1, <1>2, CleanedMoves DEF FileMoves
<1> QED
  BY <1>1, <1>3 DEF Thins, Alive, Told, Phase

LEMMA TerminateThins ==
  ASSUME HostTyped, NEW p, Terminate(p), UNCHANGED stateFile
  PROVE  Thins /\ FileMoves
<1>1. \A q \in Processes :
        \/ process'[q].phase = process[q].phase
        \/ process'[q].phase = "none"
        \/ process[q].phase \in {"serving", "stopping"} /\ process'[q].phase = "stopping"
  <2> TAKE q \in Processes
  <2>1. \/ process'[q] = process[q]
        \/ process'[q].phase = "none"
        \/ /\ process[q].phase \in {"serving", "stopping"}
           /\ process'[q] = [process[q] EXCEPT !.phase = "stopping"]
    BY TerminateDoes
  <2> QED
    BY <2>1 DEF HostTyped
<1> QED
  BY <1>1 DEF Thins, FileMoves, Alive, Told, Phase

LEMMA DeathThins ==
  ASSUME HostTyped, NEW p, Dies(p)
  PROVE  Thins
<1>1. \A q \in Processes : process'[q].phase = process[q].phase \/ process'[q].phase = "none"
  BY DEF HostTyped, Dies, Nothing
<1> QED
  BY <1>1 DEF Thins, Alive, Told, Phase

LEMMA WritingMoves ==
  ASSUME FilesTyped, NEW p \in Processes, Alive(p), NEW status, Writes(p, status)
  PROVE  FileMoves /\ stateFile'[RoleOf(p)].pid = p
<1>1. /\ stateFile'[RoleOf(p)] = [pid |-> p, status |-> status]
      /\ \A role \in Roles : role # RoleOf(p) => stateFile'[role] = stateFile[role]
  BY WritesDoes
<1>2. stateFile'[RoleOf(p)].pid = p
  BY <1>1
<1>3. ASSUME NEW role \in Roles
      PROVE  \/ stateFile'[role] = stateFile[role]
             \/ \E q \in Of(role) : Alive(q) /\ stateFile'[role].pid = q
  BY <1>1, <1>2, RolesAre
<1> QED
  BY <1>2, <1>3 DEF FileMoves

LEMMA ProcessThins ==
  ASSUME BaseInv, NEW p \in Processes, ProcessStep(p) \/ Crashes(p)
  PROVE  Thins /\ FileMoves
<1> USE DEF BaseInv
<1>1. ASSUME NEW x \in [phase : Phases, config : 0..MaxConfigs, status : Statuses],
             process' = [process EXCEPT ![p] = x], Alive(p), FileMoves,
             Told(p) => x.phase \in {"serving", "stopping"},
             \/ stateFile'[RoleOf(p)].pid = p
             \/ /\ x.phase \notin {"serving", "stopping"}
                /\ ~(p \in Gateways /\ x.phase = "published")
      PROVE  Thins /\ FileMoves
  <2>1. process'[p] = x /\ \A q \in Processes \ {p} : process'[q] = process[q]
    BY <1>1 DEF HostTyped
  <2> QED
    BY <1>1, <2>1 DEF Thins, Alive, Told, Phase
<1>2. CASE p \in Gateways /\ GatewayConnects(p)
  <2>1. Alive(p) /\ ~Told(p)
    BY <1>2 DEF GatewayConnects, Phase, Alive, Told
  <2>2. FileMoves /\ stateFile'[RoleOf(p)].pid = p
    BY <1>2, <2>1, WritingMoves DEF GatewayConnects
  <2>3. [phase |-> "published", config |-> config, status |-> "starting"]
          \in [phase : Phases, config : 0..MaxConfigs, status : Statuses]
    BY DEF HostTyped, Phases, Statuses
  <2> QED
    BY <1>1, <1>2, <2>1, <2>2, <2>3 DEF GatewayConnects
<1>3. ASSUME NEW status \in Statuses, Becomes(p, "serving", status), Writes(p, status),
             Alive(p), Phase(p) # "stopping"
      PROVE  Thins /\ FileMoves
  <2>1. FileMoves /\ stateFile'[RoleOf(p)].pid = p
    BY <1>3, WritingMoves
  <2>2. /\ process'[p].phase = "serving"
        /\ \A q \in Processes \ {p} : process'[q] = process[q]
    BY <1>3 DEF Becomes, HostTyped
  <2> QED
    BY <1>3, <2>1, <2>2 DEF Thins, Alive, Told, Phase
<1>4. CASE p \in Gateways /\ GatewayListens(p)
  BY <1>3, <1>4 DEF GatewayListens, Phase, Alive, Statuses
<1>5. ASSUME Dies(p), UNCHANGED stateFile
      PROVE  Thins /\ FileMoves
  BY <1>5, DeathThins DEF FileMoves
<1>6. CASE p \in Gateways /\ GatewayGivesUp(p)
  BY <1>5, <1>6 DEF GatewayGivesUp
<1>7. CASE p \in Executors /\ ExecutorPublishes(p)
  <2>1. Alive(p) /\ ~Told(p) /\ p \notin Gateways
    BY <1>7, ProcessAssumption DEF ExecutorPublishes, Phase, Alive, Told
  <2>2. FileMoves
    BY <1>7 DEF ExecutorPublishes, FileMoves
  <2>3. [phase |-> "published", config |-> config, status |-> "starting"]
          \in [phase : Phases, config : 0..MaxConfigs, status : Statuses]
    BY DEF HostTyped, Phases, Statuses
  <2> QED
    BY <1>1, <1>7, <2>1, <2>2, <2>3 DEF ExecutorPublishes
<1>8. CASE p \in Executors /\ (ExecutorReports(p) \/ ExecutorTicks(p))
  <2>1. Alive(p) /\ Phase(p) # "stopping"
    BY <1>8 DEF ExecutorReports, ExecutorTicks, Phase, Alive
  <2>2. \E status \in {"ready", "failed", "degraded"} :
          Becomes(p, "serving", status) /\ Writes(p, status)
    BY <1>8 DEF ExecutorReports, ExecutorTicks, Evaluate
  <2> QED
    BY <1>3, <2>1, <2>2 DEF Statuses
<1>9. CASE p \in Executors /\ ExecutorGivesUp(p)
  BY <1>5, <1>9 DEF ExecutorGivesUp
<1>10. CASE Leaves(p)
  <2>1. Alive(p)
    BY <1>10 DEF Leaves, Phase, Alive
  <2>2. FileMoves
    BY <1>10, <2>1, WritingMoves DEF Leaves, FileMoves
  <2> QED
    BY <1>10, <2>2, DeathThins DEF Leaves
<1>11. CASE Crashes(p)
  BY <1>5, <1>11 DEF Crashes
<1> QED
  BY <1>2, <1>4, <1>6, <1>7, <1>8, <1>9, <1>10, <1>11 DEF ProcessStep

---------------------------------------------------------------------------
(* What each stage of a call does, given what a call may look like.        *)

LEMMA ShapeOf ==
  ASSUME ShapeInv, NEW c \in Calls
  PROVE  BaseInv /\ CallsTyped /\ FilesTyped /\ HostTyped /\ Shape(calls[c].todo)
BY DEF ShapeInv, BaseInv

LEMMA ConstantTodos ==
  /\ Start0 \in Todos /\ Start1 \in Todos /\ Start2 \in Todos /\ Start3 \in Todos
  /\ Start4 \in Todos /\ Back0 \in Todos /\ Back1 \in Todos /\ Back2 \in Todos
  /\ Back3 \in Todos /\ Boot0 \in Todos /\ AfterStart \in Todos
  /\ Start0 # <<>> /\ Start1 # <<>> /\ Start2 # <<>> /\ Start3 # <<>> /\ Start4 # <<>>
  /\ Back0 # <<>> /\ Back1 # <<>> /\ Back2 # <<>> /\ Back3 # <<>>
<1>1. Boot0 \in Todos /\ Start0 \in Todos /\ Back0 \in Todos /\ AfterStart \in Todos
  BY JoinsAre, TodosTyped
<1>2. Start1 \in Todos /\ Start2 \in Todos /\ Start3 \in Todos /\ Start4 \in Todos
  BY <1>1, TailsAre, HeadsAre, TodosTyped
<1>3. Back1 \in Todos /\ Back2 \in Todos /\ Back3 \in Todos
  BY <1>1, TailsAre, HeadsAre, TodosTyped
<1> QED
  BY <1>1, <1>2, <1>3, HeadsAre

LEMMA CleanDoes ==
  ASSUME ShapeInv, NEW c \in Calls, CleanAndCheck(c)
  PROVE  /\ calls[c].todo = Start0
         /\ stateFile' = Cleaned /\ UNCHANGED process
         /\ \/ Onward(c, Start1) /\ \A role \in Roles : Cleaned[role] = NoFile
            \/ Onward(c, AfterStart) /\ \E role \in Roles : Cleaned[role] # NoFile
<1>1. calls[c].todo = Start0
  BY ShapeOf, HeadSays DEF CleanAndCheck
<1>2. Rest(c) = Start1
  BY <1>1, TailsAre DEF Rest
<1>3. Continue(c, IF \A role \in Roles : Cleaned[role] = NoFile THEN Start1 ELSE AfterStart)
  BY <1>2 DEF CleanAndCheck
<1>4. CASE \A role \in Roles : Cleaned[role] = NoFile
  BY <1>1, <1>3, <1>4, ShapeOf, ContinueDoes, ConstantTodos DEF CleanAndCheck, OnlyFiles
<1>5. CASE \E role \in Roles : Cleaned[role] # NoFile
  <2>1. Continue(c, AfterStart)
    BY <1>3, <1>5
  <2> QED
    BY <1>1, <1>5, <2>1, ShapeOf, ContinueDoes, ConstantTodos DEF CleanAndCheck, OnlyFiles
<1> QED
  BY <1>4, <1>5

LEMMA SpawnDoes ==
  ASSUME ShapeInv, NEW c \in Calls, NEW role \in Roles, Spawn(c, role)
  PROVE  /\ \/ role = "gateway" /\ calls[c].todo = Start1 /\ Onward(c, Start2)
            \/ role = "executor" /\ calls[c].todo = Start3 /\ Onward(c, Start4)
         /\ \E p \in Of(role) :
              /\ ~Alive(p) /\ stateFile[role].pid # p
              /\ process' = [process EXCEPT ![p] = [Nothing EXCEPT !.phase = "booting"]]
              /\ calls'[c].handle = [calls[c].handle EXCEPT ![role] = p]
         /\ UNCHANGED stateFile
<1>1. \/ role = "gateway" /\ calls[c].todo = Start1 /\ Rest(c) = Start2
      \/ role = "executor" /\ calls[c].todo = Start3 /\ Rest(c) = Start4
  BY ShapeOf, HeadSays, TailsAre DEF Spawn, Rest
<1>2. Rest(c) \in Todos
  BY <1>1, ConstantTodos
<1>3. PICK p \in Of(role) :
        /\ ~Alive(p) /\ stateFile[role].pid # p
        /\ process' = [process EXCEPT ![p] = [Nothing EXCEPT !.phase = "booting"]]
        /\ Hands(c, Rest(c), role, p)
  BY DEF Spawn, Fresh, Hands
<1>4. Onward(c, Rest(c)) /\ calls'[c].handle = [calls[c].handle EXCEPT ![role] = p]
  BY <1>2, <1>3, ShapeOf, HandsDo
<1> QED
  BY <1>1, <1>3, <1>4 DEF Spawn, OnlyProcesses

LEMMA AwaitGatewayDoes ==
  ASSUME ShapeInv, NEW c \in Calls, AwaitGateway(c)
  PROVE  /\ calls[c].todo = Start2
         /\ \E g \in Gateways :
              /\ Answering(g)
              /\ RefreshHealth(g)
              /\ \/ /\ Health(g) = "ready" /\ Onward(c, Start3)
                    /\ calls'[c].handle = calls[c].handle
                 \/ Health(g) # "ready" /\ UNCHANGED calls
<1>1. calls[c].todo = Start2
  BY ShapeOf, HeadSays DEF AwaitGateway
<1>2. Rest(c) = Start3
  BY <1>1, TailsAre DEF Rest
<1>3. PICK g \in Gateways :
        /\ Answering(g) /\ RefreshHealth(g)
        /\ IF Health(g) = "ready" THEN Continue(c, Start3) ELSE UNCHANGED calls
  BY <1>2 DEF AwaitGateway
<1>4. CASE Health(g) = "ready"
  BY <1>1, <1>3, <1>4, ShapeOf, ContinueDoes, ConstantTodos
<1>5. CASE Health(g) # "ready"
  BY <1>1, <1>3, <1>5
<1> QED
  BY <1>4, <1>5

LEMMA AwaitExecutorDoes ==
  ASSUME ShapeInv, NEW c \in Calls, AwaitExecutor(c)
  PROVE  /\ calls[c].todo = Start4
         /\ UNCHANGED <<process, stateFile>>
         /\ \/ stateFile["executor"].status = "ready" /\ Onward(c, AfterStart)
            \/ /\ stateFile["executor"].status = "failed" /\ Onward(c, Back0)
               /\ calls'[c].handle = calls[c].handle
<1>1. calls[c].todo = Start4
  BY ShapeOf, HeadSays DEF AwaitExecutor
<1>2. Rest(c) = AfterStart
  BY <1>1, TailsAre DEF Rest
<1>3. Continue(c, IF stateFile["executor"].status = "ready" THEN AfterStart ELSE Back0)
  BY <1>2, JoinsAre DEF AwaitExecutor
<1>4. CASE stateFile["executor"].status = "ready"
  <2>1. Continue(c, AfterStart)
    BY <1>3, <1>4
  <2> QED
    BY <1>1, <1>4, <2>1, ShapeOf, ContinueDoes, ConstantTodos DEF AwaitExecutor, Silent
<1>5. CASE stateFile["executor"].status = "failed"
  <2>1. Continue(c, Back0)
    BY <1>3, <1>5
  <2> QED
    BY <1>1, <1>5, <2>1, ShapeOf, ContinueDoes, ConstantTodos DEF AwaitExecutor, Silent
<1> QED
  BY <1>4, <1>5 DEF AwaitExecutor

LEMMA TimeoutDoes ==
  ASSUME ShapeInv, NEW c \in Calls, NEW role \in Roles, Timeout(c, role)
  PROVE  /\ \/ role = "gateway" /\ calls[c].todo = Start2
            \/ role = "executor" /\ calls[c].todo = Start4
         /\ Onward(c, Back0) /\ calls'[c].handle = calls[c].handle
         /\ UNCHANGED <<process, stateFile>>
<1>1. \/ role = "gateway" /\ calls[c].todo = Start2
      \/ role = "executor" /\ calls[c].todo = Start4
  BY ShapeOf, HeadSays DEF Timeout
<1>2. Continue(c, Back0)
  BY JoinsAre DEF Timeout
<1> QED
  BY <1>1, <1>2, ShapeOf, ContinueDoes, ConstantTodos DEF Timeout

LEMMA KillDoes ==
  ASSUME ShapeInv, NEW c \in Calls, NEW role \in Roles, KillSpawned(c, role)
  PROVE  /\ \/ role = "executor" /\ calls[c].todo = Back0 /\ Onward(c, Back1)
            \/ role = "gateway" /\ calls[c].todo = Back2 /\ Onward(c, Back3)
         /\ calls'[c].handle = calls[c].handle
         /\ Terminate(calls[c].handle[role]) /\ UNCHANGED stateFile
<1>0. \/ role = "executor" /\ calls[c].todo = Back0
      \/ role = "gateway" /\ calls[c].todo = Back2
  BY ShapeOf, HeadSays DEF KillSpawned
<1>1. \/ role = "executor" /\ calls[c].todo = Back0 /\ Rest(c) = Back1
      \/ role = "gateway" /\ calls[c].todo = Back2 /\ Rest(c) = Back3
  BY <1>0, TailsAre DEF Rest
<1>2. Rest(c) \in Todos /\ Rest(c) # <<>>
  BY <1>1, ConstantTodos
<1>3. Onward(c, Rest(c)) /\ calls'[c].handle = calls[c].handle
  BY <1>2, ShapeOf, ContinueDoes DEF KillSpawned
<1> QED
  BY <1>1, <1>3 DEF KillSpawned, OnlyProcesses

LEMMA ReapDoes ==
  ASSUME ShapeInv, NEW c \in Calls, NEW role \in Roles, ReapSpawned(c, role)
  PROVE  /\ \/ /\ role = "executor" /\ calls[c].todo = Back1 /\ Onward(c, Back2)
               /\ calls'[c].handle = [calls[c].handle EXCEPT !["executor"] = NoProcess]
            \/ role = "gateway" /\ calls[c].todo = Back3 /\ Onward(c, AfterStart)
         /\ ~Alive(calls[c].handle[role]) /\ Clears(role) /\ UNCHANGED process
<1>1. \/ role = "executor" /\ calls[c].todo = Back1 /\ Rest(c) = Back2
      \/ role = "gateway" /\ calls[c].todo = Back3 /\ Rest(c) = AfterStart
  BY ShapeOf, HeadSays, TailsAre, SMTT(30) DEF ReapSpawned, Rest
<1>2. Open(c) /\ Rest(c) # <<>>
  BY <1>1, ConstantTodos, TailsAre DEF ReapSpawned, At
<1>3. Onward(c, Rest(c)) /\ calls'[c].handle = [calls[c].handle EXCEPT ![role] = NoProcess]
  BY <1>2, ShapeOf, LetGoDoes DEF ReapSpawned
<1> QED
  BY <1>1, <1>3 DEF ReapSpawned, OnlyFiles

LEMMA SignalDoes ==
  ASSUME ShapeInv, NEW c \in Calls, NEW role \in Roles, SignalRecorded(c, role)
  PROVE  /\ Open(c) /\ Plain(calls[c].todo) /\ Plain(Rest(c)) /\ Rest(c) \in Todos
         /\ \/ /\ Alive(Recorded(role)) /\ Terminate(Recorded(role)) /\ UNCHANGED stateFile
               /\ Onward(c, << <<"gone", role>> >> \o Rest(c))
               /\ calls'[c].handle = [calls[c].handle EXCEPT ![role] = Recorded(role)]
            \/ /\ ~Alive(Recorded(role)) /\ Clears(role) /\ UNCHANGED process
               /\ Onward(c, Rest(c))
<1>1. Open(c) /\ Plain(calls[c].todo)
  BY ShapeOf, HeadSays DEF SignalRecorded, At, PlainVerbs
<1>2. Plain(Rest(c)) /\ Rest(c) \in Todos
  BY <1>1, ShapeOf, OpensTyped, PlainAre DEF Rest
<1>3. CASE Alive(Recorded(role))
  <2>1. Recorded(role) \in Of(role)
    BY <1>3, RolesAre, ShapeOf DEF Alive, Recorded, FilesTyped
  <2>2. << <<"gone", role>> >> \o Rest(c) \in Todos
    BY <1>2, TodosTyped
  <2>3. Hands(c, << <<"gone", role>> >> \o Rest(c), role, Recorded(role))
    BY <1>3 DEF SignalRecorded, Hands
  <2>4. /\ Onward(c, << <<"gone", role>> >> \o Rest(c))
        /\ calls'[c].handle = [calls[c].handle EXCEPT ![role] = Recorded(role)]
    BY <2>1, <2>2, <2>3, ShapeOf, HandsDo
  <2>5. Terminate(Recorded(role)) /\ UNCHANGED stateFile
    BY <1>3 DEF SignalRecorded
  <2> QED
    BY <1>1, <1>2, <1>3, <2>4, <2>5
<1>4. CASE ~Alive(Recorded(role))
  <2>1. Clears(role) /\ Continue(c, Rest(c)) /\ UNCHANGED process
    BY <1>4 DEF SignalRecorded
  <2> QED
    BY <1>1, <1>2, <1>4, <2>1, ShapeOf, ContinueDoes
<1> QED
  BY <1>3, <1>4

LEMMA ForgetDoes ==
  ASSUME ShapeInv, NEW c \in Calls, NEW role \in Roles, ForgetRecorded(c, role)
  PROVE  /\ Open(c) /\ Plain(Rest(c)) /\ Rest(c) \in Todos /\ Onward(c, Rest(c))
         /\ Clears(role)
         /\ \/ Alive(calls[c].handle[role]) /\ Dies(calls[c].handle[role])
            \/ ~Alive(calls[c].handle[role]) /\ UNCHANGED process
<1>1. Open(c) /\ Waits(calls[c].todo)
  BY ShapeOf, HeadSays DEF ForgetRecorded, At
<1>2. Plain(Rest(c)) /\ Rest(c) \in Todos
  BY <1>1, ShapeOf, OpensTyped DEF Rest, Waits
<1>3. Onward(c, Rest(c))
  BY <1>1, ShapeOf, LetGoDoes DEF ForgetRecorded
<1> QED
  BY <1>1, <1>2, <1>3 DEF ForgetRecorded

(* The stages of the daemon's own handlers.                                *)
LEMMA UpDoes ==
  ASSUME ShapeInv, NEW c \in Calls, InfraUp(c)
  PROVE  /\ UNCHANGED <<process, stateFile>>
         /\ \/ calls[c].todo = Boot0 /\ NoFault /\ Onward(c, Start0)
            \/ calls[c].todo = Boot0 /\ Fault /\ Onward(c, Stop \o AfterStart)
            \/ /\ Plain(calls[c].todo) /\ Plain(Rest(c)) /\ Rest(c) \in Todos
               /\ Onward(c, Rest(c))
<1>1. Open(c) /\ (calls[c].todo = Boot0 \/ Plain(calls[c].todo))
  BY ShapeOf, HeadSays DEF InfraUp, At
<1>2. CASE calls[c].todo = Boot0
  <2>1. Reconciles(c) /\ Tail(Rest(c)) = AfterStart
    BY <1>2, TailsAre DEF Reconciles, Rest
  <2>2. \/ NoFault /\ Continue(c, Start0)
        \/ Fault /\ Continue(c, Stop \o AfterStart)
    BY <2>1, JoinsAre DEF InfraUp
  <2>3. Stop \o AfterStart \in Todos
    BY TodosTyped
  <2> QED
    BY <1>2, <2>2, <2>3, ShapeOf, ContinueDoes, ConstantTodos DEF InfraUp
<1>3. CASE Plain(calls[c].todo)
  <2>1. Plain(Rest(c)) /\ Rest(c) \in Todos
    BY <1>1, <1>3, ShapeOf, OpensTyped, PlainAre DEF Rest
  <2>2. Rest(c) # <<>> => Head(Rest(c))[1] \in PlainVerbs
    BY <2>1, PlainAre
  <2>3. ~Reconciles(c)
    BY <2>2 DEF Reconciles, PlainVerbs
  <2>4. Continue(c, Rest(c))
    BY <2>3 DEF InfraUp
  <2> QED
    BY <1>3, <2>1, <2>4, ShapeOf, ContinueDoes DEF InfraUp
<1> QED
  BY <1>1, <1>2, <1>3

LEMMA DownDoes ==
  ASSUME ShapeInv, NEW c \in Calls, InfraDown(c)
  PROVE  /\ UNCHANGED <<process, stateFile>>
         /\ Open(c) /\ Plain(calls[c].todo)
         /\ \E todo \in Todos : Plain(todo) /\ Onward(c, todo)
<1>1. Open(c) /\ Plain(calls[c].todo)
  BY ShapeOf, HeadSays DEF InfraDown, At, PlainVerbs
<1>2. Plain(Rest(c)) /\ Rest(c) \in Todos
  BY <1>1, ShapeOf, OpensTyped, PlainAre DEF Rest
<1>3. StartsAgain(c) => Plain(Tail(Rest(c))) /\ Tail(Rest(c)) \in Todos
  BY <1>2, PlainAre, TodosTyped DEF StartsAgain
<1>4. \E todo \in Todos : Plain(todo) /\ Continue(c, todo)
  BY <1>2, <1>3 DEF InfraDown
<1> QED
  BY <1>1, <1>4, ShapeOf, ContinueDoes DEF InfraDown

LEMMA ReportDoes ==
  ASSUME ShapeInv, NEW c \in Calls,
         InfraProbe(c) \/ WriteReady(c) \/ RefreshStatus(c) \/ Reply(c)
  PROVE  /\ Open(c) /\ Plain(calls[c].todo) /\ Plain(Rest(c)) /\ Rest(c) \in Todos
         /\ Onward(c, Rest(c))
<1>1. Open(c) /\ Plain(calls[c].todo)
  BY ShapeOf, HeadSays DEF InfraProbe, WriteReady, RefreshStatus, Reply, At, PlainVerbs
<1>2. Plain(Rest(c)) /\ Rest(c) \in Todos
  BY <1>1, ShapeOf, OpensTyped, PlainAre DEF Rest
<1>3. Continue(c, Rest(c))
  BY DEF InfraProbe, WriteReady, RefreshStatus, Reply
<1> QED
  BY <1>1, <1>2, <1>3, ShapeOf, ContinueDoes

LEMMA WithoutDoes ==
  ASSUME CallsTyped, NEW d, calls' = WithoutCallsOf(d)
  PROVE  \A c \in Calls :
           \/ calls'[c] = calls[c]
           \/ calls[c].daemon = d /\ calls'[c].todo = <<>>
BY DEF WithoutCallsOf, NoCall

LEMMA OnwardShape ==
  ASSUME ShapeInv, NEW c \in Calls, NEW todo, Onward(c, todo), Shape(todo)
  PROVE  \A k \in Calls : Shape(calls'[k].todo)
BY DEF Onward, ShapeInv

LEMMA ShapesAre ==
  /\ \A todo \in {Boot0, Start0} \cup Forward \cup Backward : Shape(todo)
  /\ \A todo : Plain(todo) => Shape(todo)
  /\ \A role \in Roles : \A todo \in Todos :
       Plain(todo) => Shape(<< <<"gone", role>> >> \o todo)
  /\ Shape(AfterStart) /\ Shape(Stop \o AfterStart) /\ Shape(<<>>)
  /\ Plain(Stop \o AfterStart)
<1>1. Plain(Stop \o AfterStart) /\ Plain(AfterStart) /\ Plain(<<>>)
  BY PlainAre, TodosTyped
<1> QED
  BY <1>1, WaitsWhen DEF Shape

LEMMA HandlerShape ==
  ASSUME ShapeInv, NEW c \in Calls, HandlerStep(c)
  PROVE  \A k \in Calls : Shape(calls'[k].todo)
<1> USE DEF Forward, Backward
<1>1. CASE CleanAndCheck(c)
  BY <1>1, CleanDoes, OnwardShape, ShapesAre
<1>2. CASE AwaitGateway(c)
  <2>1. CASE UNCHANGED calls
    BY <2>1 DEF ShapeInv
  <2> QED
    BY <1>2, <2>1, AwaitGatewayDoes, OnwardShape, ShapesAre
<1>3. CASE AwaitExecutor(c)
  BY <1>3, AwaitExecutorDoes, OnwardShape, ShapesAre
<1>4. ASSUME NEW role \in Roles, Spawn(c, role)
      PROVE  \A k \in Calls : Shape(calls'[k].todo)
  BY <1>4, SpawnDoes, OnwardShape, ShapesAre
<1>5. ASSUME NEW role \in Roles, Timeout(c, role)
      PROVE  \A k \in Calls : Shape(calls'[k].todo)
  BY <1>5, TimeoutDoes, OnwardShape, ShapesAre
<1>6. ASSUME NEW role \in Roles, KillSpawned(c, role)
      PROVE  \A k \in Calls : Shape(calls'[k].todo)
  BY <1>6, KillDoes, OnwardShape, ShapesAre
<1>7. ASSUME NEW role \in Roles, ReapSpawned(c, role)
      PROVE  \A k \in Calls : Shape(calls'[k].todo)
  BY <1>7, ReapDoes, OnwardShape, ShapesAre
<1>8. ASSUME NEW role \in Roles, SignalRecorded(c, role)
      PROVE  \A k \in Calls : Shape(calls'[k].todo)
  BY <1>8, SignalDoes, OnwardShape, ShapesAre
<1>9. ASSUME NEW role \in Roles, ForgetRecorded(c, role)
      PROVE  \A k \in Calls : Shape(calls'[k].todo)
  BY <1>9, ForgetDoes, OnwardShape, ShapesAre
<1>10. CASE InfraUp(c)
  BY <1>10, UpDoes, OnwardShape, ShapesAre
<1>11. CASE InfraDown(c)
  BY <1>11, DownDoes, OnwardShape, ShapesAre
<1>12. CASE InfraProbe(c) \/ WriteReady(c) \/ RefreshStatus(c) \/ Reply(c)
  BY <1>12, ReportDoes, OnwardShape, ShapesAre
<1>13. CASE Close(c)
  <2>1. calls' = WithoutCallsOf(calls[c].daemon)
    BY <1>13 DEF Close
  <2> QED
    BY <2>1, ShapeOf, WithoutDoes, ShapesAre DEF ShapeInv
<1> QED
  BY <1>1, <1>2, <1>3, <1>4, <1>5, <1>6, <1>7, <1>8, <1>9, <1>10, <1>11, <1>12, <1>13
     DEF HandlerStep, ManagerStep

LEMMA OpeningShape ==
  ASSUME ShapeInv, NEW d \in Daemons, NEW todo \in Todos, NEW asker \in Askers,
         OpenCall(d, todo, asker), Shape(todo)
  PROVE  \A k \in Calls : Shape(calls'[k].todo)
BY OpenCallDoes DEF ShapeInv, BaseInv

LEMMA NextShape ==
  ASSUME ShapeInv, Next
  PROVE  ShapeInv'
<1>1. BaseInv'
  BY NextTyped DEF ShapeInv
<1>2. ASSUME UNCHANGED calls
      PROVE  \A k \in Calls : Shape(calls'[k].todo)
  BY <1>2 DEF ShapeInv
<1>3. ASSUME NEW action \in Requests \cup {"daemon_stop"}, NEW asker \in Askers,
             Request(action, asker)
      PROVE  \A k \in Calls : Shape(calls'[k].todo)
  BY <1>3, OpeningShape, PlansPlain, ShapesAre, TodosTyped DEF Request, Accept
<1>4. ASSUME Command
      PROVE  \A k \in Calls : Shape(calls'[k].todo)
  <2>1. CASE DaemonStart
    BY <1>2, <2>1 DEF DaemonStart, SpawnDaemon, managerVars
  <2>2. CASE DaemonStop
    BY <1>3, <2>2 DEF DaemonStop, Askers
  <2>3. CASE DaemonRestart
    BY <1>2, <1>3, <2>3 DEF DaemonRestart, SpawnDaemon, managerVars, Askers
  <2>4. CASE AskDaemon
    BY <1>3, <2>4 DEF AskDaemon, Askers
  <2>5. CASE Configure
    BY <1>2, <2>5 DEF Configure
  <2> QED
    BY <1>4, <2>1, <2>2, <2>3, <2>4, <2>5 DEF Command
<1>5. CASE RuntimeStep \/ ProcessCrash
  BY <1>1, <1>2, <1>5 DEF RuntimeStep, ProcessCrash, ShapeInv
<1>6. CASE DaemonCrash
  <2>1. PICK d \in Daemons : calls' = WithoutCallsOf(d)
    BY <1>6 DEF DaemonCrash, DaemonCrashes
  <2> QED
    BY <1>1, <2>1, WithoutDoes, ShapesAre DEF ShapeInv, BaseInv
<1>7. CASE Daemon
  <2>1. ASSUME NEW c \in Calls, HandlerStep(c)
        PROVE  \A k \in Calls : Shape(calls'[k].todo)
    BY <2>1, HandlerShape
  <2>2. ASSUME NEW d \in Daemons, DaemonStep(d)
        PROVE  \A k \in Calls : Shape(calls'[k].todo)
    <3>1. CASE RemoveSocket(d) \/ AddressInUse(d)
      BY <1>2, <3>1 DEF RemoveSocket, AddressInUse, managerVars
    <3>2. CASE Listen(d)
      BY <3>2, JoinsAre, ConstantTodos, ShapesAre, OpeningShape DEF Listen, Askers
    <3> QED
      BY <2>2, <3>1, <3>2 DEF DaemonStep
  <2> QED
    BY <1>1, <1>7, <2>1, <2>2 DEF Daemon, ShapeInv
<1> QED
  BY <1>1, <1>4, <1>5, <1>6, <1>7 DEF Next, ShapeInv

---------------------------------------------------------------------------
(* No process is out of reach.                                             *)

(* The steps of a call that is in the middle of a start, or of a stop, are *)
(* the steps of the only one that manages.                                 *)
LEMMA OthersHold ==
  ASSUME BaseInv, Reach, NEW c \in Calls, Managing(c), NEW todo, Onward(c, todo)
  PROVE  \A k \in Calls \ {c} : /\ ~Starts(k) /\ ~Starts(k)'
                                /\ StartsHold(k)' /\ GoneHolds(k)'
<1> SUFFICES ASSUME NEW k \in Calls \ {c}
             PROVE  /\ ~Starts(k) /\ ~Starts(k)'
                    /\ StartsHold(k)' /\ GoneHolds(k)'
  OBVIOUS
<1>1. calls'[k] = calls[k]
  BY DEF Onward
<1>2. ~Starts(k) /\ \A role : ~At(k, "gone", role)
  BY AloneManages DEF Reach
<1> QED
  BY <1>1, <1>2 DEF Starts, StartsHold, GoneHolds, At, Open, Forward, Backward

LEMMA AllNamed ==
  ASSUME BaseInv, Reach, NEW c \in Calls, Managing(c), ~Starts(c)
  PROVE  \A p \in Processes : Alive(p) => Recorded(RoleOf(p)) = p
<1>1. \A k \in Calls : ~Starts(k)
  BY AloneManages DEF Reach
<1> QED
  BY <1>1 DEF Reach, AllAreNamed

LEMMA CleanReach ==
  ASSUME ShapeInv, BaseInv', Reach, OneManages', NEW c \in Calls, CleanAndCheck(c)
  PROVE  Reach'
<1> USE ShapeOf
<1>1. /\ calls[c].todo = Start0 /\ stateFile' = Cleaned /\ UNCHANGED process
      /\ \/ Onward(c, Start1) /\ \A role \in Roles : Cleaned[role] = NoFile
         \/ Onward(c, AfterStart) /\ \E role \in Roles : Cleaned[role] # NoFile
  BY CleanDoes
<1>2. Managing(c) /\ ~Starts(c)
  BY <1>1, ManagesWhen, CalmAre DEF Starts, Calm
<1>3. Thins /\ FileMoves
  BY <1>1, CleaningThins
<1>4. CASE Onward(c, AfterStart)
  <2>1. \A k \in Calls : calls'[k] = calls[k] \/ (~Starts(k) /\ Calm(calls'[k].todo))
    BY <1>2, <1>4, CalmAre, PlainAre, ConstantTodos DEF Onward
  <2> QED
    BY <1>3, <2>1, CalmStep
<1>5. CASE Onward(c, Start1) /\ \A role \in Roles : Cleaned[role] = NoFile
  <2>1. \A p \in Processes : ~Alive(p)
    <3>1. \A p \in Processes : Alive(p) => stateFile[RoleOf(p)].pid = p
      BY <1>2, AllNamed DEF Recorded
    <3>2. ASSUME NEW p \in Processes, Alive(p)
          PROVE  FALSE
      <4>1. RoleOf(p) \in Roles /\ stateFile[RoleOf(p)].pid = p
        BY <3>1, <3>2, RolesAre
      <4>2. Cleaned[RoleOf(p)] = stateFile[RoleOf(p)]
        BY <3>2, <4>1 DEF Cleaned
      <4>3. NoFile.pid = p
        BY <1>5, <4>1, <4>2
      <4> QED
        BY <4>3, RolesAre DEF NoFile
    <3> QED
      BY <3>2
  <2>2. \A p \in Processes : ~Alive(p)'
    BY <1>1, <2>1 DEF Alive
  <2>3. Dead("gateway")' /\ Cleared("executor")'
    BY <1>1, <1>5, <2>2, RolesAre DEF Dead, Cleared
  <2>4. StartsHold(c)' /\ GoneHolds(c)' /\ Starts(c)'
    <3>1. calls'[c].todo = Start1 /\ Head(Start1)[1] # "gone"
      BY <1>5, HeadsAre DEF Onward
    <3>2. Start1 \notin {Start3, Start4, Back2, Back3}
      BY HeadsAre
    <3>3. StartsHold(c)'
      BY <2>2, <2>3, <3>1, <3>2, RolesAre DEF StartsHold, Processes
    <3>4. GoneHolds(c)'
      BY <2>2, RolesAre DEF GoneHolds
    <3> QED
      BY <3>1, <3>3, <3>4 DEF Starts, Forward
  <2> QED
    BY <1>2, <1>3, <1>5, <2>2, <2>4, OthersHold, ToldStay DEF Reach, AllAreNamed
<1> QED
  BY <1>1, <1>4, <1>5

LEMMA SpawnReach ==
  ASSUME ShapeInv, BaseInv', Reach, OneManages', NEW c \in Calls, NEW role \in Roles,
         Spawn(c, role)
  PROVE  Reach'
<1> USE ShapeOf
<1>1. /\ \/ role = "gateway" /\ calls[c].todo = Start1 /\ Onward(c, Start2)
         \/ role = "executor" /\ calls[c].todo = Start3 /\ Onward(c, Start4)
      /\ UNCHANGED stateFile
  BY SpawnDoes
<1>2. PICK p \in Of(role) :
        /\ ~Alive(p) /\ stateFile[role].pid # p
        /\ process' = [process EXCEPT ![p] = [Nothing EXCEPT !.phase = "booting"]]
        /\ calls'[c].handle = [calls[c].handle EXCEPT ![role] = p]
  BY SpawnDoes
<1>3. Starts(c) /\ Managing(c)
  BY <1>1, ManagesWhen DEF Starts, Forward
<1>4. p \in Processes /\ RoleOf(p) = role
  BY RolesAre
<1>5. process'[p].phase = "booting" /\ \A q \in Processes \ {p} : process'[q] = process[q]
  BY <1>2, <1>4 DEF HostTyped, Nothing
<1>6. StartsHold(c) /\ ToldAreNamed
  BY DEF Reach
<1>7. Dead(role) /\ Cleared("executor")
  BY <1>1, <1>6 DEF StartsHold, Cleared
<1>8. ToldAreNamed'
  BY <1>1, <1>5, <1>6 DEF ToldAreNamed, Told, Alive, Phase, Recorded
<1>9. /\ calls'[c].handle[role] = p
      /\ \A r \in Roles \ {role} : calls'[c].handle[r] = calls[c].handle[r]
  BY <1>2, <1>4 DEF CallsTyped, CallsOf
<1>10. \A q \in Processes : Alive(q)' => calls'[c].handle[RoleOf(q)] = q
  <2> SUFFICES ASSUME NEW q \in Processes, Alive(q)'
               PROVE  calls'[c].handle[RoleOf(q)] = q
    OBVIOUS
  <2>1. CASE q = p
    BY <1>4, <1>9, <2>1
  <2>2. CASE q # p
    <3>1. Alive(q)
      BY <1>5, <2>2 DEF Alive
    <3>2. RoleOf(q) # role /\ RoleOf(q) \in Roles
      BY <1>7, <3>1, RolesAre DEF Dead
    <3>3. calls[c].handle[RoleOf(q)] = q
      BY <1>3, <1>6, <3>1 DEF StartsHold
    <3> QED
      BY <1>9, <3>2, <3>3
  <2> QED
    BY <2>1, <2>2
<1>11. StartsHold(c)' /\ GoneHolds(c)' /\ Starts(c)'
  <2>1. CASE role = "gateway" /\ calls[c].todo = Start1 /\ Onward(c, Start2)
    <3>1. calls'[c].todo = Start2 /\ Head(Start2)[1] # "gone"
      BY <2>1, HeadsAre DEF Onward
    <3>2. Start2 \notin {Start1, Start3, Start4, Back2, Back3}
      BY HeadsAre
    <3>3. Cleared("executor")'
      BY <1>1, <1>4, <1>5, <1>7, <2>1, RolesAre DEF Cleared, Dead, Alive, Roles
    <3> QED
      BY <1>10, <3>1, <3>2, <3>3 DEF StartsHold, GoneHolds, At, Starts, Forward
  <2>2. CASE role = "executor" /\ calls[c].todo = Start3 /\ Onward(c, Start4)
    <3>1. calls'[c].todo = Start4 /\ Head(Start4)[1] # "gone"
      BY <2>2, HeadsAre DEF Onward
    <3>2. Start4 \notin {Start1, Start2, Start3, Back2, Back3}
      BY HeadsAre
    <3>3. stateFile'["executor"] = NoFile
      BY <1>1, <1>7 DEF Cleared
    <3>4. \A g \in Gateways : Alive(g)' => Told(g)'
      <4>1. \A g \in Gateways : g # p
        BY <1>4, <2>2, RolesAre
      <4>2. \A g \in Gateways : Alive(g) => Told(g)
        BY <1>6, <2>2 DEF StartsHold
      <4> QED
        BY <1>5, <4>1, <4>2 DEF Told, Alive, Phase, Processes
    <3> QED
      BY <1>10, <3>1, <3>2, <3>3, <3>4 DEF StartsHold, GoneHolds, At, Starts, Forward
  <2> QED
    BY <1>1, <2>1, <2>2
<1>12. \A k \in Calls \ {c} : StartsHold(k)' /\ GoneHolds(k)'
  BY <1>1, <1>3, OthersHold
<1> QED
  BY <1>8, <1>11, <1>12 DEF Reach, AllAreNamed

LEMMA AwaitGatewayReach ==
  ASSUME ShapeInv, BaseInv', Reach, OneManages', NEW c \in Calls, AwaitGateway(c)
  PROVE  Reach'
<1> USE ShapeOf
<1>1. PICK g \in Gateways :
        /\ Answering(g) /\ RefreshHealth(g)
        /\ \/ /\ Health(g) = "ready" /\ Onward(c, Start3)
              /\ calls'[c].handle = calls[c].handle
           \/ Health(g) # "ready" /\ UNCHANGED calls
  BY AwaitGatewayDoes
<1>2. calls[c].todo = Start2 /\ Starts(c) /\ Managing(c)
  BY AwaitGatewayDoes, ManagesWhen DEF Starts, Forward
<1>3. Thins /\ FileMoves
  <2>1. \A role \in Roles :
          \/ stateFile'[role] = stateFile[role]
          \/ role = "gateway" /\ stateFile'[role] = [pid |-> g, status |-> Health(g)]
    BY <1>1, RolesAre DEF RefreshHealth, Writes, FilesTyped
  <2> QED
    BY <1>1, <2>1, AnswerThins DEF RefreshHealth
<1>4. CASE UNCHANGED calls
  BY <1>3, <1>4, CalmStep
<1>5. CASE Onward(c, Start3) /\ calls'[c].handle = calls[c].handle
  <2>1. calls'[c].todo = Start3 /\ Head(Start3)[1] # "gone" /\ Start3 # <<>>
    BY <1>5, HeadsAre DEF Onward
  <2>2. Start3 \notin {Start1, Start4, Back2, Back3}
    BY HeadsAre
  <2>3. StartsHold(c)
    BY DEF Reach
  <2>4. \A p \in Processes : Alive(p)' => calls'[c].handle[RoleOf(p)] = p
    BY <1>2, <1>3, <1>5, <2>3 DEF StartsHold, Thins
  <2>5. Cleared("executor")'
    BY <1>2, <1>3, <2>3, ClearedStays DEF StartsHold, Roles
  <2>6. \A q \in Gateways : Alive(q)' => Told(q)'
    <3>1. Alive(g) /\ Told(g)
      BY <1>1 DEF Answering, Phase, Alive, Told, Processes
    <3>2. \A q \in Gateways : Alive(q) => q = g
      BY <3>1, Single, RolesAre DEF Processes
    <3> QED
      BY <1>3, <3>1, <3>2 DEF Thins, Processes
  <2>7. StartsHold(c)' /\ GoneHolds(c)' /\ Starts(c)'
    BY <2>1, <2>2, <2>4, <2>5, <2>6 DEF StartsHold, GoneHolds, At, Starts, Forward
  <2>8. \A k \in Calls \ {c} : StartsHold(k)' /\ GoneHolds(k)'
    BY <1>2, <1>5, OthersHold
  <2> QED
    BY <1>3, <2>7, <2>8, ToldStay DEF Reach, AllAreNamed
<1> QED
  BY <1>1, <1>4, <1>5

(* A start that gives up goes on to its rollback.                          *)
LEMMA BackReach ==
  ASSUME ShapeInv, BaseInv', Reach, OneManages', NEW c \in Calls, Starts(c),
         Onward(c, Back0), calls'[c].handle = calls[c].handle,
         UNCHANGED process, UNCHANGED stateFile
  PROVE  Reach'
<1>1. BaseInv /\ Managing(c) /\ StartsHold(c)
  BY ShapeOf, ManagesWhen DEF Reach
<1>2. calls'[c].todo = Back0 /\ Head(Back0)[1] # "gone" /\ Back0 # <<>>
  BY HeadsAre DEF Onward
<1>3. Back0 \notin {Start1, Start2, Start3, Start4, Back2, Back3}
  BY HeadsAre
<1>4. Thins /\ FileMoves
  BY StillThins
<1>5. \A p \in Processes : Alive(p)' => calls'[c].handle[RoleOf(p)] = p
  BY <1>1, <1>4 DEF StartsHold, Thins
<1>6. StartsHold(c)' /\ GoneHolds(c)' /\ Starts(c)'
  BY <1>2, <1>3, <1>5 DEF StartsHold, GoneHolds, At, Starts, Backward
<1>7. \A k \in Calls \ {c} : StartsHold(k)' /\ GoneHolds(k)'
  BY <1>1, OthersHold
<1> QED
  BY <1>1, <1>4, <1>6, <1>7, ToldStay DEF Reach, AllAreNamed

LEMMA TimeoutReach ==
  ASSUME ShapeInv, BaseInv', Reach, OneManages', NEW c \in Calls, NEW role \in Roles,
         Timeout(c, role)
  PROVE  Reach'
BY TimeoutDoes, BackReach DEF Starts, Forward

(* A start that succeeds leaves a gateway and an executor that are named.  *)
LEMMA AwaitExecutorReach ==
  ASSUME ShapeInv, BaseInv', Reach, OneManages', NEW c \in Calls, AwaitExecutor(c)
  PROVE  Reach'
<1> USE ShapeOf
<1>1. calls[c].todo = Start4 /\ UNCHANGED process /\ UNCHANGED stateFile
  BY AwaitExecutorDoes
<1>2. Starts(c) /\ Managing(c)
  BY <1>1, ManagesWhen DEF Starts, Forward
<1>3. CASE Onward(c, Back0) /\ calls'[c].handle = calls[c].handle
  BY <1>1, <1>2, <1>3, BackReach
<1>4. CASE stateFile["executor"].status = "ready" /\ Onward(c, AfterStart)
  <2>1. StartsHold(c) /\ ToldAreNamed
    BY DEF Reach
  <2>2. Thins /\ FileMoves
    BY <1>1, StillThins
  <2>3. stateFile["executor"] # NoFile
    BY <1>4 DEF NoFile
  <2>4. Recorded("executor") = calls[c].handle["executor"]
    BY <1>1, <2>1, <2>3 DEF StartsHold
  <2>5. \A p \in Processes : Alive(p) => Recorded(RoleOf(p)) = p
    <3> SUFFICES ASSUME NEW p \in Processes, Alive(p)
                 PROVE  Recorded(RoleOf(p)) = p
      OBVIOUS
    <3>1. CASE p \in Gateways
      BY <1>1, <2>1, <3>1 DEF StartsHold, ToldAreNamed
    <3>2. CASE p \in Executors
      <4>1. RoleOf(p) = "executor"
        BY <3>2, RolesAre
      <4>2. calls[c].handle["executor"] = p
        BY <1>2, <2>1, <4>1 DEF StartsHold
      <4> QED
        BY <2>4, <4>1, <4>2
    <3> QED
      BY <3>1, <3>2 DEF Processes
  <2>6. AllAreNamed'
    BY <1>1, <2>5 DEF AllAreNamed, Recorded, Alive
  <2>7. calls'[c].todo = AfterStart /\ Calm(AfterStart) /\ AfterStart \in Todos
    BY <1>4, CalmAre, PlainAre, ConstantTodos DEF Onward
  <2>8. StartsHold(c)' /\ GoneHolds(c)'
    BY <2>7, CalmHolds
  <2>9. \A k \in Calls \ {c} : StartsHold(k)' /\ GoneHolds(k)'
    BY <1>2, <1>4, OthersHold
  <2> QED
    BY <2>2, <2>6, <2>8, <2>9, ToldStay DEF Reach
<1> QED
  BY <1>3, <1>4, AwaitExecutorDoes

LEMMA KillReach ==
  ASSUME ShapeInv, BaseInv', Reach, OneManages', NEW c \in Calls, NEW role \in Roles,
         KillSpawned(c, role)
  PROVE  Reach'
<1> USE ShapeOf
<1>1. /\ \/ role = "executor" /\ calls[c].todo = Back0 /\ Onward(c, Back1)
         \/ role = "gateway" /\ calls[c].todo = Back2 /\ Onward(c, Back3)
      /\ calls'[c].handle = calls[c].handle
  BY KillDoes
<1>2. Starts(c) /\ Managing(c)
  BY <1>1, ManagesWhen DEF Starts, Backward
<1>3. Thins /\ FileMoves
  BY KillDoes, TerminateThins
<1>4. StartsHold(c)
  BY DEF Reach
<1>5. \A p \in Processes : Alive(p)' => calls'[c].handle[RoleOf(p)] = p
  BY <1>1, <1>2, <1>3, <1>4 DEF StartsHold, Thins
<1>6. CASE calls'[c].todo = Back1
  <2>1. Back1 \notin {Start1, Start2, Start3, Start4, Back2, Back3}
    BY HeadsAre
  <2>2. Back1 # <<>> /\ Head(Back1)[1] # "gone"
    BY HeadsAre
  <2> QED
    BY <1>5, <1>6, <2>1, <2>2, OthersHold, ToldStay, <1>1, <1>2, <1>3
       DEF StartsHold, GoneHolds, At, Starts, Backward, Reach, AllAreNamed
<1>7. CASE calls[c].todo = Back2 /\ calls'[c].todo = Back3
  <2>1. Back3 \notin {Start1, Start2, Start3, Start4}
    BY HeadsAre
  <2>2. Back3 # <<>> /\ Head(Back3)[1] # "gone"
    BY HeadsAre
  <2>3. Dead("executor")'
    BY <1>3, <1>4, <1>7, ClearedStays DEF StartsHold, Roles
  <2> QED
    BY <1>5, <1>7, <2>1, <2>2, <2>3, OthersHold, ToldStay, <1>1, <1>2, <1>3
       DEF StartsHold, GoneHolds, At, Starts, Backward, Reach, AllAreNamed
<1> QED
  BY <1>1, <1>6, <1>7 DEF Onward

(* None of a role is alive once the spawned one is gone.                   *)
LEMMA ReapReach ==
  ASSUME ShapeInv, BaseInv', Reach, OneManages', NEW c \in Calls, NEW role \in Roles,
         ReapSpawned(c, role)
  PROVE  Reach'
<1> USE ShapeOf
<1>1. /\ \/ /\ role = "executor" /\ calls[c].todo = Back1 /\ Onward(c, Back2)
            /\ calls'[c].handle = [calls[c].handle EXCEPT !["executor"] = NoProcess]
         \/ role = "gateway" /\ calls[c].todo = Back3 /\ Onward(c, AfterStart)
      /\ ~Alive(calls[c].handle[role]) /\ Clears(role) /\ UNCHANGED process
  BY ReapDoes
<1>2. Starts(c) /\ Managing(c)
  BY <1>1, ManagesWhen DEF Starts, Backward
<1>3. StartsHold(c)
  BY DEF Reach
<1>4. Dead(role)
  BY <1>1, <1>2, <1>3, RolesAre DEF StartsHold, Dead
<1>5. Thins /\ FileMoves
  <2>1. ~Alive(stateFile[role].pid)
    BY <1>4, RolesAre DEF Dead, FilesTyped, Alive
  <2> QED
    BY <1>1, <2>1, DropsThin
<1>6. CASE role = "executor" /\ Onward(c, Back2)
  <2>1. Back2 \notin {Start1, Start2, Start3, Start4}
    BY HeadsAre
  <2>2. Back2 # <<>> /\ Head(Back2)[1] # "gone" /\ calls'[c].todo = Back2
    BY <1>6, HeadsAre DEF Onward
  <2>3. Dead("executor")'
    BY <1>4, <1>5, <1>6, ClearedStays
  <2>4. \A p \in Processes : Alive(p)' => calls'[c].handle[RoleOf(p)] = p
    <3> SUFFICES ASSUME NEW p \in Processes, Alive(p)'
                 PROVE  calls'[c].handle[RoleOf(p)] = p
      OBVIOUS
    <3>1. Alive(p) /\ calls[c].handle[RoleOf(p)] = p
      BY <1>2, <1>3, <1>5 DEF StartsHold, Thins
    <3>2. RoleOf(p) = "gateway"
      BY <1>4, <1>6, <3>1, RolesAre DEF Dead
    <3>3. calls'[c].handle = [calls[c].handle EXCEPT !["executor"] = NoProcess]
      BY <1>1, <1>6
    <3>4. calls'[c].handle["gateway"] = calls[c].handle["gateway"]
      BY <3>3 DEF CallsTyped, CallsOf, Roles
    <3> QED
      BY <3>1, <3>2, <3>4
  <2> QED
    BY <2>1, <2>2, <2>3, <2>4, OthersHold, ToldStay, <1>2, <1>5, <1>6
       DEF StartsHold, GoneHolds, At, Starts, Backward, Reach, AllAreNamed
<1>7. CASE role = "gateway" /\ calls[c].todo = Back3 /\ Onward(c, AfterStart)
  <2>1. \A p \in Processes : ~Alive(p)
    <3>1. Dead("executor")
      BY <1>3, <1>7 DEF StartsHold
    <3>2. Of("gateway") = Gateways /\ Of("executor") = Executors
      BY DEF Of
    <3> QED
      BY <1>4, <1>7, <3>1, <3>2 DEF Dead, Processes
  <2>2. AllAreNamed'
    BY <1>5, <2>1 DEF AllAreNamed, Thins
  <2>3. calls'[c].todo = AfterStart /\ Calm(AfterStart) /\ AfterStart \in Todos
    BY <1>7, CalmAre, PlainAre, ConstantTodos DEF Onward
  <2>4. StartsHold(c)' /\ GoneHolds(c)'
    BY <2>3, CalmHolds
  <2> QED
    BY <1>2, <1>5, <1>7, <2>2, <2>4, OthersHold, ToldStay DEF Reach
<1> QED
  BY <1>1, <1>6, <1>7

(* A stop knows by its file the one of a role that is alive.               *)
LEMMA SignalReach ==
  ASSUME ShapeInv, BaseInv', Reach, OneManages', NEW c \in Calls, NEW role \in Roles,
         SignalRecorded(c, role)
  PROVE  Reach'
<1> USE ShapeOf
<1>1. /\ Open(c) /\ Plain(calls[c].todo) /\ Plain(Rest(c)) /\ Rest(c) \in Todos
      /\ \/ /\ Alive(Recorded(role)) /\ Terminate(Recorded(role)) /\ UNCHANGED stateFile
            /\ Onward(c, << <<"gone", role>> >> \o Rest(c))
            /\ calls'[c].handle = [calls[c].handle EXCEPT ![role] = Recorded(role)]
         \/ /\ ~Alive(Recorded(role)) /\ Clears(role) /\ UNCHANGED process
            /\ Onward(c, Rest(c))
  BY SignalDoes
<1>2. Managing(c)
  BY ManagesWhen DEF SignalRecorded, Verbs, Reporting
<1>3. ~Starts(c)
  <2>1. Calm(calls[c].todo)
    BY <1>1, CalmAre, OpensTyped
  <2> QED
    BY <2>1 DEF Calm, Starts
<1>4. \A p \in Processes : Alive(p) => Recorded(RoleOf(p)) = p
  BY <1>2, <1>3, AllNamed
<1>5. CASE /\ Alive(Recorded(role)) /\ Terminate(Recorded(role)) /\ UNCHANGED stateFile
           /\ Onward(c, << <<"gone", role>> >> \o Rest(c))
           /\ calls'[c].handle = [calls[c].handle EXCEPT ![role] = Recorded(role)]
  <2> DEFINE todo == << <<"gone", role>> >> \o Rest(c)
  <2>1. todo # <<>> /\ Head(todo) = <<"gone", role>> /\ calls'[c].todo = todo
    BY <1>1, <1>5, WaitsWhen DEF Onward
  <2> HIDE DEF todo
  <2>2. Thins /\ FileMoves
    BY <1>5, TerminateThins
  <2>3. ~Starts(c)' /\ StartsHold(c)'
    <3>1. calls'[c].todo \notin Forward \cup Backward
      BY <2>1, HeadsAre DEF Forward, Backward
    <3> QED
      BY <3>1 DEF Starts, StartsHold, Forward, Backward
  <2>4. GoneHolds(c)'
    <3> SUFFICES ASSUME NEW r \in Roles, At(c, "gone", r)', NEW p \in Of(r), Alive(p)'
                 PROVE  p = calls'[c].handle[r]
      BY RolesAre DEF GoneHolds
    <3>1. r = role
      BY <2>1 DEF At
    <3>2. p \in Processes /\ RoleOf(p) = role
      BY <3>1, RolesAre
    <3>3. Recorded(role) = p
      BY <1>4, <2>2, <3>2 DEF Thins
    <3>4. calls'[c].handle[role] = Recorded(role)
      BY <1>5 DEF CallsTyped, CallsOf
    <3> QED
      BY <3>1, <3>3, <3>4
  <2>5. \A k \in Calls \ {c} : StartsHold(k)' /\ GoneHolds(k)'
    BY <1>2, <1>5, OthersHold
  <2>6. AllAreNamed'
    BY <1>4, <2>2, NamesStay DEF AllAreNamed, Thins
  <2> QED
    BY <2>2, <2>3, <2>4, <2>5, <2>6, ToldStay DEF Reach
<1>6. CASE /\ ~Alive(Recorded(role)) /\ Clears(role) /\ UNCHANGED process
           /\ Onward(c, Rest(c))
  <2>1. Thins /\ FileMoves
    BY <1>6, DropsThin DEF Recorded
  <2>2. \A k \in Calls : calls'[k] = calls[k] \/ (~Starts(k) /\ Calm(calls'[k].todo))
    BY <1>1, <1>3, <1>6, CalmAre DEF Onward
  <2> QED
    BY <2>1, <2>2, CalmStep
<1> QED
  BY <1>1, <1>5, <1>6

(* And when it lets go of it, none of the role is alive.                   *)
LEMMA ForgetKeeps ==
  ASSUME ShapeInv, Reach, NEW c \in Calls, NEW role \in Roles, ForgetRecorded(c, role)
  PROVE  /\ Onward(c, Rest(c)) /\ Plain(Rest(c)) /\ Rest(c) \in Todos /\ ~Starts(c)
         /\ Thins /\ FileMoves /\ Cleared(role)'
<1> USE ShapeOf
<1>1. /\ Open(c) /\ Plain(Rest(c)) /\ Rest(c) \in Todos /\ Onward(c, Rest(c))
      /\ Clears(role)
      /\ \/ Alive(calls[c].handle[role]) /\ Dies(calls[c].handle[role])
         \/ ~Alive(calls[c].handle[role]) /\ UNCHANGED process
  BY ForgetDoes
<1>2. At(c, "gone", role) /\ ~Starts(c)
  <2>1. At(c, "gone", role)
    BY DEF ForgetRecorded
  <2>2. calls[c].todo \notin Forward \cup Backward
    BY <2>1, HeadsAre DEF At, Forward, Backward
  <2> QED
    BY <2>1, <2>2 DEF Starts
<1>3. \A p \in Of(role) : Alive(p) => p = calls[c].handle[role]
  BY <1>2 DEF Reach, GoneHolds
<1>4. \A q \in Processes : process'[q].phase = process[q].phase \/ process'[q].phase = "none"
  BY <1>1 DEF HostTyped, Dies, Nothing
<1>5. \A p \in Of(role) : process'[p].phase = "none"
  <2> SUFFICES ASSUME NEW p \in Of(role)
               PROVE  process'[p].phase = "none"
    OBVIOUS
  <2>1. p \in Processes
    BY RolesAre
  <2>2. CASE Alive(p)
    BY <1>1, <1>3, <2>1, <2>2 DEF Dies, HostTyped, Nothing
  <2>3. CASE ~Alive(p)
    BY <1>4, <2>1, <2>3 DEF Alive
  <2> QED
    BY <2>2, <2>3
<1>6. Thins
  BY <1>4 DEF Thins, Alive, Told, Phase
<1>7. FileMoves
  <2>1. ~(stateFile[role].pid \in Processes /\ process'[stateFile[role].pid].phase # "none")
    BY <1>5, RolesAre DEF FilesTyped
  <2> QED
    BY <1>1, <2>1, ClearsDoes DEF FileMoves
<1>8. Cleared(role)'
  BY <1>1, <1>5, ClearsDoes DEF Cleared, Dead, Alive
<1> QED
  BY <1>1, <1>2, <1>6, <1>7, <1>8

LEMMA ForgetReach ==
  ASSUME ShapeInv, BaseInv', Reach, OneManages', NEW c \in Calls, NEW role \in Roles,
         ForgetRecorded(c, role)
  PROVE  Reach'
<1>1. \A k \in Calls : calls'[k] = calls[k] \/ (~Starts(k) /\ Calm(calls'[k].todo))
  BY ForgetKeeps, CalmAre DEF Onward
<1>2. BaseInv
  BY ShapeOf
<1> QED
  BY <1>1, <1>2, ForgetKeeps, CalmStep

(* The steps of a daemon and of a handler leave calls with a daemon that    *)
(* is there.                                                               *)
LEMMA NextOwned ==
  ASSUME OwnedInv, Next
  PROVE  OwnedInv'
<1>0. ShapeInv' /\ BaseInv /\ BaseInv' /\ CallsTyped /\ SupervisorTypeOK
  BY NextShape DEF OwnedInv, ShapeInv, BaseInv
<1>1. ASSUME \A c \in Calls : \/ calls'[c] = calls[c]
                              \/ calls'[c].todo = <<>>
                              \/ calls'[c].daemon = calls[c].daemon /\ Open(c),
             \A c \in Calls : Open(c) => \/ daemon'[calls[c].daemon] \in {"serving", "closing"}
                                         \/ calls'[c].todo = <<>>
      PROVE  \A c \in Calls : Owned(c)'
  BY <1>1 DEF OwnedInv, Owned, Open
<1>2. ASSUME UNCHANGED daemon, NEW c \in Calls, Open(c), NEW todo, Onward(c, todo)
      PROVE  \A k \in Calls : Owned(k)'
  <2>1. \A k \in Calls : \/ calls'[k] = calls[k]
                         \/ calls'[k].todo = <<>>
                         \/ calls'[k].daemon = calls[k].daemon /\ Open(k)
    BY <1>2 DEF Onward
  <2> QED
    BY <1>1, <1>2, <2>1 DEF OwnedInv, Owned
<1>3. ASSUME UNCHANGED daemon, UNCHANGED calls
      PROVE  \A k \in Calls : Owned(k)'
  BY <1>3 DEF OwnedInv, Owned, Open
<1>4. ASSUME NEW d \in Daemons, NEW todo \in Todos, NEW asker \in Askers,
             OpenCall(d, todo, asker), daemon'[d] = "serving",
             \A e \in Daemons : e # d => daemon'[e] = daemon[e]
      PROVE  \A k \in Calls : Owned(k)'
  BY <1>0, <1>4, OpenCallDoes DEF OwnedInv, Owned, Open
<1>5. ASSUME SpawnDaemon
      PROVE  \A k \in Calls : Owned(k)'
  <2>1. NextDaemon \in Unused
    BY <1>5 DEF SpawnDaemon, Launch, NextDaemon
  <2>2. NextDaemon \in Daemons /\ daemon[NextDaemon] = "none"
    BY <2>1 DEF Unused
  <2>3. \A d \in Daemons : daemon[d] \in {"serving", "closing"} => daemon'[d] = daemon[d]
    BY <1>0, <1>5, <2>2 DEF SpawnDaemon, Launch, SupervisorTypeOK
  <2> QED
    BY <1>5, <2>3 DEF SpawnDaemon, managerVars, OwnedInv, Owned, Open
<1>6. ASSUME NEW action \in Requests \cup {"daemon_stop"}, NEW asker \in Askers,
             Request(action, asker)
      PROVE  \A k \in Calls : Owned(k)'
  <2>1. PICK d \in Daemons : Accept(d, action, asker)
    BY <1>6 DEF Request
  <2>2. daemon[d] = "serving" /\ UNCHANGED daemon
    BY <2>1 DEF Accept, Reachable, daemonVars
  <2> QED
    BY <1>4, <2>1, <2>2, TodosTyped DEF Accept
<1>7. ASSUME Command
      PROVE  \A k \in Calls : Owned(k)'
  <2>1. CASE DaemonStart
    BY <1>5, <2>1 DEF DaemonStart
  <2>2. CASE DaemonStop
    BY <1>6, <2>2 DEF DaemonStop, Askers
  <2>3. CASE DaemonRestart
    BY <1>5, <1>6, <2>3 DEF DaemonRestart, Askers
  <2>4. CASE AskDaemon
    BY <1>6, <2>4 DEF AskDaemon, Askers
  <2>5. CASE Configure
    BY <1>3, <2>5 DEF Configure, daemonVars
  <2> QED
    BY <1>7, <2>1, <2>2, <2>3, <2>4, <2>5 DEF Command
<1>8. ASSUME RuntimeStep \/ ProcessCrash
      PROVE  \A k \in Calls : Owned(k)'
  BY <1>3, <1>8 DEF RuntimeStep, ProcessCrash, daemonVars
<1>9. ASSUME NEW d \in Daemons, calls' = WithoutCallsOf(d),
             daemon' = [daemon EXCEPT ![d] = "none"]
      PROVE  \A k \in Calls : Owned(k)'
  <2>1. \A k \in Calls : calls'[k] = calls[k] \/ calls'[k].todo = <<>>
    BY <1>0, <1>9, WithoutDoes
  <2>2. \A k \in Calls : calls[k].daemon = d => calls'[k].todo = <<>>
    BY <1>9 DEF WithoutCallsOf, NoCall
  <2>3. \A e \in Daemons : e # d => daemon'[e] = daemon[e]
    BY <1>0, <1>9 DEF SupervisorTypeOK
  <2> QED
    BY <1>1, <2>1, <2>2, <2>3 DEF OwnedInv, Owned
<1>10. ASSUME DaemonCrash
       PROVE  \A k \in Calls : Owned(k)'
  BY <1>9, <1>10 DEF DaemonCrash, DaemonCrashes
<1>11. ASSUME NEW d \in Daemons, DaemonStep(d)
       PROVE  \A k \in Calls : Owned(k)'
  <2>1. CASE RemoveSocket(d) \/ AddressInUse(d)
    <3>1. daemon[d] \notin {"serving", "closing"} /\ UNCHANGED calls
      BY <2>1 DEF RemoveSocket, AddressInUse, managerVars
    <3>2. \A e \in Daemons : e # d => daemon'[e] = daemon[e]
      BY <1>0, <2>1 DEF RemoveSocket, AddressInUse, SupervisorTypeOK
    <3> QED
      BY <3>1, <3>2 DEF OwnedInv, Owned, Open
  <2>2. CASE Listen(d)
    <3>1. daemon'[d] = "serving" /\ \A e \in Daemons : e # d => daemon'[e] = daemon[e]
      BY <1>0, <2>2 DEF Listen, SupervisorTypeOK
    <3> QED
      BY <1>4, <2>2, <3>1, TodosTyped DEF Listen, Askers
  <2> QED
    BY <1>11, <2>1, <2>2 DEF DaemonStep
<1>12. ASSUME NEW c \in Calls, Reply(c)
       PROVE  \A k \in Calls : Owned(k)'
  <2>1. Onward(c, Rest(c)) /\ Open(c)
    BY <1>12, ReportDoes DEF OwnedInv
  <2>2. \A d \in Daemons : daemon[d] \in {"serving", "closing"} =>
                             daemon'[d] \in {"serving", "closing"}
    <3>1. CASE StillStops(c)
      <4>1. \A d \in Daemons :
              daemon'[d] = CASE d = calls[c].daemon -> "closing"
                             [] calls[c].asker = "restart" /\ d = NextDaemon -> "booting"
                             [] OTHER -> daemon[d]
        BY <1>12, <3>1 DEF Reply
      <4>2. calls[c].asker = "restart" => daemon[NextDaemon] = "none"
        <5>1. calls[c].asker = "restart" => NextDaemon \in Unused
          BY <1>12, <3>1 DEF Reply, NextDaemon
        <5> QED
          BY <5>1 DEF Unused
      <4> QED
        BY <4>1, <4>2
    <3>2. CASE ~StillStops(c)
      BY <1>12, <3>2 DEF Reply
    <3> QED
      BY <3>1, <3>2
  <2>3. \A k \in Calls : \/ calls'[k] = calls[k]
                         \/ calls'[k].todo = <<>>
                         \/ calls'[k].daemon = calls[k].daemon /\ Open(k)
    BY <2>1 DEF Onward
  <2> QED
    BY <1>1, <2>2, <2>3 DEF OwnedInv, Owned
<1>13. ASSUME NEW c \in Calls, Close(c)
       PROVE  \A k \in Calls : Owned(k)'
  <2>1. calls[c].daemon \in Daemons
    BY <1>13 DEF Close, At, OwnedInv, Owned
  <2> QED
    BY <1>9, <1>13, <2>1 DEF Close
<1>14. ASSUME NEW c \in Calls, HandlerStep(c), ~Reply(c), ~Close(c)
       PROVE  \A k \in Calls : Owned(k)'
  <2>1. ShapeInv
    BY DEF OwnedInv
  <2>2. UNCHANGED daemon
    BY <1>14 DEF HandlerStep, InfraUp, InfraDown, InfraProbe, WriteReady, RefreshStatus,
                 daemonVars
  <2>3. Open(c)
    BY <1>14 DEF HandlerStep, ManagerStep, CleanAndCheck, AwaitGateway, AwaitExecutor, Spawn,
                 Timeout, KillSpawned, ReapSpawned, SignalRecorded, ForgetRecorded, InfraUp,
                 InfraDown, InfraProbe, WriteReady, RefreshStatus, At
  <2>4. UNCHANGED calls \/ \E todo : Onward(c, todo)
    <3>1. CASE CleanAndCheck(c)
      BY <2>1, <3>1, CleanDoes
    <3>2. CASE AwaitGateway(c)
      BY <2>1, <3>2, AwaitGatewayDoes
    <3>3. CASE AwaitExecutor(c)
      BY <2>1, <3>3, AwaitExecutorDoes
    <3>4. ASSUME NEW role \in Roles, Spawn(c, role)
          PROVE  \E todo : Onward(c, todo)
      BY <2>1, <3>4, SpawnDoes
    <3>5. ASSUME NEW role \in Roles, Timeout(c, role)
          PROVE  \E todo : Onward(c, todo)
      BY <2>1, <3>5, TimeoutDoes
    <3>6. ASSUME NEW role \in Roles, KillSpawned(c, role)
          PROVE  \E todo : Onward(c, todo)
      BY <2>1, <3>6, KillDoes
    <3>7. ASSUME NEW role \in Roles, ReapSpawned(c, role)
          PROVE  \E todo : Onward(c, todo)
      BY <2>1, <3>7, ReapDoes
    <3>8. ASSUME NEW role \in Roles, SignalRecorded(c, role)
          PROVE  \E todo : Onward(c, todo)
      BY <2>1, <3>8, SignalDoes
    <3>9. ASSUME NEW role \in Roles, ForgetRecorded(c, role)
          PROVE  \E todo : Onward(c, todo)
      BY <2>1, <3>9, ForgetDoes
    <3>10. CASE InfraUp(c)
      BY <2>1, <3>10, UpDoes
    <3>11. CASE InfraDown(c)
      BY <2>1, <3>11, DownDoes
    <3>12. CASE InfraProbe(c) \/ WriteReady(c) \/ RefreshStatus(c)
      BY <2>1, <3>12, ReportDoes
    <3> QED
      BY <1>14, <3>1, <3>2, <3>3, <3>4, <3>5, <3>6, <3>7, <3>8, <3>9, <3>10, <3>11, <3>12
         DEF HandlerStep, ManagerStep
  <2> QED
    BY <1>2, <1>3, <2>2, <2>3, <2>4
<1>15. ASSUME Daemon
       PROVE  \A k \in Calls : Owned(k)'
  BY <1>11, <1>12, <1>13, <1>14, <1>15 DEF Daemon
<1> QED
  BY <1>0, <1>7, <1>8, <1>10, <1>15 DEF Next, OwnedInv

(* A handler that only prepares or reports.                                *)
LEMMA ReportKeeps ==
  ASSUME ShapeInv, NEW c \in Calls,
         \/ InfraUp(c) \/ InfraDown(c) \/ InfraProbe(c)
         \/ WriteReady(c) \/ RefreshStatus(c) \/ Reply(c)
  PROVE  /\ Open(c) /\ (calls[c].todo = Boot0 \/ Plain(calls[c].todo)) /\ ~Starts(c)
         /\ \E todo : Onward(c, todo) /\ Calm(todo)
         /\ Thins /\ FileMoves
         /\ \/ UNCHANGED process
            \/ \E g \in Gateways : /\ Answering(g)
                                   /\ process' = [process EXCEPT ![g].status = Health(g)]
         /\ stateFile'["executor"] \in {stateFile["executor"], Cleaned["executor"]}
<1> USE ShapeOf
<1>1. Open(c) /\ (calls[c].todo = Boot0 \/ Plain(calls[c].todo))
  BY UpDoes, DownDoes, ReportDoes DEF InfraUp, At
<1>2. ~Starts(c)
  <2>1. Calm(calls[c].todo)
    BY <1>1, CalmAre, OpensTyped
  <2> QED
    BY <2>1 DEF Calm, Starts
<1>3. \E todo : Onward(c, todo) /\ Calm(todo)
  <2>1. Stop \o AfterStart \in Todos /\ Plain(Stop \o AfterStart)
    BY TodosTyped, ShapesAre
  <2> QED
    BY <2>1, UpDoes, DownDoes, ReportDoes, CalmAre
<1>4. CASE InfraUp(c) \/ InfraDown(c) \/ InfraProbe(c) \/ WriteReady(c) \/ Reply(c)
  <2>1. UNCHANGED process /\ UNCHANGED stateFile
    BY <1>4 DEF InfraUp, InfraDown, InfraProbe, WriteReady, Reply, Silent
  <2> QED
    BY <1>1, <1>2, <1>3, <2>1, StillThins
<1>5. CASE RefreshStatus(c)
  <2>1. CASE UNCHANGED process /\ stateFile' = Cleaned
    BY <1>1, <1>2, <1>3, <2>1, CleaningThins
  <2>2. ASSUME NEW g \in Gateways, Answering(g),
               process' = [process EXCEPT ![g].status = Health(g)],
               \/ stateFile' = [Cleaned EXCEPT !["gateway"] = [pid |-> g,
                                                               status |-> Health(g)]]
               \/ stateFile' = Cleaned
        PROVE  /\ Thins /\ FileMoves
               /\ stateFile'["executor"] = Cleaned["executor"]
    <3>1. \A role \in Roles :
            \/ stateFile'[role] = Cleaned[role]
            \/ role = "gateway" /\ stateFile'[role] = [pid |-> g, status |-> Health(g)]
      BY <2>2, CleanedTyped DEF Files
    <3>2. stateFile'["executor"] = Cleaned["executor"]
      BY <3>1 DEF Roles
    <3> QED
      BY <2>2, <3>1, <3>2, AnswerThins
  <2> QED
    BY <1>1, <1>2, <1>3, <1>5, <2>1, <2>2 DEF RefreshStatus
<1> QED
  BY <1>4, <1>5

LEMMA ReportReach ==
  ASSUME ShapeInv, BaseInv', Reach, OneManages', NEW c \in Calls,
         \/ InfraUp(c) \/ InfraDown(c) \/ InfraProbe(c)
         \/ WriteReady(c) \/ RefreshStatus(c) \/ Reply(c)
  PROVE  Reach'
<1>1. BaseInv /\ Thins /\ FileMoves
  BY ShapeOf, ReportKeeps
<1>2. \A k \in Calls : calls'[k] = calls[k] \/ (~Starts(k) /\ Calm(calls'[k].todo))
  BY ReportKeeps DEF Onward
<1> QED
  BY <1>1, <1>2, CalmStep

(* A daemon that ends takes only calls that were not at work.              *)
LEMMA EndKeeps ==
  ASSUME BaseInv, ~CutShort, NEW d \in Daemons,
         calls' = WithoutCallsOf(d), daemon' = [daemon EXCEPT ![d] = "none"]
  PROVE  \A k \in Calls :
           \/ calls'[k] = calls[k]
           \/ /\ calls[k].daemon = d /\ ~Managing(k) /\ ~Starts(k)
              /\ calls'[k].todo = <<>> /\ Calm(calls'[k].todo)
<1>1. CallsTyped /\ SupervisorTypeOK
  BY DEF BaseInv
<1>2. \A k \in Calls : \/ calls'[k] = calls[k]
                       \/ calls[k].daemon = d /\ calls'[k].todo = <<>>
  BY <1>1, WithoutDoes
<1>3. \A k \in Calls : calls[k].daemon = d => ~Managing(k) /\ ~Starts(k)
  <2>1. daemon'[d] = "none"
    BY <1>1 DEF SupervisorTypeOK
  <2> QED
    BY <2>1, ManagesWhen DEF CutShort
<1>4. Calm(<<>>)
  BY CalmAre, PlainAre, TodosTyped
<1> QED
  BY <1>2, <1>3, <1>4

LEMMA EndReach ==
  ASSUME OwnedInv, BaseInv', Reach, OneManages', ~CutShort, NEW d \in Daemons,
         calls' = WithoutCallsOf(d), daemon' = [daemon EXCEPT ![d] = "none"],
         UNCHANGED process, UNCHANGED stateFile
  PROVE  Reach'
<1>1. BaseInv
  BY DEF OwnedInv, ShapeInv
<1> QED
  BY <1>1, EndKeeps, StillThins, CalmStep

LEMMA OpeningReach ==
  ASSUME BaseInv, BaseInv', Reach, OneManages', NEW d \in Daemons, NEW todo \in Todos,
         NEW asker \in Askers, OpenCall(d, todo, asker), Calm(todo),
         UNCHANGED process, UNCHANGED stateFile
  PROVE  Reach'
<1>1. \A k \in Calls : calls'[k] = calls[k] \/ (~Open(k) /\ calls'[k].todo = todo)
  BY OpenCallDoes DEF BaseInv
<1>2. \A k \in Calls : ~Open(k) => ~Starts(k)
  BY HeadsAre DEF Open, Starts, Forward, Backward
<1> QED
  BY <1>1, <1>2, StillThins, CalmStep

LEMMA NextReach ==
  ASSUME ReachInv, Next
  PROVE  ReachInv'
<1>1. OwnedInv' /\ OwnedInv /\ ShapeInv /\ BaseInv /\ BaseInv'
  BY NextOwned DEF ReachInv, OwnedInv, ShapeInv
<1> SUFFICES ASSUME ~cut'
             PROVE  Reach'
  BY <1>1 DEF ReachInv
<1>2. Reach /\ OneManages' /\ ~CutShort
  BY DEF Next, NotesCut, ReachInv, Overlap, OneManages
<1>3. ASSUME UNCHANGED calls, UNCHANGED process, UNCHANGED stateFile
      PROVE  Reach'
  BY <1>1, <1>2, <1>3, StillThins, CalmStep
<1>4. ASSUME NEW action \in Requests \cup {"daemon_stop"}, NEW asker \in Askers,
             Request(action, asker)
      PROVE  Reach'
  <2>1. Calm(Plan(action)) /\ Plan(action) \in Todos
    BY PlansPlain, TodosTyped, CalmAre
  <2> QED
    BY <1>1, <1>2, <1>4, <2>1, OpeningReach DEF Request, Accept, processVars
<1>5. CASE Command
  <2>1. CASE DaemonStart
    BY <1>3, <2>1 DEF DaemonStart, SpawnDaemon, managerVars, processVars
  <2>2. CASE DaemonStop
    BY <1>4, <2>2 DEF DaemonStop, Askers
  <2>3. CASE DaemonRestart
    BY <1>3, <1>4, <2>3 DEF DaemonRestart, SpawnDaemon, managerVars, processVars, Askers
  <2>4. CASE AskDaemon
    BY <1>4, <2>4 DEF AskDaemon, Askers
  <2>5. CASE Configure
    BY <1>3, <2>5 DEF Configure
  <2> QED
    BY <1>5, <2>1, <2>2, <2>3, <2>4, <2>5 DEF Command
<1>6. CASE RuntimeStep \/ ProcessCrash
  <2>1. Thins /\ FileMoves
    BY <1>1, <1>6, ProcessThins, StillThins DEF RuntimeStep, ProcessCrash, InfraAccepts
  <2>2. UNCHANGED calls
    BY <1>6 DEF RuntimeStep, ProcessCrash
  <2> QED
    BY <1>1, <1>2, <2>1, <2>2, CalmStep
<1>7. CASE DaemonCrash
  BY <1>1, <1>2, <1>7, EndReach DEF DaemonCrash, DaemonCrashes
<1>8. ASSUME NEW d \in Daemons, DaemonStep(d)
      PROVE  Reach'
  <2>1. CASE RemoveSocket(d) \/ AddressInUse(d)
    BY <1>3, <2>1 DEF RemoveSocket, AddressInUse, managerVars, processVars
  <2>2. CASE Listen(d)
    BY <1>1, <1>2, <2>2, JoinsAre, CalmAre, ConstantTodos, OpeningReach
       DEF Listen, processVars, Askers
  <2> QED
    BY <1>8, <2>1, <2>2 DEF DaemonStep
<1>9. ASSUME NEW c \in Calls, HandlerStep(c)
      PROVE  Reach'
  <2>1. CASE ManagerStep(c)
    BY <1>1, <1>2, <2>1, CleanReach, AwaitGatewayReach, AwaitExecutorReach, SpawnReach,
       TimeoutReach, KillReach, ReapReach, SignalReach, ForgetReach DEF ManagerStep
  <2>2. CASE \/ InfraUp(c) \/ InfraDown(c) \/ InfraProbe(c)
             \/ WriteReady(c) \/ RefreshStatus(c) \/ Reply(c)
    BY <1>1, <1>2, <2>2, ReportReach
  <2>3. CASE Close(c)
    <3>1. calls[c].daemon \in Daemons
      BY <1>1, <2>3 DEF Close, At, OwnedInv, Owned
    <3> QED
      BY <1>1, <1>2, <2>3, <3>1, EndReach DEF Close, Silent
  <2> QED
    BY <1>9, <2>1, <2>2, <2>3 DEF HandlerStep
<1>10. CASE Daemon
  BY <1>8, <1>9, <1>10 DEF Daemon
<1> QED
  BY <1>5, <1>6, <1>7, <1>10 DEF Next

LEMMA InitReach ==
  ASSUME Init
  PROVE  ReachInv
<1>1. BaseInv
  BY InitTyped
<1>2. \A c \in Calls : calls[c].todo = <<>>
  BY DEF Init, SupervisorInit, ManagerInit, NoCall
<1>3. \A c \in Calls : ~Starts(c) /\ ~Open(c)
  BY <1>2, HeadsAre DEF Starts, Open, Forward, Backward
<1>4. \A p \in Processes : ~Alive(p)
  BY DEF Init, SupervisorInit, ManagerInit, ProcessesInit, Nothing, Alive
<1>5. \A c \in Calls : ~Managing(c)
  BY <1>2 DEF Managing
<1>6. Reach
  BY <1>2, <1>3, <1>4, <1>5, HeadsAre DEF Reach, OneManages, ToldAreNamed, Told, AllAreNamed,
     StartsHold, GoneHolds, At
<1>7. \A c \in Calls : Shape(calls[c].todo) /\ Owned(c)
  BY <1>2, <1>3, ShapesAre DEF Owned
<1> QED
  BY <1>1, <1>6, <1>7 DEF ReachInv, OwnedInv, ShapeInv

LEMMA ReachStutters == ReachInv /\ UNCHANGED vars => ReachInv'
<1> SUFFICES ASSUME ReachInv, UNCHANGED vars
             PROVE  ReachInv'
  OBVIOUS
<1>1. BaseInv'
  BY BaseStutters DEF ReachInv, OwnedInv, ShapeInv
<1>2. UNCHANGED <<process, stateFile, calls, daemon, cut>>
  BY DEF vars, supervisorVars, managerVars, processVars, daemonVars, operatorVars
<1>3. OwnedInv'
  BY <1>1, <1>2 DEF ReachInv, OwnedInv, ShapeInv, Owned, Open
<1>4. Reach => Reach'
  BY <1>2 DEF Reach, OneManages, Managing, ToldAreNamed, Told, AllAreNamed, StartsHold,
     GoneHolds, Starts, Cleared, Dead, Alive, Phase, Recorded, At, Open
<1> QED
  BY <1>2, <1>3, <1>4 DEF ReachInv

(* Where no call manages, none is in the middle of a start.                *)
LEMMA ReachGivesNames ==
  ASSUME ReachInv
  PROVE  StrayNeedsOverlap
<1>1. BaseInv
  BY DEF ReachInv, OwnedInv, ShapeInv
<1>2. Quiet => \A c \in Calls : ~Starts(c)
  BY <1>1, ManagesWhen DEF Quiet
<1> QED
  BY <1>2 DEF ReachInv, Reach, AllAreNamed, StrayNeedsOverlap

(* No process is alive that no state file names, once nothing is on its    *)
(* way and unless two calls managed at once or one was cut short.          *)
THEOREM NobodyStrays == Spec => []StrayNeedsOverlap
<1>1. Init => ReachInv
  BY InitReach
<1>2. ReachInv /\ [Next]_vars => ReachInv'
  BY NextReach, ReachStutters
<1>3. ReachInv => StrayNeedsOverlap
  BY ReachGivesNames
<1> QED
  BY <1>1, <1>2, <1>3, PTL DEF Spec

---------------------------------------------------------------------------
(* After a restart: it is still stopping what runs; or it has, and a start *)
(* is to come, is on its way or has been made; or the executor's           *)
(* fingerprint is not that of the configuration, and no start succeeds.    *)
Down0 == << <<"signal", "executor">>, <<"signal", "gateway">>,
            <<"reply", "both">>, <<"close", "both">> >>
Down2 == << <<"signal", "gateway">>, <<"reply", "both">>, <<"close", "both">> >>
Down4 == << <<"reply", "both">>, <<"close", "both">> >>
Down1 == << <<"gone", "executor">> >> \o Down2
Down3 == << <<"gone", "gateway">> >> \o Down4

Restarts(c) == calls[c].asker = "restart"
Stopping(c) ==
  /\ Restarts(c)
  /\ \/ calls[c].todo \in {Down0, Down1}
     \/ calls[c].todo \in {Down2, Down3} /\ Cleared("executor")

Mild(todo) == \A i \in 1..Len(todo) : todo[i][1] \notin {"signal", "gone", "down"}
AllMild == \A c \in Calls : Mild(calls[c].todo)
UpToDate ==
  \A p \in Processes : Alive(p) /\ Phase(p) # "booting" => process[p].config = config

Pending ==
  \/ \E c \in Calls : Restarts(c) /\ calls[c].todo = Down4
  \/ \E c \in Calls : calls[c].todo \in {Boot0, Start0}
  \/ \E d \in Daemons : \/ daemon[d] = "booting"
                        \/ daemon[d] = "cleared" /\ socket = NoDaemon
ToCome ==
  /\ Cleared("gateway") /\ Cleared("executor")
  /\ \A c \in Calls : ~Starts(c)
  /\ Pending

Agrees(role) == fingerprint[role] = config
GatewayComes(g) ==
  /\ g \in Gateways
  /\ \/ Phase(g) = "booting"
     \/ Phase(g) \in {"published", "serving"} /\ Agrees("gateway")
GatewayServes(g) ==
  /\ g \in Gateways
  /\ Phase(g) = "serving" /\ process[g].status = "ready" /\ Agrees("gateway")
  /\ fingerprint["executor"] \in {0, config}
ExecutorServes(e) ==
  /\ e \in Executors
  /\ Phase(e) = "serving" /\ process[e].status = "ready" /\ Agrees("executor")
  /\ stateFile["executor"] = [pid |-> e, status |-> "ready"]
ExecutorComes(e) ==
  \/ /\ e \in Executors /\ stateFile["executor"] = NoFile
     /\ Phase(e) = "booting" \/ (Phase(e) = "published" /\ Agrees("executor"))
  \/ ExecutorServes(e)
Coming(c) ==
  \/ calls[c].todo = Start1
  \/ calls[c].todo = Start2 /\ GatewayComes(calls[c].handle["gateway"])
  \/ calls[c].todo = Start3 /\ \E g \in Gateways : GatewayServes(g)
  \/ /\ calls[c].todo = Start4 /\ \E g \in Gateways : GatewayServes(g)
     /\ ExecutorComes(calls[c].handle["executor"])
Healed ==
  /\ infra = "up"
  /\ \A c \in Calls : ~Starts(c)
  /\ \E g \in Gateways : GatewayServes(g)
  /\ \E e \in Executors : ExecutorServes(e)
Stale ==
  /\ fingerprint["executor"] \notin {0, config}
  /\ Dead("executor")
  /\ \A c \in Calls : calls[c].todo \notin {Start3, Start4}

Mends == AllMild /\ UpToDate /\ (ToCome \/ (\E c \in Calls : Coming(c)) \/ Healed \/ Stale)
HealInv ==
  /\ ReachInv
  /\ restarted /\ warm /\ ~cut =>
       infra = "up" /\ ((\E c \in Calls : Stopping(c)) \/ Mends)

---------------------------------------------------------------------------
(* A restart heals.                                                        *)

LEMMA DownsAre ==
  /\ Plan("daemon_stop") = Down0
  /\ Down0 \in Todos /\ Down2 \in Todos /\ Down4 \in Todos
  /\ Plain(Down0) /\ Plain(Down2) /\ Plain(Down4)
  /\ Down0 # <<>> /\ Head(Down0) = <<"signal", "executor">> /\ Tail(Down0) = Down2
  /\ Down1 # <<>> /\ Head(Down1) = <<"gone", "executor">> /\ Tail(Down1) = Down2
  /\ Down2 # <<>> /\ Head(Down2) = <<"signal", "gateway">> /\ Tail(Down2) = Down4
  /\ Down3 # <<>> /\ Head(Down3) = <<"gone", "gateway">> /\ Tail(Down3) = Down4
  /\ Down4 # <<>> /\ Head(Down4) = <<"reply", "both">>
<1>1. Down0 \in Todos /\ Down2 \in Todos /\ Down4 \in Todos
  BY DEF Todos, Down0, Down2, Down4, Stages, Verbs, Roles
<1>2. Plain(Down0) /\ Plain(Down2) /\ Plain(Down4)
  BY DEF Plain, Down0, Down2, Down4, PlainVerbs
<1>3. /\ Down0 # <<>> /\ Head(Down0) = <<"signal", "executor">> /\ Tail(Down0) = Down2
      /\ Down2 # <<>> /\ Head(Down2) = <<"signal", "gateway">> /\ Tail(Down2) = Down4
      /\ Down4 # <<>> /\ Head(Down4) = <<"reply", "both">>
  BY DEF Down0, Down2, Down4
<1>4. /\ Down1 # <<>> /\ Head(Down1) = <<"gone", "executor">> /\ Tail(Down1) = Down2
      /\ Down3 # <<>> /\ Head(Down3) = <<"gone", "gateway">> /\ Tail(Down3) = Down4
  BY <1>1, <1>2, WaitsWhen DEF Down1, Down3, Roles
<1>5. Plan("daemon_stop") = Down0
  <2> DEFINE reply == Both("reply")
             close == Both("close")
             head == Stop \o reply
             s == head \o close
  <2>1. Stop \in Seq(Stages) /\ reply \in Seq(Stages) /\ close \in Seq(Stages)
    BY TodosTyped DEF Todos, Both, Stages, Verbs, Roles
  <2>2. /\ Len(Stop) = 2 /\ Len(reply) = 1 /\ Len(close) = 1
        /\ reply[1] = <<"reply", "both">> /\ close[1] = <<"close", "both">>
        /\ Stop[1] = <<"signal", "executor">> /\ Stop[2] = <<"signal", "gateway">>
    BY DEF Both, Stop
  <2> HIDE DEF reply, close
  <2>3. /\ head \in Seq(Stages) /\ Len(head) = 3
        /\ head[1] = Stop[1] /\ head[2] = Stop[2] /\ head[3] = reply[1]
    <3>1. /\ head \in Seq(Stages) /\ Len(head) = Len(Stop) + Len(reply)
          /\ \A i \in 1..(Len(Stop) + Len(reply)) :
               head[i] = IF i <= Len(Stop) THEN Stop[i] ELSE reply[i - Len(Stop)]
      BY <2>1, ConcatProperties
    <3> HIDE DEF head
    <3> QED
      BY <2>2, <3>1
  <2> HIDE DEF head
  <2>4. /\ s \in Seq(Stages) /\ Len(s) = 4
        /\ \A i \in 1..4 : s[i] = IF i <= 3 THEN head[i] ELSE close[i - 3]
    <3>1. /\ s \in Seq(Stages) /\ Len(s) = Len(head) + Len(close)
          /\ \A i \in 1..(Len(head) + Len(close)) :
               s[i] = IF i <= Len(head) THEN head[i] ELSE close[i - Len(head)]
      BY <2>1, <2>3, ConcatProperties
    <3> HIDE DEF s
    <3> QED
      BY <2>2, <2>3, <3>1
  <2> HIDE DEF s
  <2>5. s[1] = Down0[1] /\ s[2] = Down0[2] /\ s[3] = Down0[3] /\ s[4] = Down0[4]
    BY <2>2, <2>3, <2>4 DEF Down0
  <2>6. Len(Down0) = 4
    BY DEF Down0
  <2>7. \A i \in 1..Len(s) : s[i] = Down0[i]
    BY <2>4, <2>5
  <2>8. s = Down0
    BY <1>1, <2>4, <2>6, <2>7, SeqEqual DEF Todos
  <2> QED
    BY <2>8 DEF Plan, s, head, reply, close
<1> QED
  BY <1>1, <1>2, <1>3, <1>4, <1>5

LEMMA MildAre ==
  /\ Mild(<<>>) /\ Mild(Boot0) /\ Mild(Start0) /\ Mild(AfterStart) /\ Mild(Down4)
  /\ \A todo \in Forward \cup Backward : Mild(todo)
  /\ \A t \in Todos : Mild(t) /\ t # <<>> =>
       Mild(Tail(t)) /\ Head(t)[1] \notin {"signal", "gone", "down"}
<1>1. Mild(<<>>) /\ Mild(AfterStart) /\ Mild(Down4) /\ Mild(Boot0)
  BY DEF Mild, AfterStart, Down4, Boot0
<1>2. Mild(Start0)
  BY DEF Mild, Start0
<1>3. Mild(Back0)
  BY DEF Mild, Back0
<1>4. ASSUME NEW t \in Todos, Mild(t), t # <<>>
      PROVE  Mild(Tail(t)) /\ Head(t)[1] \notin {"signal", "gone", "down"}
  <2>1. /\ Len(Tail(t)) = Len(t) - 1
        /\ \A i \in 1..Len(Tail(t)) : Tail(t)[i] = t[i + 1]
    BY <1>4, HeadTailProperties DEF Todos
  <2>2. Len(t) \in Nat \ {0} /\ Head(t) = t[1]
    BY <1>4, EmptySeq DEF Todos
  <2>3. 1 \in 1..Len(t)
    BY <2>2
  <2>4. ASSUME NEW i \in 1..Len(Tail(t))
        PROVE  Tail(t)[i][1] \notin {"signal", "gone", "down"}
    <3>1. i + 1 \in 1..Len(t)
      BY <2>1, <2>2
    <3> QED
      BY <1>4, <2>1, <3>1 DEF Mild
  <2> QED
    BY <1>4, <2>2, <2>3, <2>4 DEF Mild
<1>5. Mild(Start1) /\ Mild(Start2) /\ Mild(Start3) /\ Mild(Start4)
  BY <1>2, <1>4, TailsAre, ConstantTodos
<1>6. Mild(Back1) /\ Mild(Back2) /\ Mild(Back3)
  BY <1>3, <1>4, TailsAre, ConstantTodos
<1> QED
  BY <1>1, <1>2, <1>3, <1>4, <1>5, <1>6 DEF Forward, Backward

LEMMA ReportsMild ==
  ASSUME BaseInv, NEW c \in Calls, ~Managing(c)
  PROVE  Mild(calls[c].todo)
<1>1. DOMAIN calls[c].todo = 1..Len(calls[c].todo)
  BY LenProperties DEF BaseInv, CallsTyped, CallsOf, Todos
<1> QED
  BY <1>1 DEF Managing, Reporting, Mild

LEMMA MildSteps ==
  ASSUME AllMild, NEW c \in Calls, NEW todo, Onward(c, todo), Mild(todo)
  PROVE  AllMild'
BY DEF AllMild, Onward

---------------------------------------------------------------------------
(* What keeps a start on its way.                                          *)

(* A step that at most asks the gateway how it is and drops files.         *)
Looks ==
  /\ UNCHANGED config /\ UNCHANGED fingerprint
  /\ \/ UNCHANGED process
     \/ \E g \in Gateways : /\ Answering(g)
                            /\ process' = [process EXCEPT ![g].status = Health(g)]
  /\ stateFile'["executor"] \in {stateFile["executor"], Cleaned["executor"]}

LEMMA PeersAre ==
  /\ \A g \in Gateways : Peer(RoleOf(g)) = "executor"
  /\ \A e \in Executors : Peer(RoleOf(e)) = "gateway"
BY RolesAre DEF Peer

LEMMA LooksKeep ==
  ASSUME HostTyped, Looks, UpToDate
  PROVE  /\ UpToDate'
         /\ \A g : GatewayServes(g) => GatewayServes(g)'
         /\ \A g : GatewayComes(g) => GatewayComes(g)'
         /\ \A e : ExecutorServes(e) => ExecutorServes(e)'
         /\ \A e : ExecutorComes(e) => ExecutorComes(e)'
<1>1. \A p \in Processes : /\ process'[p].phase = process[p].phase
                           /\ process'[p].config = process[p].config
  BY DEF Looks, HostTyped
<1>2. \A e \in Executors : process'[e] = process[e]
  <2>1. \A g \in Gateways : \A e \in Executors : e # g
    BY ProcessAssumption
  <2> QED
    BY <2>1 DEF Looks, HostTyped, Processes
<1>3. \A g \in Gateways : \/ process'[g].status = process[g].status
                          \/ process'[g].status = Health(g)
  BY DEF Looks, HostTyped, Processes
<1>4. UpToDate'
  BY <1>1 DEF UpToDate, Alive, Phase, Looks
<1>5. \A g : GatewayComes(g) => GatewayComes(g)'
  BY <1>1 DEF GatewayComes, Phase, Agrees, Looks, Processes
<1>6. ASSUME NEW g, GatewayServes(g)
      PROVE  GatewayServes(g)'
  <2>1. g \in Gateways /\ g \in Processes
    BY <1>6 DEF GatewayServes, Processes
  <2>2. process[g].config = config
    BY <1>6, <2>1 DEF GatewayServes, UpToDate, Alive, Phase
  <2>3. Health(g) = "ready"
    BY <1>6, <2>1, <2>2, PeersAre DEF GatewayServes, Health, Drifts
  <2> QED
    BY <1>1, <1>3, <1>6, <2>1, <2>3 DEF GatewayServes, Phase, Agrees, Looks
<1>7. ASSUME NEW e, ExecutorServes(e)
      PROVE  ExecutorServes(e)'
  <2>1. e \in Executors /\ Alive(e)
    BY <1>7 DEF ExecutorServes, Alive, Phase, Processes
  <2>2. Cleaned["executor"] = stateFile["executor"]
    BY <1>7, <2>1 DEF ExecutorServes, Cleaned, Roles
  <2> QED
    BY <1>2, <1>7, <2>1, <2>2 DEF ExecutorServes, Phase, Agrees, Looks
<1>8. ASSUME NEW e, ExecutorComes(e)
      PROVE  ExecutorComes(e)'
  <2>1. CASE ExecutorServes(e)
    BY <1>7, <2>1 DEF ExecutorComes
  <2>2. CASE /\ e \in Executors /\ stateFile["executor"] = NoFile
             /\ Phase(e) = "booting" \/ (Phase(e) = "published" /\ Agrees("executor"))
    <3>1. Cleaned["executor"] = NoFile
      BY <2>2 DEF Cleaned, Roles
    <3> QED
      BY <1>2, <2>2, <3>1 DEF ExecutorComes, Phase, Agrees, Looks
  <2> QED
    BY <1>8, <2>1, <2>2 DEF ExecutorComes
<1> QED
  BY <1>4, <1>5, <1>6, <1>7, <1>8

LEMMA StillLooks ==
  ASSUME UNCHANGED config, UNCHANGED fingerprint, UNCHANGED process, UNCHANGED stateFile
  PROVE  Looks
BY DEF Looks

(* Steps after which no more is half done than before, once more.          *)
LEMMA LooksMend ==
  ASSUME HostTyped, Mends, Looks, Thins, FileMoves, infra' = infra,
         ToCome => Pending', AllMild',
         \A k \in Calls : calls'[k] = calls[k] \/ (~Starts(k) /\ Calm(calls'[k].todo))
  PROVE  Mends'
<1>1. UpToDate'
  BY LooksKeep DEF Mends
<1>2. (\A k \in Calls : ~Starts(k)) => \A k \in Calls : ~Starts(k)'
  BY DEF Starts, Calm
<1>3. ASSUME ToCome
      PROVE  ToCome'
  BY <1>2, <1>3, ClearedStays DEF ToCome, Roles
<1>4. ASSUME NEW c \in Calls, Coming(c)
      PROVE  Coming(c)'
  <2>1. Starts(c)
    BY <1>4 DEF Coming, Starts, Forward
  <2>2. calls'[c] = calls[c]
    BY <2>1
  <2>3. CASE calls[c].todo = Start1
    BY <2>2, <2>3 DEF Coming
  <2>4. CASE calls[c].todo = Start2 /\ GatewayComes(calls[c].handle["gateway"])
    <3>1. GatewayComes(calls[c].handle["gateway"])'
      <4> DEFINE g == calls[c].handle["gateway"]
      <4>1. g' = g
        BY <2>2
      <4>2. GatewayComes(g)
        BY <2>4
      <4> QED
        BY <4>1, <4>2, <2>2, LooksKeep DEF Mends, GatewayComes, Phase, Agrees
    <3> QED
      BY <2>2, <2>4, <3>1 DEF Coming
  <2>5. CASE calls[c].todo = Start3 /\ \E g \in Gateways : GatewayServes(g)
    <3>1. \E g \in Gateways : GatewayServes(g)'
      BY <2>5, LooksKeep DEF Mends
    <3> QED
      BY <2>2, <2>5, <3>1 DEF Coming
  <2>6. CASE /\ calls[c].todo = Start4 /\ \E g \in Gateways : GatewayServes(g)
             /\ ExecutorComes(calls[c].handle["executor"])
    <3>1. \E g \in Gateways : GatewayServes(g)'
      BY <2>6, LooksKeep DEF Mends
    <3>2. ExecutorComes(calls[c].handle["executor"])'
      BY <2>2, <2>6, LooksKeep DEF Mends, ExecutorComes, ExecutorServes, Phase, Agrees
    <3> QED
      BY <2>2, <2>6, <3>1, <3>2 DEF Coming
  <2> QED
    BY <1>4, <2>3, <2>4, <2>5, <2>6 DEF Coming
<1>5. ASSUME Healed
      PROVE  Healed'
  <2>1. \E g \in Gateways : GatewayServes(g)'
    BY <1>5, LooksKeep DEF Mends, Healed
  <2>2. \E e \in Executors : ExecutorServes(e)'
    BY <1>5, LooksKeep DEF Mends, Healed
  <2> QED
    BY <1>2, <1>5, <2>1, <2>2 DEF Healed
<1>6. ASSUME Stale
      PROVE  Stale'
  <2>1. Dead("executor")'
    BY <1>6, ClearedStays DEF Stale, Roles
  <2>2. \A k \in Calls : calls'[k].todo \notin {Start3, Start4}
    BY <1>6 DEF Stale, Calm, Forward
  <2> QED
    BY <1>6, <2>1, <2>2 DEF Stale, Looks
<1> QED
  BY <1>1, <1>3, <1>4, <1>5, <1>6 DEF Mends

LEMMA PendingStays ==
  ASSUME NEW c \in Calls, NEW todo, Onward(c, todo),
         calls[c].todo \notin {Down4, Boot0, Start0}, UNCHANGED daemon, UNCHANGED socket
  PROVE  Pending => Pending'
BY DEF Pending, Restarts, Onward

LEMMA ReplyPending ==
  ASSUME OwnedInv, NEW c \in Calls, Reply(c), Pending
  PROVE  Pending'
<1>1. Onward(c, Rest(c)) /\ Open(c) /\ SupervisorTypeOK
  BY ReportDoes DEF OwnedInv, ShapeInv, BaseInv
<1>2. calls[c].todo \notin {Boot0, Start0}
  BY HeadsAre DEF Reply, At
<1>3. calls[c].todo = Down4 => StillStops(c)
  <2>1. calls[c].todo = Down4 => 2 \in DOMAIN calls[c].todo
                                 /\ calls[c].todo[2] = <<"close", "both">>
    BY DEF Down4
  <2> QED
    BY <1>1, <2>1 DEF StillStops
<1>4. CASE StillStops(c)
  <2>1. \A d \in Daemons :
          daemon'[d] = CASE d = calls[c].daemon -> "closing"
                         [] calls[c].asker = "restart" /\ d = NextDaemon -> "booting"
                         [] OTHER -> daemon[d]
    BY <1>4 DEF Reply
  <2>2. calls[c].daemon \in Daemons /\ daemon[calls[c].daemon] \in {"serving", "closing"}
    BY <1>1 DEF OwnedInv, Owned
  <2>3. calls[c].asker = "restart" => NextDaemon \in Daemons /\ daemon[NextDaemon] = "none"
    <3>1. calls[c].asker = "restart" => NextDaemon \in Unused
      BY <1>4 DEF Reply, NextDaemon
    <3> QED
      BY <3>1 DEF Unused
  <2>4. \A d \in Daemons : daemon[d] \in {"booting", "cleared"} => daemon'[d] = daemon[d]
    BY <2>1, <2>2, <2>3
  <2>5. UNCHANGED socket
    BY DEF Reply
  <2>6. CASE \E d \in Daemons : \/ daemon[d] = "booting"
                                \/ daemon[d] = "cleared" /\ socket = NoDaemon
    BY <2>4, <2>5, <2>6 DEF Pending
  <2>7. CASE \E k \in Calls : calls[k].todo \in {Boot0, Start0}
    BY <1>1, <1>2, <2>7 DEF Pending, Onward
  <2>8. CASE \E k \in Calls : Restarts(k) /\ calls[k].todo = Down4
    <3>1. PICK k \in Calls : Restarts(k) /\ calls[k].todo = Down4
      BY <2>8
    <3>2. CASE k = c
      <4>1. daemon'[NextDaemon] = "booting" /\ NextDaemon \in Daemons
        <5>1. calls[c].asker = "restart"
          BY <3>1, <3>2 DEF Restarts
        <5>2. NextDaemon # calls[c].daemon
          BY <2>2, <2>3, <5>1
        <5> QED
          BY <2>1, <2>3, <5>1, <5>2
      <4> QED
        BY <4>1 DEF Pending
    <3>3. CASE k # c
      BY <1>1, <3>1, <3>3 DEF Pending, Onward, Restarts
    <3> QED
      BY <3>2, <3>3
  <2> QED
    BY <2>6, <2>7, <2>8 DEF Pending
<1>5. CASE ~StillStops(c)
  <2>1. UNCHANGED daemon /\ UNCHANGED socket
    BY <1>5 DEF Reply
  <2> QED
    BY <1>1, <1>2, <1>3, <1>5, <2>1, PendingStays
<1> QED
  BY <1>4, <1>5

(* What a call that prepares or reports does to a restart under way.       *)
LEMMA ReportMends ==
  ASSUME OwnedInv, Mends, infra = "up", NEW c \in Calls, faults' = faults,
         \/ InfraUp(c) \/ InfraDown(c) \/ InfraProbe(c)
         \/ WriteReady(c) \/ RefreshStatus(c) \/ Reply(c)
  PROVE  Mends'
<1>1. ShapeInv /\ BaseInv /\ HostTyped
  BY DEF OwnedInv, ShapeInv, BaseInv
<1>2. Open(c) /\ calls[c].todo \in Todos /\ Mild(calls[c].todo)
  BY <1>1, ReportKeeps, OpensTyped DEF Mends, AllMild, BaseInv
<1>3. Mild(Rest(c)) /\ Head(calls[c].todo)[1] # "down"
  BY <1>2, MildAre DEF Open, Rest
<1>4. ~InfraDown(c)
  BY <1>3 DEF InfraDown, At
<1>5. ~Fault
  BY <1>1 DEF Fault, HostTyped
<1>6. Looks
  <2>1. UNCHANGED config /\ UNCHANGED fingerprint
    BY DEF InfraUp, InfraDown, InfraProbe, WriteReady, RefreshStatus, Reply, Silent
  <2> QED
    BY <1>1, <2>1, ReportKeeps DEF Looks
<1>7. infra' = infra
  BY <1>4 DEF InfraUp, InfraProbe, WriteReady, RefreshStatus, Reply, Silent
<1>8. (Pending => Pending') /\ AllMild'
  <2>1. CASE Reply(c)
    BY <1>1, <1>3, <2>1, ReplyPending, ReportDoes, MildSteps DEF Mends
  <2>2. CASE InfraProbe(c) \/ WriteReady(c) \/ RefreshStatus(c)
    <3>1. calls[c].todo \notin {Down4, Boot0, Start0}
      BY <2>2, HeadsAre, DownsAre DEF InfraProbe, WriteReady, RefreshStatus, At
    <3>2. UNCHANGED daemon /\ UNCHANGED socket
      BY <2>2 DEF InfraProbe, WriteReady, RefreshStatus, daemonVars
    <3>3. Onward(c, Rest(c))
      BY <1>1, <2>2, ReportDoes
    <3> QED
      BY <1>3, <3>1, <3>2, <3>3, PendingStays, MildSteps DEF Mends
  <2>3. CASE InfraUp(c)
    <3>1. CASE Onward(c, Start0)
      BY <3>1, MildAre, MildSteps DEF Mends, Pending, Onward
    <3>2. CASE Plain(calls[c].todo) /\ Onward(c, Rest(c))
      <4>1. ~Plain(Boot0)
        BY DEF Plain, Boot0, PlainVerbs
      <4>2. calls[c].todo \notin {Down4, Boot0, Start0}
        BY <1>2, <2>3, <3>2, <4>1, HeadsAre, DownsAre DEF InfraUp, At
      <4>3. UNCHANGED daemon /\ UNCHANGED socket
        BY <2>3 DEF InfraUp
      <4> QED
        BY <1>3, <3>2, <4>2, <4>3, PendingStays, MildSteps DEF Mends
    <3> QED
      BY <1>1, <1>5, <2>3, <3>1, <3>2, UpDoes
  <2> QED
    BY <1>4, <2>1, <2>2, <2>3
<1>9. \A k \in Calls : calls'[k] = calls[k] \/ (~Starts(k) /\ Calm(calls'[k].todo))
  BY <1>1, ReportKeeps DEF Onward
<1>10. Thins /\ FileMoves
  BY <1>1, ReportKeeps
<1> QED
  BY <1>1, <1>6, <1>7, <1>8, <1>9, <1>10, LooksMend DEF ToCome

(* And what the steps of a daemon do to it.                                *)
LEMMA CloseMends ==
  ASSUME OwnedInv, Mends, ~CutShort, NEW c \in Calls, Close(c)
  PROVE  Mends'
<1> DEFINE d == calls[c].daemon
<1>1. BaseInv /\ HostTyped /\ SupervisorTypeOK /\ Open(c)
  BY DEF OwnedInv, ShapeInv, BaseInv, Close, At
<1>2. d \in Daemons /\ daemon[d] \in {"serving", "closing"}
  BY <1>1 DEF OwnedInv, Owned
<1>3. /\ calls' = WithoutCallsOf(d) /\ daemon' = [daemon EXCEPT ![d] = "none"]
      /\ UNCHANGED <<config, infra, fingerprint, process, stateFile>>
      /\ socket' \in {socket, NoDaemon}
  BY DEF Close, Silent
<1> HIDE DEF d
<1>4. \A k \in Calls :
        \/ calls'[k] = calls[k]
        \/ /\ calls[k].daemon = d /\ ~Managing(k) /\ ~Starts(k)
           /\ calls'[k].todo = <<>> /\ Calm(calls'[k].todo)
  BY <1>1, <1>2, <1>3, EndKeeps
<1>5. AllMild'
  BY <1>4, MildAre DEF Mends, AllMild
<1>6. ASSUME Pending
      PROVE  Pending'
  <2>1. CASE \E e \in Daemons : \/ daemon[e] = "booting"
                                \/ daemon[e] = "cleared" /\ socket = NoDaemon
    BY <1>1, <1>2, <1>3, <2>1 DEF Pending, SupervisorTypeOK
  <2>2. CASE \E k \in Calls : calls[k].todo \in {Boot0, Start0}
    <3>1. PICK k \in Calls : calls[k].todo \in {Boot0, Start0}
      BY <2>2
    <3>2. Managing(k)
      BY <1>1, <3>1, ManagesWhen
    <3>3. calls'[k] = calls[k]
      BY <1>4, <3>2
    <3> QED
      BY <3>1, <3>3 DEF Pending
  <2>3. CASE \E k \in Calls : Restarts(k) /\ calls[k].todo = Down4
    <3>1. PICK k \in Calls : Restarts(k) /\ calls[k].todo = Down4
      BY <2>3
    <3>2. k # c /\ ~At(k, "close", "both") /\ calls[k].asker # "nobody"
      BY <3>1, DownsAre DEF Close, At, Restarts
    <3>3. calls[k].daemon # d
      BY <3>2 DEF Close, d
    <3>4. calls'[k] = calls[k]
      BY <1>4, <3>3
    <3> QED
      BY <3>1, <3>4 DEF Pending, Restarts
  <2> QED
    BY <1>6, <2>1, <2>2, <2>3 DEF Pending
<1> QED
  BY <1>1, <1>3, <1>4, <1>5, <1>6, StillThins, StillLooks, LooksMend DEF ToCome

LEMMA DaemonMends ==
  ASSUME OwnedInv, Mends, NEW d \in Daemons, DaemonStep(d)
  PROVE  Mends'
<1>1. HostTyped /\ SupervisorTypeOK /\ CallsTyped
  BY DEF OwnedInv, ShapeInv, BaseInv
<1>2. UNCHANGED <<config, infra, fingerprint, process, stateFile>>
  BY DEF DaemonStep, RemoveSocket, AddressInUse, Listen, managerVars, processVars
<1>3. CASE RemoveSocket(d)
  <2>1. Pending'
    BY <1>1, <1>3 DEF RemoveSocket, Pending, SupervisorTypeOK
  <2>2. UNCHANGED calls
    BY <1>3 DEF RemoveSocket, managerVars
  <2>3. AllMild'
    BY <2>2 DEF Mends, AllMild
  <2> QED
    BY <1>1, <1>2, <2>1, <2>2, <2>3, StillThins, StillLooks, LooksMend DEF ToCome
<1>4. CASE AddressInUse(d)
  <2>1. UNCHANGED calls
    BY <1>4 DEF AddressInUse, managerVars
  <2>2. Pending => Pending'
    <3>1. socket # NoDaemon /\ daemon[d] = "cleared"
      BY <1>4 DEF AddressInUse
    <3>2. \A e \in Daemons : daemon[e] = "booting" => daemon'[e] = "booting"
      BY <1>1, <1>4, <3>1 DEF AddressInUse, SupervisorTypeOK
    <3> QED
      BY <2>1, <3>1, <3>2 DEF Pending, Restarts
  <2>3. AllMild'
    BY <2>1 DEF Mends, AllMild
  <2> QED
    BY <1>1, <1>2, <2>1, <2>2, <2>3, StillThins, StillLooks, LooksMend DEF ToCome
<1>5. CASE Listen(d)
  <2>1. PICK c \in Calls : /\ ~Open(c) /\ calls'[c].todo = Boot0
                           /\ \A k \in Calls \ {c} : calls'[k] = calls[k]
    BY <1>1, <1>5, OpenCallDoes, JoinsAre, ConstantTodos DEF Listen, Askers
  <2>2. Pending'
    BY <2>1 DEF Pending
  <2>3. AllMild'
    BY <2>1, MildAre DEF Mends, AllMild
  <2>4. ~Starts(c)
    BY <2>1, HeadsAre DEF Open, Starts, Forward, Backward
  <2>5. \A k \in Calls : calls'[k] = calls[k] \/ (~Starts(k) /\ Calm(calls'[k].todo))
    BY <2>1, <2>4, CalmAre
  <2> QED
    BY <1>1, <1>2, <2>2, <2>3, <2>5, StillThins, StillLooks, LooksMend DEF ToCome
<1> QED
  BY <1>3, <1>4, <1>5 DEF DaemonStep

(* The steps of a start.                                                   *)
LEMMA OnlyComes ==
  ASSUME BaseInv, Reach, Mends, NEW c \in Calls, Starts(c)
  PROVE  AllMild /\ UpToDate /\ ~ToCome /\ (Coming(c) \/ Stale)
<1>1. \A k \in Calls : Coming(k) => k = c
  <2>1. \A k \in Calls : Coming(k) => Starts(k)
    BY DEF Coming, Starts, Forward
  <2> QED
    BY <2>1, ManagesWhen DEF Reach, OneManages
<1> QED
  BY <1>1 DEF Mends, ToCome, Healed

LEMMA CleanMends ==
  ASSUME ShapeInv, Mends, NEW c \in Calls, CleanAndCheck(c)
  PROVE  Mends'
<1> USE ShapeOf
<1>1. /\ calls[c].todo = Start0 /\ stateFile' = Cleaned /\ UNCHANGED process
      /\ \/ Onward(c, Start1) /\ \A role \in Roles : Cleaned[role] = NoFile
         \/ Onward(c, AfterStart) /\ \E role \in Roles : Cleaned[role] # NoFile
  BY CleanDoes
<1>2. UNCHANGED <<config, infra, fingerprint>>
  BY DEF CleanAndCheck, OnlyFiles
<1>3. Looks
  BY <1>1, <1>2 DEF Looks
<1>4. CASE Onward(c, Start1)
  <2>1. AllMild'
    BY <1>4, MildAre, MildSteps DEF Mends, Forward
  <2>2. Coming(c)'
    BY <1>4 DEF Coming, Onward
  <2> QED
    BY <1>3, <2>1, <2>2, LooksKeep DEF Mends
<1>5. CASE Onward(c, AfterStart) /\ \E role \in Roles : Cleaned[role] # NoFile
  <2>1. AllMild'
    BY <1>5, MildAre, MildSteps DEF Mends
  <2>2. ~ToCome
    BY <1>5, CleanedTyped DEF ToCome, Cleared, Roles
  <2>3. ~Starts(c) /\ Calm(AfterStart)
    BY <1>1, CalmAre, PlainAre, ConstantTodos DEF Calm, Starts
  <2>4. \A k \in Calls : calls'[k] = calls[k] \/ (~Starts(k) /\ Calm(calls'[k].todo))
    BY <1>5, <2>3 DEF Onward
  <2> QED
    BY <1>1, <1>2, <1>3, <2>1, <2>2, <2>4, CleaningThins, LooksMend
<1> QED
  BY <1>1, <1>4, <1>5

LEMMA AwaitGatewayMends ==
  ASSUME ShapeInv, Reach, Mends, NEW c \in Calls, AwaitGateway(c)
  PROVE  Mends'
<1> USE ShapeOf
<1>1. PICK g \in Gateways :
        /\ Answering(g) /\ RefreshHealth(g)
        /\ \/ /\ Health(g) = "ready" /\ Onward(c, Start3)
              /\ calls'[c].handle = calls[c].handle
           \/ Health(g) # "ready" /\ UNCHANGED calls
  BY AwaitGatewayDoes
<1>2. calls[c].todo = Start2 /\ Starts(c)
  BY AwaitGatewayDoes DEF Starts, Forward
<1>3. UNCHANGED <<config, infra, fingerprint>>
  BY DEF AwaitGateway
<1>4. \A role \in Roles :
        \/ stateFile'[role] = stateFile[role]
        \/ role = "gateway" /\ stateFile'[role] = [pid |-> g, status |-> Health(g)]
  BY <1>1, RolesAre DEF RefreshHealth, Writes, FilesTyped
<1>5. Thins /\ FileMoves
  BY <1>1, <1>4, AnswerThins DEF RefreshHealth
<1>6. Looks
  BY <1>1, <1>3, <1>4 DEF Looks, RefreshHealth, Roles
<1>7. AllMild /\ UpToDate /\ ~ToCome /\ (Coming(c) \/ Stale)
  BY <1>2, OnlyComes
<1>8. CASE UNCHANGED calls
  BY <1>3, <1>5, <1>6, <1>7, <1>8, LooksMend DEF AllMild
<1>9. CASE /\ Health(g) = "ready" /\ Onward(c, Start3)
           /\ calls'[c].handle = calls[c].handle
  <2>1. /\ g \in Processes /\ Alive(g) /\ Phase(g) = "serving"
        /\ process[g].config = config
    BY <1>1, <1>7 DEF Answering, Phase, Alive, Processes, UpToDate
  <2>2. fingerprint["executor"] \in {0, config}
    BY <1>9, <2>1, PeersAre DEF Health, Drifts
  <2>3. Coming(c)
    BY <1>7, <2>2 DEF Stale
  <2>4. GatewayComes(calls[c].handle["gateway"])
    BY <1>2, <2>3, HeadsAre DEF Coming
  <2>5. calls[c].handle["gateway"] = g
    BY <1>2, <2>1, RolesAre DEF Reach, StartsHold
  <2>6. Agrees("gateway")
    BY <2>1, <2>4, <2>5 DEF GatewayComes
  <2>7. process'[g].phase = "serving" /\ process'[g].status = "ready"
    BY <1>1, <1>9, <2>1 DEF RefreshHealth, HostTyped, Phase
  <2>8. GatewayServes(g)'
    BY <1>3, <2>2, <2>6, <2>7 DEF GatewayServes, Phase, Agrees
  <2>9. Coming(c)'
    BY <1>9, <2>8 DEF Coming, Onward
  <2>10. AllMild'
    BY <1>7, <1>9, MildAre, MildSteps DEF Forward
  <2> QED
    BY <1>6, <1>7, <2>9, <2>10, LooksKeep DEF Mends
<1> QED
  BY <1>1, <1>8, <1>9

LEMMA AwaitExecutorMends ==
  ASSUME ShapeInv, Reach, Mends, infra = "up", NEW c \in Calls, AwaitExecutor(c)
  PROVE  Mends'
<1> USE ShapeOf
<1>1. /\ calls[c].todo = Start4 /\ UNCHANGED process /\ UNCHANGED stateFile
      /\ \/ stateFile["executor"].status = "ready" /\ Onward(c, AfterStart)
         \/ stateFile["executor"].status = "failed"
  BY AwaitExecutorDoes
<1>2. Starts(c)
  BY <1>1 DEF Starts, Forward
<1>3. AllMild /\ UpToDate /\ (Coming(c) \/ Stale)
  BY <1>2, OnlyComes
<1>4. /\ \E g \in Gateways : GatewayServes(g)
      /\ ExecutorComes(calls[c].handle["executor"])
  BY <1>1, <1>3, HeadsAre DEF Stale, Coming
<1>5. UNCHANGED <<config, infra, fingerprint>>
  BY DEF AwaitExecutor, Silent
<1>6. ExecutorServes(calls[c].handle["executor"])
  BY <1>1, <1>4 DEF ExecutorComes, NoFile
<1>7. Onward(c, AfterStart)
  BY <1>1, <1>6 DEF ExecutorServes
<1>8. Looks
  BY <1>1, <1>5, StillLooks
<1>9. Healed'
  <2>1. infra' = "up"
    BY <1>5
  <2>2. \A k \in Calls : ~Starts(k)'
    <3>1. AfterStart \notin Forward \cup Backward
      BY CalmAre, PlainAre, ConstantTodos DEF Calm
    <3>2. \A k \in Calls \ {c} : ~Starts(k)
      BY <1>2, ManagesWhen, AloneManages DEF Reach
    <3> QED
      BY <1>7, <3>1, <3>2 DEF Onward, Starts
  <2>3. \E g \in Gateways : GatewayServes(g)'
    BY <1>3, <1>4, <1>8, LooksKeep
  <2>4. \E e \in Executors : ExecutorServes(e)'
    <3>1. \E e \in Executors : ExecutorServes(e)
      BY <1>6 DEF ExecutorServes
    <3> QED
      BY <1>3, <1>8, <3>1, LooksKeep
  <2> QED
    BY <2>1, <2>2, <2>3, <2>4 DEF Healed
<1>10. AllMild'
  BY <1>3, <1>7, MildAre, MildSteps
<1> QED
  BY <1>3, <1>8, <1>9, <1>10, LooksKeep DEF Mends

LEMMA SpawnMends ==
  ASSUME ShapeInv, Reach, Mends, NEW c \in Calls, NEW role \in Roles, Spawn(c, role)
  PROVE  Mends'
<1> USE ShapeOf
<1>1. /\ \/ role = "gateway" /\ calls[c].todo = Start1 /\ Onward(c, Start2)
         \/ role = "executor" /\ calls[c].todo = Start3 /\ Onward(c, Start4)
      /\ UNCHANGED stateFile
  BY SpawnDoes
<1>2. PICK p \in Of(role) :
        /\ ~Alive(p)
        /\ process' = [process EXCEPT ![p] = [Nothing EXCEPT !.phase = "booting"]]
        /\ calls'[c].handle = [calls[c].handle EXCEPT ![role] = p]
  BY SpawnDoes
<1>3. UNCHANGED <<config, infra, fingerprint>>
  BY DEF Spawn, OnlyProcesses
<1>4. Starts(c)
  BY <1>1 DEF Starts, Forward
<1>5. AllMild /\ UpToDate /\ (Coming(c) \/ Stale)
  BY <1>4, OnlyComes
<1>6. p \in Processes
  BY RolesAre
<1>7. process'[p].phase = "booting" /\ \A q \in Processes \ {p} : process'[q] = process[q]
  BY <1>2, <1>6 DEF HostTyped, Nothing
<1>8. UpToDate'
  BY <1>3, <1>5, <1>7 DEF UpToDate, Alive, Phase
<1>9. calls'[c].handle[role] = p
  BY <1>2 DEF CallsTyped, CallsOf
<1>10. CASE role = "gateway" /\ Onward(c, Start2)
  <2>1. GatewayComes(p)'
    BY <1>7, <1>10 DEF GatewayComes, Phase, Of
  <2>2. Coming(c)'
    <3>1. GatewayComes(calls[c].handle["gateway"])'
      BY <1>9, <1>10, <2>1 DEF GatewayComes, Phase
    <3> QED
      BY <1>10, <3>1 DEF Coming, Onward
  <2>3. AllMild'
    BY <1>5, <1>10, MildAre, MildSteps DEF Forward
  <2> QED
    BY <1>8, <2>2, <2>3 DEF Mends
<1>11. CASE role = "executor" /\ calls[c].todo = Start3 /\ Onward(c, Start4)
  <2>1. PICK g \in Gateways : GatewayServes(g)
    BY <1>5, <1>11, HeadsAre DEF Stale, Coming
  <2>2. GatewayServes(g)'
    BY <1>2, <1>3, <1>7, <2>1 DEF GatewayServes, Phase, Agrees, Alive, Processes
  <2>3. stateFile'["executor"] = NoFile
    BY <1>1, <1>11 DEF Reach, StartsHold, Cleared
  <2>4. p \in Executors
    BY <1>11 DEF Of
  <2>5. ExecutorComes(calls[c].handle["executor"])'
    BY <1>7, <1>9, <1>11, <2>3, <2>4 DEF ExecutorComes, Phase
  <2>6. Coming(c)'
    BY <1>11, <2>2, <2>5 DEF Coming, Onward
  <2>7. AllMild'
    BY <1>5, <1>11, MildAre, MildSteps DEF Forward
  <2> QED
    BY <1>8, <2>6, <2>7 DEF Mends
<1> QED
  BY <1>1, <1>10, <1>11

(* A start that no fault ends fails only over a stale fingerprint.         *)
LEMMA TimeoutMends ==
  ASSUME ShapeInv, Reach, Mends, infra = "up", NEW c \in Calls, NEW role \in Roles,
         Timeout(c, role), faults' = faults
  PROVE  Mends'
<1> USE ShapeOf
<1>1. /\ \/ role = "gateway" /\ calls[c].todo = Start2
         \/ role = "executor" /\ calls[c].todo = Start4
      /\ Onward(c, Back0) /\ UNCHANGED process /\ UNCHANGED stateFile
  BY TimeoutDoes
<1>2. Starts(c) /\ infra = "up"
  BY <1>1 DEF Starts, Forward
<1>3. AllMild /\ UpToDate /\ (Coming(c) \/ Stale)
  BY <1>2, OnlyComes
<1>4. Settled(role)
  BY DEF Timeout, Fault, HostTyped
<1>5. UNCHANGED <<config, infra, fingerprint>>
  BY DEF Timeout
<1>6. ~(calls[c].todo = Start4)
  <2> SUFFICES ASSUME calls[c].todo = Start4
               PROVE  FALSE
    OBVIOUS
  <2>1. role = "executor" /\ ExecutorComes(calls[c].handle["executor"])
    BY <1>1, <1>3, HeadsAre DEF Stale, Coming
  <2>2. \A e \in Executors : ~ComingUp(e)
    BY <1>4, <2>1 DEF Settled, Of
  <2>3. stateFile["executor"].status # "ready"
    BY <1>4, <2>1 DEF Settled
  <2> QED
    BY <2>1, <2>2, <2>3 DEF ExecutorComes, ExecutorServes, ComingUp
<1>7. fingerprint["executor"] \notin {0, config}
  <2>1. CASE Stale
    BY <2>1 DEF Stale
  <2>2. CASE Coming(c)
    <3>1. role = "gateway" /\ GatewayComes(calls[c].handle["gateway"])
      BY <1>1, <1>6, <2>2, HeadsAre DEF Coming
    <3>2. PICK g \in Gateways : GatewayComes(g)
      BY <3>1 DEF GatewayComes
    <3>3. Phase(g) = "serving"
      BY <1>4, <3>1, <3>2 DEF Settled, Of, ComingUp, GatewayComes
    <3>4. Drifts(g)
      BY <1>2, <1>4, <3>1, <3>3 DEF Settled, Answering
    <3>5. process[g].config = config
      BY <1>3, <3>3 DEF UpToDate, Alive, Phase, Processes
    <3> QED
      BY <3>4, <3>5, PeersAre DEF Drifts
  <2> QED
    BY <1>3, <2>1, <2>2
<1>8. Stale'
  <2>1. Dead("executor")
    BY <1>1, <1>6 DEF Reach, StartsHold, Cleared
  <2>2. Dead("executor")'
    BY <1>1, <2>1 DEF Dead, Alive
  <2>3. \A k \in Calls : calls'[k].todo \notin {Start3, Start4}
    <3>1. Back0 \notin {Start3, Start4}
      BY HeadsAre
    <3>2. \A k \in Calls \ {c} : ~Starts(k)
      BY <1>2, ManagesWhen, AloneManages DEF Reach
    <3> QED
      BY <1>1, <3>1, <3>2 DEF Onward, Starts, Forward
  <2> QED
    BY <1>5, <1>7, <2>2, <2>3 DEF Stale
<1>9. AllMild'
  BY <1>1, <1>3, MildAre, MildSteps DEF Backward
<1>10. UpToDate'
  BY <1>1, <1>3, <1>5 DEF UpToDate, Alive, Phase
<1> QED
  BY <1>8, <1>9, <1>10 DEF Mends

(* So does only a rollback of such a start.                                *)
LEMMA RollbackMends ==
  ASSUME ShapeInv, Reach, Mends, NEW c \in Calls, NEW role \in Roles,
         KillSpawned(c, role) \/ ReapSpawned(c, role)
  PROVE  Mends'
<1> USE ShapeOf
<1>1. calls[c].todo \in Backward
  BY KillDoes, ReapDoes DEF Backward
<1>2. Starts(c)
  BY <1>1 DEF Starts
<1>3. AllMild /\ UpToDate /\ Stale
  <2>1. calls[c].todo \notin Forward
    BY <1>1, HeadsAre DEF Forward, Backward
  <2> QED
    BY <1>2, <2>1, OnlyComes DEF Coming, Forward
<1>4. UNCHANGED <<config, infra, fingerprint>>
  BY DEF KillSpawned, ReapSpawned, OnlyFiles, OnlyProcesses
<1>5. PICK todo \in Backward \cup {AfterStart} : Onward(c, todo)
  BY KillDoes, ReapDoes DEF Backward
<1>6. AllMild'
  BY <1>3, <1>5, MildAre, MildSteps
<1>7. \A q \in Processes :
        \/ process'[q] = process[q]
        \/ process'[q].phase = "none"
        \/ /\ process[q].phase \in {"serving", "stopping"}
           /\ process'[q] = [process[q] EXCEPT !.phase = "stopping"]
  <2>1. CASE KillSpawned(c, role)
    BY <2>1, KillDoes, TerminateDoes
  <2>2. CASE ReapSpawned(c, role)
    BY <2>2, ReapDoes
  <2> QED
    BY <2>1, <2>2
<1>8. UpToDate'
  <2> SUFFICES ASSUME NEW q \in Processes, Alive(q)', Phase(q)' # "booting"
               PROVE  process'[q].config = config
    BY <1>4 DEF UpToDate
  <2>1. process'[q].config = process[q].config
    BY <1>7 DEF HostTyped, Alive
  <2>2. Alive(q) /\ Phase(q) # "booting"
    BY <1>7 DEF Alive, Phase
  <2> QED
    BY <1>3, <2>1, <2>2 DEF UpToDate
<1>9. Dead("executor")'
  <2>1. Dead("executor")
    BY <1>3 DEF Stale
  <2> QED
    BY <1>7, <2>1, RolesAre DEF Dead, Alive
<1>10. \A k \in Calls : calls'[k].todo \notin {Start3, Start4}
  <2>1. todo \notin {Start3, Start4}
    <3>1. AfterStart \notin Forward
      BY CalmAre, PlainAre, ConstantTodos DEF Calm
    <3> QED
      BY <1>5, <3>1, HeadsAre DEF Backward, Forward
  <2> QED
    BY <1>3, <1>5, <2>1 DEF Stale, Onward
<1>11. Stale'
  BY <1>3, <1>4, <1>9, <1>10 DEF Stale
<1> QED
  BY <1>6, <1>8, <1>11 DEF Mends

(* Nothing stops what a restart has brought up.                            *)
LEMMA MildNeverStops ==
  ASSUME ShapeInv, AllMild, NEW c \in Calls, NEW role \in Roles
  PROVE  ~SignalRecorded(c, role) /\ ~ForgetRecorded(c, role)
<1>1. ASSUME NEW verb \in {"signal", "gone"}, At(c, verb, role)
      PROVE  FALSE
  <2>1. calls[c].todo \in Todos /\ calls[c].todo # <<>>
    BY <1>1, ShapeOf, OpensTyped, AtOpens
  <2>2. Head(calls[c].todo)[1] \notin {"signal", "gone"}
    BY <2>1, MildAre DEF AllMild
  <2> QED
    BY <1>1, <2>2 DEF At
<1> QED
  BY <1>1 DEF SignalRecorded, ForgetRecorded

(* The steps of the processes.                                             *)
LEMMA ProcessKeeps ==
  ASSUME BaseInv, NEW p \in Processes, ProcessStep(p)
  PROVE  /\ Alive(p) /\ Phase(p) = "stopping" => Leaves(p)
         /\ Alive(p)
         /\ UNCHANGED config /\ UNCHANGED infra
         /\ \A q \in Processes \ {p} : process'[q] = process[q]
         /\ \A role \in Roles : \/ fingerprint'[role] = fingerprint[role]
                                \/ role = RoleOf(p) /\ fingerprint'[role] = config
         /\ process'[p].phase \notin {"none", "booting"} =>
              process'[p].config = config \/ process'[p].config = process[p].config
         /\ Phase(p) = "booting" =>
              \/ process'[p].phase = "none"
              \/ process'[p].phase \notin {"none", "booting"} /\ process'[p].config = config
<1> USE DEF BaseInv, HostTyped
<1>1. CASE p \in Gateways /\ GatewayConnects(p)
  BY <1>1, RolesAre DEF GatewayConnects, Publish, Alive, Phase
<1>2. CASE p \in Gateways /\ GatewayListens(p)
  BY <1>2 DEF GatewayListens, Becomes, Alive, Phase
<1>3. CASE p \in Gateways /\ GatewayGivesUp(p)
  BY <1>3 DEF GatewayGivesUp, Dies, Nothing, Alive, Phase
<1>4. CASE p \in Executors /\ ExecutorPublishes(p)
  BY <1>4, RolesAre DEF ExecutorPublishes, Publish, Alive, Phase
<1>5. CASE p \in Executors /\ (ExecutorReports(p) \/ ExecutorTicks(p))
  BY <1>5 DEF ExecutorReports, ExecutorTicks, Evaluate, Becomes, Alive, Phase
<1>6. CASE p \in Executors /\ ExecutorGivesUp(p)
  BY <1>6 DEF ExecutorGivesUp, Dies, Nothing, Alive, Phase
<1>7. CASE Leaves(p)
  BY <1>7 DEF Leaves, Dies, Nothing, Alive, Phase
<1> QED
  BY <1>1, <1>2, <1>3, <1>4, <1>5, <1>6, <1>7 DEF ProcessStep

LEMMA ServingRests ==
  ASSUME NEW g, GatewayServes(g)
  PROVE  ~ProcessStep(g)
BY ProcessAssumption DEF GatewayServes, ProcessStep, GatewayConnects, GatewayListens,
                         GatewayGivesUp, Leaves

(* An executor that comes up behind a gateway that serves becomes ready.   *)
LEMMA ExecutorGoes ==
  ASSUME BaseInv, UpToDate, infra = "up", faults' = faults, NEW g, GatewayServes(g),
         NEW e \in Executors, ExecutorComes(e), ProcessStep(e)
  PROVE  /\ ExecutorComes(e)' /\ GatewayServes(g)'
         /\ ExecutorServes(e) => ExecutorServes(e)'
<1> USE DEF BaseInv
<1>0. e \in Processes /\ e \notin Gateways /\ g \in Processes /\ g # e /\ RoleOf(e) = "executor"
  BY ProcessAssumption, RolesAre DEF Processes, GatewayServes
<1>1. GatewayServes(g)'
  BY <1>0, ProcessKeeps, RolesAre DEF GatewayServes, Phase, Agrees
<1>2. Phase(e) # "stopping"
  BY DEF ExecutorComes, ExecutorServes
<1>3. CASE ExecutorPublishes(e)
  <2>1. Phase(e) = "booting" /\ stateFile["executor"] = NoFile
    BY <1>3 DEF ExecutorPublishes, ExecutorComes, ExecutorServes
  <2>2. process'[e].phase = "published" /\ fingerprint'["executor"] = config
    BY <1>0, <1>3 DEF ExecutorPublishes, Publish, HostTyped, Roles
  <2> QED
    BY <1>1, <1>3, <2>1, <2>2 DEF ExecutorPublishes, ExecutorComes, ExecutorServes, Phase, Agrees
<1>4. CASE ExecutorReports(e) \/ ExecutorTicks(e)
  <2>1. process[e].config = config
    BY <1>0, <1>4 DEF ExecutorReports, ExecutorTicks, UpToDate, Alive, Phase
  <2>2. ~Drifts(e)
    BY <2>1, PeersAre DEF Drifts, GatewayServes, Agrees
  <2>3. ~Fault
    BY DEF Fault, HostTyped
  <2>4. Becomes(e, "serving", "ready") /\ Writes(e, "ready") /\ UNCHANGED <<config, fingerprint>>
    BY <1>4, <2>2, <2>3 DEF ExecutorReports, ExecutorTicks, Evaluate
  <2>5. process'[e].phase = "serving" /\ process'[e].status = "ready"
    BY <1>0, <2>4 DEF Becomes, HostTyped
  <2>6. stateFile'["executor"] = [pid |-> e, status |-> "ready"]
    BY <1>0, <2>4, WritesDoes
  <2>7. Agrees("executor")
    BY <1>4 DEF ExecutorReports, ExecutorTicks, ExecutorComes, ExecutorServes
  <2>8. ExecutorServes(e)'
    BY <2>4, <2>5, <2>6, <2>7 DEF ExecutorServes, Phase, Agrees
  <2> QED
    BY <1>1, <2>8 DEF ExecutorComes
<1> QED
  BY <1>0, <1>2, <1>3, <1>4 DEF ProcessStep, ExecutorGivesUp, Leaves

LEMMA GatewayGoes ==
  ASSUME BaseInv, infra = "up", NEW g \in Gateways, GatewayComes(g), ProcessStep(g),
         \A q \in Gateways : Alive(q) => q = g
  PROVE  GatewayComes(g)'
<1> USE DEF BaseInv
<1>0. g \in Processes /\ g \notin Executors /\ RoleOf(g) = "gateway"
  BY ProcessAssumption, RolesAre DEF Processes
<1>1. Phase(g) # "stopping"
  BY DEF GatewayComes
<1>2. CASE GatewayConnects(g)
  <2>1. process'[g].phase = "published" /\ fingerprint'["gateway"] = config
    BY <1>0, <1>2 DEF GatewayConnects, Publish, HostTyped, Roles
  <2> QED
    BY <1>2, <2>1 DEF GatewayConnects, GatewayComes, Phase, Agrees
<1>3. CASE GatewayListens(g)
  <2>1. process'[g].phase = "serving"
    BY <1>0, <1>3 DEF GatewayListens, Becomes, HostTyped
  <2>2. Agrees("gateway")
    BY <1>3 DEF GatewayListens, GatewayComes
  <2> QED
    BY <1>3, <2>1, <2>2 DEF GatewayListens, GatewayComes, Phase, Agrees
<1>4. ~GatewayGivesUp(g)
  BY DEF GatewayGivesUp, PortTaken, HoldsPort, Alive, Phase, Processes
<1> QED
  BY <1>0, <1>1, <1>2, <1>3, <1>4 DEF ProcessStep, Leaves

LEMMA ProcessMends ==
  ASSUME BaseInv, Reach, Mends, infra = "up", faults' = faults,
         NEW p \in Processes, ProcessStep(p), UNCHANGED calls
  PROVE  Mends'
<1>1. Thins /\ FileMoves /\ Alive(p)
  BY ProcessThins, ProcessKeeps
<1>2. AllMild'
  BY DEF Mends, AllMild
<1>3. UpToDate'
  <2> SUFFICES ASSUME NEW q \in Processes, Alive(q)', Phase(q)' # "booting"
               PROVE  process'[q].config = config'
    BY DEF UpToDate
  <2>1. UNCHANGED config /\ UpToDate
    BY ProcessKeeps DEF Mends
  <2>2. CASE q # p
    BY <2>1, <2>2, ProcessKeeps DEF UpToDate, Alive, Phase
  <2>3. CASE q = p /\ Phase(p) = "booting"
    BY <2>1, <2>3, ProcessKeeps DEF Alive, Phase
  <2>4. CASE q = p /\ Phase(p) # "booting"
    BY <1>1, <2>1, <2>4, ProcessKeeps DEF UpToDate, Alive, Phase
  <2> QED
    BY <2>2, <2>3, <2>4
<1>4. UpToDate /\ (p \in Gateways \/ p \in Executors)
  BY DEF Mends, Processes
<1>5. ~ToCome
  BY <1>1, RolesAre DEF ToCome, Cleared, Dead
<1>6. ASSUME NEW c \in Calls, Coming(c)
      PROVE  Coming(c)'
  <2>1. Starts(c) /\ infra = "up" /\ StartsHold(c)
    BY <1>6 DEF Coming, Starts, Forward, Reach
  <2>2. \A q \in Processes : Alive(q) => calls[c].handle[RoleOf(q)] = q
    BY <2>1 DEF StartsHold
  <2>3. \A q \in Processes : Alive(q) /\ RoleOf(q) = RoleOf(p) => q = p
    BY <1>1, <2>2
  <2>4. Dead("executor") => p \in Gateways
    BY <1>1, <1>4, RolesAre DEF Dead
  <2>5. calls[c].todo # Start1
    <3>1. calls[c].todo = Start1 => Dead("gateway") /\ Dead("executor")
      BY <2>1 DEF StartsHold, Cleared
    <3> QED
      BY <1>1, <3>1, RolesAre DEF Dead
  <2>6. CASE calls[c].todo = Start2 /\ GatewayComes(calls[c].handle["gateway"])
    <3>1. p \in Gateways
      BY <2>1, <2>4, <2>6 DEF StartsHold, Cleared
    <3>2. calls[c].handle["gateway"] = p
      BY <1>1, <2>2, <3>1, RolesAre
    <3>3. \A q \in Gateways : Alive(q) => q = p
      BY <2>3, <3>1, RolesAre DEF Processes
    <3>4. GatewayComes(p)'
      BY <2>1, <2>6, <3>1, <3>2, <3>3, GatewayGoes
    <3>5. GatewayComes(calls[c].handle["gateway"])'
      BY <3>2, <3>4 DEF GatewayComes, Phase
    <3> QED
      BY <2>6, <3>5 DEF Coming
  <2>7. ASSUME NEW g \in Gateways, GatewayServes(g)
        PROVE  p \in Executors
    <3>1. Alive(g)
      BY <2>7 DEF GatewayServes, Alive, Phase, Processes
    <3>2. p \in Gateways => p = g
      BY <2>3, <3>1, RolesAre DEF Processes
    <3> QED
      BY <1>4, <2>7, <3>2, ServingRests
  <2>8. CASE calls[c].todo = Start3 /\ \E g \in Gateways : GatewayServes(g)
    <3>1. Dead("executor")
      BY <2>1, <2>8 DEF StartsHold, Cleared
    <3> QED
      BY <2>4, <2>7, <2>8, <3>1, ProcessAssumption
  <2>9. CASE /\ calls[c].todo = Start4 /\ \E g \in Gateways : GatewayServes(g)
             /\ ExecutorComes(calls[c].handle["executor"])
    <3>1. PICK g \in Gateways : GatewayServes(g)
      BY <2>9
    <3>2. p \in Executors
      BY <2>7, <3>1
    <3>3. calls[c].handle["executor"] = p
      BY <1>1, <2>2, <3>2, RolesAre
    <3>4. ExecutorComes(p)' /\ GatewayServes(g)'
      BY <1>4, <2>1, <2>9, <3>1, <3>2, <3>3, ExecutorGoes
    <3>5. ExecutorComes(calls[c].handle["executor"])'
      BY <3>3, <3>4 DEF ExecutorComes, ExecutorServes, Phase
    <3> QED
      BY <2>9, <3>4, <3>5 DEF Coming
  <2> QED
    BY <1>6, <2>5, <2>6, <2>8, <2>9 DEF Coming
<1>7. ASSUME Healed
      PROVE  Healed'
  <2>1. PICK g \in Gateways : GatewayServes(g)
    BY <1>7 DEF Healed
  <2>2. PICK e \in Executors : ExecutorServes(e)
    BY <1>7 DEF Healed
  <2>3. Alive(g) /\ Alive(e) /\ g \in Processes /\ e \in Processes
    BY <2>1, <2>2 DEF GatewayServes, ExecutorServes, Alive, Phase, Processes
  <2>4. p \in Executors
    <3>1. p \in Gateways => p = g
      BY <1>1, <2>3, Single, RolesAre
    <3> QED
      BY <1>4, <2>1, <3>1, ServingRests
  <2>5. p = e
    BY <1>1, <2>3, <2>4, Single, RolesAre
  <2>6. ExecutorServes(e)' /\ GatewayServes(g)'
    BY <1>4, <1>7, <2>1, <2>2, <2>4, <2>5, ExecutorGoes DEF Healed, ExecutorComes
  <2>7. infra' = "up"
    BY <1>7, ProcessKeeps DEF Healed
  <2>8. \A c \in Calls : ~Starts(c)'
    BY <1>7 DEF Healed, Starts
  <2> QED
    BY <2>6, <2>7, <2>8 DEF Healed
<1>8. ASSUME Stale
      PROVE  Stale'
  <2>1. p \in Gateways
    BY <1>1, <1>4, <1>8, RolesAre DEF Stale, Dead
  <2>2. fingerprint'["executor"] = fingerprint["executor"] /\ UNCHANGED config
    BY <2>1, ProcessKeeps, RolesAre
  <2>3. Dead("executor")'
    BY <1>1, <1>8, ClearedStays DEF Stale, Roles
  <2> QED
    BY <1>8, <2>2, <2>3 DEF Stale
<1> QED
  BY <1>2, <1>3, <1>5, <1>6, <1>7, <1>8 DEF Mends

---------------------------------------------------------------------------
(* A restart that is still stopping what runs.                             *)

LEMMA StoppingManages ==
  ASSUME BaseInv, NEW c \in Calls, Stopping(c)
  PROVE  Managing(c) /\ ~Starts(c) /\ Open(c)
<1>1. calls[c].todo \in {Down0, Down1, Down2, Down3}
  BY DEF Stopping
<1>2. Open(c) /\ \E verb \in {"signal", "gone"} : \E role \in Roles : At(c, verb, role)
  BY <1>1, DownsAre DEF At, Open, Roles
<1>3. Managing(c)
  BY <1>2, ManagesWhen DEF Verbs, Reporting
<1>4. ~Starts(c)
  BY <1>2, HeadsAre DEF At, Starts, Forward, Backward
<1> QED
  BY <1>2, <1>3, <1>4

LEMMA StoppingStays ==
  ASSUME NEW c \in Calls, Stopping(c), calls'[c] = calls[c], Thins, FileMoves
  PROVE  Stopping(c)'
BY ClearedStays DEF Stopping, Restarts, Roles

(* The last stage of its stop leaves nothing, and the start to come.       *)
LEMMA StoppedMends ==
  ASSUME BaseInv, Reach, NEW c \in Calls, Stopping(c), Onward(c, Down4),
         Cleared("gateway")', Cleared("executor")'
  PROVE  Mends'
<1>1. \A k \in Calls \ {c} : ~Managing(k) /\ ~Starts(k)
  BY StoppingManages, AloneManages DEF Reach
<1>2. calls'[c].todo = Down4 /\ Restarts(c)'
  BY DownsAre DEF Stopping, Restarts, Onward
<1>3. AllMild'
  <2>1. \A k \in Calls \ {c} : Mild(calls'[k].todo)
    BY <1>1, ReportsMild DEF Onward
  <2> QED
    BY <1>2, <2>1, MildAre DEF AllMild
<1>4. UpToDate'
  BY RolesAre DEF UpToDate, Cleared, Dead
<1>5. \A k \in Calls : ~Starts(k)'
  <2>1. Down4 \notin Forward \cup Backward
    BY DownsAre, HeadsAre DEF Forward, Backward
  <2> QED
    BY <1>1, <1>2, <2>1 DEF Onward, Starts
<1>6. Pending'
  BY <1>2 DEF Pending
<1> QED
  BY <1>3, <1>4, <1>5, <1>6 DEF Mends, ToCome

LEMMA SignalHeals ==
  ASSUME ShapeInv, Reach, NEW c \in Calls, Stopping(c), NEW role \in Roles,
         SignalRecorded(c, role)
  PROVE  Stopping(c)' \/ Mends'
<1> USE ShapeOf
<1>1. /\ \/ /\ Alive(Recorded(role)) /\ Terminate(Recorded(role)) /\ UNCHANGED stateFile
            /\ Onward(c, << <<"gone", role>> >> \o Rest(c))
         \/ /\ ~Alive(Recorded(role)) /\ Clears(role) /\ UNCHANGED process
            /\ Onward(c, Rest(c))
      /\ Rest(c) \in Todos /\ Plain(Rest(c))
  BY SignalDoes
<1>2. Thins /\ FileMoves
  BY <1>1, TerminateThins, DropsThin DEF Recorded
<1>3. \/ role = "executor" /\ calls[c].todo = Down0 /\ Rest(c) = Down2
      \/ role = "gateway" /\ calls[c].todo = Down2 /\ Rest(c) = Down4 /\ Cleared("executor")
  <2>1. Head(calls[c].todo) = <<"signal", role>>
    BY DEF SignalRecorded, At
  <2>2. CASE calls[c].todo = Down0
    BY <2>1, <2>2, DownsAre DEF Rest
  <2>3. CASE calls[c].todo = Down2 /\ Cleared("executor")
    BY <2>1, <2>3, DownsAre DEF Rest
  <2>4. calls[c].todo \notin {Down1, Down3}
    BY <2>1, DownsAre
  <2> QED
    BY <2>2, <2>3, <2>4 DEF Stopping
<1>4. ~Alive(Recorded(role)) /\ Clears(role) => Cleared(role)'
  <2> HAVE ~Alive(Recorded(role)) /\ Clears(role)
  <2>1. Dead(role)
    BY StoppingManages, AllNamed, RolesAre DEF Dead
  <2> QED
    BY <1>2, <2>1, ClearedStays, ClearsDoes DEF Cleared
<1>5. Restarts(c) /\ (calls'[c].todo # <<>> => Restarts(c)')
  BY <1>1 DEF Stopping, Restarts, Onward
<1>6. CASE role = "executor" /\ calls[c].todo = Down0 /\ Rest(c) = Down2
  <2>1. calls'[c].todo = Down1 \/ (calls'[c].todo = Down2 /\ Cleared("executor")')
    BY <1>1, <1>4, <1>6 DEF Onward, Down1
  <2> QED
    BY <1>5, <2>1, DownsAre DEF Stopping
<1>7. CASE /\ role = "gateway" /\ calls[c].todo = Down2 /\ Rest(c) = Down4
           /\ Cleared("executor")
  <2>1. Cleared("executor")'
    BY <1>2, <1>7, ClearedStays DEF Roles
  <2>2. \/ calls'[c].todo = Down3
        \/ Onward(c, Down4) /\ Cleared("gateway")'
    BY <1>1, <1>4, <1>7 DEF Onward, Down3
  <2> QED
    BY <1>5, <2>1, <2>2, DownsAre, StoppedMends DEF Stopping
<1> QED
  BY <1>3, <1>6, <1>7

LEMMA ForgetHeals ==
  ASSUME ShapeInv, Reach, NEW c \in Calls, Stopping(c), NEW role \in Roles,
         ForgetRecorded(c, role)
  PROVE  Stopping(c)' \/ Mends'
<1>1. Onward(c, Rest(c)) /\ Thins /\ FileMoves /\ Cleared(role)'
  BY ForgetKeeps
<1>2. \/ role = "executor" /\ Rest(c) = Down2
      \/ role = "gateway" /\ Rest(c) = Down4 /\ Cleared("executor")
  BY DownsAre DEF ForgetRecorded, At, Stopping, Rest
<1>3. CASE role = "executor" /\ Rest(c) = Down2
  BY <1>1, <1>3, DownsAre DEF Stopping, Restarts, Onward
<1>4. CASE role = "gateway" /\ Rest(c) = Down4 /\ Cleared("executor")
  <2>1. Cleared("executor")'
    BY <1>1, <1>4, ClearedStays DEF Roles
  <2> QED
    BY <1>1, <1>4, <2>1, ShapeOf, StoppedMends
<1> QED
  BY <1>2, <1>3, <1>4

(* What others do meanwhile is not a start: that would be a second call at *)
(* work.                                                                   *)
LEMMA HandlerHeals ==
  ASSUME OwnedInv, Reach, ~CutShort, NEW c \in Calls, Stopping(c),
         NEW k \in Calls, HandlerStep(k)
  PROVE  Stopping(c)' \/ Mends'
<1>0. ShapeInv /\ BaseInv
  BY DEF OwnedInv, ShapeInv
<1>1. Managing(c) /\ Open(c)
  BY <1>0, StoppingManages
<1>2. \E role \in Roles : \/ Head(calls[c].todo) = <<"signal", role>>
                          \/ Head(calls[c].todo) = <<"gone", role>>
  BY DownsAre DEF Stopping, Roles
<1>3. CASE ManagerStep(k)
  <2>1. Managing(k)
    BY <1>0, <1>3, ManagesWhen
       DEF ManagerStep, CleanAndCheck, AwaitGateway, AwaitExecutor, Spawn, Timeout, KillSpawned,
           ReapSpawned, SignalRecorded, ForgetRecorded, Verbs, Reporting
  <2>2. k = c
    BY <1>1, <2>1 DEF Reach, OneManages
  <2>3. /\ \A role : ~At(c, "clean", role) /\ ~At(c, "await", role) /\ ~At(c, "spawn", role)
        /\ \A role : ~At(c, "kill", role) /\ ~At(c, "reap", role)
    BY <1>2 DEF At
  <2>4. PICK role \in Roles : SignalRecorded(c, role) \/ ForgetRecorded(c, role)
    <3>1. ManagerStep(c)
      BY <1>3, <2>2
    <3> QED
      BY <2>3, <3>1
         DEF ManagerStep, CleanAndCheck, AwaitGateway, AwaitExecutor, Spawn, Timeout, KillSpawned,
             ReapSpawned
  <2> QED
    BY <1>0, <2>4, SignalHeals, ForgetHeals
<1>4. CASE \/ InfraUp(k) \/ InfraDown(k) \/ InfraProbe(k)
           \/ WriteReady(k) \/ RefreshStatus(k) \/ Reply(k)
  <2>1. k # c
    BY <1>2, <1>4 DEF InfraUp, InfraDown, InfraProbe, WriteReady, RefreshStatus, Reply, At
  <2>2. calls'[c] = calls[c] /\ Thins /\ FileMoves
    BY <1>0, <1>4, <2>1, ReportKeeps DEF Onward
  <2> QED
    BY <2>2, StoppingStays
<1>5. CASE Close(k)
  <2>1. calls[k].daemon \in Daemons
    BY <1>5 DEF Close, At, OwnedInv, Owned
  <2>2. calls'[c] = calls[c]
    BY <1>0, <1>1, <1>5, <2>1, EndKeeps DEF Close
  <2> QED
    BY <1>5, <2>2, StillThins, StoppingStays DEF Close, Silent
<1> QED
  BY <1>3, <1>4, <1>5 DEF HandlerStep

LEMMA StoppingHeals ==
  ASSUME OwnedInv, BaseInv', Reach, OneManages', ~CutShort, NEW c \in Calls, Stopping(c),
         RuntimeStep \/ Daemon
  PROVE  Stopping(c)' \/ Mends'
<1>0. ShapeInv /\ BaseInv /\ CallsTyped
  BY DEF OwnedInv, ShapeInv, BaseInv
<1>1. CASE RuntimeStep
  BY <1>0, <1>1, ProcessThins, StillThins, StoppingStays DEF RuntimeStep, InfraAccepts
<1>2. ASSUME NEW d \in Daemons, DaemonStep(d)
      PROVE  Stopping(c)'
  <2>1. CASE RemoveSocket(d) \/ AddressInUse(d)
    BY <2>1, StillThins, StoppingStays DEF RemoveSocket, AddressInUse, managerVars, processVars
  <2>2. ~Listen(d)
    <3> SUFFICES ASSUME Listen(d)
                 PROVE  FALSE
      OBVIOUS
    <3>1. PICK k \in Calls : /\ ~Open(k) /\ calls'[k].todo = Boot0
                             /\ \A j \in Calls \ {k} : calls'[j] = calls[j]
      BY <1>0, OpenCallDoes, JoinsAre, ConstantTodos DEF Listen, Askers
    <3>2. k # c /\ calls'[c] = calls[c] /\ Managing(c)
      BY <1>0, <3>1, StoppingManages
    <3>3. Managing(c)' /\ Managing(k)'
      BY <3>1, <3>2 DEF Managing, Boot0, Reporting
    <3> QED
      BY <3>2, <3>3 DEF OneManages
  <2> QED
    BY <1>2, <2>1, <2>2 DEF DaemonStep
<1>3. CASE Daemon
  BY <1>2, <1>3, HandlerHeals DEF Daemon
<1> QED
  BY <1>1, <1>3

LEMMA HandlerMends ==
  ASSUME OwnedInv, Reach, Mends, infra = "up", ~CutShort, faults' = faults,
         NEW c \in Calls, HandlerStep(c)
  PROVE  Mends'
<1>0. ShapeInv
  BY DEF OwnedInv
<1>1. CASE ManagerStep(c)
  <2>1. AllMild
    BY DEF Mends
  <2>2. \A role \in Roles : ~SignalRecorded(c, role) /\ ~ForgetRecorded(c, role)
    BY <1>0, <2>1, MildNeverStops
  <2> QED
    BY <1>0, <1>1, <2>2, CleanMends, AwaitGatewayMends, AwaitExecutorMends, SpawnMends,
       TimeoutMends, RollbackMends DEF ManagerStep
<1>2. CASE \/ InfraUp(c) \/ InfraDown(c) \/ InfraProbe(c)
           \/ WriteReady(c) \/ RefreshStatus(c) \/ Reply(c)
  BY <1>2, ReportMends
<1>3. CASE Close(c)
  BY <1>3, CloseMends
<1> QED
  BY <1>1, <1>2, <1>3 DEF HandlerStep

(* A command that leaves a restart to be through has just begun it.        *)
LEMMA CommandHeals ==
  ASSUME BaseInv, Command, restarted', warm'
  PROVE  infra' = "up" /\ \E c \in Calls : Stopping(c)'
<1>1. PICK d \in Daemons : Accept(d, "daemon_stop", "restart")
  BY DEF Command, DaemonStart, DaemonStop, DaemonRestart, AskDaemon, Configure, Request
<1>2. OpenCall(d, Down0, "restart")
  BY <1>1, DownsAre DEF Accept
<1>3. PICK c \in Calls : calls'[c].todo = Down0 /\ calls'[c].asker = "restart"
  BY <1>2, DownsAre, OpenCallDoes DEF BaseInv, Askers
<1>4. infra' = "up"
  BY <1>1 DEF Command, Accept, processVars
<1> QED
  BY <1>3, <1>4 DEF Stopping, Restarts

(* Nothing that such a restart leaves to be done takes the infrastructure  *)
(* down.                                                                   *)
LEMMA StaysUp ==
  ASSUME OwnedInv, Reach, infra = "up", faults' = faults, RuntimeStep \/ Daemon,
         (\E c \in Calls : Stopping(c)) \/ Mends
  PROVE  infra' = "up"
<1>0. ShapeInv /\ BaseInv
  BY DEF OwnedInv, ShapeInv
<1>1. CASE RuntimeStep
  BY <1>0, <1>1, ProcessKeeps DEF RuntimeStep, InfraAccepts
<1>2. ASSUME NEW k \in Calls, InfraDown(k)
      PROVE  FALSE
  <2>1. Open(k) /\ Head(calls[k].todo) = <<"down", "both">>
    BY <1>2 DEF InfraDown, At
  <2>2. CASE Mends
    <3>1. calls[k].todo \in Todos /\ Mild(calls[k].todo)
      BY <1>0, <2>1, <2>2, OpensTyped DEF Mends, AllMild, BaseInv
    <3> QED
      BY <2>1, <3>1, MildAre DEF Open
  <2>3. ASSUME NEW c \in Calls, Stopping(c)
        PROVE  FALSE
    <3>1. Managing(k) /\ Managing(c)
      BY <1>0, <1>2, <2>3, StoppingManages, ManagesWhen DEF InfraDown, Verbs, Reporting
    <3>2. k = c
      BY <3>1 DEF Reach, OneManages
    <3> QED
      BY <2>1, <2>3, <3>2, DownsAre DEF Stopping
  <2> QED
    BY <2>2, <2>3
<1>3. ASSUME NEW k \in Calls, HandlerStep(k)
      PROVE  infra' = "up"
  <2>1. CASE ManagerStep(k)
    BY <2>1 DEF ManagerStep, CleanAndCheck, AwaitGateway, AwaitExecutor, Spawn, Timeout,
                KillSpawned, ReapSpawned, SignalRecorded, ForgetRecorded, OnlyFiles,
                OnlyProcesses, Silent
  <2>2. CASE InfraUp(k)
    BY <2>2 DEF InfraUp
  <2>3. CASE InfraProbe(k) \/ WriteReady(k) \/ RefreshStatus(k) \/ Reply(k) \/ Close(k)
    BY <2>3 DEF InfraProbe, WriteReady, RefreshStatus, Reply, Close, Silent
  <2> QED
    BY <1>2, <1>3, <2>1, <2>2, <2>3 DEF HandlerStep
<1>4. ASSUME NEW d \in Daemons, DaemonStep(d)
      PROVE  infra' = "up"
  BY <1>4 DEF DaemonStep, RemoveSocket, Listen, AddressInUse, managerVars, processVars
<1> QED
  BY <1>1, <1>3, <1>4 DEF Daemon

LEMMA NextHeal ==
  ASSUME HealInv, Next
  PROVE  HealInv'
<1>0. ReachInv /\ ReachInv' /\ OwnedInv /\ BaseInv /\ BaseInv'
  BY NextReach DEF HealInv, ReachInv, OwnedInv, ShapeInv
<1>1. ~cut' => Reach /\ OneManages' /\ ~CutShort /\ ~cut
  BY <1>0 DEF Next, NotesCut, ReachInv, Overlap, OneManages
<1>2. ASSUME restarted', warm', ~cut'
      PROVE  infra' = "up" /\ ((\E c \in Calls : Stopping(c)') \/ Mends')
  <2>1. CASE Command
    BY <1>0, <1>2, <2>1, CommandHeals
  <2>2. CASE /\ RuntimeStep \/ ProcessCrash \/ DaemonCrash \/ Daemon
             /\ restarted' = (restarted /\ faults' = faults)
             /\ UNCHANGED warm
    <3>1. restarted /\ faults' = faults
      BY <1>2, <2>2
    <3>2. infra = "up" /\ ((\E c \in Calls : Stopping(c)) \/ Mends)
      BY <1>1, <1>2, <2>2, <3>1 DEF HealInv
    <3>3. ~Fault
      BY <1>0, <3>1 DEF Fault, BaseInv, HostTyped
    <3>4. RuntimeStep \/ Daemon
      BY <2>2, <3>3 DEF ProcessCrash, Crashes, DaemonCrash, DaemonCrashes
    <3>5. infra' = "up"
      BY <1>0, <1>1, <1>2, <3>1, <3>2, <3>4, StaysUp
    <3>6. CASE \E c \in Calls : Stopping(c)
      BY <1>0, <1>1, <1>2, <3>4, <3>5, <3>6, StoppingHeals
    <3>7. CASE Mends /\ RuntimeStep
      BY <1>0, <1>1, <1>2, <3>1, <3>2, <3>5, <3>7, ProcessMends DEF RuntimeStep, InfraAccepts
    <3>8. CASE Mends /\ Daemon
      BY <1>0, <1>1, <1>2, <3>1, <3>2, <3>5, <3>8, DaemonMends, HandlerMends DEF Daemon
    <3> QED
      BY <3>2, <3>4, <3>6, <3>7, <3>8
  <2> QED
    BY <2>1, <2>2 DEF Next
<1> QED
  BY <1>0, <1>2 DEF HealInv

LEMMA InitHeal ==
  ASSUME Init
  PROVE  HealInv
<1>1. ReachInv
  BY InitReach
<1>2. restarted = FALSE
  BY DEF Init
<1> QED
  BY <1>1, <1>2 DEF HealInv

LEMMA HealStutters == HealInv /\ UNCHANGED vars => HealInv'
<1> SUFFICES ASSUME HealInv, UNCHANGED vars
             PROVE  HealInv'
  OBVIOUS
<1>1. ReachInv'
  BY ReachStutters DEF HealInv
<1>2. UNCHANGED <<config, infra, fingerprint, process, stateFile, calls, daemon, socket,
                  restarted, warm, cut>>
  BY DEF vars, supervisorVars, managerVars, processVars, daemonVars, operatorVars
<1>3. ASSUME NEW c \in Calls, Stopping(c)
      PROVE  Stopping(c)'
  BY <1>2, <1>3 DEF Stopping, Restarts, Cleared, Dead, Alive
<1>4. ASSUME Mends
      PROVE  Mends'
  <2>1. AllMild' /\ UpToDate'
    BY <1>2, <1>4 DEF Mends, AllMild, UpToDate, Alive, Phase
  <2>2. ToCome => ToCome'
    BY <1>2 DEF ToCome, Pending, Restarts, Starts, Cleared, Dead, Alive
  <2>3. (\E c \in Calls : Coming(c)) => \E c \in Calls : Coming(c)'
    BY <1>2 DEF Coming, GatewayComes, GatewayServes, ExecutorComes, ExecutorServes, Agrees, Phase
  <2>4. Healed => Healed'
    BY <1>2 DEF Healed, Starts, GatewayServes, ExecutorServes, Agrees, Phase
  <2>5. Stale => Stale'
    BY <1>2 DEF Stale, Dead, Alive
  <2> QED
    BY <1>4, <2>1, <2>2, <2>3, <2>4, <2>5 DEF Mends
<1> QED
  BY <1>1, <1>2, <1>3, <1>4 DEF HealInv

(* At rest, all but the last of these is over, and with the fingerprint of *)
(* the configuration that one is not.                                      *)
LEMMA HealGives ==
  ASSUME HealInv, AtRest, restarted, warm, ~cut, Published
  PROVE  Serving
<1>1. \A c \in Calls : calls[c].todo = <<>>
  BY DEF AtRest, Open
<1>2. \A c \in Calls : ~Stopping(c)
  BY <1>1, DownsAre DEF Stopping
<1>3. \A c \in Calls : ~Coming(c)
  BY <1>1, HeadsAre DEF Coming
<1>4. ~Pending
  <2>1. \A d \in Daemons : daemon[d] \notin {"booting", "cleared"}
    BY DEF AtRest
  <2> QED
    BY <1>1, <2>1, DownsAre, HeadsAre DEF Pending
<1>5. ~Stale
  BY DEF Stale, Published, Roles
<1>6. Healed
  BY <1>2, <1>3, <1>4, <1>5 DEF HealInv, Mends, ToCome
<1> QED
  BY <1>6 DEF Healed, GatewayServes, ExecutorServes, Serving

(* Once `carvis daemon restart` is through and nothing is on its way, a    *)
(* gateway takes requests and an executor takes runs, whatever had crashed *)
(* or failed before; unless Postgres and Redis did not accept connections  *)
(* when it was asked for, two calls managed at once, one was cut short, or *)
(* the fingerprints last published are of another configuration.           *)
THEOREM RestartsHeal == Spec => []RestartHeals
<1>1. Init => HealInv
  BY InitHeal
<1>2. HealInv /\ [Next]_vars => HealInv'
  BY NextHeal, HealStutters
<1>3. HealInv => RestartHeals
  BY HealGives DEF RestartHeals
<1> QED
  BY <1>1, <1>2, <1>3, PTL DEF Spec

===========================================================================

---------------------- MODULE TriggerSchedulingProofs ---------------------
(***************************************************************************)
(* Proofs about TriggerScheduling for every configuration, every number of *)
(* overlapping passes and requests and every bound: type correctness, that *)
(* no due time of a schedule is lost, that an execution is never ahead of  *)
(* its run nor forgotten, and that what an agent disabled stays disabled.  *)
(***************************************************************************)
EXTENDS TriggerScheduling, SequenceTheorems, WellFoundedInduction, TLAPS

---------------------------------------------------------------------------
(* The operators of the tables.                                            *)

(* A set of natural numbers that is not empty has a least member.          *)
LEMMA LeastExists ==
  ASSUME NEW S \in SUBSET Nat, S # {}
  PROVE  \E u \in S : \A v \in S : u <= v
<1>1. PICK u \in S : \A v \in S : ~(<<v, u>> \in OpToRel(<, Nat))
  BY NatLessThanWellFounded, WFMin, Zenon
<1>2. \A v \in S : ~(v < u)
  BY <1>1, Zenon DEF OpToRel
<1> QED
  BY <1>2

(* computeNextScheduledAt finds the first match after a time that is not   *)
(* beyond the bound of the clock.                                          *)
LEMMA FollowingIsNext ==
  ASSUME NEW schedule \in Schedules, NEW t \in 0..MaxTime
  PROVE  /\ Following(schedule, t) \in schedule
         /\ Following(schedule, t) \in Minutes
         /\ Following(schedule, t) > t
         /\ \A v \in schedule : v > t => Following(schedule, t) <= v
<1> DEFINE later == {u \in schedule : u > t}
<1>1. MaxTime \in Nat /\ schedule \subseteq 1..(MaxTime + 1) /\ MaxTime + 1 \in schedule
  BY TriggerAssumption DEF Schedules, Minutes
<1>2. later \in SUBSET Nat
  <2>1. \A u \in later : u \in Nat
    BY <1>1
  <2> QED
    BY <2>1
<1>3. MaxTime + 1 \in later
  BY <1>1
<1>4. PICK u \in later : \A v \in later : u <= v
  BY <1>2, <1>3, LeastExists
<1>5. \E x \in schedule : x > t /\ \A v \in schedule : v > t => x <= v
  BY <1>4
<1>6. /\ Following(schedule, t) \in schedule
      /\ Following(schedule, t) > t
      /\ \A v \in schedule : v > t => Following(schedule, t) <= v
  BY <1>5 DEF Following
<1> QED
  BY <1>1, <1>6 DEF Minutes

(* The INSERT of an execution adds one row and leaves the others alone.    *)
Dues == {Never} \cup Minutes
Statuses == {"accepted", "queued", "running", "finished", "skipped", "missed", "rejected"}
FirstStatuses == {"accepted", "skipped", "missed", "rejected"}
RunStates == {"none", "created", "queued", "running", "finished"}

LEMMA ExecutionAdded ==
  ASSUME executions \in Seq(Execution), NEW d \in Definitions, NEW due \in Dues,
         NEW s \in FirstStatuses, CreateExecution(d, due, s)
  PROVE  /\ executions' \in Seq(Execution)
         /\ Len(executions) \in Nat /\ Len(executions) < MaxExecutions
         /\ Len(executions)' = Len(executions) + 1
         /\ \A i \in 1..Len(executions) : executions'[i] = executions[i]
         /\ executions'[Len(executions) + 1] = [definition |-> d, due |-> due, status |-> s,
                                                run |-> "none"]
<1> DEFINE e == [definition |-> d, due |-> due, status |-> s, run |-> "none"]
<1>1. e \in Execution
  BY DEF Execution, Dues, FirstStatuses, Never
<1>2. executions' = Append(executions, e) /\ Len(executions) < MaxExecutions
  BY DEF CreateExecution
<1> HIDE DEF e
<1>3. /\ Append(executions, e) \in Seq(Execution)
      /\ Len(executions) \in Nat
      /\ Len(Append(executions, e)) = Len(executions) + 1
      /\ \A i \in 1..Len(executions) : Append(executions, e)[i] = executions[i]
      /\ Append(executions, e)[Len(executions) + 1] = e
  BY <1>1, AppendProperties, LenProperties
<1> QED
  BY <1>2, <1>3 DEF e

(* An UPDATE of one execution leaves its definition and its due time, and  *)
(* the other rows, alone.                                                  *)
LEMMA ExecutionUpdated ==
  ASSUME executions \in Seq(Execution), NEW i \in 1..Len(executions), NEW e \in Execution,
         executions' = [executions EXCEPT ![i] = e]
  PROVE  /\ executions' \in Seq(Execution)
         /\ Len(executions)' = Len(executions)
         /\ executions'[i] = e
         /\ \A j \in 1..Len(executions) : j # i => executions'[j] = executions[j]
<1> QED
  BY ExceptSeq
---------------------------------------------------------------------------
(* What the handlers rely on.                                              *)

Dispatching == {"createRun", "push", "markQueued", "advance", "advanceRecorded"}

(* A worker that is in the middle of a dispatch has an execution in the    *)
(* table; a pass keeps its definition among those it has still to treat,   *)
(* and has read a schedule of each of these.                               *)
WorkerInv ==
  \A w \in Workers :
    /\ step[w] = "idle" => todo[w] = {}
    /\ step[w] \notin Dispatching => job[w] = NoJob
    /\ step[w] = "scan" => w \in Loops
    /\ step[w] = "sync" => w \in Requests
    /\ step[w] \in Dispatching =>
         /\ job[w].definition \in Definitions
         /\ job[w].execution \in 1..Len(executions)
         /\ w \in Loops => job[w].definition \in todo[w]
         /\ w \in Requests => todo[w] = {}
    /\ w \in Loops => \A d \in todo[w] : seen[w][d].schedule # {}

(* A request of an agent is about a definition with a schedule, which is   *)
(* overridden before its row is touched; an update keeps the enabled flag  *)
(* of an override that was there before.                                   *)
ManagerInv ==
  /\ managerStep = "idle" <=> request.operation = "none"
  /\ managerStep # "idle" =>
       /\ request.definition \in Definitions
       /\ request.schedule # {}
  /\ managerStep \in {"due", "baseline", "audit"} => overrides[request.definition].overridden
  /\ request.operation = "disable" => ~request.enabled
  /\ managerStep = "override" /\ request.operation = "update"
       /\ overrides[request.definition].overridden
       => request.enabled = overrides[request.definition].enabled

(* An execution belongs to one dispatch; its status and the state of its   *)
(* run go with the call the dispatch is about to make.                     *)
Pushed == {"queued", "running", "finished"}

DispatchInv ==
  \A w \in Workers :
    /\ step[w] \in Dispatching =>
         \A v \in Workers : v # w => job[v].execution # job[w].execution
    /\ step[w] = "createRun" =>
         executions[job[w].execution].run = "none" /\ executions[job[w].execution].status = "accepted"
    /\ step[w] = "push" =>
         executions[job[w].execution].run = "created" /\ executions[job[w].execution].status = "accepted"
    /\ step[w] = "markQueued" => executions[job[w].execution].run \in Pushed

(* An accepted execution is the job of a worker that has still to mark it. *)
AcceptedInv ==
  mishaps = 0 =>
    \A i \in 1..Len(executions) :
      executions[i].status = "accepted" =>
        \E w \in Workers : /\ job[w].execution = i
                           /\ step[w] \in {"createRun", "push", "markQueued"}


---------------------------------------------------------------------------
(* Type correctness.                                                       *)

LEMMA Blanks ==
  /\ NoRow \in Row
  /\ NothingSeen \in [Definitions -> Row]
  /\ NoOverride \in Override
  /\ NoJob \in [definition : Definitions \cup {NoDefinition},
                nextDue : {Never} \cup Minutes, execution : 0..MaxExecutions]
<1>1. NoRow \in Row
  BY TriggerAssumption DEF NoRow, Row, Never
<1> QED
  BY <1>1, TriggerAssumption DEF NothingSeen, NoOverride, Override, NoJob, Never

(* A worker that is done with a definition, or given up, has that much     *)
(* less to treat and no job; the other workers are left alone.             *)
Left(w, done) ==
  /\ step' = [step EXCEPT ![w] = step'[w]] /\ step'[w] \in {"idle", "scan"}
  /\ step'[w] = "idle" => todo'[w] = {}
  /\ todo' = [todo EXCEPT ![w] = todo'[w]] /\ todo'[w] \subseteq todo[w] \ done
  /\ job' = [job EXCEPT ![w] = NoJob]
  /\ seen' = [seen EXCEPT ![w] = seen'[w]] /\ seen'[w] \in [Definitions -> Row]
  /\ \A d \in todo'[w] : seen'[w][d] = seen[w][d]
  /\ seenAt' = [seenAt EXCEPT ![w] = seenAt'[w]] /\ seenAt'[w] \in 0..MaxTime

LEMMA ReleaseLeaves ==
  ASSUME SchedulerTypeOK, NEW w \in Workers, Release(w), NEW done
  PROVE  Left(w, done) /\ step'[w] = "idle"
<1> QED
  BY Blanks, TriggerAssumption DEF SchedulerTypeOK, Release, Goto, Left

LEMMA LeaveLeaves ==
  ASSUME SchedulerTypeOK, NEW l \in Loops, NEW d \in Definitions, LeaveDefinition(l, d)
  PROVE  Left(l, {d}) /\ (step'[l] = "scan" => l \in Loops)
<1>1. CASE todo[l] = {d}
  BY <1>1, ReleaseLeaves DEF LeaveDefinition, Workers
<1>2. CASE todo[l] # {d}
  <2>1. l \in Workers
    BY DEF Workers
  <2>2. /\ step' = [step EXCEPT ![l] = "scan"]
        /\ todo' = [todo EXCEPT ![l] = todo[l] \ {d}]
        /\ seen' = [seen EXCEPT ![l] = [seen[l] EXCEPT ![d] = NoRow]]
        /\ job' = [job EXCEPT ![l] = NoJob]
        /\ seenAt' = seenAt
    BY <1>2 DEF LeaveDefinition, Goto
  <2>3. /\ step \in [Workers -> {"idle", "scan", "createRun", "push", "markQueued", "advance",
                                 "advanceRecorded", "sync"}]
        /\ todo \in [Workers -> SUBSET Definitions]
        /\ seen \in [Workers -> [Definitions -> Row]]
        /\ seenAt \in [Workers -> 0..MaxTime]
    BY DEF SchedulerTypeOK
  <2>4. /\ step'[l] = "scan"
        /\ todo'[l] = todo[l] \ {d}
        /\ seen'[l] = [seen[l] EXCEPT ![d] = NoRow]
        /\ seenAt'[l] = seenAt[l] /\ seenAt' = [seenAt EXCEPT ![l] = seenAt[l]]
    BY <2>1, <2>2, <2>3
  <2>5. seen'[l] \in [Definitions -> Row] /\ \A e \in todo'[l] : seen'[l][e] = seen[l][e]
    BY <2>1, <2>3, <2>4, Blanks
  <2> QED
    BY <2>1, <2>2, <2>3, <2>4, <2>5 DEF Left
<1> QED
  BY <1>1, <1>2

LEMMA LeftTyped ==
  ASSUME SchedulerTypeOK, NEW w \in Workers, NEW done, Left(w, done),
         gateway' \in {"down", "starting", "up"}
  PROVE  SchedulerTypeOK'
<1>1. step' \in [Workers -> {"idle", "scan", "createRun", "push", "markQueued", "advance",
                            "advanceRecorded", "sync"}]
  <2>1. PICK s \in {"idle", "scan"} : step' = [step EXCEPT ![w] = s]
    BY DEF Left
  <2> QED
    BY <2>1 DEF SchedulerTypeOK
<1>2. todo' \in [Workers -> SUBSET Definitions]
  <2>1. PICK s \in SUBSET Definitions : todo' = [todo EXCEPT ![w] = s]
    <3>1. todo[w] \subseteq Definitions
      BY DEF SchedulerTypeOK
    <3> QED
      BY <3>1 DEF Left
  <2> QED
    BY <2>1 DEF SchedulerTypeOK
<1>3. seen' \in [Workers -> [Definitions -> Row]]
  <2>1. PICK s \in [Definitions -> Row] : seen' = [seen EXCEPT ![w] = s]
    BY DEF Left
  <2> QED
    BY <2>1 DEF SchedulerTypeOK
<1>4. seenAt' \in [Workers -> 0..MaxTime]
  <2>1. PICK s \in 0..MaxTime : seenAt' = [seenAt EXCEPT ![w] = s]
    BY DEF Left
  <2> QED
    BY <2>1 DEF SchedulerTypeOK
<1>5. job' \in [Workers -> [definition : Definitions \cup {NoDefinition},
                           nextDue : {Never} \cup Minutes, execution : 0..MaxExecutions]]
  BY Blanks DEF SchedulerTypeOK, Left
<1> QED
  BY <1>1, <1>2, <1>3, <1>4, <1>5 DEF SchedulerTypeOK

(* A due time is stored where there is one, and nothing else of a row      *)
(* changes.                                                                *)
LEMMA DueIsSet ==
  ASSUME rows \in [Definitions -> Row], NEW d \in Definitions,
         NEW due \in Dues, SetDue(d, due)
  PROVE  /\ rows' \in [Definitions -> Row]
         /\ \A e \in Definitions : /\ rows'[e].origin = rows[e].origin
                                   /\ rows'[e].enabled = rows[e].enabled
                                   /\ rows'[e].schedule = rows[e].schedule
                                   /\ rows'[e].createdAt = rows[e].createdAt
                                   /\ e # d => rows'[e] = rows[e]
         /\ rows'[d].nextDue = IF due = Never THEN rows[d].nextDue ELSE due
<1> QED
  BY DEF SetDue, Row, Dues

(* What a statement on one column of an execution does.                    *)
LEMMA StatusIsSet ==
  ASSUME executions \in Seq(Execution), NEW i \in 1..Len(executions),
         NEW s \in Statuses, NEW r \in RunStates,
         executions' = [executions EXCEPT ![i] = [executions[i] EXCEPT !.status = s, !.run = r]]
  PROVE  /\ executions' \in Seq(Execution)
         /\ Len(executions') = Len(executions)
         /\ executions'[i].status = s /\ executions'[i].run = r
         /\ \A j \in 1..Len(executions) :
              /\ executions'[j].definition = executions[j].definition
              /\ executions'[j].due = executions[j].due
              /\ j # i => executions'[j] = executions[j]
<1> DEFINE e == [executions[i] EXCEPT !.status = s, !.run = r]
<1>1. executions[i] \in Execution
  BY ElementOfSeq
<1>2. /\ e \in Execution
      /\ e.definition = executions[i].definition /\ e.due = executions[i].due
      /\ e.status = s /\ e.run = r
  BY <1>1 DEF Execution, Statuses, RunStates
<1>3. executions' = [executions EXCEPT ![i] = e]
  OBVIOUS
<1> HIDE DEF e
<1> QED
  BY <1>2, <1>3, ExecutionUpdated

BaseInv == TypeOK /\ WorkerInv /\ ManagerInv

LEMMA EffectiveTyped ==
  ASSUME StoreTypeOK, NEW d \in Definitions
  PROVE  /\ Effective(d) \in Row
         /\ Effective(d).nextDue = rows[d].nextDue
         /\ Effective(d).enabled \in BOOLEAN
         /\ Effective(d).schedule # {} => Effective(d).schedule \in Schedules
         /\ overrides[d].overridden => /\ Effective(d).enabled = overrides[d].enabled
                                       /\ Effective(d).schedule = overrides[d].schedule
         /\ ~overrides[d].overridden => Effective(d) = rows[d]
<1>1. rows[d] \in Row /\ overrides[d] \in Override
  BY DEF StoreTypeOK
<1>2. CASE overrides[d].overridden
  BY <1>1, <1>2 DEF Effective, Row, Override
<1>3. CASE ~overrides[d].overridden
  BY <1>1, <1>3 DEF Effective, Row, Override
<1> QED
  BY <1>2, <1>3

(* What a pass that treats a definition can rely on.                       *)
LEMMA ScanFacts ==
  ASSUME BaseInv, NEW l \in Loops, NEW d \in Definitions, Scans(l, d)
  PROVE  /\ l \in Workers /\ d \in todo[l] /\ job[l] = NoJob
         /\ seen[l][d] \in Row /\ seen[l][d].schedule \in Schedules
         /\ Following(seen[l][d].schedule, clock) \in Minutes
         /\ IsDue(l, d) => /\ seen[l][d].nextDue \in Minutes
                           /\ seen[l][d].nextDue \in 0..MaxTime
                           /\ AfterThis(l, d) \in Minutes
<1>1. l \in Workers
  BY DEF Workers
<1>2. d \in todo[l] /\ job[l] = NoJob /\ seen[l][d].schedule # {}
  BY <1>1 DEF BaseInv, WorkerInv, Scans, First, Dispatching
<1>3. seen[l][d] \in Row /\ clock \in 0..MaxTime /\ MaxTime \in Nat
  BY <1>1, TriggerAssumption DEF BaseInv, TypeOK, SchedulerTypeOK, StoreTypeOK
<1>4. seen[l][d].schedule \in Schedules
  BY <1>2, <1>3 DEF Row
<1>5. Following(seen[l][d].schedule, clock) \in Minutes
  BY <1>3, <1>4, FollowingIsNext
<1>6. ASSUME IsDue(l, d)
      PROVE  /\ seen[l][d].nextDue \in Minutes
             /\ seen[l][d].nextDue \in 0..MaxTime
             /\ AfterThis(l, d) \in Minutes
  <2>1. seen[l][d].nextDue \in Minutes /\ seen[l][d].nextDue <= clock
    BY <1>3, <1>6 DEF IsDue, Row
  <2>2. seen[l][d].nextDue \in 0..MaxTime
    BY <1>3, <2>1 DEF Minutes
  <2> QED
    BY <1>4, <2>1, <2>2, FollowingIsNext DEF AfterThis
<1> QED
  BY <1>1, <1>2, <1>3, <1>4, <1>5, <1>6

(* What a dispatch can rely on.                                            *)
LEMMA JobFacts ==
  ASSUME BaseInv, NEW w \in Workers, step[w] \in Dispatching
  PROVE  /\ job[w].definition \in Definitions
         /\ job[w].execution \in 1..Len(executions)
         /\ job[w].nextDue \in Dues
         /\ executions[job[w].execution] \in Execution
         /\ w \notin Loops => w \in Requests /\ todo[w] = {}
<1>1. /\ job[w].definition \in Definitions
      /\ job[w].execution \in 1..Len(executions)
      /\ w \in Requests => todo[w] = {}
  BY DEF BaseInv, WorkerInv
<1>2. job[w].nextDue \in Dues
  BY DEF BaseInv, TypeOK, SchedulerTypeOK, Dues
<1>3. executions[job[w].execution] \in Execution
  BY <1>1, ElementOfSeq DEF BaseInv, TypeOK, StoreTypeOK
<1> QED
  BY <1>1, <1>2, <1>3 DEF Workers

(* A worker that records an execution turns to its dispatch.               *)
Noted(w, d, due, s, nextDue, then) ==
  /\ step' = [step EXCEPT ![w] = then] /\ step'[w] = then
  /\ job' = [job EXCEPT ![w] = job'[w]]
  /\ job'[w] = [definition |-> d, nextDue |-> nextDue, execution |-> Len(executions) + 1]
  /\ Len(executions) \in Nat
  /\ Len(executions') = Len(executions) + 1
  /\ \A i \in 1..Len(executions) : executions'[i] = executions[i]
  /\ executions'[Len(executions) + 1] = [definition |-> d, due |-> due, status |-> s,
                                         run |-> "none"]
  /\ rows' = rows /\ overrides' = overrides /\ clock' = clock /\ gateway' = gateway
  /\ todo' = todo /\ seen' = seen /\ seenAt' = seenAt

LEMMA RecordTyped ==
  ASSUME BaseInv, NEW w \in Workers, NEW d \in Definitions, NEW due \in Dues,
         NEW s \in FirstStatuses, NEW nextDue \in Dues, NEW then \in Dispatching,
         Record(w, d, due, s, nextDue, then)
  PROVE  Noted(w, d, due, s, nextDue, then) /\ StoreTypeOK' /\ SchedulerTypeOK'
<1> DEFINE e == [definition |-> d, due |-> due, status |-> s, run |-> "none"]
           j == [definition |-> d, nextDue |-> nextDue, execution |-> Len(executions) + 1]
<1>1. CreateExecution(d, due, s) /\ executions \in Seq(Execution)
  BY DEF Record, BaseInv, TypeOK, StoreTypeOK
<1>2. /\ executions' \in Seq(Execution)
      /\ Len(executions) \in Nat /\ Len(executions) < MaxExecutions
      /\ Len(executions)' = Len(executions) + 1
      /\ \A i \in 1..Len(executions) : executions'[i] = executions[i]
      /\ executions'[Len(executions) + 1] = e
  BY <1>1, ExecutionAdded
<1>3. /\ rows' = rows /\ overrides' = overrides /\ clock' = clock /\ gateway' = gateway
      /\ todo' = todo /\ seen' = seen /\ seenAt' = seenAt
      /\ step' = [step EXCEPT ![w] = then]
      /\ job' = [job EXCEPT ![w] = j]
  BY DEF Record, Goto
<1>4. Len(executions) + 1 \in 0..MaxExecutions
  BY <1>2, TriggerAssumption
<1>5. j \in [definition : Definitions \cup {NoDefinition},
             nextDue : {Never} \cup Minutes, execution : 0..MaxExecutions]
  BY <1>4 DEF Dues
<1>6. StoreTypeOK'
  BY <1>2, <1>3 DEF BaseInv, TypeOK, StoreTypeOK
<1> HIDE DEF j
<1>7. SchedulerTypeOK' /\ step'[w] = then /\ job'[w] = j
  BY <1>3, <1>5 DEF BaseInv, TypeOK, SchedulerTypeOK, Dispatching
<1> QED
  BY <1>2, <1>3, <1>6, <1>7 DEF j, Noted

LEMMA WorkerInvKept ==
  ASSUME BaseInv, UNCHANGED workerVars, Len(executions') = Len(executions)
  PROVE  WorkerInv'
<1> QED
  BY DEF BaseInv, WorkerInv, workerVars

LEMMA RecordKeepsWorkers ==
  ASSUME BaseInv, NEW w \in Workers, NEW d \in Definitions, NEW due \in Dues,
         NEW s \in FirstStatuses, NEW nextDue \in Dues, NEW then \in Dispatching,
         Record(w, d, due, s, nextDue, then),
         w \in Loops => d \in todo[w], w \in Requests => todo[w] = {}
  PROVE  WorkerInv'
<1>0. Noted(w, d, due, s, nextDue, then)
  BY RecordTyped
<1>1. /\ step' = [step EXCEPT ![w] = then] /\ step'[w] = then
      /\ job' = [job EXCEPT ![w] = job'[w]]
      /\ job'[w].definition = d /\ job'[w].execution = Len(executions) + 1
      /\ Len(executions) \in Nat
      /\ Len(executions') = Len(executions) + 1
      /\ todo' = todo /\ seen' = seen
  BY <1>0 DEF Noted
<1> SUFFICES ASSUME NEW v \in Workers PROVE WorkerInv!(v)'
  BY DEF WorkerInv
<1>2. CASE v = w
  BY <1>1, <1>2 DEF Dispatching, BaseInv, WorkerInv
<1>3. CASE v # w
  <2>1. step'[v] = step[v] /\ job'[v] = job[v]
    BY <1>1, <1>3 DEF BaseInv, TypeOK, SchedulerTypeOK
  <2> QED
    BY <1>1, <2>1 DEF BaseInv, WorkerInv
<1> QED
  BY <1>2, <1>3

LEMMA LeftKeepsWorkers ==
  ASSUME BaseInv, NEW w \in Workers, NEW done, Left(w, done), executions' = executions,
         step'[w] = "scan" => w \in Loops
  PROVE  WorkerInv'
<1> SUFFICES ASSUME NEW v \in Workers PROVE WorkerInv!(v)'
  BY DEF WorkerInv
<1>1. CASE v = w
  <2>1. step'[v] \in {"idle", "scan"} /\ (step'[v] = "idle" => todo'[v] = {})
    BY <1>1 DEF Left
  <2>2. job'[v] = NoJob
    BY <1>1 DEF Left, BaseInv, TypeOK, SchedulerTypeOK
  <2>3. todo'[v] \subseteq todo[v] /\ \A d \in todo'[v] : seen'[v][d] = seen[v][d]
    BY <1>1 DEF Left
  <2>4. v \in Loops => \A d \in todo'[v] : seen'[v][d].schedule # {}
    BY <2>3 DEF BaseInv, WorkerInv
  <2> QED
    BY <1>1, <2>1, <2>2, <2>4 DEF Dispatching
<1>2. CASE v # w
  <2>1. step'[v] = step[v] /\ job'[v] = job[v] /\ todo'[v] = todo[v] /\ seen'[v] = seen[v]
    BY <1>2 DEF Left, BaseInv, TypeOK, SchedulerTypeOK
  <2> QED
    BY <2>1 DEF BaseInv, WorkerInv
<1> QED
  BY <1>1, <1>2

(* A call of the dispatch after the first writes its execution and goes on *)
(* to the next call.                                                       *)
DispatchCall(w, s, r, then) ==
  /\ executions' = [executions EXCEPT
       ![job[w].execution] = [executions[job[w].execution] EXCEPT !.status = s, !.run = r]]
  /\ Goto(w, then)
  /\ UNCHANGED <<clock, rows, overrides, gateway, todo, seen, seenAt, job>>

LEMMA DispatchCalls ==
  ASSUME BaseInv, NEW w \in Workers
  PROVE  /\ CreateRun(w) =>
              DispatchCall(w, executions[job[w].execution].status, "created", "push")
         /\ PushRun(w) =>
              DispatchCall(w, executions[job[w].execution].status, "queued", "markQueued")
         /\ MarkQueued(w) =>
              DispatchCall(w, "queued", executions[job[w].execution].run, "advance")
<1>1. ASSUME NEW r \in {"created", "queued"}, SetRun(w, r), step[w] \in Dispatching
      PROVE  executions' = [executions EXCEPT
               ![job[w].execution] = [executions[job[w].execution] EXCEPT
                                        !.status = executions[job[w].execution].status, !.run = r]]
  <2>1. executions[job[w].execution] \in Execution
    BY <1>1, JobFacts
  <2>2. [executions[job[w].execution] EXCEPT !.run = r]
          = [executions[job[w].execution] EXCEPT
               !.status = executions[job[w].execution].status, !.run = r]
    BY <2>1 DEF Execution
  <2> QED
    BY <1>1, <2>2 DEF SetRun
<1>2. ASSUME MarkQueued(w)
      PROVE  executions' = [executions EXCEPT
               ![job[w].execution] = [executions[job[w].execution] EXCEPT
                                        !.status = "queued",
                                        !.run = executions[job[w].execution].run]]
  <2>1. executions[job[w].execution] \in Execution
    BY <1>2, JobFacts DEF MarkQueued, Dispatching
  <2>2. [executions[job[w].execution] EXCEPT !.status = "queued"]
          = [executions[job[w].execution] EXCEPT
               !.status = "queued", !.run = executions[job[w].execution].run]
    BY <2>1 DEF Execution
  <2> QED
    BY <1>2, <2>2 DEF MarkQueued
<1> QED
  BY <1>1, <1>2 DEF CreateRun, PushRun, MarkQueued, DispatchCall, Dispatching

LEMMA DispatchCallTyped ==
  ASSUME BaseInv, NEW w \in Workers, step[w] \in Dispatching,
         NEW s \in Statuses, NEW r \in RunStates,
         NEW then \in Dispatching, DispatchCall(w, s, r, then)
  PROVE  /\ StoreTypeOK' /\ SchedulerTypeOK' /\ WorkerInv'
         /\ Len(executions') = Len(executions)
         /\ executions'[job[w].execution].status = s /\ executions'[job[w].execution].run = r
         /\ \A j \in 1..Len(executions) :
              /\ executions'[j].definition = executions[j].definition
              /\ executions'[j].due = executions[j].due
              /\ j # job[w].execution => executions'[j] = executions[j]
         /\ step' = [step EXCEPT ![w] = then] /\ step'[w] = then
         /\ UNCHANGED <<clock, rows, overrides, gateway, todo, seen, seenAt, job>>
<1>1. executions \in Seq(Execution) /\ job[w].execution \in 1..Len(executions)
  BY JobFacts DEF BaseInv, TypeOK, StoreTypeOK
<1>2. /\ executions' \in Seq(Execution)
      /\ Len(executions') = Len(executions)
      /\ executions'[job[w].execution].status = s /\ executions'[job[w].execution].run = r
      /\ \A j \in 1..Len(executions) :
           /\ executions'[j].definition = executions[j].definition
           /\ executions'[j].due = executions[j].due
           /\ j # job[w].execution => executions'[j] = executions[j]
  <2>1. executions' = [executions EXCEPT
          ![job[w].execution] = [executions[job[w].execution] EXCEPT !.status = s, !.run = r]]
    BY DEF DispatchCall
  <2> QED
    BY <1>1, <2>1, StatusIsSet, Zenon
<1>3. /\ step' = [step EXCEPT ![w] = then]
      /\ UNCHANGED <<clock, rows, overrides, gateway, todo, seen, seenAt, job>>
  BY DEF DispatchCall, Goto
<1>4. StoreTypeOK' /\ SchedulerTypeOK' /\ step'[w] = then
  BY <1>2, <1>3 DEF BaseInv, TypeOK, StoreTypeOK, SchedulerTypeOK, Dispatching
<1>5. WorkerInv'
  <2> SUFFICES ASSUME NEW v \in Workers PROVE WorkerInv!(v)'
    BY DEF WorkerInv
  <2>1. CASE v = w
    BY <1>2, <1>3, <1>4, <2>1 DEF BaseInv, WorkerInv, Dispatching
  <2>2. CASE v # w
    <3>1. step'[v] = step[v]
      BY <1>3, <2>2 DEF BaseInv, TypeOK, SchedulerTypeOK
    <3> QED
      BY <1>2, <1>3, <3>1 DEF BaseInv, WorkerInv
  <2> QED
    BY <2>1, <2>2
<1> QED
  BY <1>2, <1>3, <1>4, <1>5

LEMMA LeftBase ==
  ASSUME BaseInv, NEW w \in Workers, NEW done, Left(w, done), executions' = executions,
         step'[w] = "scan" => w \in Loops, rows' \in [Definitions -> Row],
         UNCHANGED <<clock, overrides>>, gateway' \in {"down", "starting", "up"}
  PROVE  StoreTypeOK' /\ SchedulerTypeOK' /\ WorkerInv'
<1>1. SchedulerTypeOK'
  BY LeftTyped DEF BaseInv, TypeOK
<1>2. StoreTypeOK'
  BY DEF BaseInv, TypeOK, StoreTypeOK
<1> QED
  BY <1>1, <1>2, LeftKeepsWorkers

LEMMA StoredDue ==
  ASSUME BaseInv, NEW d \in Definitions, NEW due \in Dues, SetDue(d, due)
  PROVE  rows' \in [Definitions -> Row]
<1> QED
  BY DueIsSet DEF BaseInv, TypeOK, StoreTypeOK

LEMMA MinutesAreDues == Minutes \subseteq Dues /\ Never \in Dues
<1> QED
  BY DEF Dues

(* A pass over the definitions.                                            *)
LEMMA LoopBase ==
  ASSUME BaseInv, NEW l \in Loops, LoopStep(l)
  PROVE  StoreTypeOK' /\ SchedulerTypeOK' /\ WorkerInv' /\ UNCHANGED <<clock, overrides, gateway>>
<1>0. l \in Workers /\ SchedulerTypeOK /\ l \notin Requests
  BY SchedulerAssumption DEF Workers, BaseInv, TypeOK
<1>1. CASE StartPass(l)
  <2> DEFINE scheduled == {d \in Definitions : Effective(d).schedule # {}}
             read == [d \in Definitions |-> IF d \in scheduled THEN Effective(d) ELSE NoRow]
  <2>1. /\ step' = [step EXCEPT ![l] = "scan"]
        /\ todo' = [todo EXCEPT ![l] = scheduled]
        /\ seen' = [seen EXCEPT ![l] = read]
        /\ UNCHANGED <<clock, storeVars, gateway, seenAt, job>>
        /\ step[l] = "idle"
    BY <1>1 DEF StartPass, Goto
  <2>2. scheduled \subseteq Definitions /\ \A d \in scheduled : read[d].schedule # {}
    OBVIOUS
  <2>3. read \in [Definitions -> Row]
    BY EffectiveTyped, Blanks DEF BaseInv, TypeOK
  <2> HIDE DEF scheduled, read
  <2>4. SchedulerTypeOK'
    BY <1>0, <2>1, <2>2, <2>3 DEF SchedulerTypeOK
  <2>5. StoreTypeOK'
    BY <2>1 DEF BaseInv, TypeOK, StoreTypeOK, storeVars
  <2>6. WorkerInv'
    <3> SUFFICES ASSUME NEW v \in Workers PROVE WorkerInv!(v)'
      BY DEF WorkerInv
    <3>1. CASE v = l
      <4>1. /\ step'[v] = "scan" /\ todo'[v] = scheduled /\ seen'[v] = read
            /\ job'[v] = NoJob
        BY <1>0, <2>1, <3>1 DEF SchedulerTypeOK, BaseInv, WorkerInv, Dispatching
      <4> QED
        BY <2>2, <3>1, <4>1 DEF Dispatching
    <3>2. CASE v # l
      <4>1. step'[v] = step[v] /\ todo'[v] = todo[v] /\ seen'[v] = seen[v] /\ job'[v] = job[v]
        BY <1>0, <2>1, <3>2 DEF SchedulerTypeOK
      <4> QED
        BY <2>1, <4>1 DEF BaseInv, WorkerInv, storeVars
    <3> QED
      BY <3>1, <3>2
  <2> QED
    BY <2>1, <2>4, <2>5, <2>6 DEF storeVars
<1>2. ASSUME NEW d \in Definitions, NotDue(l, d)
      PROVE  StoreTypeOK' /\ SchedulerTypeOK' /\ WorkerInv' /\ UNCHANGED <<clock, overrides, gateway>>
  <2>1. Left(l, {d}) /\ UNCHANGED <<clock, rows, overrides, executions, gateway>>
    BY <1>0, <1>2, LeaveLeaves DEF NotDue, storeVars
  <2>2. rows' \in [Definitions -> Row] /\ gateway' \in {"down", "starting", "up"}
    BY <2>1 DEF BaseInv, TypeOK, StoreTypeOK, SchedulerTypeOK
  <2> QED
    BY <1>0, <2>1, <2>2, LeftBase
<1>3. ASSUME NEW d \in Definitions, SetFirstDue(l, d)
      PROVE  StoreTypeOK' /\ SchedulerTypeOK' /\ WorkerInv' /\ UNCHANGED <<clock, overrides, gateway>>
  <2>1. Left(l, {d}) /\ UNCHANGED <<clock, overrides, executions, gateway>>
    BY <1>0, <1>3, LeaveLeaves DEF SetFirstDue
  <2>2. rows' \in [Definitions -> Row]
    BY <1>3, ScanFacts, StoredDue, MinutesAreDues DEF SetFirstDue
  <2>3. gateway' \in {"down", "starting", "up"}
    BY <1>0, <2>1 DEF SchedulerTypeOK
  <2> QED
    BY <1>0, <2>1, <2>2, <2>3, LeftBase
<1>4. ASSUME NEW d \in Definitions, NEW s \in FirstStatuses, NEW then \in Dispatching,
             Scans(l, d), IsDue(l, d),
             Record(l, d, seen[l][d].nextDue, s, AfterThis(l, d), then)
      PROVE  StoreTypeOK' /\ SchedulerTypeOK' /\ WorkerInv' /\ UNCHANGED <<clock, overrides, gateway>>
  <2>1. d \in todo[l] /\ seen[l][d].nextDue \in Dues /\ AfterThis(l, d) \in Dues
    BY <1>4, ScanFacts, MinutesAreDues
  <2>2. WorkerInv'
    BY <1>0, <1>4, <2>1, RecordKeepsWorkers
  <2>3. Noted(l, d, seen[l][d].nextDue, s, AfterThis(l, d), then) /\ StoreTypeOK' /\ SchedulerTypeOK'
    BY <1>0, <1>4, <2>1, RecordTyped
  <2> QED
    BY <2>2, <2>3 DEF Noted
<1> QED
  BY <1>1, <1>2, <1>3, <1>4
  DEF LoopStep, RecordSkipped, RecordMissed, DispatchDue, FirstStatuses, Dispatching

(* The second call of a record, by a pass, which goes on with the          *)
(* definition.                                                             *)
GoesOn(l) ==
  /\ step' = [step EXCEPT ![l] = "scan"] /\ step'[l] = "scan"
  /\ seen' = [seen EXCEPT ![l] = seen'[l]] /\ seen'[l] \in [Definitions -> Row]
  /\ seen'[l][job[l].definition].nextDue = job[l].nextDue
  /\ \A d \in Definitions : /\ seen'[l][d].schedule = seen[l][d].schedule
                            /\ d # job[l].definition => seen'[l][d] = seen[l][d]
  /\ job' = [job EXCEPT ![l] = NoJob]
  /\ UNCHANGED <<todo, seenAt>>

LEMMA AdvanceEffects ==
  ASSUME BaseInv, NEW w \in Workers
  PROVE  /\ AdvanceDispatched(w) => /\ Left(w, {job[w].definition})
                                    /\ step'[w] = "scan" => w \in Loops
         /\ AdvanceRecorded(w) /\ w \in Loops => GoesOn(w)
         /\ AdvanceRecorded(w) /\ w \notin Loops =>
              Left(w, {job[w].definition}) /\ (step'[w] = "scan" => w \in Loops)
<1>0. SchedulerTypeOK
  BY DEF BaseInv, TypeOK
<1>1. ASSUME AdvanceDispatched(w)
      PROVE  Left(w, {job[w].definition}) /\ (step'[w] = "scan" => w \in Loops)
  <2>1. job[w].definition \in Definitions
    BY <1>1, JobFacts DEF AdvanceDispatched, Dispatching
  <2>2. CASE w \in Loops
    BY <1>0, <1>1, <2>1, <2>2, LeaveLeaves DEF AdvanceDispatched
  <2>3. CASE w \notin Loops
    BY <1>0, <1>1, <2>3, ReleaseLeaves DEF AdvanceDispatched
  <2> QED
    BY <2>2, <2>3
<1>2. ASSUME AdvanceRecorded(w), w \in Loops
      PROVE  GoesOn(w)
  <2>1. job[w].definition \in Definitions /\ job[w].nextDue \in Dues
    BY <1>2, JobFacts DEF AdvanceRecorded, Dispatching
  <2>2. /\ step' = [step EXCEPT ![w] = "scan"]
        /\ seen' = [seen EXCEPT ![w][job[w].definition].nextDue = job[w].nextDue]
        /\ job' = [job EXCEPT ![w] = NoJob]
        /\ UNCHANGED <<todo, seenAt>>
    BY <1>2 DEF AdvanceRecorded, Goto
  <2>3. step \in [Workers -> {"idle", "scan", "createRun", "push", "markQueued", "advance",
                              "advanceRecorded", "sync"}]
        /\ seen \in [Workers -> [Definitions -> Row]]
    BY <1>0 DEF SchedulerTypeOK
  <2>4. PICK d \in Definitions : d = job[w].definition
    BY <2>1
  <2>5. PICK n \in Dues : n = job[w].nextDue
    BY <2>1
  <2> DEFINE row == [seen[w][d] EXCEPT !.nextDue = n]
  <2>6. row \in Row /\ row.nextDue = n /\ row.schedule = seen[w][d].schedule
    <3>1. seen[w][d] \in Row
      BY <2>3
    <3> QED
      BY <3>1 DEF Row, Dues
  <2>7. seen' = [seen EXCEPT ![w] = [seen[w] EXCEPT ![d] = row]]
    BY <2>2, <2>3, <2>4, <2>5
  <2> HIDE DEF row
  <2>8. /\ seen'[w] = [seen[w] EXCEPT ![d] = row] /\ seen[w] \in [Definitions -> Row]
        /\ step'[w] = "scan"
    BY <2>2, <2>3, <2>7
  <2>9. /\ seen'[w] \in [Definitions -> Row] /\ seen'[w][d].nextDue = n
        /\ \A e \in Definitions : /\ seen'[w][e].schedule = seen[w][e].schedule
                                  /\ e # d => seen'[w][e] = seen[w][e]
    BY <2>6, <2>8
  <2> QED
    BY <2>2, <2>4, <2>5, <2>7, <2>8, <2>9 DEF GoesOn
<1>3. ASSUME AdvanceRecorded(w), w \notin Loops
      PROVE  Left(w, {job[w].definition}) /\ (step'[w] = "scan" => w \in Loops)
  BY <1>0, <1>3, ReleaseLeaves DEF AdvanceRecorded
<1> QED
  BY <1>1, <1>2, <1>3

(* The calls of a dispatch.                                                *)
LEMMA DispatcherBase ==
  ASSUME BaseInv, NEW w \in Workers, DispatcherStep(w)
  PROVE  StoreTypeOK' /\ SchedulerTypeOK' /\ WorkerInv' /\ UNCHANGED <<clock, overrides, gateway>>
<1>0. SchedulerTypeOK /\ gateway \in {"down", "starting", "up"}
  BY DEF BaseInv, TypeOK, SchedulerTypeOK
<1>1. ASSUME CreateRun(w) \/ PushRun(w) \/ MarkQueued(w)
      PROVE  StoreTypeOK' /\ SchedulerTypeOK' /\ WorkerInv' /\ UNCHANGED <<clock, overrides, gateway>>
  <2>1. step[w] \in Dispatching
    BY <1>1 DEF CreateRun, PushRun, MarkQueued, Dispatching
  <2>2. executions[job[w].execution] \in Execution
    BY <2>1, JobFacts
  <2>3. PICK s \in Statuses, r \in RunStates, then \in Dispatching : DispatchCall(w, s, r, then)
    <3>1. /\ executions[job[w].execution].status \in Statuses
          /\ executions[job[w].execution].run \in RunStates
      BY <2>2 DEF Execution, Statuses, RunStates
    <3> QED
      BY <1>1, <3>1, DispatchCalls DEF Statuses, RunStates, Dispatching
  <2> QED
    BY <2>1, <2>3, DispatchCallTyped DEF DispatchCall
<1>2. ASSUME AdvanceDispatched(w) \/ AdvanceRecorded(w)
      PROVE  rows' \in [Definitions -> Row] /\ UNCHANGED <<clock, overrides, executions, gateway>>
  <2>1. job[w].definition \in Definitions /\ job[w].nextDue \in Dues
    BY <1>2, JobFacts DEF AdvanceDispatched, AdvanceRecorded, Dispatching
  <2> QED
    BY <1>2, <2>1, StoredDue DEF AdvanceDispatched, AdvanceRecorded
<1>3. ASSUME AdvanceDispatched(w) \/ (AdvanceRecorded(w) /\ w \notin Loops)
      PROVE  StoreTypeOK' /\ SchedulerTypeOK' /\ WorkerInv' /\ UNCHANGED <<clock, overrides, gateway>>
  <2>1. Left(w, {job[w].definition}) /\ (step'[w] = "scan" => w \in Loops)
    <3>1. CASE AdvanceDispatched(w)
      BY <3>1, AdvanceEffects
    <3>2. CASE AdvanceRecorded(w) /\ w \notin Loops
      BY <3>2, AdvanceEffects
    <3> QED
      BY <1>3, <3>1, <3>2
  <2>2. rows' \in [Definitions -> Row] /\ UNCHANGED <<clock, overrides, executions, gateway>>
    BY <1>2, <1>3
  <2> QED
    BY <1>0, <2>1, <2>2, LeftBase
<1>4. ASSUME AdvanceRecorded(w), w \in Loops
      PROVE  StoreTypeOK' /\ SchedulerTypeOK' /\ WorkerInv' /\ UNCHANGED <<clock, overrides, gateway>>
  <2>1. GoesOn(w) /\ rows' \in [Definitions -> Row] /\ UNCHANGED <<clock, overrides, executions, gateway>>
    BY <1>2, <1>4, AdvanceEffects
  <2>2. StoreTypeOK'
    BY <2>1 DEF BaseInv, TypeOK, StoreTypeOK
  <2>3. SchedulerTypeOK'
    <3>1. PICK s \in [Definitions -> Row] : seen' = [seen EXCEPT ![w] = s]
      BY <2>1 DEF GoesOn
    <3> QED
      BY <1>0, <2>1, <3>1, Blanks DEF GoesOn, SchedulerTypeOK
  <2>4. WorkerInv'
    <3> SUFFICES ASSUME NEW v \in Workers PROVE WorkerInv!(v)'
      BY DEF WorkerInv
    <3>1. CASE v = w
      <4>1. /\ step'[v] = "scan" /\ job'[v] = NoJob /\ todo'[v] = todo[v]
            /\ \A d \in Definitions : seen'[v][d].schedule = seen[v][d].schedule
        BY <1>0, <2>1, <3>1 DEF GoesOn, SchedulerTypeOK
      <4>2. todo[v] \subseteq Definitions
        BY <1>0 DEF SchedulerTypeOK
      <4>3. \A d \in todo'[v] : seen'[v][d].schedule # {}
        BY <1>4, <3>1, <4>1, <4>2 DEF BaseInv, WorkerInv
      <4> QED
        BY <1>4, <3>1, <4>1, <4>3 DEF Dispatching
    <3>2. CASE v # w
      <4>1. step'[v] = step[v] /\ todo'[v] = todo[v] /\ seen'[v] = seen[v] /\ job'[v] = job[v]
        BY <1>0, <2>1, <3>2 DEF SchedulerTypeOK, GoesOn
      <4> QED
        BY <2>1, <4>1 DEF BaseInv, WorkerInv
    <3> QED
      BY <3>1, <3>2
  <2> QED
    BY <2>1, <2>2, <2>3, <2>4
<1> QED
  BY <1>1, <1>3, <1>4 DEF DispatcherStep

LEMMA PersistedTyped ==
  ASSUME BaseInv, NEW r \in Requests, NEW d \in Configured
  PROVE  /\ Persisted(r, d) \in Row
         /\ Persisted(r, d).schedule = ConfigSchedule[d]
         /\ Persisted(r, d).origin # "none"
<1>1. /\ r \in Workers /\ d \in Definitions /\ ConfigEnabled[d] \in BOOLEAN
      /\ ConfigSchedule[d] \in Schedules \cup {{}}
  BY TriggerAssumption DEF Workers
<1>2. seen[r][d] \in Row /\ rows[d] \in Row /\ seenAt[r] \in 0..MaxTime
  BY <1>1 DEF BaseInv, TypeOK, SchedulerTypeOK, StoreTypeOK
<1>3. SelectNextDueAt(seen[r][d].nextDue, ConfigSchedule[d], seenAt[r]) \in {Never} \cup Minutes
  <2>1. ConfigSchedule[d] # {} => Following(ConfigSchedule[d], seenAt[r]) \in Minutes
    BY <1>1, <1>2, FollowingIsNext
  <2> QED
    BY <1>2, <2>1 DEF SelectNextDueAt, Row
<1> QED
  BY <1>1, <1>2, <1>3 DEF Persisted, Row

(* A sync treats one definition of those it has left.                      *)
Treated(r, d) ==
  /\ d \in todo[r]
  /\ todo' = [todo EXCEPT ![r] = todo[r] \ {d}] /\ todo'[r] = todo[r] \ {d}
  /\ seen' = [seen EXCEPT ![r] = seen'[r]] /\ seen'[r] \in [Definitions -> Row]
  /\ \A e \in Definitions : e # d => seen'[r][e] = seen[r][e]
  /\ UNCHANGED <<clock, overrides, executions, gateway, step, seenAt, job>>

LEMMA SyncEffects ==
  ASSUME BaseInv, NEW r \in Requests, NEW d \in Definitions
  PROVE  /\ UpsertDefinition(r, d) =>
              /\ Treated(r, d) /\ d \in Configured /\ step[r] = "sync"
              /\ rows' = [rows EXCEPT ![d] = Persisted(r, d)] /\ rows'[d] = Persisted(r, d)
         /\ DisableDefinition(r, d) =>
              /\ Treated(r, d) /\ d \notin Configured /\ step[r] = "sync" /\ seen' = seen
              /\ rows' = [rows EXCEPT ![d] = [rows[d] EXCEPT !.enabled = FALSE, !.nextDue = Never]]
<1>0. /\ r \in Workers /\ todo \in [Workers -> SUBSET Definitions]
      /\ seen \in [Workers -> [Definitions -> Row]] /\ rows \in [Definitions -> Row]
  BY DEF BaseInv, TypeOK, StoreTypeOK, SchedulerTypeOK, Workers
<1>1. ASSUME todo' = [todo EXCEPT ![r] = @ \ {d}]
      PROVE  todo' = [todo EXCEPT ![r] = todo[r] \ {d}] /\ todo'[r] = todo[r] \ {d}
  BY <1>0, <1>1
<1>2. ASSUME UpsertDefinition(r, d)
      PROVE  /\ Treated(r, d) /\ d \in Configured /\ step[r] = "sync"
             /\ rows' = [rows EXCEPT ![d] = Persisted(r, d)] /\ rows'[d] = Persisted(r, d)
  <2>1. d \in todo[r] /\ d \in Configured
    BY <1>2 DEF UpsertDefinition, First
  <2>2. seen' = [seen EXCEPT ![r] = [seen[r] EXCEPT ![d] = NoRow]]
    BY <1>2 DEF UpsertDefinition
  <2>3. /\ seen'[r] = [seen[r] EXCEPT ![d] = NoRow]
        /\ seen'[r] \in [Definitions -> Row]
        /\ \A e \in Definitions : e # d => seen'[r][e] = seen[r][e]
    BY <1>0, <2>2, Blanks
  <2> QED
    BY <1>0, <1>1, <1>2, <2>1, <2>2, <2>3 DEF UpsertDefinition, Treated
<1>3. ASSUME DisableDefinition(r, d)
      PROVE  /\ Treated(r, d) /\ d \notin Configured /\ step[r] = "sync" /\ seen' = seen
             /\ rows' = [rows EXCEPT ![d] = [rows[d] EXCEPT !.enabled = FALSE, !.nextDue = Never]]
  <2>1. d \in todo[r] /\ d \notin Configured
    BY <1>3 DEF DisableDefinition, First
  <2>2. seen' = [seen EXCEPT ![r] = seen[r]] /\ seen[r] \in [Definitions -> Row] /\ seen' = seen
    BY <1>0, <1>3 DEF DisableDefinition
  <2>3. rows' = [rows EXCEPT ![d] = [rows[d] EXCEPT !.enabled = FALSE, !.nextDue = Never]]
    BY <1>0, <1>3 DEF DisableDefinition
  <2> QED
    BY <1>1, <1>3, <2>1, <2>2, <2>3 DEF DisableDefinition, Treated
<1> QED
  BY <1>2, <1>3

LEMMA TreatedBase ==
  ASSUME BaseInv, NEW r \in Requests, NEW d \in Definitions, Treated(r, d),
         rows' \in [Definitions -> Row]
  PROVE  StoreTypeOK' /\ SchedulerTypeOK' /\ WorkerInv'
<1>0. /\ r \in Workers /\ r \notin Loops
      /\ todo \in [Workers -> SUBSET Definitions] /\ seen \in [Workers -> [Definitions -> Row]]
  BY SchedulerAssumption DEF BaseInv, TypeOK, SchedulerTypeOK, Workers
<1>1. StoreTypeOK'
  BY DEF BaseInv, TypeOK, StoreTypeOK, Treated
<1>2. SchedulerTypeOK'
  <2>1. PICK s \in [Definitions -> Row] : seen' = [seen EXCEPT ![r] = s]
    BY DEF Treated
  <2> QED
    BY <1>0, <2>1 DEF Treated, BaseInv, TypeOK, SchedulerTypeOK
<1>3. WorkerInv'
  <2> SUFFICES ASSUME NEW v \in Workers PROVE WorkerInv!(v)'
    BY DEF WorkerInv
  <2>1. CASE v = r
    BY <1>0, <2>1 DEF Treated, BaseInv, WorkerInv
  <2>2. CASE v # r
    <3>1. todo'[v] = todo[v] /\ seen'[v] = seen[v]
      BY <1>0, <2>2 DEF Treated
    <3> QED
      BY <3>1 DEF Treated, BaseInv, WorkerInv
  <2> QED
    BY <2>1, <2>2
<1> QED
  BY <1>1, <1>2, <1>3

(* The synchronisation and the webhook.                                    *)
LEMMA RequestBase ==
  ASSUME BaseInv, NEW r \in Requests, RequestStep(r)
  PROVE  StoreTypeOK' /\ SchedulerTypeOK' /\ WorkerInv' /\ UNCHANGED <<clock, overrides>>
<1>0. r \in Workers /\ SchedulerTypeOK /\ r \notin Loops /\ clock \in Dues
  <2>1. clock \in 0..MaxTime /\ MaxTime \in Nat
    BY TriggerAssumption DEF BaseInv, TypeOK, StoreTypeOK
  <2> QED
    BY <2>1, SchedulerAssumption DEF Workers, BaseInv, TypeOK, Dues, Never, Minutes
<1>1. CASE StartSync(r)
  <2> DEFINE all == Configured \cup NoLongerConfigured
             read == [d \in Definitions |-> IF d \in Configured THEN rows[d] ELSE NoRow]
  <2>1. /\ step' = [step EXCEPT ![r] = "sync"]
        /\ todo' = [todo EXCEPT ![r] = all]
        /\ seen' = [seen EXCEPT ![r] = read]
        /\ seenAt' = [seenAt EXCEPT ![r] = clock]
        /\ UNCHANGED <<clock, rows, overrides, executions, gateway, job>>
        /\ step[r] = "idle"
    BY <1>1 DEF StartSync, Goto, storeVars
  <2>2. all \subseteq Definitions
    BY TriggerAssumption DEF NoLongerConfigured
  <2>3. read \in [Definitions -> Row]
    BY Blanks DEF BaseInv, TypeOK, StoreTypeOK
  <2> HIDE DEF all, read
  <2>4. StoreTypeOK'
    BY <2>1 DEF BaseInv, TypeOK, StoreTypeOK
  <2>5. SchedulerTypeOK'
    BY <1>0, <2>1, <2>2, <2>3 DEF SchedulerTypeOK, BaseInv, TypeOK, StoreTypeOK
  <2>6. WorkerInv'
    <3> SUFFICES ASSUME NEW v \in Workers PROVE WorkerInv!(v)'
      BY DEF WorkerInv
    <3>1. CASE v = r
      <4>1. step'[v] = "sync" /\ job'[v] = NoJob
        BY <1>0, <2>1, <3>1 DEF SchedulerTypeOK, BaseInv, WorkerInv, Dispatching
      <4> QED
        BY <1>0, <3>1, <4>1 DEF Dispatching
    <3>2. CASE v # r
      <4>1. step'[v] = step[v] /\ todo'[v] = todo[v] /\ seen'[v] = seen[v] /\ job'[v] = job[v]
        BY <1>0, <2>1, <3>2 DEF SchedulerTypeOK
      <4> QED
        BY <2>1, <4>1 DEF BaseInv, WorkerInv
    <3> QED
      BY <3>1, <3>2
  <2> QED
    BY <2>1, <2>4, <2>5, <2>6
<1>2. CASE FinishSync(r)
  <2>1. Left(r, {}) /\ step'[r] = "idle"
    BY <1>0, <1>2, ReleaseLeaves DEF FinishSync
  <2>2. /\ gateway' = "up" /\ rows' \in [Definitions -> Row]
        /\ UNCHANGED <<clock, rows, overrides, executions>>
    BY <1>2 DEF FinishSync, storeVars, BaseInv, TypeOK, StoreTypeOK
  <2> QED
    BY <1>0, <2>1, <2>2, LeftBase
<1>3. ASSUME NEW d \in Definitions, UpsertDefinition(r, d) \/ DisableDefinition(r, d)
      PROVE  StoreTypeOK' /\ SchedulerTypeOK' /\ WorkerInv' /\ UNCHANGED <<clock, overrides>>
  <2>0. rows \in [Definitions -> Row]
    BY DEF BaseInv, TypeOK, StoreTypeOK
  <2>1. Treated(r, d)
    BY <1>3, SyncEffects
  <2>2. rows' \in [Definitions -> Row]
    <3>1. CASE UpsertDefinition(r, d)
      <4>1. d \in Configured /\ rows' = [rows EXCEPT ![d] = Persisted(r, d)]
        BY <3>1, SyncEffects
      <4>2. Persisted(r, d) \in Row
        BY <4>1, PersistedTyped
      <4> QED
        BY <2>0, <4>1, <4>2
    <3>2. CASE DisableDefinition(r, d)
      <4> DEFINE off == [rows[d] EXCEPT !.enabled = FALSE, !.nextDue = Never]
      <4>1. off \in Row
        BY <2>0 DEF Row
      <4>2. rows' = [rows EXCEPT ![d] = off]
        BY <3>2, SyncEffects
      <4> HIDE DEF off
      <4> QED
        BY <2>0, <4>1, <4>2
    <3> QED
      BY <1>3, <3>1, <3>2
  <2> QED
    BY <2>1, <2>2, TreatedBase DEF Treated
<1>4. ASSUME NEW d \in Definitions, RejectWebhook(r, d) \/ AcceptWebhook(r, d)
      PROVE  StoreTypeOK' /\ SchedulerTypeOK' /\ WorkerInv' /\ UNCHANGED <<clock, overrides>>
  <2>1. PICK s \in FirstStatuses, then \in Dispatching : Record(r, d, clock, s, Never, then)
    BY <1>4 DEF RejectWebhook, AcceptWebhook, FirstStatuses, Dispatching
  <2>2. todo[r] = {}
    BY <1>4 DEF RejectWebhook, AcceptWebhook, Synced
  <2>3. WorkerInv'
    BY <1>0, <2>1, <2>2, RecordKeepsWorkers, MinutesAreDues
  <2>4. Noted(r, d, clock, s, Never, then) /\ StoreTypeOK' /\ SchedulerTypeOK'
    BY <1>0, <2>1, RecordTyped, MinutesAreDues
  <2> QED
    BY <2>3, <2>4 DEF Noted
<1> QED
  BY <1>1, <1>2, <1>3, <1>4 DEF RequestStep

(* The operations of an agent.                                             *)
LEMMA ManagerBase ==
  ASSUME BaseInv, ManagerStep
  PROVE  /\ StoreTypeOK' /\ ManagementTypeOK' /\ ManagerInv'
         /\ UNCHANGED <<clock, executions, gateway, workerVars>>
<1>0. /\ StoreTypeOK /\ ManagementTypeOK /\ rows \in [Definitions -> Row]
      /\ overrides \in [Definitions -> Override]
  BY DEF BaseInv, TypeOK, StoreTypeOK
<1>1. ASSUME NEW d \in Definitions, NEW s \in ManagedSchedules, CreateSchedule(d, s)
      PROVE  /\ StoreTypeOK' /\ ManagementTypeOK' /\ ManagerInv'
             /\ UNCHANGED <<clock, executions, gateway, workerVars>>
  <2> DEFINE row == [origin |-> "agent", enabled |-> TRUE, schedule |-> s,
                     nextDue |-> Following(s, clock), createdAt |-> clock]
  <2>1. row \in Row
    <3>1. s \in Schedules /\ Following(s, clock) \in Minutes /\ clock \in 0..MaxTime
      BY <1>0, ManagementAssumption, FollowingIsNext DEF StoreTypeOK
    <3> QED
      BY <3>1 DEF Row
  <2>2. /\ rows' = [rows EXCEPT ![d] = row] /\ ManagerFree /\ managed' = managed + 1
        /\ UNCHANGED <<clock, overrides, executions, gateway, workerVars, managerStep, request,
                       baseline>>
    BY <1>1 DEF CreateSchedule
  <2> HIDE DEF row
  <2> QED
    BY <1>0, <2>1, <2>2, ManagementAssumption
    DEF StoreTypeOK, ManagementTypeOK, ManagerFree, BaseInv, ManagerInv
<1>2. ASSUME NEW d \in Definitions, NEW o \in {"update", "disable", "enable"},
             NEW on \in BOOLEAN, NEW s \in Schedules \cup {{}}, NEW moved \in BOOLEAN,
             Match(d, o, on, s, moved), s # {},
             o = "disable" => ~on, o = "update" => on = Effective(d).enabled
      PROVE  /\ StoreTypeOK' /\ ManagementTypeOK' /\ ManagerInv'
             /\ UNCHANGED <<clock, executions, gateway, workerVars>>
  <2> DEFINE q == [operation |-> o, definition |-> d, enabled |-> on, schedule |-> s,
                   rescheduled |-> moved]
  <2>1. /\ managerStep' = "override" /\ request' = q
        /\ ManagerFree /\ managed' = managed + 1
        /\ UNCHANGED <<clock, rows, overrides, executions, gateway, workerVars, baseline>>
    BY <1>2 DEF Match, storeVars
  <2>2. ManagementTypeOK'
    BY <1>0, <2>1, ManagementAssumption DEF ManagementTypeOK, ManagerFree
  <2>3. overrides[d].overridden => on = overrides[d].enabled \/ o # "update"
    BY <1>0, <1>2, EffectiveTyped
  <2>4. ManagerInv'
    BY <1>2, <2>1, <2>3 DEF ManagerInv
  <2> QED
    BY <1>0, <2>1, <2>2, <2>4 DEF StoreTypeOK
<1>3. ASSUME NEW d \in Definitions, NEW s \in ManagedSchedules, Update(d, s)
      PROVE  /\ StoreTypeOK' /\ ManagementTypeOK' /\ ManagerInv'
             /\ UNCHANGED <<clock, executions, gateway, workerVars>>
  <2>1. s \in Schedules \cup {{}} /\ s # {} /\ Effective(d).enabled \in BOOLEAN
    BY <1>0, ManagementAssumption, EffectiveTyped DEF Schedules
  <2>2. Match(d, "update", Effective(d).enabled, s, s # Effective(d).schedule)
    BY <1>3 DEF Update
  <2>3. PICK moved \in BOOLEAN : Match(d, "update", Effective(d).enabled, s, moved)
    BY <2>2, Zenon
  <2> QED
    BY <1>2, <2>1, <2>3
<1>4. ASSUME NEW d \in Definitions, Disable(d) \/ Enable(d)
      PROVE  /\ StoreTypeOK' /\ ManagementTypeOK' /\ ManagerInv'
             /\ UNCHANGED <<clock, executions, gateway, workerVars>>
  <2>1. Effective(d).schedule # {} /\ Effective(d).schedule \in Schedules \cup {{}}
    BY <1>0, <1>4, EffectiveTyped DEF Disable, Enable, Match
  <2> QED
    BY <1>2, <1>4, <2>1 DEF Disable, Enable
<1>5. CASE UpsertOverride
  <2>1. request.definition \in Definitions /\ request.definition # NoDefinition
    BY <1>5, SchedulerAssumption DEF UpsertOverride, BaseInv, ManagerInv
  <2>2. PICK d \in Definitions : d = request.definition
    BY <2>1
  <2> DEFINE o == [overridden |-> TRUE, enabled |-> request.enabled, schedule |-> request.schedule]
  <2>3. o \in Override
    BY <1>0 DEF ManagementTypeOK, Override
  <2>4. overrides' = [overrides EXCEPT ![d] = o]
    BY <1>5, <2>2 DEF UpsertOverride, SetOverride
  <2>5. overrides'[d].overridden
    BY <1>0, <2>4
  <2> HIDE DEF o
  <2> QED
    BY <1>0, <1>5, <2>2, <2>3, <2>4, <2>5
    DEF UpsertOverride, StoreTypeOK, ManagementTypeOK, BaseInv, ManagerInv
<1>6. CASE Reschedule
  <2>1. request.definition \in Definitions /\ Following(request.schedule, clock) \in Dues
    <3>1. request.definition \in Definitions /\ request.schedule # {}
      BY <1>6 DEF Reschedule, BaseInv, ManagerInv
    <3>2. request.schedule \in Schedules /\ clock \in 0..MaxTime
      BY <1>0, <3>1 DEF ManagementTypeOK, StoreTypeOK
    <3> QED
      BY <3>1, <3>2, FollowingIsNext, MinutesAreDues
  <2>2. rows' \in [Definitions -> Row]
    BY <1>6, <2>1, StoredDue DEF Reschedule
  <2> QED
    BY <1>0, <1>6, <2>2 DEF Reschedule, StoreTypeOK, ManagementTypeOK, BaseInv, ManagerInv
<1>7. CASE ReadBaseline
  <2>1. request.definition \in Definitions
    BY <1>7 DEF ReadBaseline, BaseInv, ManagerInv
  <2> QED
    BY <1>0, <1>7, <2>1
    DEF ReadBaseline, StoreTypeOK, ManagementTypeOK, BaseInv, ManagerInv, storeVars
<1>8. CASE WriteAudit
  <2>1. request.definition \in Definitions /\ baseline \in Row
    BY <1>0, <1>8 DEF WriteAudit, BaseInv, ManagerInv, ManagementTypeOK
  <2>2. /\ managerStep' = "idle" /\ request' = NoRequest /\ baseline' = NoRow
        /\ rows' = [rows EXCEPT ![request.definition] = baseline]
        /\ UNCHANGED <<clock, overrides, executions, gateway, workerVars, managed>>
    BY <1>8 DEF WriteAudit, ReleaseManager
  <2>3. ManagementTypeOK' /\ ManagerInv'
    BY <1>0, <2>2, Blanks DEF ManagementTypeOK, NoRequest, ManagerInv
  <2> QED
    BY <1>0, <2>1, <2>2, <2>3 DEF StoreTypeOK
<1> QED
  BY <1>1, <1>3, <1>4, <1>5, <1>6, <1>7, <1>8 DEF ManagerStep

(* What the executor writes of an execution.                               *)
ExecutorWrites(i) ==
  /\ Len(executions') = Len(executions)
  /\ \A j \in 1..Len(executions) : /\ executions'[j].definition = executions[j].definition
                                   /\ executions'[j].due = executions[j].due
                                   /\ j # i => executions'[j] = executions[j]
  /\ executions[i].run \in {"queued", "running"}
  /\ executions'[i].status \in {"running", "finished"}
  /\ executions'[i].run \in {"running", "finished"}
  /\ UNCHANGED <<clock, rows, overrides, gateway, workerVars, managerVars>>

LEMMA ExecutorBase ==
  ASSUME BaseInv, NEW i \in 1..Len(executions), RunStarts(i) \/ RunEnds(i)
  PROVE  StoreTypeOK' /\ ExecutorWrites(i)
<1>1. PICK s \in {"running", "finished"} :
        executions' = [executions EXCEPT ![i].run = s, ![i].status = s]
  BY DEF RunStarts, RunEnds
<1>2. executions \in Seq(Execution) /\ executions[i] \in Execution
  BY ElementOfSeq DEF BaseInv, TypeOK, StoreTypeOK
<1>3. executions' = [executions EXCEPT ![i] = [executions[i] EXCEPT !.status = s, !.run = s]]
  <2>1. [[executions[i] EXCEPT !.run = s] EXCEPT !.status = s]
          = [executions[i] EXCEPT !.status = s, !.run = s]
    BY <1>2 DEF Execution
  <2>2. i \in DOMAIN executions
    BY <1>2, LenProperties
  <2> QED
    BY <1>1, <2>1, <2>2
<1>4. s \in Statuses /\ s \in RunStates
  BY DEF Statuses, RunStates
<1>5. /\ executions' \in Seq(Execution)
      /\ Len(executions') = Len(executions)
      /\ executions'[i].status = s /\ executions'[i].run = s
      /\ \A j \in 1..Len(executions) : /\ executions'[j].definition = executions[j].definition
                                       /\ executions'[j].due = executions[j].due
                                       /\ j # i => executions'[j] = executions[j]
  BY <1>2, <1>3, <1>4, StatusIsSet, Zenon
<1>6. /\ executions[i].run \in {"queued", "running"}
      /\ UNCHANGED <<clock, rows, overrides, gateway, workerVars, managerVars>>
  BY DEF RunStarts, RunEnds
<1>7. StoreTypeOK'
  BY <1>5, <1>6 DEF BaseInv, TypeOK, StoreTypeOK
<1> QED
  BY <1>5, <1>6, <1>7 DEF ExecutorWrites

(* A call that is rejected, and a crash.                                   *)
MishapEffect ==
  \/ \E w \in Workers : /\ Left(w, {}) /\ step[w] # "idle" /\ step'[w] = "idle"
                        /\ gateway' = IF gateway = "starting" THEN "down" ELSE gateway
                        /\ UNCHANGED managerVars
  \/ /\ managerStep' = "idle" /\ request' = NoRequest /\ baseline' = NoRow
     /\ UNCHANGED <<gateway, workerVars, managed>>
  \/ /\ gateway # "down" /\ gateway' = "down"
     /\ step' = [w \in Workers |-> "idle"] /\ todo' = [w \in Workers |-> {}]
     /\ seen' = [w \in Workers |-> NothingSeen] /\ seenAt' = [w \in Workers |-> 0]
     /\ job' = [w \in Workers |-> NoJob]
     /\ managerStep' = "idle" /\ request' = NoRequest /\ baseline' = NoRow
     /\ UNCHANGED managed

LEMMA MishapEffects ==
  ASSUME BaseInv, Mishap
  PROVE  /\ MishapEffect /\ UNCHANGED <<clock, rows, overrides, executions>>
         /\ mishaps < MaxMishaps /\ mishaps' = mishaps + 1
<1>1. ASSUME NEW w \in Workers, CallRejected(w)
      PROVE  MishapEffect /\ UNCHANGED <<clock, rows, overrides, executions>>
  BY <1>1, ReleaseLeaves DEF CallRejected, MishapEffect, BaseInv, TypeOK, storeVars
<1>2. ASSUME ManagerCallRejected
      PROVE  MishapEffect /\ UNCHANGED <<clock, rows, overrides, executions>>
  BY <1>2 DEF ManagerCallRejected, ReleaseManager, MishapEffect, storeVars
<1>3. ASSUME Crash
      PROVE  MishapEffect /\ UNCHANGED <<clock, rows, overrides, executions>>
  BY <1>3 DEF Crash, ReleaseManager, MishapEffect, storeVars
<1> QED
  BY <1>1, <1>2, <1>3 DEF Mishap

LEMMA MishapBase ==
  ASSUME BaseInv, Mishap
  PROVE  StoreTypeOK' /\ SchedulerTypeOK' /\ ManagementTypeOK' /\ WorkerInv' /\ ManagerInv'
<1>0. /\ UNCHANGED <<clock, rows, overrides, executions>> /\ MishapEffect
      /\ StoreTypeOK /\ SchedulerTypeOK /\ ManagementTypeOK
  BY MishapEffects DEF BaseInv, TypeOK
<1>1. StoreTypeOK'
  BY <1>0 DEF StoreTypeOK
<1>2. ASSUME NEW w \in Workers, Left(w, {}), step'[w] = "idle", UNCHANGED managerVars,
             gateway' = IF gateway = "starting" THEN "down" ELSE gateway
      PROVE  SchedulerTypeOK' /\ ManagementTypeOK' /\ WorkerInv' /\ ManagerInv'
  <2>1. gateway' \in {"down", "starting", "up"} /\ rows' \in [Definitions -> Row]
    BY <1>0, <1>2 DEF SchedulerTypeOK, StoreTypeOK
  <2>2. SchedulerTypeOK' /\ WorkerInv'
    BY <1>0, <1>2, <2>1, LeftBase
  <2> QED
    BY <1>0, <1>2, <2>2 DEF ManagementTypeOK, managerVars, BaseInv, ManagerInv
<1>3. ASSUME managerStep' = "idle", request' = NoRequest, baseline' = NoRow, UNCHANGED managed
      PROVE  ManagementTypeOK' /\ ManagerInv'
  BY <1>0, <1>3, Blanks DEF ManagementTypeOK, NoRequest, ManagerInv
<1>4. ASSUME UNCHANGED <<gateway, workerVars>>
      PROVE  SchedulerTypeOK' /\ WorkerInv'
  BY <1>0, <1>4 DEF SchedulerTypeOK, WorkerInv, workerVars, BaseInv
<1>5. ASSUME gateway' = "down", step' = [w \in Workers |-> "idle"], todo' = [w \in Workers |-> {}],
             seen' = [w \in Workers |-> NothingSeen], seenAt' = [w \in Workers |-> 0],
             job' = [w \in Workers |-> NoJob]
      PROVE  SchedulerTypeOK' /\ WorkerInv'
  BY <1>5, Blanks, TriggerAssumption DEF SchedulerTypeOK, WorkerInv, Dispatching
<1> QED
  BY <1>0, <1>1, <1>2, <1>3, <1>4, <1>5 DEF MishapEffect

LEMMA InitBase == Init => BaseInv
<1> SUFFICES ASSUME Init PROVE BaseInv
  OBVIOUS
<1>1. StoreTypeOK
  BY Blanks, TriggerAssumption DEF Init, StoreInit, StoreTypeOK
<1>2. SchedulerTypeOK /\ WorkerInv
  BY Blanks, TriggerAssumption
  DEF Init, SchedulerInit, SchedulerTypeOK, WorkerInv, Dispatching
<1>3. ManagementTypeOK /\ ManagerInv
  BY Blanks, ManagementAssumption
  DEF Init, ManagementInit, ManagementTypeOK, NoRequest, ManagerInv
<1>4. mishaps \in 0..MaxMishaps /\ overlapped \in BOOLEAN
  <2>1. mishaps \in 0..MaxMishaps
    BY MishapAssumption DEF Init
  <2>2. overlapped \in BOOLEAN
    BY DEF Init
  <2> QED
    BY <2>1, <2>2
<1> QED
  BY <1>1, <1>2, <1>3, <1>4 DEF BaseInv, TypeOK

LEMMA NextBase == BaseInv /\ [Next]_vars => BaseInv'
<1> SUFFICES ASSUME BaseInv, [Next]_vars PROVE BaseInv'
  OBVIOUS
<1>0. /\ StoreTypeOK /\ SchedulerTypeOK /\ ManagementTypeOK
      /\ mishaps \in 0..MaxMishaps /\ overlapped \in BOOLEAN
  BY DEF BaseInv, TypeOK
<1>1. mishaps' \in 0..MaxMishaps
  <2>1. mishaps' = mishaps \/ (mishaps < MaxMishaps /\ mishaps' = mishaps + 1)
    BY DEF Next, WellBehaved, Mishap, vars
  <2> QED
    BY <1>0, <2>1, MishapAssumption
<1>2. overlapped' \in BOOLEAN
  BY <1>0 DEF Next, Observe, vars
<1>3. ASSUME WorkerStep, UNCHANGED managerVars
      PROVE  StoreTypeOK' /\ SchedulerTypeOK' /\ ManagementTypeOK' /\ WorkerInv' /\ ManagerInv'
  <2>1. StoreTypeOK' /\ SchedulerTypeOK' /\ WorkerInv' /\ UNCHANGED <<clock, overrides>>
    BY <1>3, LoopBase, DispatcherBase, RequestBase DEF WorkerStep
  <2> QED
    BY <1>0, <1>3, <2>1 DEF ManagementTypeOK, managerVars, BaseInv, ManagerInv
<1>4. ASSUME ManagerStep
      PROVE  StoreTypeOK' /\ SchedulerTypeOK' /\ ManagementTypeOK' /\ WorkerInv' /\ ManagerInv'
  <2>1. /\ StoreTypeOK' /\ ManagementTypeOK' /\ ManagerInv'
        /\ UNCHANGED <<clock, executions, gateway, workerVars>>
    BY <1>4, ManagerBase
  <2> QED
    BY <1>0, <2>1, WorkerInvKept DEF SchedulerTypeOK, workerVars
<1>5. ASSUME ExecutorStep
      PROVE  StoreTypeOK' /\ SchedulerTypeOK' /\ ManagementTypeOK' /\ WorkerInv' /\ ManagerInv'
  <2>1. PICK i \in 1..Len(executions) : StoreTypeOK' /\ ExecutorWrites(i)
    BY <1>5, ExecutorBase DEF ExecutorStep
  <2>2. /\ Len(executions') = Len(executions)
        /\ UNCHANGED <<clock, rows, overrides, gateway, workerVars, managerVars>>
    BY <2>1 DEF ExecutorWrites
  <2> QED
    BY <1>0, <2>1, <2>2, WorkerInvKept
    DEF SchedulerTypeOK, workerVars, ManagementTypeOK, managerVars, ManagerInv, BaseInv
<1>6. ASSUME TimePasses \/ StartGateway \/ UNCHANGED vars
      PROVE  StoreTypeOK' /\ SchedulerTypeOK' /\ ManagementTypeOK' /\ WorkerInv' /\ ManagerInv'
  <2>1. /\ clock' \in 0..MaxTime /\ gateway' \in {"down", "starting", "up"}
        /\ UNCHANGED <<rows, overrides, executions, workerVars, managerVars>>
    BY <1>0, <1>6, TriggerAssumption
    DEF TimePasses, Tick, StartGateway, vars, storeVars, StoreTypeOK, SchedulerTypeOK
  <2> QED
    BY <1>0, <2>1, WorkerInvKept
    DEF StoreTypeOK, SchedulerTypeOK, workerVars, ManagementTypeOK, managerVars, ManagerInv, BaseInv
<1>7. StoreTypeOK' /\ SchedulerTypeOK' /\ ManagementTypeOK' /\ WorkerInv' /\ ManagerInv'
  BY <1>3, <1>4, <1>5, <1>6, MishapBase DEF Next, WellBehaved
<1> QED
  BY <1>1, <1>2, <1>7 DEF BaseInv, TypeOK

LEMMA BaseAlways == Spec => []BaseInv
<1> QED
  BY InitBase, NextBase, PTL DEF Spec

(* The rows, the executions and what the workers and the agent keep of     *)
(* them have the types of the code's tables and objects.                   *)
THEOREM TypesHold == Spec => []TypeOK
<1>1. BaseInv => TypeOK
  BY DEF BaseInv
<1> QED
  BY <1>1, BaseAlways, PTL

---------------------------------------------------------------------------
(* An execution is never ahead of its run, and none is noted and           *)
(* forgotten.  The argument is that an execution belongs to one dispatch,  *)
(* whose next call goes with what the execution and its run say; a         *)
(* dispatch takes the index of a new row, so no two take the same.         *)

ExecInv == BaseInv /\ DispatchInv /\ QueuedIsPushed /\ AcceptedInv

LEMMA InitExec == Init => ExecInv
<1> SUFFICES ASSUME Init PROVE ExecInv
  OBVIOUS
<1>1. BaseInv /\ executions = << >> /\ \A w \in Workers : step[w] = "idle"
  BY InitBase DEF Init, StoreInit, SchedulerInit
<1> QED
  BY <1>1 DEF ExecInv, DispatchInv, QueuedIsPushed, AcceptedInv, Dispatching

(* Nothing of a dispatch changes.                                          *)
LEMMA DispatchKept ==
  ASSUME ExecInv, UNCHANGED <<step, job, executions>>, mishaps' = 0 => mishaps = 0
  PROVE  DispatchInv' /\ QueuedIsPushed' /\ AcceptedInv'
<1> QED
  BY DEF ExecInv, DispatchInv, QueuedIsPushed, AcceptedInv

(* One worker has nothing to do with a dispatch before or after.           *)
LEMMA DispatchUntouched ==
  ASSUME ExecInv, NEW w \in Workers, executions' = executions,
         step' = [step EXCEPT ![w] = step'[w]], step'[w] \notin Dispatching,
         job' = [job EXCEPT ![w] = job'[w]], job'[w] = NoJob,
         mishaps' = 0 => mishaps = 0 /\ step[w] \notin {"createRun", "push", "markQueued"}
  PROVE  DispatchInv' /\ QueuedIsPushed' /\ AcceptedInv'
<1>0. SchedulerTypeOK /\ WorkerInv
  BY DEF ExecInv, BaseInv, TypeOK
<1>1. \A v \in Workers : v # w => step'[v] = step[v] /\ job'[v] = job[v]
  BY <1>0 DEF SchedulerTypeOK
<1>2. job'[w].execution = 0
  BY DEF NoJob
<1>3. DispatchInv'
  <2> SUFFICES ASSUME NEW v \in Workers PROVE DispatchInv!(v)'
    BY DEF DispatchInv
  <2>1. CASE v = w
    BY <2>1 DEF Dispatching
  <2>2. CASE v # w
    <3>1. step'[v] = step[v] /\ job'[v] = job[v]
      BY <1>1, <2>2
    <3>2. ASSUME step[v] \in Dispatching PROVE job[v].execution # 0
      BY <1>0, <3>2 DEF WorkerInv
    <3>3. ASSUME step[v] \in Dispatching, NEW u \in Workers, u # v
          PROVE  job'[u].execution # job[v].execution
      BY <1>1, <1>2, <3>2, <3>3 DEF ExecInv, DispatchInv
    <3> QED
      BY <3>1, <3>3 DEF ExecInv, DispatchInv
  <2> QED
    BY <2>1, <2>2
<1>4. QueuedIsPushed'
  BY DEF ExecInv, QueuedIsPushed
<1>5. AcceptedInv'
  BY <1>1 DEF ExecInv, AcceptedInv
<1> QED
  BY <1>3, <1>4, <1>5

(* A new execution, which is nobody else's.                                *)
LEMMA DispatchStarts ==
  ASSUME ExecInv, NEW w \in Workers, NEW d \in Definitions, NEW due \in Dues,
         NEW s \in FirstStatuses, NEW nextDue \in Dues, NEW then \in Dispatching,
         Noted(w, d, due, s, nextDue, then), mishaps' = mishaps, job[w] = NoJob,
         then = (IF s = "accepted" THEN "createRun" ELSE "advanceRecorded")
  PROVE  DispatchInv' /\ QueuedIsPushed' /\ AcceptedInv'
<1> DEFINE n == Len(executions)
<1>0. SchedulerTypeOK /\ WorkerInv
  BY DEF ExecInv, BaseInv, TypeOK
<1>1. /\ step' = [step EXCEPT ![w] = then] /\ step'[w] = then
      /\ job' = [job EXCEPT ![w] = job'[w]]
      /\ job'[w].execution = n + 1
      /\ n \in Nat
      /\ Len(executions') = n + 1
      /\ \A i \in 1..n : executions'[i] = executions[i]
      /\ executions'[n + 1].status = s /\ executions'[n + 1].run = "none"
  BY DEF Noted
<1> HIDE DEF n
<1>2. \A v \in Workers : v # w => step'[v] = step[v] /\ job'[v] = job[v]
  BY <1>0, <1>1 DEF SchedulerTypeOK
<1>3. \A v \in Workers : job[v].execution \in 0..n
  <2>1. ASSUME NEW v \in Workers PROVE job[v].execution \in 0..n
    <3>1. CASE step[v] \in Dispatching
      BY <1>0, <1>1, <3>1 DEF WorkerInv, n
    <3>2. CASE step[v] \notin Dispatching
      BY <1>0, <1>1, <3>2 DEF WorkerInv, NoJob
    <3> QED
      BY <3>1, <3>2
  <2> QED
    BY <2>1
<1>4. DispatchInv'
  <2> SUFFICES ASSUME NEW v \in Workers PROVE DispatchInv!(v)'
    BY DEF DispatchInv
  <2>1. CASE v = w
    <3>1. \A u \in Workers : u # v => job'[u].execution # job'[v].execution
      BY <1>1, <1>2, <1>3, <2>1
    <3> QED
      BY <1>1, <2>1, <3>1
  <2>2. CASE v # w
    <3>1. step'[v] = step[v] /\ job'[v] = job[v]
      BY <1>2, <2>2
    <3>2. ASSUME step[v] \in Dispatching
          PROVE  /\ job[v].execution \in 1..n
                 /\ executions'[job[v].execution] = executions[job[v].execution]
      BY <1>0, <1>1, <3>2 DEF WorkerInv, n
    <3>3. ASSUME step[v] \in Dispatching, NEW u \in Workers, u # v
          PROVE  job'[u].execution # job[v].execution
      BY <1>1, <1>2, <3>2, <3>3 DEF ExecInv, DispatchInv
    <3> QED
      BY <3>1, <3>2, <3>3 DEF ExecInv, DispatchInv, Dispatching
  <2> QED
    BY <2>1, <2>2
<1>5. QueuedIsPushed'
  <2> SUFFICES ASSUME NEW i \in 1..(n + 1) PROVE QueuedIsPushed!(i)'
    BY <1>1 DEF QueuedIsPushed
  <2>1. CASE i = n + 1
    BY <1>1, <2>1 DEF FirstStatuses
  <2>2. CASE i # n + 1
    <3>1. i \in 1..n
      BY <1>1, <2>2
    <3> QED
      BY <1>1, <3>1 DEF ExecInv, QueuedIsPushed, n
  <2> QED
    BY <2>1, <2>2
<1>6. AcceptedInv'
  <2> SUFFICES ASSUME mishaps = 0, NEW i \in 1..(n + 1), executions'[i].status = "accepted"
               PROVE  \E v \in Workers : /\ job'[v].execution = i
                                         /\ step'[v] \in {"createRun", "push", "markQueued"}
    BY <1>1 DEF AcceptedInv
  <2>1. CASE i = n + 1
    BY <1>1, <2>1
  <2>2. CASE i # n + 1
    <3>1. i \in 1..n /\ executions[i].status = "accepted"
      BY <1>1, <2>2
    <3>2. PICK v \in Workers : /\ job[v].execution = i
                               /\ step[v] \in {"createRun", "push", "markQueued"}
      BY <3>1 DEF ExecInv, AcceptedInv, n
    <3>3. v # w
      BY <1>1, <3>1, <3>2 DEF NoJob
    <3> QED
      BY <1>2, <3>2, <3>3
  <2> QED
    BY <2>1, <2>2
<1> QED
  BY <1>4, <1>5, <1>6

(* A call of a dispatch on its own execution.                              *)
LEMMA DispatchGoesOn ==
  ASSUME ExecInv, NEW w \in Workers, mishaps' = mishaps,
         CreateRun(w) \/ PushRun(w) \/ MarkQueued(w)
  PROVE  DispatchInv' /\ QueuedIsPushed' /\ AcceptedInv'
<1> DEFINE e == job[w].execution
<1>0. BaseInv /\ SchedulerTypeOK /\ WorkerInv /\ step[w] \in Dispatching
  BY DEF ExecInv, BaseInv, TypeOK, CreateRun, PushRun, MarkQueued, Dispatching
<1>1. PICK s \in Statuses, r \in RunStates, then \in Dispatching :
        /\ DispatchCall(w, s, r, then)
        /\ \/ step[w] = "createRun" /\ s = executions[e].status /\ r = "created" /\ then = "push"
           \/ step[w] = "push" /\ s = executions[e].status /\ r = "queued" /\ then = "markQueued"
           \/ step[w] = "markQueued" /\ s = "queued" /\ r = executions[e].run /\ then = "advance"
  <2>1. executions[e] \in Execution
    BY <1>0, JobFacts
  <2>2. executions[e].status \in Statuses /\ executions[e].run \in RunStates
    BY <2>1 DEF Execution, Statuses, RunStates
  <2> QED
    BY <1>0, <2>2, DispatchCalls DEF CreateRun, PushRun, MarkQueued, Statuses, RunStates, Dispatching
<1>2. /\ Len(executions') = Len(executions)
      /\ executions'[e].status = s /\ executions'[e].run = r
      /\ \A j \in 1..Len(executions) : j # e => executions'[j] = executions[j]
      /\ step' = [step EXCEPT ![w] = then] /\ step'[w] = then
      /\ UNCHANGED job
  BY <1>0, <1>1, DispatchCallTyped
<1>3. \A v \in Workers : v # w => step'[v] = step[v]
  BY <1>0, <1>2 DEF SchedulerTypeOK
<1>4. e \in 1..Len(executions) /\ \A v \in Workers : v # w => job[v].execution # e
  BY <1>0 DEF WorkerInv, ExecInv, DispatchInv
<1>5. /\ step[w] = "createRun" => executions[e].run = "none" /\ executions[e].status = "accepted"
      /\ step[w] = "push" => executions[e].run = "created" /\ executions[e].status = "accepted"
      /\ step[w] = "markQueued" => executions[e].run \in Pushed
  BY DEF ExecInv, DispatchInv
<1> HIDE DEF e
<1>6. DispatchInv'
  <2> SUFFICES ASSUME NEW v \in Workers PROVE DispatchInv!(v)'
    BY DEF DispatchInv
  <2>1. CASE v = w
    <3>1. \A u \in Workers : u # v => job'[u].execution # job'[v].execution
      BY <1>2, <1>4, <2>1 DEF e
    <3> QED
      BY <1>1, <1>2, <1>5, <2>1, <3>1 DEF Pushed, e
  <2>2. CASE v # w
    <3>1. ASSUME step[v] \in Dispatching
          PROVE  executions'[job[v].execution] = executions[job[v].execution]
      BY <1>0, <1>2, <1>4, <2>2, <3>1 DEF WorkerInv
    <3> QED
      BY <1>2, <1>3, <2>2, <3>1 DEF ExecInv, DispatchInv, Dispatching
  <2> QED
    BY <2>1, <2>2
<1>7. QueuedIsPushed'
  <2> SUFFICES ASSUME NEW i \in 1..Len(executions) PROVE QueuedIsPushed!(i)'
    BY <1>2 DEF QueuedIsPushed
  <2>1. CASE i = e
    BY <1>1, <1>2, <1>5, <2>1 DEF Pushed
  <2>2. CASE i # e
    BY <1>2, <2>2 DEF ExecInv, QueuedIsPushed
  <2> QED
    BY <2>1, <2>2
<1>8. AcceptedInv'
  <2> SUFFICES ASSUME mishaps = 0, NEW i \in 1..Len(executions), executions'[i].status = "accepted"
               PROVE  \E v \in Workers : /\ job'[v].execution = i
                                         /\ step'[v] \in {"createRun", "push", "markQueued"}
    BY <1>2 DEF AcceptedInv
  <2>1. CASE i = e
    BY <1>1, <1>2, <2>1 DEF e
  <2>2. CASE i # e
    <3>1. PICK v \in Workers : /\ job[v].execution = i
                               /\ step[v] \in {"createRun", "push", "markQueued"}
      BY <1>2, <2>2 DEF ExecInv, AcceptedInv
    <3>2. v # w
      BY <2>2, <3>1 DEF e
    <3> QED
      BY <1>2, <1>3, <3>1, <3>2
  <2> QED
    BY <2>1, <2>2
<1> QED
  BY <1>6, <1>7, <1>8

LEMMA LeftDispatch ==
  ASSUME ExecInv, NEW w \in Workers, NEW done, Left(w, done), executions' = executions,
         mishaps' = 0 => mishaps = 0 /\ step[w] \notin {"createRun", "push", "markQueued"}
  PROVE  DispatchInv' /\ QueuedIsPushed' /\ AcceptedInv'
<1>1. /\ step' = [step EXCEPT ![w] = step'[w]] /\ step'[w] \notin Dispatching
      /\ job' = [job EXCEPT ![w] = NoJob]
  BY DEF Left, Dispatching
<1>2. job'[w] = NoJob
  BY <1>1 DEF ExecInv, BaseInv, TypeOK, SchedulerTypeOK
<1>3. job' = [job EXCEPT ![w] = job'[w]]
  BY <1>1, <1>2
<1> QED
  BY <1>1, <1>2, <1>3, DispatchUntouched

LEMMA LoopExec ==
  ASSUME ExecInv, NEW l \in Loops, LoopStep(l), mishaps' = mishaps
  PROVE  DispatchInv' /\ QueuedIsPushed' /\ AcceptedInv'
<1>0. l \in Workers /\ BaseInv /\ SchedulerTypeOK
  BY DEF Workers, ExecInv, BaseInv, TypeOK
<1>1. CASE StartPass(l)
  <2>1. /\ step' = [step EXCEPT ![l] = "scan"] /\ job' = job /\ executions' = executions
        /\ step[l] = "idle"
    BY <1>1 DEF StartPass, Goto, storeVars
  <2>2. job[l] = NoJob /\ step'[l] = "scan" /\ job' = [job EXCEPT ![l] = job'[l]]
    BY <1>0, <2>1 DEF BaseInv, WorkerInv, Dispatching, SchedulerTypeOK
  <2> QED
    BY <1>0, <2>1, <2>2, DispatchUntouched DEF Dispatching
<1>2. ASSUME NEW d \in Definitions, NotDue(l, d) \/ SetFirstDue(l, d)
      PROVE  DispatchInv' /\ QueuedIsPushed' /\ AcceptedInv'
  <2>1. Left(l, {d}) /\ executions' = executions /\ step[l] = "scan"
    BY <1>0, <1>2, LeaveLeaves DEF NotDue, SetFirstDue, Scans, storeVars
  <2> QED
    BY <1>0, <2>1, LeftDispatch
<1>3. ASSUME NEW d \in Definitions, NEW s \in FirstStatuses, NEW then \in Dispatching,
             Scans(l, d), IsDue(l, d),
             then = (IF s = "accepted" THEN "createRun" ELSE "advanceRecorded"),
             Record(l, d, seen[l][d].nextDue, s, AfterThis(l, d), then)
      PROVE  DispatchInv' /\ QueuedIsPushed' /\ AcceptedInv'
  <2>1. job[l] = NoJob /\ seen[l][d].nextDue \in Dues /\ AfterThis(l, d) \in Dues
    BY <1>0, <1>3, ScanFacts, MinutesAreDues
  <2>2. Noted(l, d, seen[l][d].nextDue, s, AfterThis(l, d), then)
    BY <1>0, <1>3, <2>1, RecordTyped
  <2> QED
    BY <1>0, <1>3, <2>1, <2>2, DispatchStarts
<1> QED
  BY <1>1, <1>2, <1>3
  DEF LoopStep, RecordSkipped, RecordMissed, DispatchDue, FirstStatuses, Dispatching

LEMMA DispatcherExec ==
  ASSUME ExecInv, NEW w \in Workers, DispatcherStep(w), mishaps' = mishaps
  PROVE  DispatchInv' /\ QueuedIsPushed' /\ AcceptedInv'
<1>0. BaseInv /\ SchedulerTypeOK
  BY DEF ExecInv, BaseInv, TypeOK
<1>1. CASE AdvanceDispatched(w) \/ (AdvanceRecorded(w) /\ w \notin Loops)
  <2>1. Left(w, {job[w].definition})
    <3>1. CASE AdvanceDispatched(w)
      BY <1>0, <3>1, AdvanceEffects
    <3>2. CASE AdvanceRecorded(w) /\ w \notin Loops
      BY <1>0, <3>2, AdvanceEffects
    <3> QED
      BY <1>1, <3>1, <3>2
  <2>2. executions' = executions /\ step[w] \in {"advance", "advanceRecorded"}
    BY <1>1 DEF AdvanceDispatched, AdvanceRecorded
  <2> QED
    BY <2>1, <2>2, LeftDispatch
<1>2. CASE AdvanceRecorded(w) /\ w \in Loops
  <2>1. GoesOn(w) /\ executions' = executions /\ step[w] = "advanceRecorded"
    BY <1>0, <1>2, AdvanceEffects DEF AdvanceRecorded
  <2>2. /\ step' = [step EXCEPT ![w] = step'[w]] /\ step'[w] \notin Dispatching
        /\ job' = [job EXCEPT ![w] = job'[w]] /\ job'[w] = NoJob
    BY <1>0, <2>1 DEF GoesOn, Dispatching, SchedulerTypeOK
  <2> QED
    BY <2>1, <2>2, DispatchUntouched
<1> QED
  BY <1>1, <1>2, DispatchGoesOn DEF DispatcherStep

LEMMA RequestExec ==
  ASSUME ExecInv, NEW r \in Requests, RequestStep(r), mishaps' = mishaps
  PROVE  DispatchInv' /\ QueuedIsPushed' /\ AcceptedInv'
<1>0. r \in Workers /\ BaseInv /\ SchedulerTypeOK /\ clock \in Dues
  <2>1. clock \in 0..MaxTime /\ MaxTime \in Nat
    BY TriggerAssumption DEF ExecInv, BaseInv, TypeOK, StoreTypeOK
  <2> QED
    BY <2>1 DEF Workers, ExecInv, BaseInv, TypeOK, Dues, Never, Minutes
<1>1. CASE StartSync(r)
  <2>1. /\ step' = [step EXCEPT ![r] = "sync"] /\ job' = job /\ executions' = executions
        /\ step[r] = "idle"
    BY <1>1 DEF StartSync, Goto, storeVars
  <2>2. job[r] = NoJob /\ step'[r] = "sync" /\ job' = [job EXCEPT ![r] = job'[r]]
    BY <1>0, <2>1 DEF BaseInv, WorkerInv, Dispatching, SchedulerTypeOK
  <2> QED
    BY <1>0, <2>1, <2>2, DispatchUntouched DEF Dispatching
<1>2. CASE FinishSync(r)
  <2>1. Left(r, {}) /\ executions' = executions /\ step[r] = "sync"
    BY <1>0, <1>2, ReleaseLeaves DEF FinishSync, Synced, storeVars
  <2> QED
    BY <1>0, <2>1, LeftDispatch
<1>3. ASSUME NEW d \in Definitions, UpsertDefinition(r, d) \/ DisableDefinition(r, d)
      PROVE  DispatchInv' /\ QueuedIsPushed' /\ AcceptedInv'
  <2>1. Treated(r, d)
    BY <1>0, <1>3, SyncEffects
  <2> QED
    BY <2>1, DispatchKept DEF Treated
<1>4. ASSUME NEW d \in Definitions, NEW s \in FirstStatuses, NEW then \in Dispatching,
             step[r] = "sync",
             then = (IF s = "accepted" THEN "createRun" ELSE "advanceRecorded"),
             Record(r, d, clock, s, Never, then)
      PROVE  DispatchInv' /\ QueuedIsPushed' /\ AcceptedInv'
  <2>1. Noted(r, d, clock, s, Never, then)
    BY <1>0, <1>4, RecordTyped, MinutesAreDues
  <2>2. job[r] = NoJob
    BY <1>0, <1>4 DEF BaseInv, WorkerInv, Dispatching
  <2> QED
    BY <1>0, <1>4, <2>1, <2>2, DispatchStarts, MinutesAreDues
<1>5. ASSUME NEW d \in Definitions, RejectWebhook(r, d) \/ AcceptWebhook(r, d)
      PROVE  DispatchInv' /\ QueuedIsPushed' /\ AcceptedInv'
  BY <1>4, <1>5 DEF RejectWebhook, AcceptWebhook, Synced, FirstStatuses, Dispatching
<1> QED
  BY <1>1, <1>2, <1>3, <1>5 DEF RequestStep

LEMMA ExecutorExec ==
  ASSUME ExecInv, ExecutorStep, mishaps' = mishaps
  PROVE  DispatchInv' /\ QueuedIsPushed' /\ AcceptedInv'
<1>1. PICK i \in 1..Len(executions) : ExecutorWrites(i)
  BY ExecutorBase DEF ExecutorStep, ExecInv
<1>2. /\ Len(executions') = Len(executions) /\ step' = step /\ job' = job
      /\ \A j \in 1..Len(executions) : j # i => executions'[j] = executions[j]
      /\ executions[i].run \in {"queued", "running"}
      /\ executions'[i].status \in {"running", "finished"}
      /\ executions'[i].run \in {"running", "finished"}
  BY <1>1 DEF ExecutorWrites, workerVars
<1>3. DispatchInv'
  <2> SUFFICES ASSUME NEW v \in Workers PROVE DispatchInv!(v)'
    BY DEF DispatchInv
  <2>1. step[v] \in Dispatching => job[v].execution \in 1..Len(executions)
    BY DEF ExecInv, BaseInv, WorkerInv
  <2> QED
    BY <1>2, <2>1 DEF ExecInv, DispatchInv, Dispatching, Pushed
<1>4. QueuedIsPushed'
  BY <1>2 DEF ExecInv, QueuedIsPushed
<1>5. AcceptedInv'
  BY <1>2 DEF ExecInv, AcceptedInv
<1> QED
  BY <1>3, <1>4, <1>5

LEMMA MishapExec ==
  ASSUME ExecInv, Mishap
  PROVE  DispatchInv' /\ QueuedIsPushed' /\ AcceptedInv'
<1>1. MishapEffect /\ executions' = executions /\ mishaps' # 0
  <2>1. MishapEffect /\ executions' = executions /\ mishaps' = mishaps + 1 /\ mishaps \in 0..MaxMishaps
    BY MishapEffects DEF ExecInv, BaseInv, TypeOK
  <2> QED
    BY <2>1, MishapAssumption
<1>2. ASSUME step' = [w \in Workers |-> "idle"]
      PROVE  DispatchInv' /\ QueuedIsPushed' /\ AcceptedInv'
  BY <1>1, <1>2 DEF DispatchInv, QueuedIsPushed, AcceptedInv, Dispatching, ExecInv
<1>3. ASSUME UNCHANGED workerVars
      PROVE  DispatchInv' /\ QueuedIsPushed' /\ AcceptedInv'
  BY <1>1, <1>3, DispatchKept DEF workerVars
<1> QED
  BY <1>1, <1>2, <1>3, LeftDispatch DEF MishapEffect

LEMMA NextExec == ExecInv /\ [Next]_vars => ExecInv'
<1> SUFFICES ASSUME ExecInv, [Next]_vars PROVE ExecInv'
  OBVIOUS
<1>1. BaseInv'
  BY NextBase DEF ExecInv
<1>2. DispatchInv' /\ QueuedIsPushed' /\ AcceptedInv'
  <2>1. ASSUME WorkerStep, mishaps' = mishaps
        PROVE  DispatchInv' /\ QueuedIsPushed' /\ AcceptedInv'
    BY <2>1, LoopExec, DispatcherExec, RequestExec DEF WorkerStep
  <2>2. ASSUME ManagerStep, mishaps' = mishaps
        PROVE  DispatchInv' /\ QueuedIsPushed' /\ AcceptedInv'
    BY <2>2, ManagerBase, DispatchKept DEF workerVars, ExecInv
  <2>3. ASSUME TimePasses \/ StartGateway \/ UNCHANGED vars, mishaps' = mishaps
        PROVE  DispatchInv' /\ QueuedIsPushed' /\ AcceptedInv'
    <3>1. UNCHANGED <<step, job, executions>>
      BY <2>3 DEF TimePasses, Tick, StartGateway, vars, workerVars, storeVars
    <3> QED
      BY <2>3, <3>1, DispatchKept
  <2> QED
    BY <2>1, <2>2, <2>3, ExecutorExec, MishapExec DEF Next, WellBehaved, vars
<1> QED
  BY <1>1, <1>2 DEF ExecInv

LEMMA ExecAlways == Spec => []ExecInv
<1> QED
  BY InitExec, NextExec, PTL DEF Spec

(* What an execution says of its run is never ahead of the run: marking it *)
(* queued comes after the push, whatever crashes or fails in between.      *)
THEOREM ExecutionFollowsRun == Spec => []QueuedIsPushed
<1>1. ExecInv => QueuedIsPushed
  BY DEF ExecInv
<1> QED
  BY <1>1, ExecAlways, PTL

(* Unless a call failed or the gateway crashed, an accepted execution is   *)
(* the one some worker is dispatching.                                     *)
THEOREM AcceptedIsKept == Spec => []AcceptedIsDispatched
<1>1. ExecInv => AcceptedIsDispatched
  BY DEF ExecInv, AcceptedInv, AcceptedIsDispatched
<1> QED
  BY <1>1, ExecAlways, PTL

---------------------------------------------------------------------------
(* No due time of a schedule is lost.  A due time that a worker is about   *)
(* to store was read or computed earlier, from a row that others may have  *)
(* moved since; whatever it is, every due time before it is recorded.      *)

Untouched(d) == ~overrides[d].overridden
Known(d)     == rows[d].origin # "none"
Kept(d)      == d \in Configured \/ rows[d].origin = "agent"

Covered(d, due) ==
  \A t \in rows[d].schedule : rows[d].createdAt < t /\ t < due => Recorded(d, t)

RowOK(d) ==
  Untouched(d) =>
    /\ ~Known(d) => rows[d].schedule = {}
    /\ d \in Configured /\ Known(d) => rows[d].schedule = ConfigSchedule[d]
    /\ Kept(d) /\ rows[d].schedule # {} =>
         rows[d].nextDue # Never /\ Covered(d, rows[d].nextDue)

(* A pass works on what it read at its start.                              *)
PassItem(l, d) ==
  /\ Known(d)
  /\ Kept(d) => /\ seen[l][d].schedule = rows[d].schedule
                /\ seen[l][d].nextDue # Never
                /\ Covered(d, seen[l][d].nextDue)

PassOK(l) == \A d \in todo[l] : Untouched(d) => PassItem(l, d)

JobOK(w) ==
  step[w] \in Dispatching =>
    /\ w \in Loops => job[w].nextDue # Never
    /\ Untouched(job[w].definition) =>
         /\ Known(job[w].definition)
         /\ Kept(job[w].definition) /\ job[w].nextDue # Never =>
              Covered(job[w].definition, job[w].nextDue)

(* A sync creates the row of a configured definition only where it saw     *)
(* none, and a row it saw is still there.                                  *)
SyncItem(r, d) ==
  /\ d \in Configured /\ seen[r][d].origin = "none" => ~Known(d)
  /\ d \in Configured /\ seen[r][d].origin # "none" =>
       /\ Known(d)
       /\ rows[d].schedule # {} =>
            seen[r][d].nextDue # Never /\ Covered(d, seen[r][d].nextDue)
  /\ d \notin Configured => rows[d].origin = "config"

SyncOK(r) == step[r] = "sync" => \A d \in todo[r] : Untouched(d) => SyncItem(r, d)

(* While the gateway starts there is the first sync and nothing else; once *)
(* it is up every configured definition has its row.                       *)
GatewayInv ==
  /\ gateway = "down" => \A w \in Workers : step[w] = "idle"
  /\ gateway = "starting" =>
       \A w \in Workers :
         step[w] # "idle" =>
           /\ step[w] = "sync"
           /\ \A v \in Workers : v # w => step[v] = "idle"
           /\ \A d \in Configured \ todo[w] : Untouched(d) => Known(d)
  /\ gateway = "up" => \A d \in Configured : Untouched(d) => Known(d)

DueInv ==
  /\ BaseInv
  /\ \A d \in Definitions : RowOK(d)
  /\ \A l \in Loops : PassOK(l)
  /\ \A w \in Workers : JobOK(w)
  /\ \A r \in Requests : SyncOK(r)
  /\ GatewayInv

LEMMA InitDue == Init => DueInv
<1> SUFFICES ASSUME Init PROVE DueInv
  OBVIOUS
<1>1. /\ BaseInv /\ gateway = "down" /\ rows = OldRows
      /\ \A w \in Workers : step[w] = "idle" /\ todo[w] = {}
  BY InitBase DEF Init, StoreInit, SchedulerInit
<1>2. ASSUME NEW d \in Definitions PROVE RowOK(d)
  <2>1. rows[d] \in Row /\ MaxTime \in Nat
    BY TriggerAssumption DEF BaseInv, TypeOK, StoreTypeOK, Init, StoreInit
  <2>2. ~Known(d) => rows[d].schedule = {}
    BY <1>1, TriggerAssumption DEF Known, NoRow
  <2>3. d \in Configured => ~Known(d)
    BY <1>1, TriggerAssumption DEF Known, NoRow
  <2>4. ASSUME rows[d].origin = "agent" PROVE rows[d].nextDue # Never /\ Covered(d, rows[d].nextDue)
    <3>1. /\ rows[d].nextDue # Never
          /\ \A t \in rows[d].schedule : rows[d].createdAt < t => rows[d].nextDue <= t
      BY <1>1, <2>4, TriggerAssumption
    <3>2. rows[d].nextDue \in Nat /\ \A t \in rows[d].schedule : t \in Nat
      BY <2>1 DEF Row, Schedules, Minutes, Never
    <3> QED
      BY <3>1, <3>2 DEF Covered
  <2> QED
    BY <2>2, <2>3, <2>4 DEF RowOK, Kept
<1>3. /\ \A l \in Loops : PassOK(l)
      /\ \A w \in Workers : JobOK(w)
      /\ \A r \in Requests : SyncOK(r)
      /\ GatewayInv
  BY <1>1 DEF PassOK, JobOK, SyncOK, GatewayInv, Dispatching, Workers
<1> QED
  BY <1>1, <1>2, <1>3 DEF DueInv

(* Executions are only added, and keep their definition and due time.      *)
Grown ==
  /\ Len(executions) \in Nat /\ Len(executions') \in Nat
  /\ Len(executions) <= Len(executions')
  /\ \A i \in 1..Len(executions) : /\ executions'[i].definition = executions[i].definition
                                   /\ executions'[i].due = executions[i].due

LEMMA StaysRecorded ==
  ASSUME Grown, NEW d, NEW t, Recorded(d, t)
  PROVE  Recorded(d, t)'
<1> QED
  BY DEF Grown, Recorded

(* The schedule and the creation of a row, and that it is there, do not    *)
(* change as long as no agent touches it.                                  *)
Shaped(d) ==
  Untouched(d)' =>
    /\ Untouched(d)
    /\ Known(d)' <=> Known(d)
    /\ d \notin Configured => rows'[d].origin = rows[d].origin
    /\ rows'[d].schedule = rows[d].schedule
    /\ rows'[d].createdAt = rows[d].createdAt

CoveredNext(d, due) ==
  \A t \in rows'[d].schedule : rows'[d].createdAt < t /\ t < due => Recorded(d, t)'

LEMMA StaysCovered ==
  ASSUME Grown, NEW d, Shaped(d), Untouched(d)', NEW due, Covered(d, due)
  PROVE  CoveredNext(d, due)
<1> QED
  BY StaysRecorded DEF Shaped, Covered, CoveredNext

LEMMA KeptRow ==
  ASSUME Grown, NEW d \in Definitions, Shaped(d), RowOK(d), Untouched(d)',
         \/ rows'[d].nextDue = rows[d].nextDue
         \/ ~Kept(d)
         \/ rows'[d].nextDue # Never /\ Covered(d, rows'[d].nextDue)
  PROVE  RowOK(d)'
<1>1. Untouched(d) /\ (Known(d)' <=> Known(d)) /\ (Kept(d)' <=> Kept(d))
      /\ rows'[d].schedule = rows[d].schedule
  BY DEF Shaped, Kept
<1>2. ASSUME Kept(d), rows[d].schedule # {}
      PROVE  rows'[d].nextDue # Never /\ CoveredNext(d, rows'[d].nextDue)
  <2>1. rows'[d].nextDue # Never /\ Covered(d, rows'[d].nextDue)
    BY <1>1, <1>2 DEF RowOK
  <2> QED
    BY <2>1, StaysCovered
<1>3. CoveredNext(d, rows'[d].nextDue) => Covered(d, rows[d].nextDue)'
  BY DEF Covered, CoveredNext
<1> QED
  BY <1>1, <1>2, <1>3 DEF RowOK

LEMMA KeptPass ==
  ASSUME Grown, NEW l \in Loops, PassOK(l), todo'[l] \subseteq todo[l],
         \A d \in todo'[l] : Shaped(d) /\ seen'[l][d] = seen[l][d]
  PROVE  PassOK(l)'
<1> SUFFICES ASSUME NEW d \in todo'[l], Untouched(d)' PROVE PassItem(l, d)'
  BY DEF PassOK
<1>1. PassItem(l, d) /\ Shaped(d) /\ seen'[l][d] = seen[l][d]
  BY DEF PassOK, Shaped
<1>2. /\ Known(d)' <=> Known(d)
      /\ Kept(d)' <=> Kept(d)
      /\ rows'[d].schedule = rows[d].schedule
  BY <1>1 DEF Shaped, Kept
<1>3. Covered(d, seen[l][d].nextDue) => Covered(d, seen[l][d].nextDue)'
  <2>1. Covered(d, seen[l][d].nextDue) => CoveredNext(d, seen[l][d].nextDue)
    BY <1>1, StaysCovered
  <2> QED
    BY <1>1, <2>1 DEF Covered, CoveredNext
<1> QED
  BY <1>1, <1>2, <1>3 DEF PassItem

LEMMA KeptJob ==
  ASSUME Grown, NEW w \in Workers, JobOK(w), step'[w] \in Dispatching => step[w] \in Dispatching,
         job'[w] = job[w], Shaped(job[w].definition)
  PROVE  JobOK(w)'
<1> SUFFICES ASSUME step'[w] \in Dispatching, NEW d, d = job[w].definition,
                    NEW n, n = job[w].nextDue
             PROVE  JobOK(w)'
  BY DEF JobOK
<1>1. /\ w \in Loops => n # Never
      /\ Untouched(d) => Known(d) /\ (Kept(d) /\ n # Never => Covered(d, n))
  BY DEF JobOK
<1>2. Shaped(d)
  OBVIOUS
<1>3. Untouched(d)' =>
        /\ Known(d)'
        /\ Kept(d)' /\ n # Never => CoveredNext(d, n)
  BY <1>1, <1>2, StaysCovered DEF Shaped, Kept
<1>4. CoveredNext(d, n) => Covered(d, n)'
  BY DEF Covered, CoveredNext
<1>5. Untouched(d)' => Known(d)' /\ (Kept(d)' /\ n # Never => Covered(d, n)')
  BY <1>3, <1>4
<1>6. job'[w].definition = d /\ job'[w].nextDue = n
  OBVIOUS
<1> QED
  BY <1>1, <1>5, <1>6 DEF JobOK, Untouched, Known, Kept, Covered, Recorded

LEMMA KeptSync ==
  ASSUME Grown, NEW r \in Requests, SyncOK(r), step'[r] = "sync" => step[r] = "sync",
         todo'[r] \subseteq todo[r],
         \A d \in todo'[r] : Shaped(d) /\ seen'[r][d] = seen[r][d]
  PROVE  SyncOK(r)'
<1> SUFFICES ASSUME step'[r] = "sync", NEW d \in todo'[r], Untouched(d)'
             PROVE  SyncItem(r, d)'
  BY DEF SyncOK
<1>1. SyncItem(r, d) /\ Shaped(d) /\ seen'[r][d] = seen[r][d]
  BY DEF SyncOK, Shaped
<1>2. /\ Known(d)' <=> Known(d)
      /\ d \notin Configured => rows'[d].origin = rows[d].origin
      /\ rows'[d].schedule = rows[d].schedule
  BY <1>1 DEF Shaped
<1>3. Covered(d, seen[r][d].nextDue) => Covered(d, seen[r][d].nextDue)'
  <2>1. Covered(d, seen[r][d].nextDue) => CoveredNext(d, seen[r][d].nextDue)
    BY <1>1, StaysCovered
  <2> QED
    BY <1>1, <2>1 DEF Covered, CoveredNext
<1> QED
  BY <1>1, <1>2, <1>3 DEF SyncItem

(* What a step that changes no row and no worker but one leaves of the     *)
(* rest of the invariant.                                                  *)
OthersKept(w) ==
  \A v \in Workers : v # w => /\ step'[v] = step[v] /\ todo'[v] = todo[v]
                              /\ seen'[v] = seen[v] /\ job'[v] = job[v]

LEMMA KeptOthers ==
  ASSUME DueInv, Grown, \A d \in Definitions : Shaped(d), NEW w, OthersKept(w)
  PROVE  /\ \A l \in Loops : l # w => PassOK(l)'
         /\ \A v \in Workers : v # w => JobOK(v)'
         /\ \A r \in Requests : r # w => SyncOK(r)'
<1>0. todo \in [Workers -> SUBSET Definitions]
  BY DEF DueInv, BaseInv, TypeOK, SchedulerTypeOK
<1>1. ASSUME NEW l \in Loops, l # w PROVE PassOK(l)'
  <2>1. l \in Workers /\ todo'[l] = todo[l] /\ seen'[l] = seen[l]
    BY <1>1 DEF OthersKept, Workers
  <2>2. PassOK(l) /\ \A d \in todo'[l] : Shaped(d)
    BY <1>0, <2>1 DEF DueInv
  <2> QED
    BY <2>1, <2>2, KeptPass
<1>2. ASSUME NEW v \in Workers, v # w PROVE JobOK(v)'
  <2>1. step'[v] = step[v] /\ job'[v] = job[v]
    BY <1>2 DEF OthersKept
  <2>2. CASE step[v] \in Dispatching
    <3>1. job[v].definition \in Definitions /\ JobOK(v)
      BY <2>2, JobFacts DEF DueInv
    <3> QED
      BY <2>1, <3>1, KeptJob
  <2>3. CASE step[v] \notin Dispatching
    BY <2>1, <2>3 DEF JobOK
  <2> QED
    BY <2>2, <2>3
<1>3. ASSUME NEW r \in Requests, r # w PROVE SyncOK(r)'
  <2>1. r \in Workers /\ todo'[r] = todo[r] /\ seen'[r] = seen[r] /\ step'[r] = step[r]
    BY <1>3 DEF OthersKept, Workers
  <2>2. SyncOK(r) /\ \A d \in todo'[r] : Shaped(d)
    BY <1>0, <2>1 DEF DueInv
  <2> QED
    BY <2>1, <2>2, KeptSync
<1> QED
  BY <1>1, <1>2, <1>3

LEMMA SameGrown ==
  ASSUME BaseInv, executions' = executions
  PROVE  Grown
<1> QED
  BY LenProperties DEF BaseInv, TypeOK, StoreTypeOK, Grown

LEMMA NotedGrown ==
  ASSUME NEW w, NEW d, NEW due, NEW s, NEW nextDue, NEW then, Noted(w, d, due, s, nextDue, then)
  PROVE  Grown
<1> QED
  BY DEF Noted, Grown

(* The rows where none changes, but for being overridden.                  *)
LEMMA SameRows ==
  ASSUME DueInv, Grown, rows' = rows, \A d \in Definitions : Untouched(d)' => Untouched(d)
  PROVE  \A d \in Definitions : Shaped(d) /\ RowOK(d)'
<1> SUFFICES ASSUME NEW d \in Definitions PROVE Shaped(d) /\ RowOK(d)'
  OBVIOUS
<1>1. Shaped(d)
  BY DEF Shaped, Known
<1>2. RowOK(d)'
  <2>1. CASE Untouched(d)'
    BY <1>1, <2>1, KeptRow DEF DueInv
  <2>2. CASE ~Untouched(d)'
    BY <2>2 DEF RowOK
  <2> QED
    BY <2>1, <2>2
<1> QED
  BY <1>1, <1>2

(* The rows where a due time is stored.                                    *)
LEMMA StoredRows ==
  ASSUME DueInv, Grown, NEW d \in Definitions, NEW due \in Dues, SetDue(d, due),
         UNCHANGED overrides,
         due = Never \/ ~Untouched(d) \/ ~Kept(d) \/ Covered(d, due)
  PROVE  \A e \in Definitions : Shaped(e) /\ RowOK(e)'
<1> SUFFICES ASSUME NEW e \in Definitions PROVE Shaped(e) /\ RowOK(e)'
  OBVIOUS
<1>1. /\ \A f \in Definitions : /\ rows'[f].origin = rows[f].origin
                                /\ rows'[f].schedule = rows[f].schedule
                                /\ rows'[f].createdAt = rows[f].createdAt
                                /\ f # d => rows'[f] = rows[f]
      /\ rows'[d].nextDue = IF due = Never THEN rows[d].nextDue ELSE due
  BY DueIsSet DEF DueInv, BaseInv, TypeOK, StoreTypeOK
<1>2. Shaped(e)
  BY <1>1 DEF Shaped, Known, Untouched
<1>3. RowOK(e)'
  <2>1. CASE ~Untouched(e)'
    BY <2>1 DEF RowOK
  <2>2. CASE Untouched(e)' /\ e # d
    BY <1>1, <1>2, <2>2, KeptRow DEF DueInv
  <2>3. CASE Untouched(e)' /\ e = d
    <3>1. Untouched(d)
      BY <2>3 DEF Untouched
    <3>2. \/ rows'[d].nextDue = rows[d].nextDue
          \/ ~Kept(d)
          \/ rows'[d].nextDue # Never /\ Covered(d, rows'[d].nextDue)
      BY <1>1, <3>1
    <3> QED
      BY <1>2, <2>3, <3>2, KeptRow DEF DueInv
  <2> QED
    BY <2>1, <2>2, <2>3
<1> QED
  BY <1>2, <1>3

LEMMA UpWhenBusy ==
  ASSUME DueInv, NEW w \in Workers, step[w] \notin {"idle", "sync"}
  PROVE  gateway = "up"
<1> QED
  BY DEF DueInv, GatewayInv, BaseInv, TypeOK, SchedulerTypeOK

LEMMA GatewayStaysUp ==
  ASSUME DueInv, \A d \in Definitions : Shaped(d), gateway = "up", gateway' = "up"
  PROVE  GatewayInv'
<1> QED
  BY TriggerAssumption DEF DueInv, GatewayInv, Shaped

(* A pass, or a request, that goes on or is done.                          *)
LEMMA LeftDue ==
  ASSUME DueInv, NEW w \in Workers, NEW done, Left(w, done), Grown,
         \A d \in Definitions : Shaped(d)
  PROVE  /\ \A l \in Loops : PassOK(l)'
         /\ \A v \in Workers : JobOK(v)'
         /\ \A r \in Requests : SyncOK(r)'
<1>0. todo \in [Workers -> SUBSET Definitions] /\ SchedulerTypeOK
  BY DEF DueInv, BaseInv, TypeOK, SchedulerTypeOK
<1>1. OthersKept(w)
  BY <1>0 DEF OthersKept, Left, SchedulerTypeOK
<1>2. /\ step'[w] \in {"idle", "scan"} /\ todo'[w] \subseteq todo[w]
      /\ \A d \in todo'[w] : seen'[w][d] = seen[w][d]
  BY DEF Left
<1>3. JobOK(w)' /\ SyncOK(w)'
  BY <1>2 DEF JobOK, SyncOK, Dispatching
<1>4. w \in Loops => PassOK(w)'
  <2> SUFFICES ASSUME w \in Loops PROVE PassOK(w)'
    OBVIOUS
  <2>1. PassOK(w) /\ \A d \in todo'[w] : Shaped(d) /\ seen'[w][d] = seen[w][d]
    BY <1>0, <1>2 DEF DueInv
  <2> QED
    BY <1>2, <2>1, KeptPass
<1>5. /\ \A l \in Loops : l # w => PassOK(l)'
      /\ \A v \in Workers : v # w => JobOK(v)'
      /\ \A r \in Requests : r # w => SyncOK(r)'
  BY <1>1, KeptOthers
<1> QED
  BY <1>3, <1>4, <1>5

(* The worker that gets a job, with the due time to store after it.        *)
LEMMA NotedDue ==
  ASSUME DueInv, NEW w \in Workers, NEW d \in Definitions, NEW due, NEW s, NEW n, NEW then,
         Noted(w, d, due, s, n, then), then \in Dispatching,
         w \in Loops => n # Never,
         Untouched(d) => Known(d) /\ (Kept(d) /\ n # Never => CoveredNext(d, n))
  PROVE  /\ \A e \in Definitions : Shaped(e) /\ RowOK(e)'
         /\ \A l \in Loops : PassOK(l)'
         /\ \A v \in Workers : JobOK(v)'
         /\ \A r \in Requests : SyncOK(r)'
<1>0. SchedulerTypeOK /\ Grown
  BY NotedGrown DEF DueInv, BaseInv, TypeOK
<1>1. /\ step' = [step EXCEPT ![w] = then] /\ step'[w] = then
      /\ job' = [job EXCEPT ![w] = job'[w]] /\ job'[w].definition = d /\ job'[w].nextDue = n
      /\ rows' = rows /\ overrides' = overrides /\ todo' = todo /\ seen' = seen
  BY DEF Noted
<1>2. \A e \in Definitions : Shaped(e) /\ RowOK(e)'
  BY <1>0, <1>1, SameRows DEF Untouched
<1>3. OthersKept(w)
  BY <1>0, <1>1 DEF OthersKept, SchedulerTypeOK
<1>4. /\ \A l \in Loops : l # w => PassOK(l)'
      /\ \A v \in Workers : v # w => JobOK(v)'
      /\ \A r \in Requests : r # w => SyncOK(r)'
  BY <1>0, <1>2, <1>3, KeptOthers
<1>5. w \in Loops => PassOK(w)'
  <2> SUFFICES ASSUME w \in Loops PROVE PassOK(w)'
    OBVIOUS
  <2>1. todo[w] \subseteq Definitions
    BY <1>0 DEF SchedulerTypeOK
  <2> QED
    BY <1>0, <1>1, <1>2, <2>1, KeptPass DEF DueInv
<1>6. SyncOK(w)'
  BY <1>1 DEF SyncOK, Dispatching
<1>7. JobOK(w)'
  <2>1. CoveredNext(d, n) => Covered(d, n)'
    BY DEF Covered, CoveredNext
  <2>2. /\ Untouched(d)' <=> Untouched(d)
        /\ Known(d)' <=> Known(d)
        /\ Kept(d)' <=> Kept(d)
    BY <1>1 DEF Untouched, Known, Kept
  <2>3. Untouched(d)' => Known(d)' /\ (Kept(d)' /\ n # Never => Covered(d, n)')
    BY <2>1, <2>2
  <2> QED
    BY <1>1, <2>3 DEF JobOK, Untouched, Known, Kept, Covered, Recorded
<1> QED
  BY <1>2, <1>4, <1>5, <1>6, <1>7

LEMMA LoopDue ==
  ASSUME DueInv, NEW l \in Loops, LoopStep(l)
  PROVE  /\ \A d \in Definitions : RowOK(d)'
         /\ \A k \in Loops : PassOK(k)'
         /\ \A w \in Workers : JobOK(w)'
         /\ \A r \in Requests : SyncOK(r)'
         /\ GatewayInv'
<1>0. /\ l \in Workers /\ BaseInv /\ SchedulerTypeOK /\ StoreTypeOK
      /\ PassOK(l) /\ UNCHANGED <<overrides, gateway>>
  BY LoopBase DEF Workers, DueInv, BaseInv, TypeOK
<1>1. CASE StartPass(l)
  <2> DEFINE scheduled == {d \in Definitions : Effective(d).schedule # {}}
             read == [d \in Definitions |-> IF d \in scheduled THEN Effective(d) ELSE NoRow]
  <2>1. /\ step' = [step EXCEPT ![l] = "scan"]
        /\ todo' = [todo EXCEPT ![l] = scheduled]
        /\ seen' = [seen EXCEPT ![l] = read]
        /\ UNCHANGED <<clock, rows, overrides, executions, gateway, seenAt, job>>
        /\ step[l] = "idle" /\ gateway = "up"
    BY <1>1 DEF StartPass, Goto, storeVars
  <2>2. Grown /\ \A d \in Definitions : Shaped(d) /\ RowOK(d)'
    BY <1>0, <2>1, SameGrown, SameRows DEF Untouched
  <2>3. OthersKept(l) /\ todo'[l] = scheduled /\ seen'[l] = read /\ step'[l] = "scan"
    BY <1>0, <2>1 DEF OthersKept, SchedulerTypeOK
  <2>4. PassOK(l)'
    <3> SUFFICES ASSUME NEW d \in scheduled, Untouched(d) PROVE PassItem(l, d)'
      BY <2>1, <2>3 DEF PassOK, Untouched
    <3>1. seen'[l][d] = rows[d] /\ rows[d].schedule # {}
      BY <1>0, <2>3, EffectiveTyped DEF Untouched
    <3>2. Known(d) /\ (Kept(d) => rows[d].nextDue # Never /\ Covered(d, rows[d].nextDue))
      BY <3>1 DEF DueInv, RowOK
    <3> QED
      BY <2>1, <3>1, <3>2 DEF PassItem, Known, Kept, Covered, Recorded
  <2>5. JobOK(l)' /\ SyncOK(l)'
    BY <2>3 DEF JobOK, SyncOK, Dispatching
  <2>6. GatewayInv'
    BY <2>1, <2>2, GatewayStaysUp
  <2> QED
    BY <2>2, <2>3, <2>4, <2>5, <2>6, KeptOthers
<1>2. ASSUME NEW d \in Definitions, Scans(l, d), Left(l, {d}), executions' = executions,
             NEW due \in Dues, SetDue(d, due), due = Never \/ ~Untouched(d) \/ ~Kept(d)
      PROVE  /\ \A e \in Definitions : RowOK(e)'
             /\ \A k \in Loops : PassOK(k)'
             /\ \A w \in Workers : JobOK(w)'
             /\ \A r \in Requests : SyncOK(r)'
             /\ GatewayInv'
  <2>1. Grown /\ gateway = "up" /\ gateway' = "up"
    BY <1>0, <1>2, SameGrown, UpWhenBusy DEF Scans
  <2>2. \A e \in Definitions : Shaped(e) /\ RowOK(e)'
    BY <1>0, <1>2, <2>1, StoredRows
  <2>3. GatewayInv'
    BY <2>1, <2>2, GatewayStaysUp
  <2> QED
    BY <1>0, <1>2, <2>1, <2>2, <2>3, LeftDue
<1>3. ASSUME NEW d \in Definitions, NotDue(l, d)
      PROVE  /\ \A e \in Definitions : RowOK(e)'
             /\ \A k \in Loops : PassOK(k)'
             /\ \A w \in Workers : JobOK(w)'
             /\ \A r \in Requests : SyncOK(r)'
             /\ GatewayInv'
  <2>1. Scans(l, d) /\ Left(l, {d}) /\ executions' = executions /\ SetDue(d, Never)
    BY <1>0, <1>3, LeaveLeaves DEF NotDue, storeVars, SetDue
  <2> QED
    BY <1>2, <2>1, MinutesAreDues
<1>4. ASSUME NEW d \in Definitions, SetFirstDue(l, d)
      PROVE  /\ \A e \in Definitions : RowOK(e)'
             /\ \A k \in Loops : PassOK(k)'
             /\ \A w \in Workers : JobOK(w)'
             /\ \A r \in Requests : SyncOK(r)'
             /\ GatewayInv'
  <2> DEFINE due == Following(seen[l][d].schedule, clock)
  <2>1. Scans(l, d) /\ Left(l, {d}) /\ executions' = executions /\ SetDue(d, due)
    BY <1>0, <1>4, LeaveLeaves DEF SetFirstDue
  <2>2. d \in todo[l] /\ due \in Dues
    BY <1>0, <2>1, ScanFacts, MinutesAreDues
  <2>3. ~Untouched(d) \/ ~Kept(d)
    BY <1>0, <1>4, <2>2 DEF SetFirstDue, PassOK, PassItem
  <2> HIDE DEF due
  <2> QED
    BY <1>2, <2>1, <2>2, <2>3
<1>5. ASSUME NEW d \in Definitions, NEW s \in FirstStatuses, NEW then \in Dispatching,
             Scans(l, d), IsDue(l, d),
             Record(l, d, seen[l][d].nextDue, s, AfterThis(l, d), then)
      PROVE  /\ \A e \in Definitions : RowOK(e)'
             /\ \A k \in Loops : PassOK(k)'
             /\ \A w \in Workers : JobOK(w)'
             /\ \A r \in Requests : SyncOK(r)'
             /\ GatewayInv'
  <2>0. PICK due \in Dues : due = seen[l][d].nextDue
    BY <1>0, <1>5, ScanFacts, MinutesAreDues
  <2>1. PICK n \in Dues : n = AfterThis(l, d)
    BY <1>0, <1>5, ScanFacts, MinutesAreDues
  <2>2. d \in todo[l] /\ n # Never /\ due \in 0..MaxTime /\ seen[l][d].schedule \in Schedules
    BY <1>0, <1>5, <2>0, <2>1, ScanFacts DEF Minutes, Never
  <2>3. Noted(l, d, due, s, n, then)
    BY <1>0, <1>5, <2>0, <2>1, RecordTyped
  <2>4. Grown /\ rows' = rows
    <3>1. Grown
      BY <2>3, NotedGrown
    <3> QED
      BY <2>3, <3>1 DEF Noted
  <2>5. ASSUME Untouched(d)
        PROVE  Known(d) /\ (Kept(d) => CoveredNext(d, n))
    <3>1. PassItem(l, d)
      BY <1>0, <2>2, <2>5 DEF PassOK
    <3>2. ASSUME Kept(d), NEW t \in rows[d].schedule, rows[d].createdAt < t, t < n
          PROVE  Recorded(d, t)'
      <4>1. rows[d].schedule = seen[l][d].schedule /\ Covered(d, due)
        BY <2>0, <3>1, <3>2 DEF PassItem
      <4>2. t \in Nat /\ due \in Nat /\ n \in Nat
        BY <2>2, <4>1, <3>2, TriggerAssumption DEF Schedules, Minutes, Dues, Never
      <4>3. t > due => n <= t
        BY <2>0, <2>1, <2>2, <4>1, <3>2, FollowingIsNext DEF AfterThis
      <4>4. CASE t < due
        BY <2>4, <3>2, <4>1, <4>4, StaysRecorded DEF Covered
      <4>5. CASE t = due
        BY <2>3, <4>5 DEF Noted, Recorded
      <4> QED
        BY <3>2, <4>2, <4>3, <4>4, <4>5
    <3> QED
      BY <2>4, <3>1, <3>2 DEF PassItem, CoveredNext
  <2>6. /\ \A e \in Definitions : Shaped(e) /\ RowOK(e)'
        /\ \A k \in Loops : PassOK(k)'
        /\ \A w \in Workers : JobOK(w)'
        /\ \A r \in Requests : SyncOK(r)'
    BY <1>0, <2>2, <2>3, <2>5, NotedDue
  <2>7. GatewayInv'
    BY <1>0, <1>5, <2>6, UpWhenBusy, GatewayStaysUp DEF Scans
  <2> QED
    BY <2>6, <2>7
<1> QED
  BY <1>1, <1>3, <1>4, <1>5
  DEF LoopStep, RecordSkipped, RecordMissed, DispatchDue, FirstStatuses, Dispatching

LEMMA DispatcherDue ==
  ASSUME DueInv, NEW w \in Workers, DispatcherStep(w)
  PROVE  /\ \A d \in Definitions : RowOK(d)'
         /\ \A k \in Loops : PassOK(k)'
         /\ \A v \in Workers : JobOK(v)'
         /\ \A r \in Requests : SyncOK(r)'
         /\ GatewayInv'
<1>0. /\ BaseInv /\ SchedulerTypeOK /\ StoreTypeOK /\ UNCHANGED <<overrides, gateway>>
      /\ step[w] \in Dispatching /\ gateway = "up"
  <2>1. step[w] \in Dispatching
    BY DEF DispatcherStep, CreateRun, PushRun, MarkQueued, AdvanceDispatched, AdvanceRecorded,
           Dispatching
  <2> QED
    BY <2>1, DispatcherBase, UpWhenBusy DEF DueInv, BaseInv, TypeOK, Dispatching
<1>1. ASSUME CreateRun(w) \/ PushRun(w) \/ MarkQueued(w)
      PROVE  /\ \A d \in Definitions : RowOK(d)'
             /\ \A k \in Loops : PassOK(k)'
             /\ \A v \in Workers : JobOK(v)'
             /\ \A r \in Requests : SyncOK(r)'
             /\ GatewayInv'
  <2>1. executions[job[w].execution] \in Execution
    BY <1>0, JobFacts
  <2>2. PICK s \in Statuses, r \in RunStates, then \in Dispatching : DispatchCall(w, s, r, then)
    <3>1. /\ executions[job[w].execution].status \in Statuses
          /\ executions[job[w].execution].run \in RunStates
      BY <2>1 DEF Execution, Statuses, RunStates
    <3> QED
      BY <1>0, <1>1, <3>1, DispatchCalls DEF Statuses, RunStates, Dispatching
  <2>3. /\ StoreTypeOK' /\ Len(executions') = Len(executions)
        /\ \A j \in 1..Len(executions) : /\ executions'[j].definition = executions[j].definition
                                         /\ executions'[j].due = executions[j].due
        /\ step' = [step EXCEPT ![w] = then] /\ step'[w] = then
        /\ UNCHANGED <<clock, rows, overrides, gateway, todo, seen, seenAt, job>>
    BY <1>0, <2>2, DispatchCallTyped
  <2>4. Grown
    BY <1>0, <2>3, LenProperties DEF StoreTypeOK, Grown
  <2>5. \A d \in Definitions : Shaped(d) /\ RowOK(d)'
    BY <2>3, <2>4, SameRows DEF Untouched
  <2>6. OthersKept(w)
    BY <1>0, <2>3 DEF OthersKept, SchedulerTypeOK
  <2>7. JobOK(w)'
    <3>1. job[w].definition \in Definitions /\ JobOK(w)
      BY <1>0, JobFacts DEF DueInv
    <3> QED
      BY <1>0, <2>3, <2>4, <2>5, <3>1, KeptJob
  <2>8. SyncOK(w)'
    BY <2>3 DEF SyncOK, Dispatching
  <2>9. w \in Loops => PassOK(w)'
    <3> SUFFICES ASSUME w \in Loops PROVE PassOK(w)'
      OBVIOUS
    <3>1. todo[w] \subseteq Definitions
      BY <1>0 DEF SchedulerTypeOK
    <3> QED
      BY <2>3, <2>4, <2>5, <3>1, KeptPass DEF DueInv
  <2>10. GatewayInv'
    BY <1>0, <2>5, GatewayStaysUp
  <2> QED
    BY <2>4, <2>5, <2>6, <2>7, <2>8, <2>9, <2>10, KeptOthers
<1>2. ASSUME AdvanceDispatched(w) \/ AdvanceRecorded(w)
      PROVE  /\ Grown /\ job[w].definition \in Definitions
             /\ \A d \in Definitions : Shaped(d) /\ RowOK(d)'
             /\ GatewayInv'
  <2>1. PICK d \in Definitions, due \in Dues : d = job[w].definition /\ due = job[w].nextDue
    BY <1>0, JobFacts
  <2>2. SetDue(d, due) /\ executions' = executions
    BY <1>2, <2>1 DEF AdvanceDispatched, AdvanceRecorded
  <2>3. due = Never \/ ~Untouched(d) \/ ~Kept(d) \/ Covered(d, due)
    BY <1>0, <2>1 DEF DueInv, JobOK
  <2>4. Grown
    BY <1>0, <2>2, SameGrown
  <2>5. \A e \in Definitions : Shaped(e) /\ RowOK(e)'
    BY <1>0, <2>2, <2>3, <2>4, StoredRows
  <2> QED
    BY <1>0, <2>1, <2>4, <2>5, GatewayStaysUp
<1>3. CASE AdvanceDispatched(w) \/ (AdvanceRecorded(w) /\ w \notin Loops)
  <2>1. Left(w, {job[w].definition})
    <3>1. CASE AdvanceDispatched(w)
      BY <1>0, <3>1, AdvanceEffects
    <3>2. CASE AdvanceRecorded(w) /\ w \notin Loops
      BY <1>0, <3>2, AdvanceEffects
    <3> QED
      BY <1>3, <3>1, <3>2
  <2> QED
    BY <1>2, <1>3, <2>1, LeftDue
<1>4. CASE AdvanceRecorded(w) /\ w \in Loops
  <2>1. GoesOn(w)
    BY <1>0, <1>4, AdvanceEffects
  <2>2. Grown /\ \A d \in Definitions : Shaped(d) /\ RowOK(d)'
    BY <1>2, <1>4
  <2>3. OthersKept(w)
    BY <1>0, <2>1 DEF OthersKept, GoesOn, SchedulerTypeOK
  <2>4. JobOK(w)' /\ SyncOK(w)'
    BY <2>1 DEF GoesOn, JobOK, SyncOK, Dispatching
  <2>5. PassOK(w)'
    <3>0. PICK d \in Definitions, due \in Dues : d = job[w].definition /\ due = job[w].nextDue
      BY <1>0, JobFacts
    <3>1. todo'[w] = todo[w] /\ todo[w] \subseteq Definitions /\ PassOK(w)
      BY <1>0, <1>4, <2>1 DEF GoesOn, SchedulerTypeOK, DueInv
    <3>2. /\ seen'[w][d].nextDue = due
          /\ \A e \in Definitions : /\ seen'[w][e].schedule = seen[w][e].schedule
                                    /\ e # d => seen'[w][e] = seen[w][e]
      BY <2>1, <3>0 DEF GoesOn
    <3> SUFFICES ASSUME NEW e \in todo[w], Untouched(e)' PROVE PassItem(w, e)'
      BY <3>1 DEF PassOK
    <3>3. e \in Definitions /\ Shaped(e) /\ Untouched(e)
      BY <2>2, <3>1 DEF Shaped
    <3>4. PassItem(w, e)
      BY <3>1, <3>3 DEF PassOK
    <3>5. /\ Known(e)' <=> Known(e)
          /\ Kept(e)' <=> Kept(e)
          /\ rows'[e].schedule = rows[e].schedule
      BY <3>3 DEF Shaped, Kept
    <3>6. PICK n : n = seen'[w][e].nextDue
      OBVIOUS
    <3>7. Kept(e) => n # Never /\ Covered(e, n)
      <4>1. CASE e = d
        BY <1>0, <1>4, <3>0, <3>2, <3>3, <3>6, <4>1 DEF DueInv, JobOK
      <4>2. CASE e # d
        BY <3>2, <3>3, <3>4, <3>6, <4>2 DEF PassItem
      <4> QED
        BY <4>1, <4>2
    <3>8. Kept(e) => n # Never /\ CoveredNext(e, n)
      BY <2>2, <3>3, <3>7, StaysCovered
    <3> QED
      BY <3>2, <3>3, <3>4, <3>5, <3>6, <3>8 DEF PassItem, Covered, CoveredNext
  <2> QED
    BY <1>2, <1>4, <2>2, <2>3, <2>4, <2>5, KeptOthers
<1> QED
  BY <1>1, <1>3, <1>4 DEF DispatcherStep

(* A sync that starts reads what the rows are.                             *)
LEMMA StartSyncDue ==
  ASSUME DueInv, NEW r \in Requests, StartSync(r)
  PROVE  /\ \A d \in Definitions : RowOK(d)'
         /\ \A k \in Loops : PassOK(k)'
         /\ \A w \in Workers : JobOK(w)'
         /\ \A q \in Requests : SyncOK(q)'
         /\ GatewayInv'
<1> DEFINE all == Configured \cup NoLongerConfigured
           read == [d \in Definitions |-> IF d \in Configured THEN rows[d] ELSE NoRow]
<1>0. r \in Workers /\ r \notin Loops /\ BaseInv /\ SchedulerTypeOK
  BY SchedulerAssumption DEF Workers, DueInv, BaseInv, TypeOK
<1>1. /\ step' = [step EXCEPT ![r] = "sync"]
      /\ todo' = [todo EXCEPT ![r] = all]
      /\ seen' = [seen EXCEPT ![r] = read]
      /\ UNCHANGED <<rows, overrides, executions, gateway, job>>
      /\ \/ gateway = "starting" /\ \A w \in Workers : step[w] = "idle"
         \/ gateway = "up"
  BY DEF StartSync, Goto, storeVars
<1>2. Grown /\ \A d \in Definitions : Shaped(d) /\ RowOK(d)'
  BY <1>0, <1>1, SameGrown, SameRows DEF Untouched
<1>3. OthersKept(r) /\ todo'[r] = all /\ seen'[r] = read /\ step'[r] = "sync"
  BY <1>0, <1>1 DEF OthersKept, SchedulerTypeOK
<1>4. JobOK(r)'
  BY <1>3 DEF JobOK, Dispatching
<1>5. SyncOK(r)'
  <2> SUFFICES ASSUME NEW d \in all, Untouched(d) PROVE SyncItem(r, d)'
    BY <1>1, <1>3 DEF SyncOK, Untouched
  <2>1. CASE d \in Configured
    <3>1. d \in Definitions /\ seen'[r][d] = rows[d] /\ rows' = rows
      BY <1>1, <1>3, <2>1, TriggerAssumption
    <3>2. rows[d].schedule # {} => rows[d].nextDue # Never /\ Covered(d, rows[d].nextDue)
      BY <2>1, <3>1 DEF DueInv, RowOK, Kept
    <3> QED
      BY <1>1, <2>1, <3>1, <3>2 DEF SyncItem, Known, Covered, Recorded
  <2>2. CASE d \notin Configured
    BY <1>1, <2>2 DEF SyncItem, NoLongerConfigured
  <2> QED
    BY <2>1, <2>2
<1>6. GatewayInv'
  <2>1. CASE gateway = "up"
    BY <1>1, <1>2, <2>1, GatewayStaysUp
  <2>2. CASE gateway = "starting" /\ \A w \in Workers : step[w] = "idle"
    <3>1. gateway' = "starting" /\ \A v \in Workers : v # r => step'[v] = "idle"
      BY <1>0, <1>1, <2>2 DEF SchedulerTypeOK
    <3> QED
      BY <1>3, <3>1 DEF GatewayInv
  <2> QED
    BY <1>1, <2>1, <2>2
<1> QED
  BY <1>2, <1>3, <1>4, <1>5, <1>6, <1>0, KeptOthers

(* The row a sync writes: a new one is due after it was created, one that  *)
(* was there keeps a due time that has come, and no due time lies between  *)
(* the sync and the next one it computes.                                  *)
LEMMA PersistedCovers ==
  ASSUME DueInv, NEW r \in Requests, NEW d \in Configured, step[r] = "sync", d \in todo[r],
         Untouched(d), ConfigSchedule[d] # {}, executions' = executions,
         rows'[d] = Persisted(r, d)
  PROVE  rows'[d].nextDue # Never /\ Covered(d, rows[d].nextDue)'
<1> DEFINE due == seen[r][d].nextDue
           now == seenAt[r]
           next == Following(ConfigSchedule[d], now)
<1>1. d \in Definitions /\ r \in Workers /\ ConfigSchedule[d] \in Schedules /\ MaxTime \in Nat
  BY TriggerAssumption DEF Workers
<1>2. due \in Dues /\ now \in 0..MaxTime /\ rows[d] \in Row
  BY <1>1 DEF DueInv, BaseInv, TypeOK, SchedulerTypeOK, StoreTypeOK, Row, Dues
<1>3. /\ next \in Minutes /\ next > now
      /\ \A v \in ConfigSchedule[d] : v > now => next <= v
  BY <1>1, <1>2, FollowingIsNext
<1>4. /\ rows'[d].schedule = ConfigSchedule[d]
      /\ rows'[d].nextDue = IF due # Never /\ due <= now THEN due ELSE next
      /\ rows'[d].createdAt = IF rows[d].origin = "none" THEN now ELSE rows[d].createdAt
  BY DEF Persisted, SelectNextDueAt
<1>5. /\ rows[d].origin # "none" => seen[r][d].origin # "none"
      /\ rows[d].origin # "none" =>
           /\ rows[d].schedule = ConfigSchedule[d]
           /\ due # Never /\ Covered(d, due)
  <2>1. SyncItem(r, d)
    BY DEF DueInv, SyncOK
  <2>2. RowOK(d)
    BY <1>1 DEF DueInv
  <2> QED
    BY <2>1, <2>2 DEF SyncItem, RowOK, Known
<1> HIDE DEF due, now, next
<1>6. now \in Nat /\ due \in Nat /\ next \in Nat /\ \A t \in ConfigSchedule[d] : t \in Nat
  BY <1>1, <1>2, <1>3 DEF Dues, Minutes, Never, Schedules
<1>7. rows'[d].nextDue # Never
  BY <1>3, <1>4, <1>6 DEF Minutes, Never
<1>8. ASSUME NEW t \in ConfigSchedule[d], rows'[d].createdAt < t, t < rows'[d].nextDue
      PROVE  Recorded(d, t)
  <2>1. t <= now
    BY <1>3, <1>4, <1>6, <1>8
  <2>2. rows[d].origin # "none"
    BY <1>4, <1>6, <1>8, <2>1
  <2>3. t < due
    BY <1>4, <1>5, <1>6, <1>8, <2>1, <2>2
  <2> QED
    BY <1>4, <1>5, <1>8, <2>2, <2>3 DEF Covered
<1> QED
  BY <1>4, <1>7, <1>8 DEF Covered, Recorded

LEMMA SyncDue ==
  ASSUME DueInv, NEW r \in Requests, NEW d \in Definitions,
         UpsertDefinition(r, d) \/ DisableDefinition(r, d)
  PROVE  /\ \A e \in Definitions : RowOK(e)'
         /\ \A k \in Loops : PassOK(k)'
         /\ \A w \in Workers : JobOK(w)'
         /\ \A q \in Requests : SyncOK(q)'
         /\ GatewayInv'
<1>0. /\ r \in Workers /\ r \notin Loops /\ BaseInv /\ SchedulerTypeOK
      /\ rows \in [Definitions -> Row] /\ gateway \in {"down", "starting", "up"}
  BY SchedulerAssumption DEF Workers, DueInv, BaseInv, TypeOK, SchedulerTypeOK, StoreTypeOK
<1>1. Treated(r, d) /\ step[r] = "sync"
  BY <1>0, SyncEffects
<1>2. /\ d \in todo[r] /\ todo'[r] = todo[r] \ {d}
      /\ \A e \in Definitions : e # d => seen'[r][e] = seen[r][e]
      /\ UNCHANGED <<overrides, executions, gateway, step, job>>
      /\ OthersKept(r)
  BY <1>0, <1>1 DEF Treated, OthersKept, SchedulerTypeOK
<1>3. Untouched(d) => SyncItem(r, d)
  BY <1>1, <1>2 DEF DueInv, SyncOK
<1>4. Grown /\ JobOK(r)'
  BY <1>0, <1>1, <1>2, SameGrown DEF JobOK, Dispatching
<1>5. ASSUME NEW e \in Definitions, e # d PROVE Shaped(e) /\ RowOK(e)'
  <2>1. rows'[e] = rows[e]
    <3>1. PICK row : rows' = [rows EXCEPT ![d] = row]
      BY <1>0, SyncEffects
    <3> QED
      BY <1>0, <1>5, <3>1
  <2>2. Shaped(e)
    BY <1>2, <2>1 DEF Shaped, Untouched, Known
  <2>3. CASE Untouched(e)'
    BY <1>4, <2>1, <2>2, <2>3, KeptRow DEF DueInv
  <2>4. CASE ~Untouched(e)'
    BY <2>2, <2>4 DEF RowOK
  <2> QED
    BY <2>2, <2>3, <2>4
<1>6. todo[r] \subseteq Definitions
  BY <1>0 DEF SchedulerTypeOK
<1>7. SyncOK(r)'
  BY <1>1, <1>2, <1>4, <1>5, <1>6, KeptSync DEF DueInv
<1>8. RowOK(d)'
  <2> SUFFICES ASSUME Untouched(d) PROVE RowOK(d)'
    BY <1>2 DEF RowOK, Untouched
  <2>1. CASE UpsertDefinition(r, d)
    <3>1. d \in Configured /\ rows'[d] = Persisted(r, d)
      BY <1>0, <2>1, SyncEffects
    <3>2. rows'[d].schedule = ConfigSchedule[d] /\ rows'[d].origin # "none"
      BY <1>0, <3>1, PersistedTyped
    <3>3. ConfigSchedule[d] # {} =>
            rows'[d].nextDue # Never /\ Covered(d, rows[d].nextDue)'
      BY <1>1, <1>2, <3>1, PersistedCovers
    <3> QED
      BY <3>1, <3>2, <3>3 DEF RowOK, Known, Covered
  <2>2. CASE DisableDefinition(r, d)
    <3>1. d \notin Configured /\ rows[d].origin = "config"
      BY <1>0, <1>3, <2>2, SyncEffects DEF SyncItem
    <3>2. rows'[d] = [rows[d] EXCEPT !.enabled = FALSE, !.nextDue = Never]
      BY <1>0, <2>2, SyncEffects
    <3>3. rows'[d].origin = "config"
      BY <1>0, <3>1, <3>2 DEF Row
    <3> QED
      BY <3>1, <3>3 DEF RowOK, Known, Kept
  <2> QED
    BY <2>1, <2>2
<1>9. CASE Shaped(d)
  <2>1. GatewayInv'
    <3>1. \A e \in Configured : Untouched(e)' => (Known(e)' <=> Known(e))
      BY <1>5, <1>9, TriggerAssumption DEF Shaped
    <3>2. \A e \in Configured : Untouched(e)' <=> Untouched(e)
      BY <1>2 DEF Untouched
    <3>3. CASE gateway = "up"
      BY <1>2, <3>1, <3>2, <3>3 DEF DueInv, GatewayInv
    <3>4. CASE gateway = "starting"
      <4>1. d \in Configured => Known(d)' \/ ~Untouched(d)
        <5>1. CASE UpsertDefinition(r, d)
          <6>1. d \in Configured /\ rows'[d] = Persisted(r, d)
            BY <1>0, <5>1, SyncEffects
          <6> QED
            BY <1>0, <6>1, PersistedTyped DEF Known
        <5>2. CASE DisableDefinition(r, d)
          BY <1>0, <5>2, SyncEffects
        <5> QED
          BY <5>1, <5>2
      <4>2. /\ \A v \in Workers : v # r => step[v] = "idle"
            /\ \A e \in Configured \ todo[r] : Untouched(e) => Known(e)
        BY <1>0, <1>1, <3>4 DEF DueInv, GatewayInv
      <4>3. \A e \in Configured \ todo'[r] : Untouched(e)' => Known(e)'
        BY <1>2, <3>1, <3>2, <4>1, <4>2
      <4> QED
        BY <1>1, <1>2, <3>4, <4>2, <4>3 DEF GatewayInv
    <3>5. gateway # "down"
      BY <1>0, <1>1 DEF DueInv, GatewayInv
    <3> QED
      BY <1>0, <3>3, <3>4, <3>5
  <2> QED
    BY <1>0, <1>2, <1>4, <1>5, <1>7, <1>8, <1>9, <2>1, KeptOthers
<1>10. CASE ~Shaped(d)
  <2>1. Untouched(d)
    BY <1>2, <1>10 DEF Shaped, Untouched
  <2>2. UpsertDefinition(r, d) /\ d \in Configured /\ rows'[d] = Persisted(r, d)
    <3>1. ASSUME DisableDefinition(r, d) PROVE FALSE
      <4>1. rows'[d] = [rows[d] EXCEPT !.enabled = FALSE, !.nextDue = Never]
        BY <1>0, <3>1, SyncEffects
      <4> QED
        BY <1>0, <1>10, <2>1, <4>1 DEF Shaped, Known, Row
    <3> QED
      BY <1>0, <3>1, SyncEffects
  <2>3. ~Known(d)
    <3> SUFFICES ASSUME Known(d) PROVE FALSE
      OBVIOUS
    <3>1. rows[d].schedule = ConfigSchedule[d]
      BY <2>1, <2>2 DEF DueInv, RowOK
    <3>2. /\ rows'[d].schedule = ConfigSchedule[d] /\ rows'[d].origin # "none"
          /\ rows'[d].createdAt = rows[d].createdAt
      BY <1>0, <2>2, PersistedTyped DEF Persisted, Known
    <3> QED
      BY <1>10, <2>1, <2>2, <3>1, <3>2 DEF Shaped, Known
  <2>4. gateway = "starting" /\ \A v \in Workers : v # r => step[v] = "idle"
    BY <1>0, <1>1, <2>1, <2>2, <2>3 DEF DueInv, GatewayInv
  <2>5. \A v \in Workers : v # r => step'[v] = "idle" /\ todo'[v] = {}
    BY <1>2, <2>4 DEF OthersKept, DueInv, BaseInv, WorkerInv
  <2>6. /\ \A k \in Loops : PassOK(k)'
        /\ \A w \in Workers : w # r => JobOK(w)'
        /\ \A q \in Requests : q # r => SyncOK(q)'
    BY <1>0, <2>5 DEF PassOK, JobOK, SyncOK, Dispatching, Workers
  <2>7. GatewayInv'
    <3>1. Known(d)'
      BY <1>0, <2>2, PersistedTyped DEF Known
    <3>2. \A e \in Configured : e # d => (Untouched(e)' => Untouched(e) /\ (Known(e)' <=> Known(e)))
      BY <1>5, TriggerAssumption DEF Shaped
    <3>3. \A e \in Configured \ todo[r] : Untouched(e) => Known(e)
      BY <1>0, <1>1, <2>4 DEF DueInv, GatewayInv
    <3>4. \A e \in Configured \ todo'[r] : Untouched(e)' => Known(e)'
      BY <1>2, <3>1, <3>2, <3>3
    <3> QED
      BY <1>1, <1>2, <2>4, <2>5, <3>4 DEF GatewayInv
  <2> QED
    BY <1>4, <1>5, <1>7, <1>8, <2>6, <2>7
<1> QED
  BY <1>9, <1>10

LEMMA RequestDue ==
  ASSUME DueInv, NEW r \in Requests, RequestStep(r)
  PROVE  /\ \A d \in Definitions : RowOK(d)'
         /\ \A k \in Loops : PassOK(k)'
         /\ \A w \in Workers : JobOK(w)'
         /\ \A q \in Requests : SyncOK(q)'
         /\ GatewayInv'
<1>0. r \in Workers /\ r \notin Loops /\ BaseInv /\ SchedulerTypeOK /\ clock \in Dues
  <2>1. clock \in 0..MaxTime /\ MaxTime \in Nat
    BY TriggerAssumption DEF DueInv, BaseInv, TypeOK, StoreTypeOK
  <2> QED
    BY <2>1, SchedulerAssumption DEF Workers, DueInv, BaseInv, TypeOK, Dues, Never, Minutes
<1>1. CASE FinishSync(r)
  <2>1. /\ Left(r, {}) /\ UNCHANGED <<rows, overrides, executions>>
        /\ gateway' = "up" /\ step[r] = "sync" /\ todo[r] = {}
    BY <1>0, <1>1, ReleaseLeaves DEF FinishSync, storeVars, Synced
  <2>2. Grown /\ \A d \in Definitions : Shaped(d) /\ RowOK(d)'
    BY <1>0, <2>1, SameGrown, SameRows DEF Untouched
  <2>3. \A d \in Configured : Untouched(d) => Known(d)
    BY <1>0, <2>1 DEF DueInv, GatewayInv, SchedulerTypeOK
  <2>4. GatewayInv'
    BY <2>1, <2>3 DEF GatewayInv, Untouched, Known
  <2> QED
    BY <1>0, <2>1, <2>2, <2>4, LeftDue
<1>2. ASSUME NEW d \in Hooks, NEW s \in FirstStatuses, NEW then \in Dispatching, gateway = "up",
             Record(r, d, clock, s, Never, then)
      PROVE  /\ \A e \in Definitions : RowOK(e)'
             /\ \A k \in Loops : PassOK(k)'
             /\ \A w \in Workers : JobOK(w)'
             /\ \A q \in Requests : SyncOK(q)'
             /\ GatewayInv'
  <2>1. d \in Configured /\ d \in Definitions
    BY TriggerAssumption DEF Hooks
  <2>2. Noted(r, d, clock, s, Never, then)
    BY <1>0, <1>2, <2>1, RecordTyped, MinutesAreDues
  <2>3. Untouched(d) => Known(d)
    BY <1>2, <2>1 DEF DueInv, GatewayInv
  <2>4. /\ \A e \in Definitions : Shaped(e) /\ RowOK(e)'
        /\ \A k \in Loops : PassOK(k)'
        /\ \A w \in Workers : JobOK(w)'
        /\ \A q \in Requests : SyncOK(q)'
    BY <1>0, <2>1, <2>2, <2>3, NotedDue
  <2>5. gateway' = "up"
    BY <1>2, <2>2 DEF Noted
  <2> QED
    BY <1>2, <2>4, <2>5, GatewayStaysUp
<1>3. ASSUME NEW d \in Definitions, RejectWebhook(r, d) \/ AcceptWebhook(r, d)
      PROVE  /\ \A e \in Definitions : RowOK(e)'
             /\ \A k \in Loops : PassOK(k)'
             /\ \A w \in Workers : JobOK(w)'
             /\ \A q \in Requests : SyncOK(q)'
             /\ GatewayInv'
  BY <1>2, <1>3 DEF RejectWebhook, AcceptWebhook, FirstStatuses, Dispatching
<1> QED
  BY <1>1, <1>3, StartSyncDue, SyncDue DEF RequestStep

(* Steps that leave the workers alone.                                     *)
LEMMA WorkersKeptDue ==
  ASSUME DueInv, Grown, UNCHANGED workerVars, \A d \in Definitions : Shaped(d)
  PROVE  /\ \A l \in Loops : PassOK(l)'
         /\ \A w \in Workers : JobOK(w)'
         /\ \A r \in Requests : SyncOK(r)'
<1>1. PICK x : x \notin Workers
  BY NoSetContainsEverything
<1>2. OthersKept(x)
  BY DEF OthersKept, workerVars
<1> QED
  BY <1>1, <1>2, KeptOthers DEF Workers

(* An agent creates a row of its own, and touches only rows it has         *)
(* overridden.                                                             *)
LEMMA ManagerDue ==
  ASSUME DueInv, ManagerStep
  PROVE  /\ \A d \in Definitions : RowOK(d)'
         /\ \A l \in Loops : PassOK(l)'
         /\ \A w \in Workers : JobOK(w)'
         /\ \A r \in Requests : SyncOK(r)'
         /\ GatewayInv'
<1>0. /\ BaseInv /\ SchedulerTypeOK /\ rows \in [Definitions -> Row]
      /\ overrides \in [Definitions -> Override]
      /\ UNCHANGED <<executions, gateway, workerVars>> /\ Grown
  BY ManagerBase, SameGrown DEF DueInv, BaseInv, TypeOK, StoreTypeOK
<1>1. ASSUME \A d \in Definitions : Shaped(d)
      PROVE  GatewayInv'
  BY <1>0, <1>1, TriggerAssumption DEF DueInv, GatewayInv, Shaped, workerVars
<1>2. ASSUME NEW d \in Definitions, overrides[d].overridden, UNCHANGED overrides,
             NEW row, rows' = [rows EXCEPT ![d] = row]
      PROVE  \A e \in Definitions : Shaped(e) /\ RowOK(e)'
  <2> SUFFICES ASSUME NEW e \in Definitions PROVE Shaped(e) /\ RowOK(e)'
    OBVIOUS
  <2>1. CASE e = d
    BY <1>2, <2>1 DEF Shaped, RowOK, Untouched
  <2>2. CASE e # d
    <3>1. rows'[e] = rows[e] /\ Shaped(e)
      BY <1>0, <1>2, <2>2 DEF Shaped, Untouched, Known
    <3>2. CASE Untouched(e)'
      BY <1>0, <3>1, <3>2, KeptRow DEF DueInv
    <3>3. CASE ~Untouched(e)'
      BY <3>1, <3>3 DEF RowOK
    <3> QED
      BY <3>1, <3>2, <3>3
  <2> QED
    BY <2>1, <2>2
<1>3. ASSUME \A d \in Definitions : Shaped(d) /\ RowOK(d)'
      PROVE  /\ \A d \in Definitions : RowOK(d)'
             /\ \A l \in Loops : PassOK(l)'
             /\ \A w \in Workers : JobOK(w)'
             /\ \A r \in Requests : SyncOK(r)'
             /\ GatewayInv'
  BY <1>0, <1>1, <1>3, WorkersKeptDue
<1>4. ASSUME NEW d \in Definitions, NEW s \in ManagedSchedules, CreateSchedule(d, s)
      PROVE  /\ \A e \in Definitions : RowOK(e)'
             /\ \A l \in Loops : PassOK(l)'
             /\ \A w \in Workers : JobOK(w)'
             /\ \A r \in Requests : SyncOK(r)'
             /\ GatewayInv'
  <2> DEFINE row == [origin |-> "agent", enabled |-> TRUE, schedule |-> s,
                     nextDue |-> Following(s, clock), createdAt |-> clock]
  <2>1. /\ d \notin Configured /\ rows[d].origin = "none" /\ overrides' = overrides
        /\ rows' = [rows EXCEPT ![d] = row] /\ gateway = "up"
    BY <1>4 DEF CreateSchedule, ManagerFree
  <2>2. /\ s \in Schedules /\ clock \in 0..MaxTime /\ MaxTime \in Nat
        /\ Following(s, clock) \in Minutes
        /\ \A v \in s : v > clock => Following(s, clock) <= v
    BY <1>0, ManagementAssumption, TriggerAssumption, FollowingIsNext
    DEF BaseInv, TypeOK, StoreTypeOK
  <2>3. rows'[d] = row /\ \A e \in Definitions : e # d => rows'[e] = rows[e]
    BY <1>0, <2>1
  <2>4. ASSUME NEW e \in Definitions, e # d PROVE Shaped(e) /\ RowOK(e)'
    <3>1. rows'[e] = rows[e] /\ Shaped(e)
      BY <2>1, <2>3, <2>4 DEF Shaped, Untouched, Known
    <3>2. CASE Untouched(e)'
      BY <1>0, <3>1, <3>2, KeptRow DEF DueInv
    <3>3. CASE ~Untouched(e)'
      BY <3>1, <3>3 DEF RowOK
    <3> QED
      BY <3>1, <3>2, <3>3
  <2>5. RowOK(d)'
    <3>1. rows'[d].nextDue # Never /\ rows'[d].origin = "agent"
      BY <2>2, <2>3 DEF Minutes, Never
    <3>2. Covered(d, rows[d].nextDue)'
      <4>1. \A t \in s : t \in Nat
        BY <2>2 DEF Schedules, Minutes
      <4>2. \A t \in s : ~(clock < t /\ t < Following(s, clock))
        BY <2>2, <4>1 DEF Minutes
      <4> QED
        BY <2>3, <4>2 DEF Covered
    <3> QED
      BY <2>1, <3>1, <3>2 DEF RowOK, Known
  <2>6. \A e \in Definitions : RowOK(e)'
    BY <2>4, <2>5
  <2>7. GatewayInv'
    BY <1>0, <2>1, <2>3, TriggerAssumption DEF DueInv, GatewayInv, Untouched, Known
  <2>8. todo \in [Workers -> SUBSET Definitions] /\ UNCHANGED <<step, todo, seen, job>>
    BY <1>0 DEF SchedulerTypeOK, workerVars
  <2>9. ASSUME NEW l \in Loops PROVE PassOK(l)'
    <3>1. l \in Workers /\ PassOK(l) /\ todo[l] \subseteq Definitions
      BY <2>8 DEF Workers, DueInv
    <3>2. CASE Untouched(d)
      <4>1. d \notin todo[l]
        BY <2>1, <3>1, <3>2 DEF PassOK, PassItem, Known
      <4> QED
        BY <1>0, <2>4, <2>8, <3>1, <4>1, KeptPass
    <3>3. CASE ~Untouched(d)
      <4>1. Shaped(d)
        BY <2>1, <3>3 DEF Shaped, Untouched
      <4> QED
        BY <1>0, <2>4, <2>8, <3>1, <4>1, KeptPass
    <3> QED
      BY <3>2, <3>3
  <2>10. ASSUME NEW w \in Workers PROVE JobOK(w)'
    <3>1. CASE step[w] \in Dispatching
      <4>1. job[w].definition \in Definitions /\ JobOK(w)
        BY <1>0, <3>1, JobFacts DEF DueInv
      <4>2. Shaped(job[w].definition)
        <5>1. CASE job[w].definition # d
          BY <2>4, <4>1, <5>1
        <5>2. CASE job[w].definition = d
          <6>1. Untouched(d) => Known(d)
            BY <3>1, <4>1, <5>2 DEF JobOK
          <6>2. ~Untouched(d)'
            BY <2>1, <6>1 DEF Known, Untouched
          <6>3. Shaped(d)
            BY <6>2 DEF Shaped
          <6> QED
            BY <5>2, <6>3
        <5> QED
          BY <5>1, <5>2
      <4> QED
        BY <1>0, <2>8, <4>1, <4>2, KeptJob
    <3>2. CASE step[w] \notin Dispatching
      BY <2>8, <3>2 DEF JobOK
    <3> QED
      BY <3>1, <3>2
  <2>11. ASSUME NEW r \in Requests PROVE SyncOK(r)'
    <3>1. r \in Workers /\ SyncOK(r) /\ todo[r] \subseteq Definitions
      BY <2>8 DEF Workers, DueInv
    <3>2. CASE step[r] # "sync"
      BY <2>8, <3>2 DEF SyncOK
    <3>3. CASE step[r] = "sync" /\ Untouched(d)
      <4>1. d \notin todo[r]
        BY <2>1, <3>1, <3>3 DEF SyncOK, SyncItem
      <4> QED
        BY <1>0, <2>4, <2>8, <3>1, <4>1, KeptSync
    <3>4. CASE ~Untouched(d)
      <4>1. Shaped(d)
        BY <2>1, <3>4 DEF Shaped, Untouched
      <4> QED
        BY <1>0, <2>4, <2>8, <3>1, <4>1, KeptSync
    <3> QED
      BY <3>2, <3>3, <3>4
  <2> QED
    BY <2>6, <2>7, <2>9, <2>10, <2>11
<1>5. ASSUME rows' = rows, \A d \in Definitions : Untouched(d)' => Untouched(d)
      PROVE  \A d \in Definitions : Shaped(d) /\ RowOK(d)'
  BY <1>0, <1>5, SameRows
<1>6. ASSUME NEW d \in Definitions, NEW s \in ManagedSchedules, Update(d, s)
      PROVE  \A e \in Definitions : Shaped(e) /\ RowOK(e)'
  BY <1>5, <1>6 DEF Update, Match, storeVars, Untouched
<1>7. ASSUME NEW d \in Definitions, Disable(d) \/ Enable(d)
      PROVE  \A e \in Definitions : Shaped(e) /\ RowOK(e)'
  BY <1>5, <1>7 DEF Disable, Enable, Match, storeVars, Untouched
<1>8. ASSUME UpsertOverride
      PROVE  \A e \in Definitions : Shaped(e) /\ RowOK(e)'
  <2>1. rows' = rows /\ \A d \in Definitions : overrides[d].overridden => overrides'[d].overridden
    BY <1>0, <1>8 DEF UpsertOverride, SetOverride
  <2> QED
    BY <1>5, <2>1 DEF Untouched
<1>9. ASSUME Reschedule
      PROVE  \A e \in Definitions : Shaped(e) /\ RowOK(e)'
  <2>1. request.definition \in Definitions /\ overrides[request.definition].overridden
    BY <1>0, <1>9 DEF Reschedule, BaseInv, ManagerInv
  <2>2. /\ request.schedule # {} /\ clock \in 0..MaxTime
        /\ request.schedule \in Schedules \cup {{}}
    BY <1>0, <1>9 DEF Reschedule, BaseInv, ManagerInv, TypeOK, StoreTypeOK, ManagementTypeOK
  <2>3. Following(request.schedule, clock) \in Dues
    BY <2>2, FollowingIsNext, MinutesAreDues
  <2>4. PICK d \in Definitions, due \in Dues :
          d = request.definition /\ due = Following(request.schedule, clock)
    BY <2>1, <2>3
  <2>5. SetDue(d, due) /\ ~Untouched(d) /\ UNCHANGED overrides
    BY <1>9, <2>1, <2>4 DEF Reschedule, Untouched
  <2> QED
    BY <1>0, <2>5, StoredRows
<1>10. ASSUME ReadBaseline
       PROVE  \A e \in Definitions : Shaped(e) /\ RowOK(e)'
  BY <1>5, <1>10 DEF ReadBaseline, storeVars, Untouched
<1>11. ASSUME WriteAudit
       PROVE  \A e \in Definitions : Shaped(e) /\ RowOK(e)'
  <2>1. request.definition \in Definitions /\ overrides[request.definition].overridden
    BY <1>0, <1>11 DEF WriteAudit, BaseInv, ManagerInv
  <2>2. rows' = [rows EXCEPT ![request.definition] = baseline] /\ UNCHANGED overrides
    BY <1>11 DEF WriteAudit
  <2> QED
    BY <1>2, <2>1, <2>2
<1> QED
  BY <1>3, <1>4, <1>6, <1>7, <1>8, <1>9, <1>10, <1>11 DEF ManagerStep

LEMMA MishapDue ==
  ASSUME DueInv, Mishap
  PROVE  /\ \A d \in Definitions : RowOK(d)'
         /\ \A l \in Loops : PassOK(l)'
         /\ \A w \in Workers : JobOK(w)'
         /\ \A r \in Requests : SyncOK(r)'
         /\ GatewayInv'
<1>0. /\ BaseInv /\ SchedulerTypeOK /\ UNCHANGED <<clock, rows, overrides, executions>>
      /\ MishapEffect
  BY MishapEffects DEF DueInv, BaseInv, TypeOK
<1>1. Grown /\ \A d \in Definitions : Shaped(d) /\ RowOK(d)'
  BY <1>0, SameGrown, SameRows DEF Untouched
<1>2. ASSUME NEW w \in Workers, Left(w, {}), step[w] # "idle", step'[w] = "idle",
             gateway' = IF gateway = "starting" THEN "down" ELSE gateway
      PROVE  GatewayInv'
  <2>1. \A v \in Workers : v # w => step'[v] = step[v]
    BY <1>0, <1>2 DEF Left, SchedulerTypeOK
  <2>2. gateway # "down"
    BY <1>2 DEF DueInv, GatewayInv
  <2>3. CASE gateway = "starting"
    <3>1. \A v \in Workers : v # w => step[v] = "idle"
      BY <1>2, <2>3 DEF DueInv, GatewayInv
    <3>2. gateway' = "down"
      BY <1>2, <2>3
    <3> QED
      BY <1>2, <2>1, <3>1, <3>2 DEF GatewayInv
  <2>4. CASE gateway # "starting"
    <3>1. gateway = "up" /\ gateway' = "up"
      BY <1>0, <1>2, <2>2, <2>4 DEF SchedulerTypeOK
    <3> QED
      BY <1>1, <3>1, GatewayStaysUp
  <2> QED
    BY <2>3, <2>4
<1>3. ASSUME UNCHANGED <<gateway, workerVars>>
      PROVE  GatewayInv'
  BY <1>0, <1>3 DEF DueInv, GatewayInv, workerVars, Untouched, Known
<1>4. ASSUME gateway' = "down", step' = [w \in Workers |-> "idle"],
             todo' = [w \in Workers |-> {}]
      PROVE  /\ \A l \in Loops : PassOK(l)'
             /\ \A w \in Workers : JobOK(w)'
             /\ \A r \in Requests : SyncOK(r)'
             /\ GatewayInv'
  BY <1>4 DEF PassOK, JobOK, SyncOK, GatewayInv, Dispatching, Workers
<1> QED
  BY <1>0, <1>1, <1>2, <1>3, <1>4, LeftDue, WorkersKeptDue DEF MishapEffect

LEMMA NextDueInv == DueInv /\ [Next]_vars => DueInv'
<1> SUFFICES ASSUME DueInv, [Next]_vars PROVE DueInv'
  OBVIOUS
<1> DEFINE Rest == /\ \A d \in Definitions : RowOK(d)
                   /\ \A l \in Loops : PassOK(l)
                   /\ \A w \in Workers : JobOK(w)
                   /\ \A r \in Requests : SyncOK(r)
                   /\ GatewayInv
<1>1. BaseInv'
  BY NextBase DEF DueInv
<1>2. ASSUME WorkerStep PROVE Rest'
  BY <1>2, LoopDue, DispatcherDue, RequestDue DEF WorkerStep
<1>3. ASSUME ExecutorStep PROVE Rest'
  <2>1. PICK i \in 1..Len(executions) : StoreTypeOK' /\ ExecutorWrites(i)
    BY <1>3, ExecutorBase DEF ExecutorStep, DueInv
  <2>2. /\ Len(executions') = Len(executions)
        /\ \A j \in 1..Len(executions) : /\ executions'[j].definition = executions[j].definition
                                         /\ executions'[j].due = executions[j].due
        /\ UNCHANGED <<rows, overrides, gateway, workerVars>>
    BY <2>1 DEF ExecutorWrites
  <2>3. Grown
    BY <2>2, LenProperties DEF DueInv, BaseInv, TypeOK, StoreTypeOK, Grown
  <2>4. \A d \in Definitions : Shaped(d) /\ RowOK(d)'
    BY <2>2, <2>3, SameRows DEF Untouched
  <2>5. GatewayInv'
    BY <2>2 DEF DueInv, GatewayInv, workerVars, Untouched, Known
  <2> QED
    BY <2>2, <2>3, <2>4, <2>5, WorkersKeptDue
<1>4. ASSUME TimePasses \/ StartGateway \/ UNCHANGED vars PROVE Rest'
  <2>1. UNCHANGED <<rows, overrides, executions, workerVars>>
    BY <1>4 DEF TimePasses, Tick, StartGateway, vars, storeVars
  <2>2. gateway' = gateway \/ (gateway = "down" /\ gateway' = "starting")
    BY <1>4 DEF TimePasses, StartGateway, vars
  <2>3. Grown /\ \A d \in Definitions : Shaped(d) /\ RowOK(d)'
    BY <2>1, SameGrown, SameRows DEF Untouched, DueInv
  <2>4. GatewayInv'
    BY <2>1, <2>2 DEF DueInv, GatewayInv, workerVars, Untouched, Known
  <2> QED
    BY <2>1, <2>3, <2>4, WorkersKeptDue
<1>5. Rest'
  BY <1>2, <1>3, <1>4, ManagerDue, MishapDue DEF Next, WellBehaved
<1> QED
  BY <1>1, <1>5 DEF DueInv

LEMMA DueAlways == Spec => []DueInv
<1> QED
  BY InitDue, NextDueInv, PTL DEF Spec

(* Every due time of a schedule that has come is recorded, or is still     *)
(* ahead of the row's next_due_at: overlapping passes, syncs and webhooks, *)
(* crashes and rejected calls at any point lose none, for every set of     *)
(* definitions and schedules and any number of passes and requests.        *)
THEOREM DueTimesKept == Spec => []NoDueTimeLost
<1>1. DueInv => NoDueTimeLost
  <2> SUFFICES ASSUME DueInv, NEW d \in Definitions, Kept(d), Untouched(d),
                      NEW t \in rows[d].schedule, rows[d].createdAt < t, t <= clock
               PROVE  Recorded(d, t) \/ (rows[d].nextDue # Never /\ rows[d].nextDue <= t)
    BY DEF NoDueTimeLost, Kept, Untouched
  <2>1. rows[d].nextDue # Never /\ Covered(d, rows[d].nextDue)
    BY DEF DueInv, RowOK
  <2>2. rows[d] \in Row /\ MaxTime \in Nat
    BY TriggerAssumption DEF DueInv, BaseInv, TypeOK, StoreTypeOK
  <2>3. t \in Nat /\ rows[d].nextDue \in Nat
    BY <2>2 DEF Row, Schedules, Minutes, Never
  <2> QED
    BY <2>1, <2>3 DEF Covered
<1> QED
  BY <1>1, DueAlways, PTL

---------------------------------------------------------------------------
(* What an agent disabled stays disabled until an agent enables it: only   *)
(* the handler of a request writes an override, and an update writes the   *)
(* flag it matched.                                                        *)
THEOREM DisabledStays == Spec => DisableHolds
<1> DEFINE A == \A d \in Definitions :
                  overrides[d].overridden /\ ~Effective(d).enabled /\ Effective(d)'.enabled =>
                    request.operation = "enable"
<1>1. BaseInv /\ BaseInv' /\ [Next]_vars => [A]_vars
  <2> SUFFICES ASSUME BaseInv, BaseInv', Next, NEW d \in Definitions, overrides[d].overridden,
                      ~Effective(d).enabled, Effective(d)'.enabled
               PROVE  request.operation = "enable"
    OBVIOUS
  <2>0. /\ StoreTypeOK /\ ManagementTypeOK /\ ManagerInv
        /\ overrides \in [Definitions -> Override] /\ rows'[d] \in Row
    BY DEF BaseInv, TypeOK, StoreTypeOK
  <2>1. ~overrides[d].enabled
    BY <2>0, EffectiveTyped
  <2>2. \/ overrides' = overrides
        \/ UpsertOverride
    <3>1. WorkerStep => overrides' = overrides
      BY LoopBase, DispatcherBase, RequestBase DEF WorkerStep
    <3>2. ManagerStep => overrides' = overrides \/ UpsertOverride
      BY DEF ManagerStep, CreateSchedule, Update, Disable, Enable, Match, Reschedule,
             ReadBaseline, WriteAudit, storeVars
    <3>3. ExecutorStep \/ TimePasses \/ StartGateway => overrides' = overrides
      BY DEF ExecutorStep, RunStarts, RunEnds, TimePasses, Tick, StartGateway, storeVars
    <3>4. Mishap => overrides' = overrides
      BY MishapEffects
    <3> QED
      BY <3>1, <3>2, <3>3, <3>4 DEF Next, WellBehaved
  <2>3. overrides'[d].overridden => Effective(d)'.enabled = overrides'[d].enabled
    BY <2>0 DEF Effective, Row
  <2>4. CASE overrides' = overrides
    BY <2>1, <2>3, <2>4
  <2>5. CASE UpsertOverride
    <3>1. overrides' = [overrides EXCEPT ![request.definition] =
             [overridden |-> TRUE, enabled |-> request.enabled, schedule |-> request.schedule]]
      BY <2>5 DEF UpsertOverride, SetOverride
    <3>2. overrides'[d].overridden /\ overrides'[d].enabled
      BY <2>0, <2>3, <3>1
    <3>3. request.definition = d /\ request.enabled
      BY <2>0, <2>1, <3>1, <3>2
    <3>4. request.operation \in {"none", "update", "disable", "enable"}
      BY <2>0 DEF ManagementTypeOK
    <3> QED
      BY <2>0, <2>1, <2>5, <3>3, <3>4 DEF UpsertOverride, ManagerInv
  <2> QED
    BY <2>2, <2>4, <2>5
<1> QED
  BY <1>1, BaseAlways, PTL DEF Spec, DisableHolds

===========================================================================

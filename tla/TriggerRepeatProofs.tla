------------------------ MODULE TriggerRepeatProofs -----------------------
(***************************************************************************)
(* Proof, for every configuration, every number of passes and requests and *)
(* every bound, that the trigger subsystem repeats a due time only where   *)
(* two of its handlers overlapped or one was cut short.                    *)
(***************************************************************************)
EXTENDS TriggerSchedulingProofs, FiniteSetTheorems

---------------------------------------------------------------------------
(* The inductive invariant.                                                *)

(* While no two handlers overlapped and none was cut short, there is one   *)
(* actor at a time, and what it read is what is still there.               *)
Alone ==
  /\ \A v, w \in AtWork : v = w
  /\ managerStep # "idle" => AtWork = {}

(* Whatever an execution or an override is about has a row; the schedule   *)
(* of a configured definition is that of the configuration.                *)
KnownInv ==
  /\ \A i \in 1..Len(executions) : Known(executions[i].definition)
  /\ \A d \in Definitions : overrides[d].overridden => Known(d)
  /\ \A d \in Definitions : ~Known(d) => rows[d].schedule = {}
  /\ \A d \in Configured : Known(d) => rows[d].schedule = ConfigSchedule[d]
  /\ managerStep # "idle" => Known(request.definition)
  /\ managerStep = "audit" => baseline = rows[request.definition]

(* What is recorded of a schedule lies before the row's next_due_at, but   *)
(* for the execution that is being dispatched.                             *)
Behind(i) ==
  LET d == executions[i].definition IN
  rows[d].schedule # {} /\ rows[d].nextDue # Never =>
    \/ executions[i].due < rows[d].nextDue
    \/ \E l \in Loops : step[l] \in Dispatching /\ job[l].execution = i

PassInOrder(l) ==
  /\ \A d \in todo[l] : Known(d) /\ seen[l][d].nextDue = rows[d].nextDue
  /\ step[l] \in Dispatching =>
       /\ executions[job[l].execution].definition = job[l].definition
       /\ executions[job[l].execution].due = rows[job[l].definition].nextDue
       /\ executions[job[l].execution].due # Never
       /\ executions[job[l].execution].due < job[l].nextDue

RequestInOrder(r) ==
  /\ step[r] \in Dispatching => job[r].nextDue = Never
  /\ step[r] = "sync" =>
       /\ \A d \in todo[r] \cap Configured : seen[r][d] = rows[d]
       /\ \A i \in 1..Len(executions) : executions[i].due <= seenAt[r]

Distinct ==
  \A i, j \in 1..Len(executions) :
    /\ executions[i].definition = executions[j].definition
    /\ executions[i].due = executions[j].due
    /\ rows[executions[i].definition].schedule # {}
    => i = j

OrderInv ==
  /\ KnownInv
  /\ \A i \in 1..Len(executions) : Behind(i)
  /\ \A l \in Loops : PassInOrder(l)
  /\ \A r \in Requests : RequestInOrder(r)
  /\ Distinct

PastInv ==
  /\ IsFiniteSet(AtWork)
  /\ \A i \in 1..Len(executions) : executions[i].due <= clock

RepeatInv == DueInv /\ PastInv /\ (~overlapped => Alone /\ OrderInv)

(* Counting the actors: more than one is an overlap.                       *)
LEMMA OneAtMost ==
  ASSUME NEW S, IsFiniteSet(S), NEW b \in {0, 1}, ~(Cardinality(S) + b > 1)
  PROVE  (\A v, w \in S : v = w) /\ (b = 1 => S = {})
<1>1. Cardinality(S) \in Nat
  BY FS_CardinalityType
<1>2. ASSUME NEW v \in S, NEW w \in S, v # w PROVE FALSE
  <2>1. IsFiniteSet({v}) /\ Cardinality({v}) = 1
    BY FS_Singleton
  <2>2. IsFiniteSet({v} \cup {w}) /\ Cardinality({v} \cup {w}) = 2
    BY <1>2, <2>1, FS_AddElement
  <2>3. 2 <= Cardinality(S)
    BY <1>2, <2>2, FS_Subset
  <2>4. Cardinality(S) <= 1
    BY <1>1
  <2> QED
    BY <1>1, <2>3, <2>4
<1>3. b = 1 => Cardinality(S) = 0
  BY <1>1
<1> QED
  BY <1>2, <1>3, FS_EmptySet

LEMMA StillFinite ==
  ASSUME IsFiniteSet(AtWork), NEW x, \A v \in Workers : v # x => step'[v] = step[v]
  PROVE  IsFiniteSet(AtWork)'
<1>1. IsFiniteSet(AtWork \cup {x})
  BY FS_AddElement
<1>2. AtWork' \subseteq AtWork \cup {x}
  BY DEF AtWork
<1> QED
  BY <1>1, <1>2, FS_Subset

(* A worker that makes a call is at work before it or after it, and no     *)
(* other worker's step changes.                                            *)
Moves(w) ==
  (w \in Loops /\ LoopStep(w)) \/ DispatcherStep(w) \/ (w \in Requests /\ RequestStep(w))

LEMMA MoverAlone ==
  ASSUME BaseInv, NEW w \in Workers, Moves(w)
  PROVE  /\ \A v \in Workers : v # w => step'[v] = step[v]
         /\ step[w] # "idle" \/ step'[w] # "idle"
<1>0. SchedulerTypeOK
  BY DEF BaseInv, TypeOK
<1>1. ASSUME NEW l \in Loops, LoopStep(l)
      PROVE  \A v \in Workers : v # l => step'[v] = step[v]
  <2>1. CASE StartPass(l)
    BY <1>0, <2>1 DEF StartPass, Goto, SchedulerTypeOK
  <2>2. ASSUME NEW d \in Definitions, NotDue(l, d) \/ SetFirstDue(l, d)
        PROVE  \A v \in Workers : v # l => step'[v] = step[v]
    <3>1. Left(l, {d})
      BY <1>0, <2>2, LeaveLeaves DEF NotDue, SetFirstDue
    <3> QED
      BY <1>0, <3>1 DEF Left, SchedulerTypeOK
  <2>3. ASSUME NEW d \in Definitions, RecordSkipped(l, d) \/ RecordMissed(l, d) \/ DispatchDue(l, d)
        PROVE  \A v \in Workers : v # l => step'[v] = step[v]
    BY <1>0, <2>3 DEF RecordSkipped, RecordMissed, DispatchDue, Record, Goto, SchedulerTypeOK
  <2> QED
    BY <1>1, <2>1, <2>2, <2>3 DEF LoopStep
<1>2. ASSUME DispatcherStep(w)
      PROVE  \A v \in Workers : v # w => step'[v] = step[v]
  <2>1. CASE CreateRun(w) \/ PushRun(w) \/ MarkQueued(w)
    BY <1>0, <2>1 DEF CreateRun, PushRun, MarkQueued, Goto, SchedulerTypeOK
  <2>2. CASE AdvanceDispatched(w)
    <3>1. Left(w, {job[w].definition})
      BY <2>2, AdvanceEffects
    <3> QED
      BY <1>0, <3>1 DEF Left, SchedulerTypeOK
  <2>3. CASE AdvanceRecorded(w) /\ w \notin Loops
    <3>1. Left(w, {job[w].definition})
      BY <2>3, AdvanceEffects
    <3> QED
      BY <1>0, <3>1 DEF Left, SchedulerTypeOK
  <2>4. CASE AdvanceRecorded(w) /\ w \in Loops
    <3>1. GoesOn(w)
      BY <2>4, AdvanceEffects
    <3> QED
      BY <1>0, <3>1 DEF GoesOn, SchedulerTypeOK
  <2> QED
    BY <1>2, <2>1, <2>2, <2>3, <2>4 DEF DispatcherStep
<1>3. ASSUME NEW r \in Requests, RequestStep(r)
      PROVE  \A v \in Workers : v # r => step'[v] = step[v]
  <2>1. CASE StartSync(r) \/ FinishSync(r)
    BY <1>0, <2>1 DEF StartSync, FinishSync, Release, Goto, SchedulerTypeOK
  <2>2. ASSUME NEW d \in Definitions, UpsertDefinition(r, d) \/ DisableDefinition(r, d)
        PROVE  step' = step
    BY <2>2 DEF UpsertDefinition, DisableDefinition
  <2>3. ASSUME NEW d \in Definitions, RejectWebhook(r, d) \/ AcceptWebhook(r, d)
        PROVE  \A v \in Workers : v # r => step'[v] = step[v]
    BY <1>0, <2>3 DEF RejectWebhook, AcceptWebhook, Record, Goto, SchedulerTypeOK
  <2> QED
    BY <1>3, <2>1, <2>2, <2>3 DEF RequestStep
<1>4. step[w] # "idle" \/ step'[w] # "idle"
  <2>1. StartPass(w) \/ StartSync(w) => step'[w] # "idle"
    BY <1>0 DEF StartPass, StartSync, Goto, SchedulerTypeOK
  <2>2. ASSUME NEW d \in Definitions,
               Scans(w, d) \/ UpsertDefinition(w, d) \/ DisableDefinition(w, d) \/ Synced(w)
        PROVE  step[w] # "idle"
    BY <2>2 DEF Scans, UpsertDefinition, DisableDefinition, Synced
  <2>3. DispatcherStep(w) => step[w] # "idle"
    BY DEF DispatcherStep, CreateRun, PushRun, MarkQueued, AdvanceDispatched, AdvanceRecorded
  <2> QED
    BY <2>1, <2>2, <2>3
    DEF Moves, LoopStep, RequestStep, NotDue, SetFirstDue, RecordSkipped, RecordMissed, DispatchDue,
        FinishSync, RejectWebhook, AcceptWebhook, Synced
<1> QED
  BY <1>1, <1>2, <1>3, <1>4 DEF Moves

(* Unless all of them end, at most one worker's step changes.              *)
LEMMA OneWorkerSteps ==
  ASSUME BaseInv, [Next]_vars
  PROVE  \/ \E x : \A v \in Workers : v # x => step'[v] = step[v]
         \/ \A v \in Workers : step'[v] = "idle"
<1>0. SchedulerTypeOK
  BY DEF BaseInv, TypeOK
<1>4. ASSUME UNCHANGED step
      PROVE  \E x : \A v \in Workers : v # x => step'[v] = step[v]
  BY <1>4
<1>5. ManagerStep \/ ExecutorStep \/ TimePasses \/ StartGateway \/ UNCHANGED vars => UNCHANGED step
  <2>1. ManagerStep => UNCHANGED step
    BY ManagerBase DEF workerVars
  <2> QED
    BY <2>1 DEF ExecutorStep, RunStarts, RunEnds, TimePasses, StartGateway, vars, workerVars
<1>6. Mishap => \/ \E x : \A v \in Workers : v # x => step'[v] = step[v]
                \/ \A v \in Workers : step'[v] = "idle"
  <2> SUFFICES ASSUME Mishap
               PROVE  \/ \E x : \A v \in Workers : v # x => step'[v] = step[v]
                      \/ \A v \in Workers : step'[v] = "idle"
    OBVIOUS
  <2>1. ASSUME NEW w \in Workers, CallRejected(w)
        PROVE  \A v \in Workers : v # w => step'[v] = step[v]
    BY <1>0, <2>1 DEF CallRejected, Release, Goto, SchedulerTypeOK
  <2>2. ManagerCallRejected => UNCHANGED step
    BY DEF ManagerCallRejected, workerVars
  <2>3. Crash => \A v \in Workers : step'[v] = "idle"
    BY DEF Crash
  <2> QED
    BY <1>4, <2>1, <2>2, <2>3 DEF Mishap
<1>7. WorkerStep => \E x : \A v \in Workers : v # x => step'[v] = step[v]
  BY MoverAlone DEF WorkerStep, Moves, Workers
<1> QED
  BY <1>4, <1>5, <1>6, <1>7 DEF Next, WellBehaved

(* Executions are recorded when their due time has come.                   *)
LEMMA NextPast ==
  ASSUME BaseInv, PastInv, [Next]_vars
  PROVE  PastInv'
<1>1. IsFiniteSet(AtWork)'
  <2>1. ASSUME \A v \in Workers : step'[v] = "idle" PROVE AtWork' = {}
    BY <2>1 DEF AtWork
  <2> QED
    BY <2>1, OneWorkerSteps, StillFinite, FS_EmptySet DEF PastInv
<1>0. /\ Len(executions) \in Nat /\ clock \in Nat /\ executions \in Seq(Execution)
      /\ \A i \in 1..Len(executions) : executions[i].due \in Nat
  <2>1. executions \in Seq(Execution) /\ clock \in 0..MaxTime
    BY DEF BaseInv, TypeOK, StoreTypeOK
  <2>2. \A i \in 1..Len(executions) : executions[i] \in Execution
    BY <2>1, ElementOfSeq
  <2> QED
    BY <2>1, <2>2, TriggerAssumption, LenProperties DEF Execution, Minutes
<1>2. ASSUME clock' \in Nat, clock <= clock', Len(executions') = Len(executions),
             \A i \in 1..Len(executions) : executions'[i].due = executions[i].due
      PROVE  \A i \in 1..Len(executions') : executions'[i].due <= clock'
  BY <1>0, <1>2 DEF PastInv
<1>3. ASSUME NEW w \in Workers, NEW d \in Definitions, NEW due \in Dues, NEW s \in FirstStatuses,
             NEW n \in Dues, NEW then \in Dispatching, Record(w, d, due, s, n, then), due <= clock
      PROVE  \A i \in 1..Len(executions') : executions'[i].due <= clock'
  <2>1. Noted(w, d, due, s, n, then)
    BY <1>3, RecordTyped
  <2>2. /\ Len(executions') = Len(executions) + 1 /\ clock' = clock
        /\ \A i \in 1..Len(executions) : executions'[i] = executions[i]
        /\ executions'[Len(executions) + 1].due = due
    BY <2>1 DEF Noted
  <2> QED
    BY <1>0, <1>3, <2>2 DEF PastInv
<1>4. ASSUME UNCHANGED executions, UNCHANGED clock
      PROVE  \A i \in 1..Len(executions') : executions'[i].due <= clock'
  BY <1>0, <1>2, <1>4
<1>5. ASSUME NEW l \in Loops, LoopStep(l)
      PROVE  \A i \in 1..Len(executions') : executions'[i].due <= clock'
  <2>1. ASSUME NEW d \in Definitions,
               RecordSkipped(l, d) \/ RecordMissed(l, d) \/ DispatchDue(l, d)
        PROVE  \A i \in 1..Len(executions') : executions'[i].due <= clock'
    <3>1. Scans(l, d) /\ IsDue(l, d)
      BY <2>1 DEF RecordSkipped, RecordMissed, DispatchDue
    <3>2. /\ l \in Workers /\ seen[l][d].nextDue \in Dues /\ AfterThis(l, d) \in Dues
          /\ seen[l][d].nextDue <= clock
      BY <3>1, ScanFacts, MinutesAreDues DEF IsDue
    <3> QED
      BY <1>3, <2>1, <3>2
      DEF RecordSkipped, RecordMissed, DispatchDue, FirstStatuses, Dispatching
  <2> QED
    BY <1>4, <1>5, <2>1 DEF LoopStep, StartPass, NotDue, SetFirstDue, storeVars
<1>6. ASSUME NEW w \in Workers, DispatcherStep(w)
      PROVE  \A i \in 1..Len(executions') : executions'[i].due <= clock'
  <2>1. ASSUME NEW s \in Statuses, NEW r \in RunStates, NEW then \in Dispatching,
               step[w] \in Dispatching, DispatchCall(w, s, r, then)
        PROVE  \A i \in 1..Len(executions') : executions'[i].due <= clock'
    <3>1. /\ Len(executions') = Len(executions) /\ clock' = clock
          /\ \A i \in 1..Len(executions) : executions'[i].due = executions[i].due
      BY <2>1, DispatchCallTyped
    <3> QED
      BY <1>0, <1>2, <3>1
  <2>2. ASSUME step[w] \in Dispatching
        PROVE  executions[job[w].execution].status \in Statuses /\ executions[job[w].execution].run \in RunStates
    BY <2>2, JobFacts DEF Execution, Statuses, RunStates
  <2>3. ASSUME CreateRun(w) \/ PushRun(w) \/ MarkQueued(w)
        PROVE  \A i \in 1..Len(executions') : executions'[i].due <= clock'
    <3>1. step[w] \in Dispatching
      BY <2>3 DEF CreateRun, PushRun, MarkQueued, Dispatching
    <3>2. /\ "created" \in RunStates /\ "queued" \in RunStates /\ "queued" \in Statuses
          /\ "push" \in Dispatching /\ "markQueued" \in Dispatching /\ "advance" \in Dispatching
      BY DEF RunStates, Statuses, Dispatching
    <3> QED
      BY <2>1, <2>2, <2>3, <3>1, <3>2, DispatchCalls
  <2> QED
    BY <1>4, <1>6, <2>3 DEF DispatcherStep, AdvanceDispatched, AdvanceRecorded
<1>7. ASSUME NEW r \in Requests, RequestStep(r)
      PROVE  \A i \in 1..Len(executions') : executions'[i].due <= clock'
  <2>1. ASSUME NEW d \in Definitions, RejectWebhook(r, d) \/ AcceptWebhook(r, d)
        PROVE  \A i \in 1..Len(executions') : executions'[i].due <= clock'
    <3>1. clock \in Dues /\ Never \in Dues /\ clock <= clock
      BY <1>0, TriggerAssumption DEF BaseInv, TypeOK, StoreTypeOK, Dues, Minutes, Never
    <3>2. r \in Workers
      BY DEF Workers
    <3> QED
      BY <1>3, <2>1, <3>1, <3>2 DEF RejectWebhook, AcceptWebhook, FirstStatuses, Dispatching
  <2> QED
    BY <1>4, <1>7, <2>1
    DEF RequestStep, StartSync, FinishSync, UpsertDefinition, DisableDefinition, storeVars
<1>8. ASSUME ExecutorStep
      PROVE  \A i \in 1..Len(executions') : executions'[i].due <= clock'
  <2>1. PICK i \in 1..Len(executions) : ExecutorWrites(i)
    BY <1>8, ExecutorBase DEF ExecutorStep
  <2> QED
    BY <1>0, <1>2, <2>1 DEF ExecutorWrites
<1>9. ASSUME ManagerStep \/ TimePasses \/ StartGateway \/ Mishap \/ UNCHANGED vars
      PROVE  \A i \in 1..Len(executions') : executions'[i].due <= clock'
  <2>1. ManagerStep \/ StartGateway \/ Mishap \/ UNCHANGED vars => UNCHANGED <<executions, clock>>
    BY ManagerBase, MishapEffects DEF StartGateway, vars, storeVars
  <2>2. TimePasses => UNCHANGED executions /\ clock' = clock + 1
    BY DEF TimePasses, Tick, storeVars
  <2> QED
    BY <1>0, <1>2, <1>9, <2>1, <2>2
<1>10. \A i \in 1..Len(executions') : executions'[i].due <= clock'
  BY <1>5, <1>6, <1>7, <1>8, <1>9 DEF Next, WellBehaved, WorkerStep
<1> QED
  BY <1>1, <1>10 DEF PastInv

(* A step of a worker w that is alone.                                     *)
OthersIdle(w) ==
  /\ managerStep = "idle" /\ UNCHANGED managerVars
  /\ \A v \in Workers : v # w => step[v] = "idle" /\ step'[v] = "idle"

OrderPre == DueInv /\ PastInv /\ OrderInv /\ BaseInv'

LEMMA DueTypes ==
  ASSUME BaseInv
  PROVE  /\ Len(executions) \in Nat /\ clock \in 0..MaxTime /\ clock \in Nat
         /\ \A i \in 1..Len(executions) : executions[i].due \in Nat
         /\ \A i \in 1..Len(executions) : executions[i].definition \in Definitions
         /\ \A d \in Definitions : rows[d].nextDue \in Nat
<1>1. executions \in Seq(Execution) /\ clock \in 0..MaxTime /\ rows \in [Definitions -> Row]
  BY DEF BaseInv, TypeOK, StoreTypeOK
<1>2. \A i \in 1..Len(executions) : executions[i] \in Execution
  BY <1>1, ElementOfSeq
<1>3. Len(executions) \in Nat /\ clock \in Nat
  BY <1>1, TriggerAssumption, LenProperties
<1>4. ASSUME NEW i \in 1..Len(executions)
      PROVE  executions[i].due \in Nat /\ executions[i].definition \in Definitions
  BY <1>2, TriggerAssumption DEF Execution, Minutes
<1>5. ASSUME NEW d \in Definitions PROVE rows[d].nextDue \in Nat
  BY <1>1, TriggerAssumption DEF Row, Minutes, Never
<1> QED
  BY <1>1, <1>3, <1>4, <1>5

(* A worker that is idle has nothing left to treat.                        *)
LEMMA IdleInOrder ==
  ASSUME BaseInv', NEW v \in Workers, step'[v] = "idle"
  PROVE  PassInOrder(v)' /\ RequestInOrder(v)'
<1>1. todo'[v] = {}
  BY DEF BaseInv, WorkerInv
<1> QED
  BY <1>1 DEF PassInOrder, RequestInOrder, Dispatching

(* Where only a worker that is alone takes a step, it is enough to look at *)
(* what that worker has left.                                              *)
LEMMA AloneInOrder ==
  ASSUME BaseInv', NEW w \in Workers, OthersIdle(w), KnownInv',
         \A i \in 1..Len(executions') : Behind(i)', Distinct',
         w \in Loops => PassInOrder(w)', w \in Requests => RequestInOrder(w)'
  PROVE  OrderInv'
<1>1. \A v \in Workers : v # w => PassInOrder(v)' /\ RequestInOrder(v)'
  BY IdleInOrder DEF OthersIdle
<1>2. Loops \subseteq Workers /\ Requests \subseteq Workers
  BY DEF Workers
<1>3. (\A l \in Loops : PassInOrder(l)') /\ (\A r \in Requests : RequestInOrder(r)')
  BY <1>1, <1>2
<1> QED
  BY <1>3 DEF OrderInv

(* The executions that are there keep their definition and due time.       *)
SameHistory ==
  /\ Len(executions') = Len(executions)
  /\ \A i \in 1..Len(executions) : /\ executions'[i].definition = executions[i].definition
                                   /\ executions'[i].due = executions[i].due

LEMMA KnownParts ==
  ASSUME (\A i \in 1..Len(executions) : Known(executions[i].definition))',
         (\A d \in Definitions : overrides[d].overridden => Known(d))',
         (\A d \in Definitions : ~Known(d) => rows[d].schedule = {})',
         (\A d \in Configured : Known(d) => rows[d].schedule = ConfigSchedule[d])',
         (managerStep # "idle" => Known(request.definition))',
         managerStep' # "audit"
  PROVE  KnownInv'
<1> QED
  BY DEF KnownInv

LEMMA KnownKept ==
  ASSUME KnownInv, managerStep = "idle", UNCHANGED managerVars, UNCHANGED overrides,
         \A d \in Definitions : rows'[d].origin = rows[d].origin /\ rows'[d].schedule = rows[d].schedule,
         \A i \in 1..Len(executions') : executions'[i].definition \in Definitions
                                        /\ Known(executions'[i].definition)
  PROVE  KnownInv'
<1> QED
  BY TriggerAssumption DEF KnownInv, Known, managerVars

LEMMA DistinctKept ==
  ASSUME BaseInv, Distinct, SameHistory,
         \A i \in 1..Len(executions) :
           rows'[executions[i].definition].schedule # {} => rows[executions[i].definition].schedule # {}
  PROVE  Distinct'
<1>1. Len(executions') = Len(executions)
  BY DEF SameHistory
<1> SUFFICES ASSUME NEW i \in 1..Len(executions), NEW j \in 1..Len(executions),
                    executions'[i].definition = executions'[j].definition,
                    executions'[i].due = executions'[j].due,
                    rows'[executions'[i].definition].schedule # {}
             PROVE  i = j
  BY <1>1 DEF Distinct
<1> QED
  BY DEF SameHistory, Distinct

(* A step that leaves the rows, the history and what the workers have left *)
(* alone.                                                                  *)
LEMMA QuietInOrder ==
  ASSUME BaseInv, OrderInv, rows' = rows, SameHistory,
         \A d \in Definitions : overrides'[d].overridden => Known(d),
         \A w \in Workers : /\ step[w] \in Dispatching <=> step'[w] \in Dispatching
                            /\ step[w] = "sync" <=> step'[w] = "sync",
         UNCHANGED <<todo, seen, seenAt, job>>,
         managerStep' # "idle" => Known(request'.definition),
         managerStep' = "audit" => baseline' = rows[request'.definition]
  PROVE  OrderInv'
<1>1. Loops \subseteq Workers /\ Requests \subseteq Workers
  BY DEF Workers
<1>2. KnownInv'
  BY DEF OrderInv, KnownInv, Known, SameHistory
<1>3. ASSUME NEW i \in 1..Len(executions') PROVE Behind(i)'
  <2>1. i \in 1..Len(executions) /\ Behind(i)
    BY <1>3 DEF SameHistory, OrderInv
  <2> QED
    BY <1>1, <2>1 DEF Behind, SameHistory
<1>4. ASSUME NEW l \in Loops PROVE PassInOrder(l)'
  <2>1. step[l] \in Dispatching => job[l].execution \in 1..Len(executions)
    BY <1>1, JobFacts
  <2>2. PassInOrder(l)
    BY DEF OrderInv
  <2> QED
    BY <1>1, <2>1, <2>2 DEF PassInOrder, Known, SameHistory
<1>5. ASSUME NEW r \in Requests PROVE RequestInOrder(r)'
  <2>1. RequestInOrder(r)
    BY DEF OrderInv
  <2> QED
    BY <1>1, <2>1 DEF RequestInOrder, SameHistory
<1>6. Distinct'
  BY DistinctKept DEF OrderInv
<1> QED
  BY <1>2, <1>3, <1>4, <1>5, <1>6 DEF OrderInv

(* The rows of the table where a due time is stored.                       *)
LEMMA StoredFacts ==
  ASSUME BaseInv, NEW d \in Definitions, NEW due \in Dues, SetDue(d, due)
  PROVE  /\ \A e \in Definitions : /\ rows'[e].origin = rows[e].origin
                                   /\ rows'[e].schedule = rows[e].schedule
                                   /\ e # d => rows'[e] = rows[e]
         /\ rows'[d].nextDue = IF due = Never THEN rows[d].nextDue ELSE due
<1> QED
  BY DueIsSet DEF BaseInv, TypeOK, StoreTypeOK

(* Whether an execution lies behind its row is only in question where the  *)
(* row moves.                                                              *)
LEMMA StaysBehind ==
  ASSUME OrderPre, SameHistory, NEW i \in 1..Len(executions),
         rows'[executions[i].definition] = rows[executions[i].definition],
         \A l \in Loops : step[l] \in Dispatching => job[l].execution # i
  PROVE  Behind(i)'
<1>1. Behind(i)
  BY DEF OrderPre, OrderInv
<1> QED
  BY <1>1 DEF Behind, SameHistory

LEMMA OrderLoop ==
  ASSUME OrderPre, NEW l \in Loops, LoopStep(l), OthersIdle(l)
  PROVE  OrderInv'
<1>0. /\ BaseInv /\ SchedulerTypeOK /\ StoreTypeOK /\ l \in Workers /\ l \notin Requests
      /\ Loops \subseteq Workers
  BY SchedulerAssumption DEF OrderPre, DueInv, BaseInv, TypeOK, Workers
<1>1. /\ Len(executions) \in Nat /\ clock \in 0..MaxTime /\ clock \in Nat
      /\ \A i \in 1..Len(executions) : executions[i].due \in Nat /\ executions[i].due <= clock
      /\ \A i \in 1..Len(executions) : executions[i].definition \in Definitions
      /\ \A d \in Definitions : rows[d].nextDue \in Nat
  BY <1>0, DueTypes DEF OrderPre, PastInv
<1>2. step[l] \notin Dispatching => \A k \in Loops : step[k] \notin Dispatching
  BY <1>0 DEF OthersIdle, Dispatching
<1>3. /\ KnownInv /\ Distinct /\ \A i \in 1..Len(executions) : Known(executions[i].definition)
      /\ managerStep = "idle" /\ UNCHANGED managerVars
  BY DEF OrderPre, OrderInv, KnownInv, OthersIdle
<1>4. ASSUME step[l] \notin Dispatching, rows' = rows, UNCHANGED <<overrides, executions>>,
             PassInOrder(l)'
      PROVE  OrderInv'
  <2>1. SameHistory
    BY <1>4 DEF SameHistory
  <2>2. KnownInv' /\ Distinct'
    BY <1>0, <1>1, <1>3, <1>4, <2>1, KnownKept, DistinctKept
  <2>3. \A i \in 1..Len(executions') : Behind(i)'
    BY <1>2, <1>4, <2>1, StaysBehind
  <2> QED
    BY <1>0, <1>4, <2>2, <2>3, AloneInOrder DEF OrderPre
<1>5. ASSUME StartPass(l) PROVE OrderInv'
  <2>1. /\ step[l] = "idle" /\ step'[l] = "scan" /\ UNCHANGED <<rows, overrides, executions>>
        /\ todo'[l] = {d \in Definitions : Effective(d).schedule # {}}
        /\ \A d \in todo'[l] : seen'[l][d] = Effective(d)
    BY <1>0, <1>5 DEF StartPass, Goto, SchedulerTypeOK, storeVars
  <2>2. ASSUME NEW d \in todo'[l] PROVE Known(d)' /\ seen'[l][d].nextDue = rows'[d].nextDue
    <3>1. /\ d \in Definitions /\ Effective(d).schedule # {} /\ seen'[l][d].nextDue = rows[d].nextDue
          /\ ~overrides[d].overridden => Effective(d) = rows[d]
      BY <1>0, <2>1, EffectiveTyped
    <3>2. Known(d)
      BY <1>3, <3>1 DEF KnownInv
    <3> QED
      BY <2>1, <3>1, <3>2 DEF Known
  <2>3. PassInOrder(l)'
    BY <2>1, <2>2 DEF PassInOrder, Dispatching
  <2> QED
    BY <1>4, <2>1, <2>3 DEF Dispatching
<1>6. ASSUME NEW d \in Definitions, NotDue(l, d) PROVE OrderInv'
  <2>1. /\ Left(l, {d}) /\ step[l] = "scan" /\ UNCHANGED <<rows, overrides, executions>>
    BY <1>0, <1>6, LeaveLeaves DEF NotDue, Scans, storeVars
  <2>2. /\ step'[l] \notin Dispatching /\ todo'[l] \subseteq todo[l]
        /\ \A e \in todo'[l] : seen'[l][e] = seen[l][e]
    BY <2>1 DEF Left, Dispatching
  <2>3. PassInOrder(l)'
    BY <2>1, <2>2 DEF PassInOrder, OrderPre, OrderInv, Known
  <2> QED
    BY <1>4, <2>1, <2>3 DEF Dispatching
<1>7. ASSUME NEW d \in Definitions, SetFirstDue(l, d) PROVE OrderInv'
  <2>1. /\ Left(l, {d}) /\ step[l] = "scan" /\ UNCHANGED <<overrides, executions>>
        /\ Scans(l, d) /\ SameHistory
    BY <1>0, <1>7, LeaveLeaves DEF SetFirstDue, Scans, SameHistory
  <2>2. /\ seen[l][d].schedule \in Schedules /\ Following(seen[l][d].schedule, clock) \in Minutes
    BY <1>0, <2>1, ScanFacts
  <2>3. PICK due \in Minutes : due = Following(seen[l][d].schedule, clock)
    BY <2>2
  <2>4. SetDue(d, due) /\ due \in Dues /\ due # Never /\ clock < due /\ due \in Nat
    BY <1>1, <1>7, <2>2, <2>3, TriggerAssumption, FollowingIsNext, MinutesAreDues
    DEF SetFirstDue, Minutes, Never
  <2>5. /\ \A e \in Definitions : /\ rows'[e].origin = rows[e].origin
                                  /\ rows'[e].schedule = rows[e].schedule
                                  /\ e # d => rows'[e] = rows[e]
        /\ rows'[d].nextDue = due
    BY <1>0, <2>4, StoredFacts
  <2>6. KnownInv' /\ Distinct'
    BY <1>0, <1>1, <1>3, <2>1, <2>5, KnownKept, DistinctKept DEF Known
  <2>7. ASSUME NEW i \in 1..Len(executions') PROVE Behind(i)'
    <3>1. i \in 1..Len(executions) /\ executions' = executions
      BY <2>1
    <3>2. CASE executions[i].definition = d
      BY <1>1, <2>4, <2>5, <3>1, <3>2 DEF Behind
    <3>3. CASE executions[i].definition # d
      BY <1>1, <1>2, <2>1, <2>5, <3>1, <3>3, StaysBehind DEF Dispatching
    <3> QED
      BY <3>2, <3>3
  <2>8. /\ step'[l] \notin Dispatching /\ todo'[l] \subseteq todo[l] \ {d}
        /\ \A e \in todo'[l] : seen'[l][e] = seen[l][e]
    BY <2>1 DEF Left, Dispatching
  <2>9. todo[l] \subseteq Definitions /\ PassInOrder(l)
    BY <1>0 DEF SchedulerTypeOK, OrderPre, OrderInv
  <2>10. PassInOrder(l)'
    BY <2>5, <2>8, <2>9 DEF PassInOrder, Known
  <2> QED
    BY <1>0, <2>6, <2>7, <2>10, AloneInOrder DEF OrderPre
<1>8. ASSUME NEW d \in Definitions, NEW s \in FirstStatuses, NEW then \in Dispatching,
             Scans(l, d), IsDue(l, d), Record(l, d, seen[l][d].nextDue, s, AfterThis(l, d), then)
      PROVE  OrderInv'
  <2>1. /\ d \in todo[l] /\ seen[l][d].schedule \in Schedules
        /\ seen[l][d].nextDue \in Minutes /\ seen[l][d].nextDue \in 0..MaxTime
        /\ AfterThis(l, d) \in Minutes /\ step[l] = "scan"
    BY <1>0, <1>8, ScanFacts DEF Scans
  <2>2. PICK due \in Minutes, n \in Minutes : due = seen[l][d].nextDue /\ n = AfterThis(l, d)
    BY <2>1
  <2>3. due \in Dues /\ n \in Dues /\ due # Never /\ due < n
    BY <2>1, <2>2, MinutesAreDues, FollowingIsNext DEF AfterThis, Minutes, Never
  <2>4. Noted(l, d, due, s, n, then)
    BY <1>0, <1>8, <2>2, <2>3, RecordTyped
  <2>5. /\ Len(executions') = Len(executions) + 1
        /\ \A i \in 1..Len(executions) : executions'[i] = executions[i]
        /\ executions'[Len(executions) + 1].definition = d
        /\ executions'[Len(executions) + 1].due = due
        /\ job'[l].definition = d /\ job'[l].nextDue = n
        /\ job'[l].execution = Len(executions) + 1
        /\ step'[l] = then
        /\ rows' = rows /\ overrides' = overrides /\ todo' = todo /\ seen' = seen
    BY <2>4 DEF Noted
  <2>6. Known(d) /\ rows[d].nextDue = due /\ PassInOrder(l)
    BY <2>1, <2>2 DEF OrderPre, OrderInv, PassInOrder
  <2>7. \A i \in 1..Len(executions') : i \in 1..Len(executions) \/ i = Len(executions) + 1
    BY <1>1, <2>5
  <2>8. KnownInv'
    <3>1. \A i \in 1..Len(executions') : executions'[i].definition \in Definitions
                                          /\ Known(executions'[i].definition)
      BY <1>1, <1>3, <2>5, <2>6, <2>7
    <3> QED
      BY <1>3, <2>5, <3>1, KnownKept
  <2>9. ASSUME NEW i \in 1..Len(executions),
               rows[executions[i].definition].schedule # {},
               rows[executions[i].definition].nextDue # Never
        PROVE  executions[i].due < rows[executions[i].definition].nextDue
    BY <1>2, <2>1, <2>9 DEF OrderPre, OrderInv, Behind, Dispatching
  <2>10. ASSUME NEW i \in 1..Len(executions') PROVE Behind(i)'
    <3>1. CASE i = Len(executions) + 1
      BY <1>8, <2>5, <3>1 DEF Behind
    <3>2. CASE i \in 1..Len(executions)
      BY <2>5, <2>9, <3>2 DEF Behind
    <3> QED
      BY <2>7, <3>1, <3>2
  <2>11. PassInOrder(l)'
    BY <2>3, <2>5, <2>6 DEF PassInOrder, Known
  <2>12. Distinct'
    <3>1. ASSUME NEW i \in 1..Len(executions), executions[i].definition = d,
                 executions[i].due = due, rows[d].schedule # {}
          PROVE  FALSE
      <4>1. due < due
        BY <2>3, <2>6, <2>9, <3>1
      <4> QED
        BY <4>1, <2>2 DEF Minutes
    <3> SUFFICES ASSUME NEW i \in 1..Len(executions'), NEW j \in 1..Len(executions'),
                        executions'[i].definition = executions'[j].definition,
                        executions'[i].due = executions'[j].due,
                        rows[executions'[i].definition].schedule # {}
                 PROVE  i = j
      BY <2>5 DEF Distinct
    <3>2. CASE i \in 1..Len(executions) /\ j \in 1..Len(executions)
      BY <1>3, <2>5, <3>2 DEF Distinct
    <3>3. CASE i = Len(executions) + 1 /\ j \in 1..Len(executions)
      BY <2>5, <3>1, <3>3
    <3>4. CASE j = Len(executions) + 1 /\ i \in 1..Len(executions)
      BY <2>5, <3>1, <3>4
    <3> QED
      BY <2>7, <3>2, <3>3, <3>4
  <2> QED
    BY <1>0, <2>8, <2>10, <2>11, <2>12, AloneInOrder DEF OrderPre
<1>9. ASSUME NEW d \in Definitions,
             RecordSkipped(l, d) \/ RecordMissed(l, d) \/ DispatchDue(l, d)
      PROVE  OrderInv'
  BY <1>8, <1>9 DEF RecordSkipped, RecordMissed, DispatchDue, FirstStatuses, Dispatching
<1> QED
  BY <1>5, <1>6, <1>7, <1>9 DEF LoopStep

LEMMA OrderDispatcher ==
  ASSUME OrderPre, NEW w \in Workers, DispatcherStep(w), OthersIdle(w)
  PROVE  OrderInv'
<1>0. /\ BaseInv /\ SchedulerTypeOK /\ StoreTypeOK /\ Loops \subseteq Workers
      /\ Workers = Loops \cup Requests /\ Loops \cap Requests = {}
  BY SchedulerAssumption DEF OrderPre, DueInv, BaseInv, TypeOK, Workers
<1>1. /\ Len(executions) \in Nat
      /\ \A i \in 1..Len(executions) : executions[i].due \in Nat
      /\ \A i \in 1..Len(executions) : executions[i].definition \in Definitions
      /\ \A d \in Definitions : rows[d].nextDue \in Nat
  BY <1>0, DueTypes
<1>2. /\ KnownInv /\ Distinct /\ \A i \in 1..Len(executions) : Known(executions[i].definition)
      /\ managerStep = "idle" /\ UNCHANGED managerVars
  BY DEF OrderPre, OrderInv, KnownInv, OthersIdle
<1>3. step[w] \in Dispatching
  BY DEF DispatcherStep, CreateRun, PushRun, MarkQueued, AdvanceDispatched, AdvanceRecorded, Dispatching
<1>4. /\ job[w].definition \in Definitions /\ job[w].execution \in 1..Len(executions)
      /\ job[w].nextDue \in Dues /\ executions[job[w].execution] \in Execution
  BY <1>0, <1>3, JobFacts
<1>5. ASSUME NEW s \in Statuses, NEW r \in RunStates, NEW then \in Dispatching,
             DispatchCall(w, s, r, then)
      PROVE  OrderInv'
  <2>1. /\ Len(executions') = Len(executions)
        /\ \A j \in 1..Len(executions) :
             /\ executions'[j].definition = executions[j].definition
             /\ executions'[j].due = executions[j].due
        /\ step' = [step EXCEPT ![w] = then] /\ step'[w] = then
        /\ UNCHANGED <<clock, rows, overrides, gateway, todo, seen, seenAt, job>>
    BY <1>0, <1>3, <1>5, DispatchCallTyped
  <2>2. SameHistory
    BY <2>1 DEF SameHistory
  <2>3. \A v \in Workers : /\ step[v] \in Dispatching <=> step'[v] \in Dispatching
                           /\ step[v] = "sync" <=> step'[v] = "sync"
    BY <1>3, <2>1 DEF OthersIdle, Dispatching
  <2>4. /\ \A d \in Definitions : overrides'[d].overridden => Known(d)
        /\ managerStep' = "idle"
    BY <1>2, <2>1 DEF KnownInv, managerVars
  <2> QED
    BY <1>0, <2>1, <2>2, <2>3, <2>4, QuietInOrder DEF OrderPre
<1>6. CASE CreateRun(w) \/ PushRun(w) \/ MarkQueued(w)
  <2>1. executions[job[w].execution].status \in Statuses /\ executions[job[w].execution].run \in RunStates
    BY <1>4 DEF Execution, Statuses, RunStates
  <2>2. /\ "created" \in RunStates /\ "queued" \in RunStates /\ "queued" \in Statuses
        /\ "push" \in Dispatching /\ "markQueued" \in Dispatching /\ "advance" \in Dispatching
    BY DEF RunStates, Statuses, Dispatching
  <2> QED
    BY <1>0, <1>5, <1>6, <2>1, <2>2, DispatchCalls
<1>7. CASE AdvanceDispatched(w) \/ AdvanceRecorded(w)
  <2>1. PICK d \in Definitions, n \in Dues, x \in 1..Len(executions) :
          d = job[w].definition /\ n = job[w].nextDue /\ x = job[w].execution
    BY <1>4
  <2>2. SetDue(d, n) /\ UNCHANGED <<clock, overrides, executions>>
    BY <1>7, <2>1 DEF AdvanceDispatched, AdvanceRecorded
  <2>3. /\ \A e \in Definitions : /\ rows'[e].origin = rows[e].origin
                                  /\ rows'[e].schedule = rows[e].schedule
                                  /\ e # d => rows'[e] = rows[e]
        /\ rows'[d].nextDue = IF n = Never THEN rows[d].nextDue ELSE n
    BY <1>0, <2>2, StoredFacts
  <2>4. SameHistory
    BY <2>2 DEF SameHistory
  <2>5. KnownInv' /\ Distinct'
    BY <1>0, <1>1, <1>2, <2>2, <2>3, <2>4, KnownKept, DistinctKept DEF Known
  <2>6. ASSUME NEW i \in 1..Len(executions), rows[executions[i].definition].schedule # {},
               rows[executions[i].definition].nextDue # Never, i # x \/ w \notin Loops
        PROVE  executions[i].due < rows[executions[i].definition].nextDue
    BY <1>0, <2>1, <2>6 DEF OrderPre, OrderInv, Behind, OthersIdle, Dispatching
  <2>7. CASE w \in Loops
    <3>1. PassInOrder(w) /\ todo[w] \subseteq Definitions
      BY <1>0, <2>7 DEF OrderPre, OrderInv, SchedulerTypeOK
    <3>2. /\ executions[x].definition = d /\ executions[x].due = rows[d].nextDue
          /\ executions[x].due # Never /\ executions[x].due < n
          /\ \A e \in todo[w] : Known(e) /\ seen[w][e].nextDue = rows[e].nextDue
      BY <1>3, <2>1, <3>1 DEF PassInOrder
    <3>3. n \in Nat /\ n # Never /\ rows'[d].nextDue = n
      BY <1>1, <2>3, <3>2, TriggerAssumption DEF Dues, Minutes, Never
    <3>4. ASSUME NEW i \in 1..Len(executions') PROVE Behind(i)'
      <4>1. i \in 1..Len(executions) /\ executions' = executions
        BY <2>2
      <4>2. CASE executions[i].definition # d
        <5>1. i # x
          BY <3>2, <4>2
        <5> QED
          BY <1>1, <2>3, <2>6, <4>1, <4>2, <5>1 DEF Behind
      <4>3. CASE executions[i].definition = d /\ rows[d].schedule # {}
        <5>1. executions[i].due <= rows[d].nextDue
          <6>1. CASE i = x
            BY <1>1, <3>2, <6>1
          <6>2. CASE i # x
            <7>1. executions[i].due < rows[d].nextDue
              BY <2>6, <3>2, <4>1, <4>3, <6>2
            <7> QED
              BY <1>1, <4>1, <7>1
          <6> QED
            BY <6>1, <6>2
        <5>2. executions[i].due < n
          BY <1>1, <3>2, <3>3, <4>1, <5>1
        <5> QED
          BY <3>3, <4>1, <4>3, <5>2 DEF Behind
      <4>4. CASE executions[i].definition = d /\ rows[d].schedule = {}
        BY <2>3, <4>1, <4>4 DEF Behind
      <4> QED
        BY <4>2, <4>3, <4>4
    <3>5. PassInOrder(w)'
      <4>1. CASE AdvanceDispatched(w)
        <5>1. Left(w, {d})
          BY <1>0, <2>1, <4>1, AdvanceEffects
        <5>2. /\ step'[w] \notin Dispatching /\ todo'[w] \subseteq todo[w] \ {d}
              /\ \A e \in todo'[w] : seen'[w][e] = seen[w][e]
          BY <5>1 DEF Left, Dispatching
        <5> QED
          BY <2>3, <3>1, <3>2, <5>2 DEF PassInOrder, Known
      <4>2. CASE AdvanceRecorded(w)
        <5>1. GoesOn(w)
          BY <1>0, <2>7, <4>2, AdvanceEffects
        <5>2. /\ step'[w] \notin Dispatching /\ todo'[w] = todo[w]
              /\ seen'[w][d].nextDue = n
              /\ \A e \in Definitions : e # d => seen'[w][e] = seen[w][e]
          BY <2>1, <5>1 DEF GoesOn, Dispatching
        <5> QED
          BY <2>3, <3>1, <3>2, <3>3, <5>2 DEF PassInOrder, Known
      <4> QED
        BY <1>7, <4>1, <4>2
    <3> QED
      BY <1>0, <2>5, <2>7, <3>4, <3>5, AloneInOrder DEF OrderPre
  <2>8. CASE w \notin Loops
    <3>1. n = Never /\ w \in Requests
      BY <1>0, <1>3, <2>1, <2>8 DEF OrderPre, OrderInv, RequestInOrder
    <3>2. \A e \in Definitions : rows'[e].schedule = rows[e].schedule /\ rows'[e].nextDue = rows[e].nextDue
      BY <2>3, <3>1
    <3>3. ASSUME NEW i \in 1..Len(executions') PROVE Behind(i)'
      BY <1>1, <2>2, <2>6, <2>8, <3>2, <3>3 DEF Behind
    <3>4. Left(w, {d}) /\ (step'[w] = "scan" => w \in Loops)
      BY <1>0, <1>7, <2>1, <2>8, AdvanceEffects
    <3>5. step'[w] = "idle"
      BY <2>8, <3>4 DEF Left
    <3>6. RequestInOrder(w)'
      BY <3>5, IdleInOrder DEF OrderPre
    <3> QED
      BY <1>0, <2>5, <2>8, <3>3, <3>6, AloneInOrder DEF OrderPre
  <2> QED
    BY <2>7, <2>8
<1> QED
  BY <1>6, <1>7 DEF DispatcherStep

LEMMA OrderRequest ==
  ASSUME OrderPre, NEW r \in Requests, RequestStep(r), OthersIdle(r)
  PROVE  OrderInv'
<1>0. /\ BaseInv /\ SchedulerTypeOK /\ StoreTypeOK /\ r \in Workers /\ r \notin Loops
      /\ Loops \subseteq Workers /\ rows \in [Definitions -> Row]
  BY SchedulerAssumption DEF OrderPre, DueInv, BaseInv, TypeOK, Workers, StoreTypeOK
<1>1. /\ Len(executions) \in Nat /\ clock \in 0..MaxTime /\ clock \in Nat
      /\ \A i \in 1..Len(executions) : executions[i].due \in Nat /\ executions[i].due <= clock
      /\ \A i \in 1..Len(executions) : executions[i].definition \in Definitions
      /\ \A d \in Definitions : rows[d].nextDue \in Nat
  BY <1>0, DueTypes DEF OrderPre, PastInv
<1>2. /\ KnownInv /\ Distinct /\ \A i \in 1..Len(executions) : Known(executions[i].definition)
      /\ managerStep = "idle" /\ UNCHANGED managerVars /\ RequestInOrder(r)
  BY DEF OrderPre, OrderInv, KnownInv, OthersIdle
<1>3. \A l \in Loops : step[l] \notin Dispatching
  BY <1>0 DEF OthersIdle, Dispatching
<1>4. \A i \in 1..Len(executions) :
        rows[executions[i].definition].schedule # {} /\ rows[executions[i].definition].nextDue # Never
          => executions[i].due < rows[executions[i].definition].nextDue
  BY <1>3 DEF OrderPre, OrderInv, Behind
<1>5. ASSUME rows' = rows, UNCHANGED <<overrides, executions>>, RequestInOrder(r)'
      PROVE  OrderInv'
  <2>1. SameHistory
    BY <1>5 DEF SameHistory
  <2>2. KnownInv' /\ Distinct'
    BY <1>0, <1>1, <1>2, <1>5, <2>1, KnownKept, DistinctKept
  <2>3. \A i \in 1..Len(executions') : Behind(i)'
    BY <1>3, <1>5, <2>1, StaysBehind
  <2> QED
    BY <1>0, <1>5, <2>2, <2>3, AloneInOrder DEF OrderPre
<1>6. ASSUME StartSync(r) PROVE OrderInv'
  <2>1. /\ step'[r] = "sync" /\ UNCHANGED <<rows, overrides, executions>>
        /\ todo'[r] = Configured \cup NoLongerConfigured
        /\ \A d \in Configured : seen'[r][d] = rows[d]
        /\ seenAt'[r] = clock
    BY <1>0, <1>6, TriggerAssumption DEF StartSync, Goto, SchedulerTypeOK, storeVars
  <2>2. RequestInOrder(r)'
    BY <1>1, <2>1 DEF RequestInOrder, Dispatching
  <2> QED
    BY <1>5, <2>1, <2>2
<1>7. ASSUME FinishSync(r) PROVE OrderInv'
  <2>1. step'[r] = "idle" /\ UNCHANGED <<rows, overrides, executions>>
    BY <1>0, <1>7 DEF FinishSync, Release, Goto, SchedulerTypeOK, storeVars
  <2>2. RequestInOrder(r)'
    BY <1>0, <2>1, IdleInOrder DEF OrderPre
  <2> QED
    BY <1>5, <2>1, <2>2
<1>8. ASSUME NEW d \in Definitions, UpsertDefinition(r, d) PROVE OrderInv'
  <2>1. /\ Treated(r, d) /\ d \in Configured /\ step[r] = "sync"
        /\ rows' = [rows EXCEPT ![d] = Persisted(r, d)] /\ rows'[d] = Persisted(r, d)
    BY <1>0, <1>8, SyncEffects
  <2>2. /\ d \in todo[r] /\ todo'[r] = todo[r] \ {d}
        /\ \A e \in Definitions : e # d => seen'[r][e] = seen[r][e]
        /\ UNCHANGED <<clock, overrides, executions, gateway, step, seenAt, job>>
    BY <2>1 DEF Treated
  <2>3. /\ seen[r][d] = rows[d] /\ step[r] = "sync"
        /\ \A i \in 1..Len(executions) : executions[i].due <= seenAt[r]
    BY <1>2, <2>1, <2>2 DEF RequestInOrder
  <2>4. /\ rows'[d].schedule = ConfigSchedule[d] /\ rows'[d].origin # "none"
        /\ rows'[d].nextDue = SelectNextDueAt(rows[d].nextDue, ConfigSchedule[d], seenAt[r])
        /\ \A e \in Definitions : e # d => rows'[e] = rows[e]
    <3>1. Persisted(r, d).schedule = ConfigSchedule[d] /\ Persisted(r, d).origin # "none"
      BY <1>0, <2>1, PersistedTyped
    <3>2. Persisted(r, d).nextDue = SelectNextDueAt(seen[r][d].nextDue, ConfigSchedule[d], seenAt[r])
      BY DEF Persisted
    <3>3. \A e \in Definitions : e # d => rows'[e] = rows[e]
      BY <1>0, <2>1
    <3> QED
      BY <2>1, <2>3, <3>1, <3>2, <3>3
  <2>5. KnownInv'
    <3>1. \A e \in Definitions : Known(e) => Known(e)'
      BY <2>4 DEF Known
    <3>2. (\A i \in 1..Len(executions) : Known(executions[i].definition))'
      BY <1>1, <1>2, <2>2, <3>1
    <3>3. (\A e \in Definitions : overrides[e].overridden => Known(e))'
      BY <1>2, <2>2, <3>1 DEF KnownInv
    <3>4. (\A e \in Definitions : ~Known(e) => rows[e].schedule = {})'
      BY <1>2, <2>4, <3>1 DEF KnownInv, Known
    <3>5. (\A e \in Configured : Known(e) => rows[e].schedule = ConfigSchedule[e])'
      BY <1>2, <2>4, TriggerAssumption DEF KnownInv, Known
    <3>6. managerStep' = "idle"
      BY <1>2 DEF managerVars
    <3> QED
      BY <3>2, <3>3, <3>4, <3>5, <3>6, KnownParts
  <2>6. SameHistory
    BY <2>2 DEF SameHistory
  <2>7. \A i \in 1..Len(executions) :
          executions[i].definition = d => rows[d].schedule = ConfigSchedule[d]
    BY <1>2, <2>1 DEF KnownInv
  <2>8. Distinct'
    <3>1. \A i \in 1..Len(executions) :
            rows'[executions[i].definition].schedule = rows[executions[i].definition].schedule
      BY <1>1, <2>4, <2>7
    <3> QED
      BY <1>0, <1>2, <2>6, <3>1, DistinctKept
  <2>9. ASSUME NEW i \in 1..Len(executions') PROVE Behind(i)'
    <3>1. i \in 1..Len(executions) /\ executions' = executions
      BY <2>2
    <3>2. CASE executions[i].definition # d
      BY <1>1, <1>3, <2>4, <2>6, <3>1, <3>2, StaysBehind
    <3>3. CASE executions[i].definition = d
      <4>1. SUFFICES ASSUME ConfigSchedule[d] # {}
                     PROVE  executions[i].due < rows'[d].nextDue
        BY <2>4, <3>1, <3>3 DEF Behind
      <4>2. CASE rows[d].nextDue # Never /\ rows[d].nextDue <= seenAt[r]
        BY <1>4, <2>4, <2>7, <3>1, <3>3, <4>1, <4>2 DEF SelectNextDueAt
      <4>3. CASE ~(rows[d].nextDue # Never /\ rows[d].nextDue <= seenAt[r])
        <5>1. /\ ConfigSchedule[d] \in Schedules /\ seenAt[r] \in 0..MaxTime /\ MaxTime \in Nat
          BY <1>0, <2>1, <4>1, TriggerAssumption DEF SchedulerTypeOK
        <5>2. /\ rows'[d].nextDue = Following(ConfigSchedule[d], seenAt[r])
              /\ Following(ConfigSchedule[d], seenAt[r]) \in Minutes
              /\ Following(ConfigSchedule[d], seenAt[r]) > seenAt[r]
          BY <2>4, <4>1, <4>3, <5>1, FollowingIsNext DEF SelectNextDueAt
        <5>3. executions[i].due <= seenAt[r] /\ executions[i].due \in Nat
          BY <1>1, <2>3, <3>1
        <5> QED
          BY <5>1, <5>2, <5>3 DEF Minutes
      <4> QED
        BY <4>2, <4>3
    <3> QED
      BY <3>2, <3>3
  <2>10. RequestInOrder(r)'
    <3>1. todo[r] \subseteq Definitions
      BY <1>0 DEF SchedulerTypeOK
    <3> QED
      BY <1>2, <2>2, <2>3, <2>4, <3>1 DEF RequestInOrder, Dispatching
  <2> QED
    BY <1>0, <2>5, <2>8, <2>9, <2>10, AloneInOrder DEF OrderPre
<1>9. ASSUME NEW d \in Definitions, DisableDefinition(r, d) PROVE OrderInv'
  <2>1. /\ Treated(r, d) /\ d \notin Configured /\ step[r] = "sync" /\ seen' = seen
        /\ rows' = [rows EXCEPT ![d] = [rows[d] EXCEPT !.enabled = FALSE, !.nextDue = Never]]
    BY <1>0, <1>9, SyncEffects
  <2>2. /\ todo'[r] = todo[r] \ {d}
        /\ UNCHANGED <<clock, overrides, executions, gateway, step, seenAt, job>>
    BY <2>1 DEF Treated
  <2>3. /\ rows'[d].nextDue = Never
        /\ \A e \in Definitions : /\ rows'[e].origin = rows[e].origin
                                  /\ rows'[e].schedule = rows[e].schedule
                                  /\ e # d => rows'[e] = rows[e]
    BY <1>0, <2>1 DEF Row
  <2>4. SameHistory
    BY <2>2 DEF SameHistory
  <2>5. KnownInv' /\ Distinct'
    BY <1>0, <1>1, <1>2, <2>2, <2>3, <2>4, KnownKept, DistinctKept DEF Known
  <2>6. ASSUME NEW i \in 1..Len(executions') PROVE Behind(i)'
    <3>1. i \in 1..Len(executions) /\ executions' = executions
      BY <2>2
    <3>2. CASE executions[i].definition # d
      BY <1>1, <1>3, <2>3, <2>4, <3>1, <3>2, StaysBehind
    <3>3. CASE executions[i].definition = d
      BY <2>3, <3>1, <3>3 DEF Behind
    <3> QED
      BY <3>2, <3>3
  <2>7. RequestInOrder(r)'
    <3>1. todo[r] \subseteq Definitions /\ Configured \subseteq Definitions
      BY <1>0, TriggerAssumption DEF SchedulerTypeOK
    <3> QED
      BY <1>2, <2>1, <2>2, <2>3, <3>1 DEF RequestInOrder, Dispatching
  <2> QED
    BY <1>0, <2>5, <2>6, <2>7, AloneInOrder DEF OrderPre
<1>10. ASSUME NEW d \in Hooks, NEW s \in FirstStatuses, NEW then \in Dispatching,
              Synced(r), gateway = "up", Record(r, d, clock, s, Never, then)
       PROVE  OrderInv'
  <2>1. d \in Configured /\ d \in Definitions /\ ConfigSchedule[d] = {}
    BY TriggerAssumption DEF Hooks
  <2>2. clock \in Dues /\ Never \in Dues
    BY <1>1, TriggerAssumption DEF Dues, Minutes, Never
  <2>3. Noted(r, d, clock, s, Never, then)
    BY <1>0, <1>10, <2>1, <2>2, RecordTyped
  <2>4. /\ Len(executions') = Len(executions) + 1
        /\ \A i \in 1..Len(executions) : executions'[i] = executions[i]
        /\ executions'[Len(executions) + 1].definition = d
        /\ job'[r].nextDue = Never /\ step'[r] = then
        /\ rows' = rows /\ overrides' = overrides
    BY <2>3 DEF Noted
  <2>5. Known(d)
    BY <1>2, <1>10, <2>1 DEF OrderPre, DueInv, GatewayInv, KnownInv, Untouched
  <2>6. rows[d].schedule = {}
    BY <1>2, <2>1, <2>5 DEF KnownInv
  <2>7. \A i \in 1..Len(executions') : i \in 1..Len(executions) \/ i = Len(executions) + 1
    BY <1>1, <2>4
  <2>8. KnownInv'
    <3>1. \A i \in 1..Len(executions') : executions'[i].definition \in Definitions
                                          /\ Known(executions'[i].definition)
      BY <1>1, <1>2, <2>1, <2>4, <2>5, <2>7
    <3> QED
      BY <1>2, <2>4, <3>1, KnownKept
  <2>9. ASSUME NEW i \in 1..Len(executions') PROVE Behind(i)'
    <3>1. CASE i = Len(executions) + 1
      BY <2>4, <2>6, <3>1 DEF Behind
    <3>2. CASE i \in 1..Len(executions)
      BY <1>4, <2>4, <3>2 DEF Behind
    <3> QED
      BY <2>7, <3>1, <3>2
  <2>10. Distinct'
    <3> SUFFICES ASSUME NEW i \in 1..Len(executions'), NEW j \in 1..Len(executions'),
                        executions'[i].definition = executions'[j].definition,
                        executions'[i].due = executions'[j].due,
                        rows[executions'[i].definition].schedule # {}
                 PROVE  i = j
      BY <2>4 DEF Distinct
    <3>1. i \in 1..Len(executions) /\ j \in 1..Len(executions)
      BY <2>4, <2>6, <2>7
    <3> QED
      BY <1>2, <2>4, <3>1 DEF Distinct
  <2>11. RequestInOrder(r)'
    BY <2>4 DEF RequestInOrder, Dispatching
  <2> QED
    BY <1>0, <2>8, <2>9, <2>10, <2>11, AloneInOrder DEF OrderPre
<1>11. ASSUME NEW d \in Definitions, RejectWebhook(r, d) \/ AcceptWebhook(r, d) PROVE OrderInv'
  BY <1>10, <1>11 DEF RejectWebhook, AcceptWebhook, FirstStatuses, Dispatching
<1> QED
  BY <1>6, <1>7, <1>8, <1>9, <1>11 DEF RequestStep

LEMMA OrderManager ==
  ASSUME OrderPre, Alone, ManagerStep
  PROVE  OrderInv'
<1>0. /\ BaseInv /\ StoreTypeOK /\ ManagementTypeOK /\ ManagerInv /\ KnownInv /\ Distinct
      /\ rows \in [Definitions -> Row] /\ overrides \in [Definitions -> Override]
      /\ Loops \subseteq Workers /\ Requests \subseteq Workers
  BY DEF OrderPre, OrderInv, DueInv, BaseInv, TypeOK, StoreTypeOK, Workers
<1>1. /\ Len(executions) \in Nat /\ clock \in 0..MaxTime /\ clock \in Nat
      /\ \A i \in 1..Len(executions) : executions[i].due \in Nat /\ executions[i].due <= clock
      /\ \A i \in 1..Len(executions) : executions[i].definition \in Definitions
      /\ \A d \in Definitions : rows[d].nextDue \in Nat
  BY <1>0, DueTypes DEF OrderPre, PastInv
<1>2. UNCHANGED <<clock, executions, gateway, step, todo, seen, seenAt, job>>
  BY <1>0, ManagerBase DEF workerVars
<1>3. SameHistory
  BY <1>2 DEF SameHistory
<1>4. ASSUME rows' = rows, \A d \in Definitions : overrides'[d].overridden => Known(d),
             managerStep' # "idle" => Known(request'.definition),
             managerStep' = "audit" => baseline' = rows[request'.definition]
      PROVE  OrderInv'
  BY <1>0, <1>2, <1>3, <1>4, QuietInOrder DEF OrderPre
<1>5. ASSUME NEW d \in Definitions, NEW s \in ManagedSchedules, CreateSchedule(d, s)
      PROVE  OrderInv'
  <2>1. /\ d \notin Configured /\ ~Known(d) /\ managerStep' = "idle" /\ UNCHANGED overrides
        /\ rows'[d].origin = "agent" /\ \A e \in Definitions : e # d => rows'[e] = rows[e]
    BY <1>0, <1>5 DEF CreateSchedule, ManagerFree, Known
  <2>2. \A i \in 1..Len(executions) : executions[i].definition # d
    BY <1>0, <2>1 DEF KnownInv
  <2>3. KnownInv'
    <3>1. \A e \in Definitions : Known(e) => Known(e)'
      BY <2>1 DEF Known
    <3>2. (\A i \in 1..Len(executions) : Known(executions[i].definition))'
      BY <1>0, <1>1, <1>2, <3>1 DEF KnownInv
    <3>3. (\A e \in Definitions : overrides[e].overridden => Known(e))'
      BY <1>0, <2>1, <3>1 DEF KnownInv
    <3>4. (\A e \in Definitions : ~Known(e) => rows[e].schedule = {})'
      BY <1>0, <2>1 DEF KnownInv, Known
    <3>5. (\A e \in Configured : Known(e) => rows[e].schedule = ConfigSchedule[e])'
      BY <1>0, <2>1, TriggerAssumption DEF KnownInv, Known
    <3> QED
      BY <2>1, <3>2, <3>3, <3>4, <3>5, KnownParts
  <2>4. Distinct'
    <3>1. \A i \in 1..Len(executions) :
            rows'[executions[i].definition].schedule = rows[executions[i].definition].schedule
      BY <1>1, <2>1, <2>2
    <3> QED
      BY <1>0, <1>3, <3>1, DistinctKept
  <2>5. ASSUME NEW i \in 1..Len(executions') PROVE Behind(i)'
    <3>1. i \in 1..Len(executions) /\ Behind(i)
      BY <1>2 DEF OrderPre, OrderInv
    <3>2. rows'[executions[i].definition] = rows[executions[i].definition]
      BY <1>1, <2>1, <2>2, <3>1
    <3> QED
      BY <1>2, <3>1, <3>2 DEF Behind
  <2>6. ASSUME NEW l \in Loops PROVE PassInOrder(l)'
    <3>1. PassInOrder(l) /\ todo[l] \subseteq Definitions
      BY <1>0 DEF OrderPre, OrderInv, BaseInv, TypeOK, SchedulerTypeOK
    <3>2. \A e \in todo[l] : e # d
      BY <2>1, <3>1 DEF PassInOrder
    <3>3. ASSUME step[l] \in Dispatching
          PROVE  rows'[job[l].definition] = rows[job[l].definition]
      <4>1. job[l].definition \in Definitions /\ job[l].execution \in 1..Len(executions)
        BY <1>0, <3>3, JobFacts
      <4>2. job[l].definition # d
        BY <2>2, <3>1, <3>3, <4>1 DEF PassInOrder
      <4> QED
        BY <2>1, <4>1, <4>2
    <3> QED
      BY <1>2, <2>1, <3>1, <3>2, <3>3 DEF PassInOrder, Known
  <2>7. ASSUME NEW r \in Requests PROVE RequestInOrder(r)'
    <3>1. RequestInOrder(r) /\ Configured \subseteq Definitions
      BY TriggerAssumption DEF OrderPre, OrderInv
    <3> QED
      BY <1>2, <2>1, <3>1 DEF RequestInOrder
  <2> QED
    BY <2>3, <2>4, <2>5, <2>6, <2>7 DEF OrderInv
<1>6. ASSUME NEW d \in Definitions, Effective(d).schedule # {}, managerStep' = "override",
             request'.definition = d, UNCHANGED <<rows, overrides>>
      PROVE  OrderInv'
  <2>1. Known(d)
    BY <1>0, <1>6, EffectiveTyped DEF KnownInv
  <2> QED
    BY <1>0, <1>4, <1>6, <2>1 DEF KnownInv
<1>7. ASSUME NEW d \in Definitions,
             (\E s \in ManagedSchedules : Update(d, s)) \/ Disable(d) \/ Enable(d)
      PROVE  OrderInv'
  BY <1>6, <1>7 DEF Update, Disable, Enable, Match, storeVars
<1>8. ASSUME UpsertOverride PROVE OrderInv'
  <2>1. /\ managerStep # "idle" /\ managerStep' \in {"due", "baseline"} /\ UNCHANGED <<rows, request>>
        /\ \A d \in Definitions : d # request.definition => overrides'[d] = overrides[d]
    BY <1>0, <1>8 DEF UpsertOverride, SetOverride
  <2> QED
    BY <1>0, <1>4, <2>1 DEF KnownInv
<1>9. ASSUME ReadBaseline PROVE OrderInv'
  BY <1>0, <1>4, <1>9 DEF ReadBaseline, KnownInv, storeVars
<1>10. ASSUME WriteAudit PROVE OrderInv'
  <2>1. /\ rows' = [rows EXCEPT ![request.definition] = baseline] /\ UNCHANGED overrides
        /\ baseline = rows[request.definition] /\ managerStep' = "idle"
    BY <1>0, <1>10 DEF WriteAudit, ReleaseManager, KnownInv
  <2>2. rows' = rows
    BY <1>0, <2>1
  <2> QED
    BY <1>0, <1>4, <2>1, <2>2 DEF KnownInv
<1>11. ASSUME Reschedule PROVE OrderInv'
  <2>1. /\ managerStep = "due" /\ managerStep' = "baseline" /\ UNCHANGED <<overrides, request>>
        /\ request.definition \in Definitions /\ request.schedule \in Schedules
    BY <1>0, <1>11 DEF Reschedule, ManagerInv, ManagementTypeOK
  <2>2. PICK d \in Definitions, s \in Schedules : d = request.definition /\ s = request.schedule
    BY <2>1
  <2>3. PICK due \in Minutes : due = Following(s, clock)
    BY <1>1, FollowingIsNext
  <2>4. SetDue(d, due) /\ due \in Dues /\ due # Never /\ clock < due /\ due \in Nat
    BY <1>1, <1>11, <2>2, <2>3, TriggerAssumption, FollowingIsNext, MinutesAreDues
    DEF Reschedule, Minutes, Never
  <2>5. /\ \A e \in Definitions : /\ rows'[e].origin = rows[e].origin
                                  /\ rows'[e].schedule = rows[e].schedule
                                  /\ e # d => rows'[e] = rows[e]
        /\ rows'[d].nextDue = due
    BY <1>0, <2>4, StoredFacts
  <2>6. \A w \in Workers : step[w] = "idle" /\ step'[w] = "idle"
    BY <1>2, <2>1 DEF Alone, AtWork
  <2>7. KnownInv'
    <3>1. \A e \in Definitions : (Known(e) <=> Known(e)') /\ rows'[e].schedule = rows[e].schedule
      BY <2>5 DEF Known
    <3>2. (\A i \in 1..Len(executions) : Known(executions[i].definition))'
      BY <1>0, <1>1, <1>2, <3>1 DEF KnownInv
    <3>3. (\A e \in Definitions : overrides[e].overridden => Known(e))'
      BY <1>0, <2>1, <3>1 DEF KnownInv
    <3>4. (\A e \in Definitions : ~Known(e) => rows[e].schedule = {})'
      BY <1>0, <3>1 DEF KnownInv
    <3>5. (\A e \in Configured : Known(e) => rows[e].schedule = ConfigSchedule[e])'
      BY <1>0, <3>1, TriggerAssumption DEF KnownInv
    <3>6. Known(request.definition)'
      BY <1>0, <2>1, <3>1 DEF KnownInv
    <3> QED
      BY <2>1, <3>2, <3>3, <3>4, <3>5, <3>6, KnownParts
  <2>8. Distinct'
    BY <1>0, <1>1, <1>3, <2>5, DistinctKept
  <2>9. ASSUME NEW i \in 1..Len(executions') PROVE Behind(i)'
    <3>1. i \in 1..Len(executions) /\ executions' = executions
      BY <1>2
    <3>2. CASE executions[i].definition = d
      BY <1>1, <2>4, <2>5, <3>1, <3>2 DEF Behind
    <3>3. CASE executions[i].definition # d
      BY <1>0, <1>1, <1>3, <2>5, <2>6, <3>1, <3>3, StaysBehind DEF Dispatching
    <3> QED
      BY <3>2, <3>3
  <2>10. (\A l \in Loops : PassInOrder(l)') /\ (\A r \in Requests : RequestInOrder(r)')
    BY <1>0, <2>6, IdleInOrder DEF OrderPre
  <2> QED
    BY <2>7, <2>8, <2>9, <2>10 DEF OrderInv
<1> QED
  BY <1>5, <1>7, <1>8, <1>9, <1>10, <1>11 DEF ManagerStep

(* While nothing overlapped there is one actor at a time.                  *)
LEMMA NextAlone ==
  ASSUME PastInv', Busy' <= 1
  PROVE  Alone'
<1>1. IsFiniteSet(AtWork') /\ Cardinality(AtWork') \in Nat
  BY FS_CardinalityType DEF PastInv
<1>2. PICK b \in {0, 1} : b = IF managerStep' = "idle" THEN 0 ELSE 1
  OBVIOUS
<1>3. ~(Cardinality(AtWork') + b > 1)
  BY <1>1, <1>2 DEF Busy
<1> DEFINE S == AtWork'
<1>4. (\A v, w \in S : v = w) /\ (b = 1 => S = {})
  <2> HIDE DEF S
  <2>1. IsFiniteSet(S) /\ ~(Cardinality(S) + b > 1)
    BY <1>1, <1>3 DEF S
  <2> QED
    BY <2>1, OneAtMost
<1> QED
  BY <1>2, <1>4 DEF Alone

LEMMA NextRepeat == RepeatInv /\ [Next]_vars => RepeatInv'
<1> SUFFICES ASSUME RepeatInv, [Next]_vars PROVE RepeatInv'
  OBVIOUS
<1>1. DueInv' /\ BaseInv /\ BaseInv'
  BY NextDueInv DEF RepeatInv, DueInv
<1>2. PastInv'
  BY <1>1, NextPast DEF RepeatInv
<1>3. ASSUME ~overlapped' PROVE Alone' /\ OrderInv'
  <2>1. CASE UNCHANGED vars
    <3>1. ~overlapped /\ Alone /\ OrderInv
      BY <1>3, <2>1 DEF vars, RepeatInv
    <3>2. UNCHANGED <<step, todo, seen, seenAt, job, rows, overrides, executions, managerStep,
                      request, baseline>>
      BY <2>1 DEF vars, storeVars, workerVars, managerVars
    <3>3. Alone'
      BY <3>1, <3>2 DEF Alone, AtWork
    <3>4. OrderInv'
      BY <1>1, <3>1, <3>2, QuietInOrder DEF SameHistory, OrderInv, KnownInv
    <3> QED
      BY <3>3, <3>4
  <2>2. CASE Next
    <3>1. ~overlapped /\ ~(Busy' > 1) /\ mishaps' = mishaps
      BY <1>3, <2>2 DEF Next, Observe
    <3>2. Alone /\ OrderPre
      BY <1>1, <3>1 DEF RepeatInv, OrderPre
    <3>3. Alone'
      <4>1. IsFiniteSet(AtWork') /\ Cardinality(AtWork') \in Nat
        BY <1>2, FS_CardinalityType DEF PastInv
      <4>2. Busy' <= 1
        <5>1. Busy' \in Nat
          BY <4>1 DEF Busy
        <5> QED
          BY <3>1, <5>1
      <4> QED
        BY <1>2, <4>2, NextAlone
    <3>4. ~Mishap
      <4>1. mishaps \in Nat
        BY <1>1, MishapAssumption DEF BaseInv, TypeOK
      <4> QED
        BY <3>1, <4>1 DEF Mishap
    <3>5. WellBehaved
      BY <2>2, <3>4 DEF Next
    <3>6. ASSUME NEW w \in Workers, Moves(w), UNCHANGED managerVars
          PROVE  OthersIdle(w)
      <4>1. /\ \A v \in Workers : v # w => step'[v] = step[v]
            /\ step[w] # "idle" \/ step'[w] # "idle"
        BY <1>1, <3>6, MoverAlone
      <4>2. UNCHANGED managerStep
        BY <3>6 DEF managerVars
      <4>3. CASE step[w] # "idle"
        BY <3>2, <3>6, <4>1, <4>2, <4>3 DEF Alone, AtWork, OthersIdle
      <4>4. CASE step'[w] # "idle"
        BY <3>3, <3>6, <4>1, <4>2, <4>4 DEF Alone, AtWork, OthersIdle
      <4> QED
        BY <4>1, <4>3, <4>4
    <3>7. ASSUME WorkerStep, UNCHANGED managerVars PROVE OrderInv'
      <4>1. ASSUME NEW l \in Loops, LoopStep(l) PROVE OrderInv'
        BY <3>2, <3>6, <3>7, <4>1, OrderLoop DEF Moves, Workers
      <4>2. ASSUME NEW w \in Workers, DispatcherStep(w) PROVE OrderInv'
        BY <3>2, <3>6, <3>7, <4>2, OrderDispatcher DEF Moves
      <4>3. ASSUME NEW r \in Requests, RequestStep(r) PROVE OrderInv'
        BY <3>2, <3>6, <3>7, <4>3, OrderRequest DEF Moves, Workers
      <4> QED
        BY <3>7, <4>1, <4>2, <4>3 DEF WorkerStep
    <3>8. ASSUME ManagerStep PROVE OrderInv'
      BY <3>2, <3>8, OrderManager
    <3>9. ASSUME ExecutorStep \/ TimePasses \/ StartGateway PROVE OrderInv'
      <4>1. SameHistory
        <5>1. ExecutorStep => SameHistory
          BY <1>1, ExecutorBase DEF ExecutorStep, ExecutorWrites, SameHistory
        <5> QED
          BY <3>9, <5>1 DEF TimePasses, Tick, StartGateway, SameHistory, storeVars
      <4>2. UNCHANGED <<rows, overrides, workerVars, managerVars>>
        BY <3>9 DEF ExecutorStep, RunStarts, RunEnds, TimePasses, Tick, StartGateway, storeVars
      <4>3. UNCHANGED <<step, todo, seen, seenAt, job, managerStep, request, baseline>>
        BY <4>2 DEF workerVars, managerVars
      <4> QED
        BY <1>1, <3>2, <4>1, <4>2, <4>3, QuietInOrder DEF OrderPre, OrderInv, KnownInv
    <3>10. OrderInv'
      BY <3>5, <3>7, <3>8, <3>9 DEF WellBehaved
    <3> QED
      BY <3>3, <3>10
  <2> QED
    BY <2>1, <2>2
<1> QED
  BY <1>1, <1>2, <1>3 DEF RepeatInv

LEMMA InitRepeat == Init => RepeatInv
<1> SUFFICES ASSUME Init PROVE RepeatInv
  OBVIOUS
<1>1. DueInv
  BY InitDue
<1>2. /\ executions = << >> /\ rows = OldRows /\ managerStep = "idle"
      /\ \A w \in Workers : step[w] = "idle" /\ todo[w] = {}
      /\ \A d \in Definitions : ~overrides[d].overridden
  BY DEF Init, StoreInit, SchedulerInit, ManagementInit, NoOverride
<1>3. AtWork = {}
  BY <1>2 DEF AtWork
<1>4. Len(executions) = 0
  BY <1>2
<1>5. \A d \in Definitions : ~Known(d) => rows[d].schedule = {}
  BY <1>2, TriggerAssumption DEF Known, NoRow
<1>6. \A d \in Configured : ~Known(d)
  BY <1>2, TriggerAssumption DEF Known, NoRow
<1>7. KnownInv /\ Distinct /\ \A i \in 1..Len(executions) : Behind(i)
  BY <1>2, <1>4, <1>5, <1>6 DEF KnownInv, Distinct
<1>8. (\A l \in Loops : PassInOrder(l)) /\ (\A r \in Requests : RequestInOrder(r))
  BY <1>2 DEF PassInOrder, RequestInOrder, Workers, Dispatching
<1>9. PastInv
  BY <1>3, <1>4, FS_EmptySet DEF PastInv
<1> QED
  BY <1>1, <1>2, <1>3, <1>7, <1>8, <1>9 DEF RepeatInv, OrderInv, Alone

(* As long as no two handlers of the trigger subsystem overlap and none is *)
(* cut short, no due time of a schedule gets two executions: what is       *)
(* recorded of a schedule lies behind its row's next_due_at, which the     *)
(* sync, the passes and the rescheduling of an agent only move forward.    *)
THEOREM RepeatsNeedOverlap == Spec => []RepeatNeedsOverlap
<1>1. RepeatInv => RepeatNeedsOverlap
  BY DEF RepeatInv, OrderInv, Distinct, RepeatNeedsOverlap
<1> QED
  BY <1>1, InitRepeat, NextRepeat, PTL DEF Spec

===========================================================================

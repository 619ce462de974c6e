------------------------ MODULE MCTriggerScheduling -----------------------
(* Instances of TriggerScheduling for TLC.                                 *)
EXTENDS TriggerScheduling, TLC

CONSTANTS job1, hook1, old1, made1

EveryMinute == Minutes

AllEnabled == [d \in Configured |-> TRUE]

(* A job with two due times before the clock stops and a webhook.          *)
JobAndHook == [d \in Configured |-> IF d = hook1 THEN {} ELSE {1, 2, MaxTime + 1}]

(* An agent asks for the job's own schedule, or one that is not due before *)
(* the clock stops.                                                        *)
OtherSchedules == {{MaxTime + 1}, {1, 2, MaxTime + 1}}

(* A job that was in the configuration of an earlier start.                *)
LeftOver ==
  [d \in Definitions |->
     IF d = old1 THEN [origin |-> "config", enabled |-> TRUE, schedule |-> EveryMinute,
                       nextDue |-> 1, createdAt |-> 0]
     ELSE NoRow]

LoopSymmetry == Permutations(Loops)
===========================================================================

-------------------------- MODULE MCRunExecution --------------------------
(* Instances of RunExecution for TLC: every run in one session and one     *)
(* workspace, where all contention is.                                     *)
EXTENDS RunExecution, TLC

CONSTANTS w1, s1

OneWorkspace == [r \in Runs |-> w1]
OneSession   == [r \in Runs |-> s1]

(* Bound of the reaper's instance: the TTL of a lock does not run out      *)
(* while a tick holds it (the other instances let it).                     *)
NoLockLapse == expired = {}

(* Bound of the crash instance, which has no sweeps and thus nobody who    *)
(* looks at a heartbeat: none goes stale, or missing, under an attempt.    *)
NoStaleHeartbeat ==
  /\ \A r \in Runs : heartbeat[r] # "stale"
  /\ \A t \in Ticks : pc[t] \in Attempt => heartbeat[job[t]] = "fresh"

TickSymmetry == Permutations(Ticks)
===========================================================================

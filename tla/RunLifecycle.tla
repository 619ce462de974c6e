--------------------------- MODULE RunLifecycle ---------------------------
(***************************************************************************)
(* What the gateway and the executor together promise about the status of  *)
(* a run: it is queued once, started once, ends once, and its end does not *)
(* change -- unless it is contested: the reaper's verdict and the          *)
(* executor's outcome may overwrite each other, and an executor that fails *)
(* to report an outcome it has stored goes on to store a failure.  No      *)
(* UPDATE looks at the row it changes.                                     *)
(***************************************************************************)
CONSTANT Runs

VARIABLES
  status,
  contested  \* runs whose end more than one party writes

vars == <<status, contested>>

Terminal == {"completed", "failed", "cancelled"}

Init ==
  /\ status = [r \in Runs |-> "none"]
  /\ contested = {}

Queue(r) ==
  /\ status[r] = "none"
  /\ status' = [status EXCEPT ![r] = "queued"]
  /\ UNCHANGED contested

Start(r) ==
  /\ status[r] = "queued"
  /\ status' = [status EXCEPT ![r] = "running"]
  /\ UNCHANGED contested

Finish(r) ==
  /\ \/ status[r] = "running"
     \/ r \in contested /\ status[r] \in Terminal
  /\ \E outcome \in Terminal : status' = [status EXCEPT ![r] = outcome]
  /\ UNCHANGED contested

(* The reaper fails the run, or the executor is about to.                  *)
Contest(r) ==
  /\ status[r] \in {"running"} \cup Terminal
  /\ status' \in {status, [status EXCEPT ![r] = "failed"]}
  /\ contested' = contested \cup {r}

Next == \E r \in Runs : Queue(r) \/ Start(r) \/ Finish(r) \/ Contest(r)

Spec == Init /\ [][Next]_vars
===========================================================================

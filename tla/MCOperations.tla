---------------------------- MODULE MCOperations ---------------------------
(* Instances of Operations for TLC.                                        *)
EXTENDS Operations

AllCommands == {"start", "stop", "restart", "configure"} \cup Requests

(* What follows an overlap is followed up only in behaviours of one command. *)
OverlapOfOne == cut => given <= 1
============================================================================

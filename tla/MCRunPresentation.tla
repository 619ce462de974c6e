------------------------- MODULE MCRunPresentation ------------------------
(* Instances of RunPresentation for TLC.                                   *)
EXTENDS RunPresentation

CONSTANTS x, y

Activities == {"gateway", "reaper", "executor", "media"}
InProcess == [p \in Activities |-> IF p = "executor" THEN "executor" ELSE "gateway"]

ChunkSymmetry == Permutations(Chunks)
===========================================================================

--------------------------- MODULE MCQueueRunner ---------------------------
(***************************************************************************)
(* Instances of QueueRunner for TLC.                                       *)
(***************************************************************************)
EXTENDS QueueRunnerInvariant, TLC

CONSTANTS v1, v2

MCThreeEntries == 1..3

MCVoid == {v1, v2}

\* Row 1 and row 2 are of the same void, the others of the other one.
MCVoidOf == [e \in Entry |-> IF e <= 2 THEN v1 ELSE v2]

Symmetry == Permutations(Pid)
=============================================================================

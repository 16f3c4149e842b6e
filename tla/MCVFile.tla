------------------------------ MODULE MCVFile ------------------------------
(***************************************************************************)
(* Instances of VFile for TLC: two workers of void v1, one of void v2,     *)
(* which has a name of its own or that of v1.                              *)
(***************************************************************************)
EXTENDS VFile, TLC

CONSTANTS v1, v2, d1, d2, w1, w2, w3

MCVoid == {v1, v2}
MCDir == {d1, d2}
MCWorker == {w1, w2, w3}
MCVoidOf == [w \in Worker |-> IF w = w3 THEN v2 ELSE v1]
MCNamings == {n \in [Void -> Dir] : n[v1] = d1}

Symmetry == Permutations(Content) \cup Permutations({w1, w2})
=============================================================================

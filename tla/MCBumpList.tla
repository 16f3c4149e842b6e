----------------------------- MODULE MCBumpList -----------------------------
(***************************************************************************)
(* The instance of BumpList for TLC: two of three persons are on the list, *)
(* and the list's own address is one of the three, so that it can be       *)
(* subscribed to itself.                                                   *)
(***************************************************************************)
EXTENDS BumpList, TLC

CONSTANTS a, b, thelist

MCPerson == {a, b, thelist}
MCSeed == <<a, b>>

Symmetry == Permutations(Script)
=============================================================================

------------------------------ MODULE Dispatch ------------------------------
(***************************************************************************)
(* What the queue of incoming mail promises to those who write the rules   *)
(* of a void (README: "you don't need to worry about handling multiple     *)
(* messages arriving atonce"): every message is handed to the rule at      *)
(* most once, one message of a void at a time, and a message that is       *)
(* given up was never handed over.  Nothing is said of slots, processes,   *)
(* connections or the table.                                               *)
(***************************************************************************)
CONSTANTS
  Entry,    \* messages
  VoidOf    \* the void of each message

VARIABLE phase   \* of each message: "new", "waiting", "running", "finished" or "dropped"

Init == phase = [e \in Entry |-> "new"]

Move(e, from, to) == phase[e] = from /\ phase' = [phase EXCEPT ![e] = to]

Submit(e) == Move(e, "new", "waiting")

\* The rule of the void is idle.
Run(e) ==
  /\ \A f \in Entry : VoidOf[f] = VoidOf[e] => phase[f] # "running"
  /\ Move(e, "waiting", "running")

Finish(e) == Move(e, "running", "finished")

Drop(e) == Move(e, "waiting", "dropped")

Next == \E e \in Entry : Submit(e) \/ Run(e) \/ Finish(e) \/ Drop(e)

Safety == Init /\ [][Next]_phase
=============================================================================

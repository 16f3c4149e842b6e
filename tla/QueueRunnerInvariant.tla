------------------------ MODULE QueueRunnerInvariant ------------------------
(***************************************************************************)
(* The inductive invariants behind the safety properties of QueueRunner.   *)
(* TLC checks them on small instances, QueueRunnerProofs proves them.      *)
(***************************************************************************)
EXTENDS QueueRunner

Exists(p) == proc[p].state # "free"

\* A process, zombies included, has its row PROCESSING; before its worker is
\* called, nobody else has called one for the row.
ProcessOwnsRow ==
  \A p \in Pid : Exists(p) =>
    /\ proc[p].entry \in Entry
    /\ queue[proc[p].entry] = "PROCESSING"
    /\ proc[p].state = "forked" => runs[proc[p].entry] = 0

OneProcessPerRow ==
  \A p, r \in Pid : Exists(p) /\ Exists(r) /\ proc[p].entry = proc[r].entry => p = r

FreeHasNoParent == \A p \in Pid : proc[p].state = "free" => proc[p].parent = NULL

\* What a slot in use remembers is true of the child it names.
SlotHoldsChild ==
  \A b \in Boss, i \in Slot :
    pc[b] # "down" /\ threads[b][i].id # EMPTY =>
      /\ proc[threads[b][i].id].parent = b
      /\ proc[threads[b][i].id].entry = threads[b][i].qentry
      /\ threads[b][i].queueState = "PROCESSING"

SlotsDistinct ==
  \A b \in Boss, i, j \in Slot :
    pc[b] # "down" /\ threads[b][i].id # EMPTY /\ threads[b][i].id = threads[b][j].id => i = j

ChildHasSlot ==
  \A b \in Boss, p \in Pid :
    proc[p].parent = b => pc[b] # "down" /\ \E i \in Slot : threads[b][i].id = p

\* Between the select and the claim.
PendingClaim ==
  \A b \in Boss : pc[b] = "claim" =>
    /\ Current(b).id = EMPTY
    /\ Current(b).qentry \in Entry
    /\ Current(b).queueState = "JUSTIN"

\* Between the claim and the fork the boss is the only one to have the row.
PendingFork ==
  \A b \in Boss : pc[b] = "fork" =>
    /\ Current(b).id = EMPTY
    /\ Current(b).qentry \in Entry
    /\ Current(b).queueState = "PROCESSING"
    /\ queue[Current(b).qentry] = "PROCESSING"
    /\ runs[Current(b).qentry] = 0
    /\ \A p \in Pid : Exists(p) => proc[p].entry # Current(b).qentry
    /\ \A c \in Boss \ {b} : pc[c] = "fork" => Current(c).qentry # Current(b).qentry

WaitingNotRun == \A e \in Entry : queue[e] \in {"ABSENT", "JUSTIN"} => runs[e] = 0

IInv ==
  /\ TypeOK
  /\ ProcessOwnsRow
  /\ OneProcessPerRow
  /\ FreeHasNoParent
  /\ SlotHoldsChild
  /\ SlotsDistinct
  /\ ChildHasSlot
  /\ PendingClaim
  /\ PendingFork
  /\ WaitingNotRun
  /\ AtMostOnce
-----------------------------------------------------------------------------
\* What NoRowStranded needs besides: no boss ever stops or is cut off.
BossesServe == Faults \subseteq {"setup"} => \A b \in Boss : conn[b] /\ pc[b] # "down"
-----------------------------------------------------------------------------
(***************************************************************************)
(* What is needed besides for a boss alone on the EMAILIN rows.            *)
(***************************************************************************)
\* What the select found about the void still holds at the claim.
SelectionHolds ==
  \A b \in Boss : pc[b] = "claim" => VoidOf[Current(b).qentry] \notin BusyVoids(queue)

ForkAlone ==
  \A b \in Boss, e \in Entry :
    pc[b] = "fork" /\ queue[e] = "PROCESSING" /\ VoidOf[e] = VoidOf[Current(b).qentry] =>
      e = Current(b).qentry

OneProcessPerVoid ==
  \A p, r \in Pid :
    Exists(p) /\ Exists(r) /\ VoidOf[proc[p].entry] = VoidOf[proc[r].entry] => p = r

AloneInv == SelectionHolds /\ ForkAlone /\ OneProcessPerVoid
=============================================================================

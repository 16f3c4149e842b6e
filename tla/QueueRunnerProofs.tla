-------------------------- MODULE QueueRunnerProofs --------------------------
(***************************************************************************)
(* Proofs that a queue is safe for every number of bosses, slots, rows and *)
(* voids: what its processes and slots have to do with its rows, and that  *)
(* with one boss it implements Dispatch.                                   *)
(***************************************************************************)
EXTENDS QueueRunnerInvariant, TLAPS

LEMMA SelectionIsWaiting ==
  ASSUME NEW q, NEW e \in getQueueEntryJustinNotRunning(q), e # NULL
  PROVE  /\ e \in Entry
         /\ q[e] = "JUSTIN"
         /\ QueueType = "EMAILIN" => VoidOf[e] \notin BusyVoids(q)
  BY DEF getQueueEntryJustinNotRunning, NextEmailIn, NextEmailOut, OneOf, Windows, Ready, RowsIn

PcValues == {"reap", "spawn", "claim", "fork", "down"}

LEMMA AdvanceFacts ==
  ASSUME TypeOK, NEW b \in Boss, NEW h \in PcValues, NEW t \in PcValues, Advance(b, h, t)
  PROVE  /\ slot' \in [Boss -> Slot]
         /\ pc' \in [Boss -> PcValues]
         /\ pc'[b] \in {h, t}
         /\ \A c \in Boss \ {b} : slot'[c] = slot[c] /\ pc'[c] = pc[c]
  BY NumThreadsAssumption DEF Advance, Slot, TypeOK, PcValues

LEMMA SetCurrentFacts ==
  ASSUME TypeOK, NEW b \in Boss, NEW t \in Thread, SetCurrent(b, t)
  PROVE  /\ threads' \in [Boss -> [Slot -> Thread]]
         /\ \A c \in Boss, i \in Slot :
              threads'[c][i] = IF c = b /\ i = slot[b] THEN t ELSE threads[c][i]
  <1>1. slot[b] \in Slot /\ threads[b] \in [Slot -> Thread]
    BY DEF TypeOK
  <1>2. threads' = [threads EXCEPT ![b] = [threads[b] EXCEPT ![slot[b]] = t]]
    BY DEF SetCurrent
  <1>3. [threads[b] EXCEPT ![slot[b]] = t] \in [Slot -> Thread]
    BY <1>1
  <1>4. threads' \in [Boss -> [Slot -> Thread]]
    BY <1>2, <1>3 DEF TypeOK
  <1>5. ASSUME NEW c \in Boss, NEW i \in Slot
        PROVE  threads'[c][i] = IF c = b /\ i = slot[b] THEN t ELSE threads[c][i]
    BY <1>1, <1>2 DEF TypeOK
  <1> QED BY <1>4, <1>5

LEMMA CurrentFacts ==
  ASSUME TypeOK, NEW b \in Boss
  PROVE  /\ Current(b) \in Thread
         /\ Current(b) = threads[b][slot[b]]
         /\ slot[b] \in Slot
  BY DEF TypeOK, Current

LEMMA UpdateFacts ==
  ASSUME TypeOK, NEW e, NEW from, NEW to \in RowState
  PROVE  /\ setQueueEntryState(queue, e, from, to) \in [Entry -> RowState]
         /\ \A f \in Entry : setQueueEntryState(queue, e, from, to)[f] =
              IF f = e /\ queue[f] = from THEN to ELSE queue[f]
  BY DEF TypeOK, setQueueEntryState, StateMatches

LEMMA InitIInv == Init => IInv
  BY BossAssumption, PidAssumption, NumThreadsAssumption, EntryAssumption
  DEF Init, IInv, TypeOK, Thread, NoThread, Process, NoProcess, RowState, Slot, ProcessOwnsRow,
      OneProcessPerRow, FreeHasNoParent, SlotHoldsChild, SlotsDistinct, ChildHasSlot,
      PendingClaim, PendingFork, WaitingNotRun, AtMostOnce, Exists
-----------------------------------------------------------------------------

LEMMA IndInsert == ASSUME IInv, NEW e \in Entry, Insert(e) PROVE IInv'
  <1>1. TypeOK'
    BY DEF IInv, TypeOK, Insert, insertQueueEntry, RowState
  <1>2. \A f \in Entry : queue'[f] = IF f = e THEN "JUSTIN" ELSE queue[f]
    BY DEF IInv, TypeOK, Insert, insertQueueEntry
  <1>3. queue[e] = "ABSENT" /\ UNCHANGED <<pc, slot, threads, conn, proc, runs>>
    BY DEF Insert
  <1> QED
    BY <1>1, <1>2, <1>3 DEF IInv, ProcessOwnsRow, OneProcessPerRow, FreeHasNoParent, SlotHoldsChild,
       SlotsDistinct, ChildHasSlot, PendingClaim, PendingFork, WaitingNotRun, AtMostOnce, Exists, Current

LEMMA IndReap == ASSUME IInv, NEW b \in Boss, Reap(b) PROVE IInv'
  <1> DEFINE t == Current(b)
  <1>0. TypeOK BY DEF IInv
  <1>1. /\ t \in Thread /\ t = threads[b][slot[b]] /\ slot[b] \in Slot
    BY <1>0, CurrentFacts
  <1>2. /\ pc[b] = "reap" /\ t.id # EMPTY /\ t.id \in Pid
        /\ UNCHANGED <<conn, runs>>
    BY <1>1 DEF Reap, Reapable, Thread
  <1>3. /\ proc[t.id].parent = b
        /\ proc[t.id].entry = t.qentry
        /\ t.queueState = "PROCESSING"
    BY <1>1, <1>2 DEF IInv, SlotHoldsChild
  <1>4. /\ t.qentry \in Entry
        /\ queue[t.qentry] = "PROCESSING"
        /\ proc[t.id].state = "zombie"
    BY <1>0, <1>2, <1>3, BossAssumption
    DEF IInv, ProcessOwnsRow, FreeHasNoParent, Exists, Reap, Reapable, Ended, Alive, TypeOK, Process
  <1>5. /\ slot' \in [Boss -> Slot] /\ pc' \in [Boss -> PcValues] /\ pc'[b] \in {"reap", "spawn"}
        /\ \A c \in Boss \ {b} : slot'[c] = slot[c] /\ pc'[c] = pc[c]
    BY <1>0, AdvanceFacts DEF Reap, PcValues
  <1>6. NoThread \in Thread
    BY EntryAssumption DEF NoThread, Thread, RowState
  <1>7. /\ threads' \in [Boss -> [Slot -> Thread]]
        /\ \A c \in Boss, i \in Slot :
              threads'[c][i] = IF c = b /\ i = slot[b] THEN NoThread ELSE threads[c][i]
    BY <1>0, <1>6, SetCurrentFacts DEF Reap
  <1>8. /\ proc' \in [Pid -> Process]
        /\ \A p \in Pid : proc'[p] = IF p = t.id THEN NoProcess ELSE proc[p]
    BY <1>0, <1>2, <1>3, <1>4 DEF Reap, TypeOK, NoProcess, Process, Alive
  <1>9. /\ queue' \in [Entry -> RowState]
        /\ \A f \in Entry : f # t.qentry => queue'[f] = queue[f]
        /\ queue'[t.qentry] \in {"PROCESSING", "DONE"}
    <2>1. "DONE" \in RowState BY DEF RowState
    <2> QED BY <1>0, <1>4, <2>1, UpdateFacts DEF Reap, TypeOK
  <1> HIDE DEF t
  <1>10. TypeOK'
    BY <1>0, <1>2, <1>5, <1>7, <1>8, <1>9 DEF TypeOK, PcValues
  <1>11. NoProcess.state = "free" /\ NoProcess.parent = NULL /\ NoThread.id = EMPTY
    BY DEF NoProcess, NoThread
  <1>12. ProcessOwnsRow'
    BY <1>2, <1>3, <1>4, <1>8, <1>9, <1>11 DEF IInv, ProcessOwnsRow, OneProcessPerRow, Exists
  <1>13. OneProcessPerRow'
    BY <1>8, <1>11 DEF IInv, OneProcessPerRow, Exists
  <1>14. FreeHasNoParent'
    BY <1>8, <1>11 DEF IInv, FreeHasNoParent
  <1>15. SlotHoldsChild'
    <2> SUFFICES ASSUME NEW c \in Boss, NEW i \in Slot, pc'[c] # "down", threads'[c][i].id # EMPTY
                 PROVE  /\ proc'[threads'[c][i].id].parent = c
                        /\ proc'[threads'[c][i].id].entry = threads'[c][i].qentry
                        /\ threads'[c][i].queueState = "PROCESSING"
      BY DEF SlotHoldsChild
    <2>1. threads'[c][i] = threads[c][i] /\ ~(c = b /\ i = slot[b]) /\ pc[c] # "down"
      BY <1>2, <1>5, <1>7, <1>11
    <2>2. threads[c][i].id \in Pid
      BY <1>0, <2>1 DEF TypeOK, Thread
    <2>3. threads[c][i].id # t.id
      BY <1>1, <1>2, <1>3, <2>1 DEF IInv, SlotHoldsChild, SlotsDistinct
    <2> QED BY <1>8, <2>1, <2>2, <2>3 DEF IInv, SlotHoldsChild
  <1>16. SlotsDistinct'
    BY <1>2, <1>5, <1>7, <1>11 DEF IInv, SlotsDistinct
  <1>17. ChildHasSlot'
    BY <1>1, <1>2, <1>5, <1>7, <1>8, <1>11, BossAssumption DEF IInv, ChildHasSlot
  <1>18. PendingClaim'
    BY <1>5, <1>7 DEF IInv, PendingClaim, Current, TypeOK
  <1>19. PendingFork'
    <2>1. ASSUME NEW c \in Boss, pc'[c] = "fork"
          PROVE  c # b /\ pc[c] = "fork" /\ Current(c)' = Current(c)
      BY <1>0, <1>5, <1>7, <2>1 DEF Current, TypeOK
    <2>2. Exists(t.id)
      BY <1>4 DEF Exists
    <2> QED BY <1>2, <1>3, <1>8, <1>9, <1>11, <2>1, <2>2 DEF IInv, PendingFork, Exists
  <1>20. WaitingNotRun' /\ AtMostOnce'
    BY <1>2, <1>4, <1>9 DEF IInv, WaitingNotRun, AtMostOnce
  <1> QED
    BY <1>10, <1>12, <1>13, <1>14, <1>15, <1>16, <1>17, <1>18, <1>19, <1>20 DEF IInv

\* Steps that only move the loop of b on, its current slot still empty or in use.
LEMMA IndAdvance ==
  ASSUME IInv, NEW b \in Boss, pc[b] # "down", Advance(b, "reap", "spawn") \/ Advance(b, "spawn", "reap"),
         UNCHANGED <<queue, threads, conn, proc, runs>>
  PROVE  IInv'
  <1>0. TypeOK BY DEF IInv
  <1>1. /\ slot' \in [Boss -> Slot] /\ pc' \in [Boss -> PcValues] /\ pc'[b] \in {"reap", "spawn"}
        /\ \A c \in Boss \ {b} : slot'[c] = slot[c] /\ pc'[c] = pc[c]
    BY <1>0, AdvanceFacts DEF PcValues
  <1>2. TypeOK'
    BY <1>0, <1>1 DEF TypeOK, PcValues
  <1>3. /\ ProcessOwnsRow' /\ OneProcessPerRow' /\ FreeHasNoParent' /\ WaitingNotRun' /\ AtMostOnce'
    BY DEF IInv, ProcessOwnsRow, OneProcessPerRow, FreeHasNoParent, WaitingNotRun, AtMostOnce, Exists
  <1>4. SlotHoldsChild' /\ SlotsDistinct' /\ ChildHasSlot'
    BY <1>1 DEF IInv, SlotHoldsChild, SlotsDistinct, ChildHasSlot
  <1>5. PendingClaim' /\ PendingFork'
    <2>1. ASSUME NEW c \in Boss, pc'[c] \in {"claim", "fork"}
          PROVE  c # b /\ pc[c] = pc'[c] /\ Current(c)' = Current(c)
      BY <1>1, <2>1 DEF Current
    <2> QED BY <2>1 DEF IInv, PendingClaim, PendingFork, Exists
  <1> QED BY <1>2, <1>3, <1>4, <1>5 DEF IInv

\* Steps that change the entry of an empty slot and leave it empty.
LEMMA IndEmptySlot ==
  ASSUME IInv, NEW b \in Boss, pc[b] # "down", NEW t \in Thread, t.id = EMPTY, Current(b).id = EMPTY,
         SetCurrent(b, t), Advance(b, "spawn", "reap"), UNCHANGED <<queue, conn, proc, runs>>
  PROVE  IInv'
  <1>0. TypeOK BY DEF IInv
  <1>1. /\ slot' \in [Boss -> Slot] /\ pc' \in [Boss -> PcValues] /\ pc'[b] \in {"reap", "spawn"}
        /\ \A c \in Boss \ {b} : slot'[c] = slot[c] /\ pc'[c] = pc[c]
    BY <1>0, AdvanceFacts DEF PcValues
  <1>2. /\ threads' \in [Boss -> [Slot -> Thread]]
        /\ \A c \in Boss, i \in Slot :
              threads'[c][i] = IF c = b /\ i = slot[b] THEN t ELSE threads[c][i]
    BY <1>0, SetCurrentFacts
  <1>3. threads[b][slot[b]].id = EMPTY /\ slot[b] \in Slot
    BY <1>0, CurrentFacts
  <1>4. TypeOK'
    BY <1>0, <1>1, <1>2 DEF TypeOK, PcValues
  <1>5. /\ ProcessOwnsRow' /\ OneProcessPerRow' /\ FreeHasNoParent' /\ WaitingNotRun' /\ AtMostOnce'
    BY DEF IInv, ProcessOwnsRow, OneProcessPerRow, FreeHasNoParent, WaitingNotRun, AtMostOnce, Exists
  <1>6. ASSUME NEW c \in Boss, NEW i \in Slot, threads'[c][i].id # EMPTY
        PROVE  threads'[c][i] = threads[c][i]
    BY <1>2, <1>6
  <1>7. SlotHoldsChild'
    BY <1>1, <1>6 DEF IInv, SlotHoldsChild
  <1>8. SlotsDistinct'
    BY <1>1, <1>2, <1>6 DEF IInv, SlotsDistinct
  <1>9. ChildHasSlot'
    <2>1. ASSUME NEW c \in Boss, NEW p \in Pid, proc[p].parent = c
          PROVE  pc'[c] # "down" /\ \E i \in Slot : threads'[c][i].id = p
      <3>1. pc[c] # "down" /\ \E i \in Slot : threads[c][i].id = p
        BY <2>1 DEF IInv, ChildHasSlot
      <3> QED BY <1>1, <1>2, <1>3, <3>1, PidAssumption
    <2> QED BY <2>1 DEF ChildHasSlot
  <1>10. PendingClaim' /\ PendingFork'
    <2>1. ASSUME NEW c \in Boss, pc'[c] \in {"claim", "fork"}
          PROVE  c # b /\ pc[c] = pc'[c] /\ Current(c)' = Current(c)
      BY <1>0, <1>1, <1>2, <2>1 DEF Current, TypeOK
    <2> QED BY <2>1 DEF IInv, PendingClaim, PendingFork, Exists
  <1> QED BY <1>4, <1>5, <1>7, <1>8, <1>9, <1>10 DEF IInv

LEMMA IndSelectNothing == ASSUME IInv, NEW b \in Boss, SelectNothing(b) PROVE IInv'
  <1>1. Current(b) \in Thread /\ pc[b] # "down" /\ Current(b).id = EMPTY
    BY CurrentFacts DEF IInv, SelectNothing, SlotFree
  <1>2. [Current(b) EXCEPT !.qentry = NULL] \in Thread
    BY <1>1 DEF Thread
  <1>3. [Current(b) EXCEPT !.qentry = NULL].id = EMPTY
    BY <1>1 DEF Thread
  <1> QED BY <1>1, <1>2, <1>3, IndEmptySlot DEF SelectNothing

LEMMA IndForkFails == ASSUME IInv, NEW b \in Boss, ForkFails(b) PROVE IInv'
  <1>1. Current(b) \in Thread /\ pc[b] # "down" /\ Current(b).id = EMPTY
    BY CurrentFacts DEF IInv, ForkFails, PendingFork
  <1>2. [Current(b) EXCEPT !.id = EMPTY] \in Thread
    BY <1>1 DEF Thread
  <1>3. [Current(b) EXCEPT !.id = EMPTY].id = EMPTY
    BY <1>1 DEF Thread
  <1> QED BY <1>1, <1>2, <1>3, IndEmptySlot DEF ForkFails

LEMMA IndSelect == ASSUME IInv, NEW b \in Boss, NEW e \in Entry, Select(b, e) PROVE IInv'
  <1> DEFINE t == [Current(b) EXCEPT !.qentry = e, !.queueState = "JUSTIN"]
  <1>0. TypeOK BY DEF IInv
  <1>1. Current(b) \in Thread /\ Current(b).id = EMPTY /\ slot[b] \in Slot /\ threads[b][slot[b]].id = EMPTY
    BY <1>0, CurrentFacts DEF Select, SlotFree
  <1>2. t \in Thread /\ t.id = EMPTY /\ t.qentry = e /\ t.queueState = "JUSTIN"
    BY <1>1 DEF Thread, RowState
  <1>3. /\ threads' \in [Boss -> [Slot -> Thread]]
        /\ \A c \in Boss, i \in Slot :
              threads'[c][i] = IF c = b /\ i = slot[b] THEN t ELSE threads[c][i]
    BY <1>0, <1>2, SetCurrentFacts DEF Select
  <1>4. /\ pc[b] = "spawn" /\ pc'[b] = "claim"
        /\ pc' \in [Boss -> PcValues] /\ \A c \in Boss \ {b} : pc'[c] = pc[c]
        /\ UNCHANGED <<queue, slot, conn, proc, runs>>
    BY <1>0 DEF Select, TypeOK, PcValues
  <1> HIDE DEF t
  <1>5. TypeOK'
    BY <1>0, <1>3, <1>4 DEF TypeOK, PcValues
  <1>6. /\ ProcessOwnsRow' /\ OneProcessPerRow' /\ FreeHasNoParent' /\ WaitingNotRun' /\ AtMostOnce'
    BY <1>4 DEF IInv, ProcessOwnsRow, OneProcessPerRow, FreeHasNoParent, WaitingNotRun, AtMostOnce, Exists
  <1>7. ASSUME NEW c \in Boss, NEW i \in Slot, threads'[c][i].id # EMPTY
        PROVE  threads'[c][i] = threads[c][i]
    BY <1>2, <1>3, <1>7
  <1>8. SlotHoldsChild' /\ SlotsDistinct'
    <2>1. \A c \in Boss : pc'[c] # "down" => pc[c] # "down"
      BY <1>4
    <2>2. SlotHoldsChild'
      BY <1>4, <1>7, <2>1 DEF IInv, SlotHoldsChild
    <2>3. SlotsDistinct'
      BY <1>7, <2>1 DEF IInv, SlotsDistinct
    <2> QED BY <2>2, <2>3
  <1>9. ChildHasSlot'
    <2>1. ASSUME NEW c \in Boss, NEW p \in Pid, proc[p].parent = c
          PROVE  pc'[c] # "down" /\ \E i \in Slot : threads'[c][i].id = p
      <3>1. pc[c] # "down" /\ \E i \in Slot : threads[c][i].id = p
        BY <2>1 DEF IInv, ChildHasSlot
      <3> QED BY <1>1, <1>3, <1>4, <3>1, PidAssumption
    <2> QED BY <1>4, <2>1 DEF ChildHasSlot
  <1>10. PendingClaim'
    BY <1>0, <1>1, <1>2, <1>3, <1>4 DEF IInv, PendingClaim, Current, TypeOK
  <1>11. PendingFork'
    <2>1. ASSUME NEW c \in Boss, pc'[c] = "fork"
          PROVE  c # b /\ pc[c] = "fork" /\ Current(c)' = Current(c)
      BY <1>0, <1>3, <1>4, <2>1 DEF Current, TypeOK
    <2> QED BY <1>4, <2>1 DEF IInv, PendingFork, Exists
  <1> QED BY <1>5, <1>6, <1>8, <1>9, <1>10, <1>11 DEF IInv

LEMMA IndClaim == ASSUME IInv, NEW b \in Boss, Claim(b) PROVE IInv'
  <1> DEFINE t == Current(b)
             u == [t EXCEPT !.queueState = "PROCESSING"]
  <1>0. TypeOK BY DEF IInv
  <1>1. /\ t \in Thread /\ t.id = EMPTY /\ slot[b] \in Slot /\ threads[b][slot[b]] = t
        /\ t.qentry \in Entry /\ t.queueState = "JUSTIN"
    BY <1>0, CurrentFacts DEF IInv, PendingClaim, Claim
  <1>2. u \in Thread /\ u.id = EMPTY /\ u.qentry = t.qentry /\ u.queueState = "PROCESSING"
    BY <1>1 DEF Thread, RowState
  <1>3. /\ threads' \in [Boss -> [Slot -> Thread]]
        /\ \A c \in Boss, i \in Slot :
              threads'[c][i] = IF c = b /\ i = slot[b] THEN u ELSE threads[c][i]
    BY <1>0, <1>2, SetCurrentFacts DEF Claim
  <1>4. /\ pc[b] = "claim" /\ pc'[b] = "fork"
        /\ pc' \in [Boss -> PcValues] /\ \A c \in Boss \ {b} : pc'[c] = pc[c]
        /\ UNCHANGED <<slot, conn, proc, runs>>
    BY <1>0 DEF Claim, TypeOK, PcValues
  <1>5. queue[t.qentry] = "JUSTIN"
    BY <1>1 DEF Claim, StateMatches
  <1>6. /\ queue' \in [Entry -> RowState]
        /\ \A f \in Entry : queue'[f] = IF f = t.qentry THEN "PROCESSING" ELSE queue[f]
    <2>1. "PROCESSING" \in RowState BY DEF RowState
    <2> QED BY <1>0, <1>1, <1>5, <2>1, UpdateFacts DEF Claim
  <1> HIDE DEF t, u
  <1>7. /\ runs[t.qentry] = 0
        /\ \A p \in Pid : Exists(p) => proc[p].entry # t.qentry
        /\ \A c \in Boss : pc[c] = "fork" => Current(c).qentry # t.qentry
    BY <1>1, <1>5 DEF IInv, WaitingNotRun, ProcessOwnsRow, PendingFork
  <1>8. TypeOK'
    BY <1>0, <1>3, <1>4, <1>6 DEF TypeOK, PcValues
  <1>9. /\ ProcessOwnsRow' /\ OneProcessPerRow' /\ FreeHasNoParent' /\ WaitingNotRun' /\ AtMostOnce'
    BY <1>4, <1>6 DEF IInv, ProcessOwnsRow, OneProcessPerRow, FreeHasNoParent, WaitingNotRun, AtMostOnce, Exists
  <1>10. ASSUME NEW c \in Boss, NEW i \in Slot, threads'[c][i].id # EMPTY
        PROVE  threads'[c][i] = threads[c][i]
    BY <1>2, <1>3, <1>10
  <1>11. SlotHoldsChild' /\ SlotsDistinct'
    <2>1. \A c \in Boss : pc'[c] # "down" => pc[c] # "down"
      BY <1>4
    <2>2. SlotHoldsChild'
      BY <1>4, <1>10, <2>1 DEF IInv, SlotHoldsChild
    <2>3. SlotsDistinct'
      BY <1>10, <2>1 DEF IInv, SlotsDistinct
    <2> QED BY <2>2, <2>3
  <1>12. ChildHasSlot'
    <2>1. ASSUME NEW c \in Boss, NEW p \in Pid, proc[p].parent = c
          PROVE  pc'[c] # "down" /\ \E i \in Slot : threads'[c][i].id = p
      <3>1. pc[c] # "down" /\ \E i \in Slot : threads[c][i].id = p
        BY <2>1 DEF IInv, ChildHasSlot
      <3> QED BY <1>1, <1>3, <1>4, <3>1, PidAssumption
    <2> QED BY <1>4, <2>1 DEF ChildHasSlot
  <1>13. ASSUME NEW c \in Boss, c # b
         PROVE  pc'[c] = pc[c] /\ Current(c)' = Current(c)
    BY <1>0, <1>3, <1>4, <1>13 DEF Current, TypeOK
  <1>14. PendingClaim'
    BY <1>4, <1>13 DEF IInv, PendingClaim
  <1>15. Current(b)' = u
    BY <1>1, <1>3, <1>4 DEF Current
  <1>16. PendingFork'
    BY <1>1, <1>2, <1>4, <1>6, <1>7, <1>13, <1>15 DEF IInv, PendingFork, Exists
  <1> QED BY <1>8, <1>9, <1>11, <1>12, <1>14, <1>16 DEF IInv

LEMMA IndClaimAnswerLost == ASSUME IInv, NEW b \in Boss, ClaimAnswerLost(b) PROVE IInv'
  <1> DEFINE e == Current(b).qentry
  <1>0. TypeOK BY DEF IInv
  <1>1. e \in Entry /\ Current(b).queueState = "JUSTIN" /\ pc[b] = "claim"
    BY DEF IInv, PendingClaim, ClaimAnswerLost
  <1>2. /\ slot' \in [Boss -> Slot] /\ pc' \in [Boss -> PcValues] /\ pc'[b] \in {"reap", "spawn"}
        /\ \A c \in Boss \ {b} : slot'[c] = slot[c] /\ pc'[c] = pc[c]
    BY <1>0, AdvanceFacts DEF ClaimAnswerLost, PcValues
  <1>3. /\ queue' \in [Entry -> RowState]
        /\ \A f \in Entry : queue'[f] = IF f = e /\ queue[f] = "JUSTIN" THEN "PROCESSING" ELSE queue[f]
    <2>1. "PROCESSING" \in RowState BY DEF RowState
    <2> QED BY <1>0, <1>1, <2>1, UpdateFacts DEF ClaimAnswerLost
  <1>4. UNCHANGED <<threads, proc, runs>> /\ conn' \in [Boss -> BOOLEAN]
    BY <1>0 DEF ClaimAnswerLost, TypeOK
  <1> HIDE DEF e
  <1>5. TypeOK'
    BY <1>0, <1>2, <1>3, <1>4 DEF TypeOK, PcValues
  <1>6. /\ ProcessOwnsRow' /\ OneProcessPerRow' /\ FreeHasNoParent' /\ WaitingNotRun' /\ AtMostOnce'
    BY <1>3, <1>4 DEF IInv, ProcessOwnsRow, OneProcessPerRow, FreeHasNoParent, WaitingNotRun, AtMostOnce, Exists
  <1>7. SlotHoldsChild' /\ SlotsDistinct' /\ ChildHasSlot'
    BY <1>1, <1>2, <1>4 DEF IInv, SlotHoldsChild, SlotsDistinct, ChildHasSlot
  <1>8. PendingClaim' /\ PendingFork'
    <2>1. ASSUME NEW c \in Boss, pc'[c] \in {"claim", "fork"}
          PROVE  c # b /\ pc[c] = pc'[c] /\ Current(c)' = Current(c)
      BY <1>2, <1>4, <2>1 DEF Current
    <2> QED BY <1>3, <1>4, <2>1 DEF IInv, PendingClaim, PendingFork, Exists
  <1> QED BY <1>5, <1>6, <1>7, <1>8 DEF IInv

LEMMA IndFork == ASSUME IInv, NEW b \in Boss, NEW p \in Pid, Fork(b, p) PROVE IInv'
  <1> DEFINE t == Current(b)
             u == [t EXCEPT !.id = p]
             n == [state |-> "forked", parent |-> b, entry |-> t.qentry]
  <1>0. TypeOK BY DEF IInv
  <1>1. /\ t \in Thread /\ t.id = EMPTY /\ slot[b] \in Slot /\ threads[b][slot[b]] = t
        /\ t.qentry \in Entry /\ t.queueState = "PROCESSING"
        /\ queue[t.qentry] = "PROCESSING" /\ runs[t.qentry] = 0
        /\ \A r \in Pid : Exists(r) => proc[r].entry # t.qentry
        /\ \A c \in Boss \ {b} : pc[c] = "fork" => Current(c).qentry # t.qentry
    BY <1>0, CurrentFacts DEF IInv, PendingFork, Fork
  <1>2. u \in Thread /\ u.id = p /\ u.qentry = t.qentry /\ u.queueState = "PROCESSING"
    BY <1>1 DEF Thread, RowState
  <1>3. n \in Process /\ n.state = "forked" /\ n.parent = b /\ n.entry = t.qentry
    BY <1>1 DEF Process
  <1>4. /\ threads' \in [Boss -> [Slot -> Thread]]
        /\ \A c \in Boss, i \in Slot :
              threads'[c][i] = IF c = b /\ i = slot[b] THEN u ELSE threads[c][i]
    BY <1>0, <1>2, SetCurrentFacts DEF Fork
  <1>5. /\ slot' \in [Boss -> Slot] /\ pc' \in [Boss -> PcValues] /\ pc'[b] \in {"reap", "spawn"}
        /\ \A c \in Boss \ {b} : slot'[c] = slot[c] /\ pc'[c] = pc[c]
    BY <1>0, AdvanceFacts DEF Fork, PcValues
  <1>6. /\ proc' \in [Pid -> Process]
        /\ \A r \in Pid : proc'[r] = IF r = p THEN n ELSE proc[r]
    BY <1>0, <1>3 DEF Fork, TypeOK
  <1>7. pc[b] = "fork" /\ proc[p].state = "free" /\ proc[p].parent = NULL /\ UNCHANGED <<queue, conn, runs>>
    BY DEF Fork, IInv, FreeHasNoParent
  <1> HIDE DEF t, u, n
  <1>8. TypeOK'
    BY <1>0, <1>4, <1>5, <1>6, <1>7 DEF TypeOK, PcValues
  <1>9. ProcessOwnsRow'
    BY <1>1, <1>3, <1>6, <1>7 DEF IInv, ProcessOwnsRow, Exists
  <1>10. OneProcessPerRow'
    BY <1>1, <1>3, <1>6, <1>7 DEF IInv, OneProcessPerRow, Exists
  <1>11. FreeHasNoParent'
    BY <1>3, <1>6 DEF IInv, FreeHasNoParent
  <1>12. \A c \in Boss : pc'[c] # "down" => pc[c] # "down"
    BY <1>5, <1>7
  <1>13. ASSUME NEW c \in Boss, NEW i \in Slot, pc[c] # "down", threads[c][i].id # EMPTY
         PROVE  threads[c][i].id \in Pid \ {p}
    <2>1. threads[c][i].id \in Pid
      BY <1>0, <1>13 DEF TypeOK, Thread
    <2>2. proc[threads[c][i].id].parent = c
      BY <1>13 DEF IInv, SlotHoldsChild
    <2> QED BY <1>7, <2>1, <2>2, BossAssumption
  <1>14. SlotHoldsChild'
    BY <1>2, <1>3, <1>4, <1>6, <1>12, <1>13, PidAssumption DEF IInv, SlotHoldsChild
  <1>15. SlotsDistinct'
    BY <1>2, <1>4, <1>12, <1>13 DEF IInv, SlotsDistinct
  <1>16. ChildHasSlot'
    <2>1. ASSUME NEW c \in Boss, NEW r \in Pid, proc'[r].parent = c, r # p
          PROVE  pc'[c] # "down" /\ \E i \in Slot : threads'[c][i].id = r
      <3>1. pc[c] # "down" /\ \E i \in Slot : threads[c][i].id = r
        BY <1>6, <2>1 DEF IInv, ChildHasSlot
      <3> QED BY <1>1, <1>4, <1>5, <3>1, PidAssumption
    <2>2. proc'[p].parent = b /\ pc'[b] # "down" /\ threads'[b][slot[b]].id = p
      BY <1>1, <1>2, <1>3, <1>4, <1>5, <1>6
    <2> QED BY <1>1, <2>1, <2>2 DEF ChildHasSlot
  <1>17. ASSUME NEW c \in Boss, pc'[c] \in {"claim", "fork"}
         PROVE  c # b /\ pc[c] = pc'[c] /\ Current(c)' = Current(c)
    BY <1>0, <1>4, <1>5, <1>17 DEF Current, TypeOK
  <1>18. PendingClaim'
    BY <1>17 DEF IInv, PendingClaim
  <1>19. PendingFork'
    BY <1>1, <1>3, <1>6, <1>7, <1>17 DEF IInv, PendingFork, Exists
  <1>20. WaitingNotRun' /\ AtMostOnce'
    BY <1>7 DEF IInv, WaitingNotRun, AtMostOnce
  <1> QED
    BY <1>8, <1>9, <1>10, <1>11, <1>14, <1>15, <1>16, <1>18, <1>19, <1>20 DEF IInv
-----------------------------------------------------------------------------
LEMMA IndChildStarts == ASSUME IInv, NEW p \in Pid, ChildStarts(p) PROVE IInv'
  <1> DEFINE e == proc[p].entry
  <1>0. TypeOK BY DEF IInv
  <1>1. /\ Exists(p) /\ e \in Entry /\ queue[e] = "PROCESSING" /\ runs[e] = 0
    BY DEF IInv, ProcessOwnsRow, Exists, ChildStarts
  <1>2. /\ proc' \in [Pid -> Process]
        /\ \A r \in Pid : proc'[r].parent = proc[r].parent /\ proc'[r].entry = proc[r].entry
        /\ \A r \in Pid : proc'[r].state = IF r = p THEN "working" ELSE proc[r].state
    <2>1. [proc[p] EXCEPT !.state = "working"] \in Process
      BY <1>0 DEF TypeOK, Process
    <2>2. proc' = [proc EXCEPT ![p] = [proc[p] EXCEPT !.state = "working"]]
      BY DEF ChildStarts
    <2> QED BY <1>0, <2>1, <2>2 DEF TypeOK, Process
  <1>3. /\ runs' \in [Entry -> Nat]
        /\ \A f \in Entry : runs'[f] = IF f = e THEN 1 ELSE runs[f]
    BY <1>0, <1>1 DEF ChildStarts, TypeOK
  <1>4. UNCHANGED <<queue, pc, slot, threads, conn>>
    BY DEF ChildStarts
  <1>5. \A r \in Pid : Exists(r)' <=> Exists(r)
    BY <1>1, <1>2 DEF Exists
  <1> HIDE DEF e
  <1>6. TypeOK'
    BY <1>0, <1>2, <1>3, <1>4 DEF TypeOK
  <1>7. OneProcessPerRow'
    BY <1>2, <1>5 DEF IInv, OneProcessPerRow
  <1>8. ProcessOwnsRow'
    <2>1. \A r \in Pid : Exists(r) /\ r # p => proc[r].entry # e
      BY <1>1 DEF IInv, OneProcessPerRow, e
    <2> QED BY <1>2, <1>3, <1>4, <1>5, <2>1 DEF IInv, ProcessOwnsRow
  <1>9. FreeHasNoParent'
    BY <1>2 DEF IInv, FreeHasNoParent
  <1>10. SlotHoldsChild' /\ SlotsDistinct'
    <2>1. \A b \in Boss, i \in Slot : threads[b][i].id # EMPTY => threads[b][i].id \in Pid
      BY <1>0 DEF TypeOK, Thread
    <2> QED BY <1>2, <1>4, <2>1 DEF IInv, SlotHoldsChild, SlotsDistinct
  <1>11. ChildHasSlot'
    BY <1>2, <1>4 DEF IInv, ChildHasSlot
  <1>12. PendingClaim'
    BY <1>4 DEF IInv, PendingClaim, Current
  <1>13. PendingFork'
    <2>1. \A b \in Boss : pc[b] = "fork" => Current(b).qentry # e
      BY <1>1 DEF IInv, PendingFork, e
    <2>2. \A b \in Boss : Current(b)' = Current(b)
      BY <1>4 DEF Current
    <2> QED BY <1>2, <1>3, <1>4, <1>5, <2>1, <2>2 DEF IInv, PendingFork
  <1>14. WaitingNotRun' /\ AtMostOnce'
    BY <1>0, <1>1, <1>3, <1>4 DEF IInv, WaitingNotRun, AtMostOnce
  <1> QED
    BY <1>6, <1>7, <1>8, <1>9, <1>10, <1>11, <1>12, <1>13, <1>14 DEF IInv

LEMMA IndExit ==
  ASSUME IInv, NEW p \in Pid, Exists(p), Exit(p), UNCHANGED <<queue, pc, slot, threads, conn, runs>>
  PROVE  IInv'
  <1>0. TypeOK BY DEF IInv
  <1>1. /\ proc' \in [Pid -> Process]
        /\ \A r \in Pid \ {p} : proc'[r] = proc[r]
        /\ proc'[p].parent = proc[p].parent
        /\ \/ proc'[p].state = "zombie" /\ proc'[p].entry = proc[p].entry
           \/ proc'[p].state = "free" /\ proc[p].parent = NULL
    <2>1. CASE proc[p].parent = NULL
      <3>1. proc' = [proc EXCEPT ![p] = NoProcess]
        BY <2>1 DEF Exit
      <3> QED BY <1>0, <2>1, <3>1 DEF TypeOK, Process, NoProcess
    <2>2. CASE proc[p].parent # NULL
      <3>1. proc' = [proc EXCEPT ![p] = [proc[p] EXCEPT !.state = "zombie"]]
        BY <2>2 DEF Exit
      <3>2. [proc[p] EXCEPT !.state = "zombie"] \in Process
        BY <1>0 DEF TypeOK, Process
      <3> QED BY <1>0, <3>1, <3>2 DEF TypeOK, Process
    <2> QED BY <2>1, <2>2
  <1>2. TypeOK'
    BY <1>0, <1>1 DEF TypeOK
  <1>3. ASSUME NEW r \in Pid, Exists(r)'
        PROVE  Exists(r) /\ proc'[r].entry = proc[r].entry /\ (proc'[r].state = "forked" => proc[r].state = "forked")
    BY <1>1, <1>3 DEF Exists
  <1>4. ProcessOwnsRow' /\ OneProcessPerRow'
    BY <1>3 DEF IInv, ProcessOwnsRow, OneProcessPerRow
  <1>5. FreeHasNoParent'
    BY <1>1 DEF IInv, FreeHasNoParent
  <1>6. \A b \in Boss, r \in Pid : proc'[r].parent = b <=> proc[r].parent = b
    BY <1>1
  <1>7. SlotHoldsChild' /\ SlotsDistinct'
    <2>1. \A b \in Boss, i \in Slot : threads[b][i].id # EMPTY => threads[b][i].id \in Pid
      BY <1>0 DEF TypeOK, Thread
    <2>2. \A b \in Boss, r \in Pid : proc[r].parent = b => proc'[r].entry = proc[r].entry
      BY <1>1, BossAssumption
    <2> QED BY <1>6, <2>1, <2>2 DEF IInv, SlotHoldsChild, SlotsDistinct
  <1>8. ChildHasSlot'
    BY <1>6 DEF IInv, ChildHasSlot
  <1>9. PendingClaim' /\ PendingFork'
    <2>1. \A b \in Boss : Current(b)' = Current(b)
      BY DEF Current
    <2> QED BY <1>3, <2>1 DEF IInv, PendingClaim, PendingFork
  <1>10. WaitingNotRun' /\ AtMostOnce'
    BY DEF IInv, WaitingNotRun, AtMostOnce
  <1> QED BY <1>2, <1>4, <1>5, <1>7, <1>8, <1>9, <1>10 DEF IInv

LEMMA IndChild == ASSUME IInv, NEW p \in Pid, ChildStep(p) PROVE IInv'
  BY IndChildStarts, IndExit DEF ChildStep, ChildSetupFails, ChildEnds, Exists
-----------------------------------------------------------------------------
LEMMA IndConnLost == ASSUME IInv, NEW b \in Boss, ConnLost(b) PROVE IInv'
  <1>1. TypeOK'
    BY DEF IInv, TypeOK, ConnLost
  <1> QED
    BY <1>1 DEF ConnLost, IInv, ProcessOwnsRow, OneProcessPerRow, FreeHasNoParent, SlotHoldsChild,
       SlotsDistinct, ChildHasSlot, PendingClaim, PendingFork, WaitingNotRun, AtMostOnce, Exists, Current

LEMMA IndBossDies == ASSUME IInv, NEW b \in Boss, BossDies(b) PROVE IInv'
  <1>0. TypeOK BY DEF IInv
  <1>1. /\ pc' \in [Boss -> PcValues] /\ pc'[b] = "down"
        /\ \A c \in Boss \ {b} : pc'[c] = pc[c]
        /\ UNCHANGED <<queue, slot, threads, conn, runs>>
    BY <1>0 DEF BossDies, TypeOK, PcValues
  <1>2. ASSUME NEW p \in Pid
        PROVE  /\ proc'[p] \in Process
               /\ proc[p].parent # b => proc'[p] = proc[p]
               /\ proc[p].parent = b => proc'[p].parent = NULL
               /\ Exists(p)' => Exists(p) /\ proc'[p].entry = proc[p].entry /\ proc'[p].state = proc[p].state
               /\ proc'[p].state = "free" => proc'[p].parent = NULL
    <2>1. CASE proc[p].parent # b
      <3>1. proc'[p] = proc[p]
        BY <2>1 DEF BossDies
      <3> QED BY <1>0, <2>1, <3>1 DEF TypeOK, Exists, IInv, FreeHasNoParent
    <2>2. CASE proc[p].parent = b /\ Alive(p)
      <3>1. proc'[p] = [proc[p] EXCEPT !.parent = NULL]
        BY <2>2 DEF BossDies
      <3> QED BY <1>0, <2>2, <3>1 DEF TypeOK, Process, Exists, Alive
    <2>3. CASE proc[p].parent = b /\ ~Alive(p)
      <3>1. proc'[p] = NoProcess
        BY <2>3 DEF BossDies
      <3> QED BY <2>3, <3>1 DEF NoProcess, Process, Exists
    <2> QED BY <2>1, <2>2, <2>3
  <1>3. proc' \in [Pid -> Process]
    BY <1>2 DEF BossDies
  <1>4. TypeOK'
    BY <1>0, <1>1, <1>3 DEF TypeOK, PcValues
  <1>5. ProcessOwnsRow' /\ OneProcessPerRow'
    BY <1>1, <1>2 DEF IInv, ProcessOwnsRow, OneProcessPerRow
  <1>6. FreeHasNoParent'
    BY <1>2 DEF FreeHasNoParent
  <1>7. ASSUME NEW c \in Boss, pc'[c] # "down"
        PROVE  c # b /\ pc[c] = pc'[c] /\ Current(c)' = Current(c)
               /\ \A p \in Pid : proc[p].parent = c => proc'[p] = proc[p]
    BY <1>1, <1>2, <1>7 DEF Current
  <1>8. SlotHoldsChild' /\ SlotsDistinct'
    <2>1. \A c \in Boss, i \in Slot : threads[c][i].id # EMPTY => threads[c][i].id \in Pid
      BY <1>0 DEF TypeOK, Thread
    <2> QED BY <1>1, <1>7, <2>1 DEF IInv, SlotHoldsChild, SlotsDistinct
  <1>9. ChildHasSlot'
    <2>1. ASSUME NEW c \in Boss, NEW p \in Pid, proc'[p].parent = c
          PROVE  c # b /\ proc[p].parent = c
      BY <1>2, <2>1, BossAssumption
    <2> QED BY <1>1, <2>1 DEF IInv, ChildHasSlot
  <1>10. PendingClaim' /\ PendingFork'
    BY <1>1, <1>2, <1>7 DEF IInv, PendingClaim, PendingFork
  <1>11. WaitingNotRun' /\ AtMostOnce'
    BY <1>1 DEF IInv, WaitingNotRun, AtMostOnce
  <1> QED BY <1>4, <1>5, <1>6, <1>8, <1>9, <1>10, <1>11 DEF IInv

LEMMA IndBossStarts == ASSUME IInv, NEW b \in Boss, BossStarts(b) PROVE IInv'
  <1>0. TypeOK BY DEF IInv
  <1>1. /\ pc[b] = "down" /\ pc' \in [Boss -> PcValues] /\ pc'[b] = "reap"
        /\ slot' \in [Boss -> Slot] /\ conn' \in [Boss -> BOOLEAN]
        /\ threads' \in [Boss -> [Slot -> Thread]]
        /\ \A i \in Slot : threads'[b][i].id = EMPTY
        /\ \A c \in Boss \ {b} : pc'[c] = pc[c] /\ slot'[c] = slot[c] /\ threads'[c] = threads[c]
        /\ UNCHANGED <<queue, proc, runs>>
    <2>1. [i \in Slot |-> NoThread] \in [Slot -> Thread]
      BY EntryAssumption DEF NoThread, Thread, RowState
    <2>2. /\ threads' \in [Boss -> [Slot -> Thread]]
          /\ threads'[b] = [i \in Slot |-> NoThread]
          /\ \A c \in Boss \ {b} : threads'[c] = threads[c]
      BY <1>0, <2>1 DEF BossStarts, TypeOK
    <2>3. \A i \in Slot : threads'[b][i].id = EMPTY
      BY <2>2 DEF NoThread
    <2>4. /\ slot' \in [Boss -> Slot] /\ pc' \in [Boss -> PcValues] /\ conn' \in [Boss -> BOOLEAN]
          /\ pc'[b] = "reap" /\ \A c \in Boss \ {b} : pc'[c] = pc[c] /\ slot'[c] = slot[c]
      BY <1>0, NumThreadsAssumption DEF BossStarts, TypeOK, PcValues, Slot
    <2> QED BY <2>2, <2>3, <2>4 DEF BossStarts
  <1>2. TypeOK'
    BY <1>0, <1>1 DEF TypeOK, PcValues
  <1>3. /\ ProcessOwnsRow' /\ OneProcessPerRow' /\ FreeHasNoParent' /\ WaitingNotRun' /\ AtMostOnce'
    BY <1>1 DEF IInv, ProcessOwnsRow, OneProcessPerRow, FreeHasNoParent, WaitingNotRun, AtMostOnce, Exists
  <1>4. SlotHoldsChild' /\ SlotsDistinct'
    <2>1. ASSUME NEW c \in Boss, NEW i \in Slot, pc'[c] # "down", threads'[c][i].id # EMPTY
          PROVE  pc[c] # "down" /\ threads'[c] = threads[c]
      BY <1>1, <2>1
    <2>2. SlotHoldsChild'
      BY <1>1, <2>1 DEF IInv, SlotHoldsChild
    <2>3. SlotsDistinct'
      BY <2>1 DEF IInv, SlotsDistinct
    <2> QED BY <2>2, <2>3
  <1>5. ChildHasSlot'
    BY <1>1 DEF IInv, ChildHasSlot
  <1>6. ASSUME NEW c \in Boss, pc'[c] \in {"claim", "fork"}
        PROVE  c # b /\ pc[c] = pc'[c] /\ Current(c)' = Current(c)
    BY <1>1, <1>6 DEF Current
  <1>7. PendingClaim'
    BY <1>6 DEF IInv, PendingClaim
  <1>8. PendingFork'
    <2>1. queue' = queue /\ proc' = proc /\ runs' = runs
      BY <1>1
    <2> QED BY <1>6, <2>1 DEF IInv, PendingFork, Exists
  <1> QED BY <1>2, <1>3, <1>4, <1>5, <1>7, <1>8 DEF IInv
-----------------------------------------------------------------------------
LEMMA IndBoss == ASSUME IInv, NEW b \in Boss, BossStep(b) PROVE IInv'
  <1>1. CASE SkipReap(b)
    BY <1>1, IndAdvance DEF SkipReap
  <1>2. CASE SkipSpawn(b)
    BY <1>2, IndAdvance DEF SkipSpawn
  <1>3. CASE ClaimFails(b)
    BY <1>3, IndAdvance DEF ClaimFails
  <1> QED
    BY <1>1, <1>2, <1>3, IndReap, IndSelectNothing, IndSelect, IndClaim, IndClaimAnswerLost,
       IndFork, IndForkFails
    DEF BossStep, SpawnStep

LEMMA IndStutter == ASSUME IInv, UNCHANGED vars PROVE IInv'
  BY DEF vars, IInv, TypeOK, ProcessOwnsRow, OneProcessPerRow, FreeHasNoParent, SlotHoldsChild,
     SlotsDistinct, ChildHasSlot, PendingClaim, PendingFork, WaitingNotRun, AtMostOnce, Exists, Current

LEMMA IndNext == IInv /\ [Next]_vars => IInv'
  BY IndInsert, IndBoss, IndConnLost, IndBossDies, IndBossStarts, IndChild, IndStutter DEF Next

(***************************************************************************)
(* The inductive invariant holds for any number of bosses, slots, rows and *)
(* processes and any set of faults.                                        *)
(***************************************************************************)
THEOREM Invariance == Spec => []IInv
  BY InitIInv, IndNext, PTL DEF Spec

(***************************************************************************)
(* Every variable of the queue runner keeps its type.                      *)
(***************************************************************************)
THEOREM TypeCorrect == Spec => []TypeOK
  <1>1. IInv => TypeOK BY DEF IInv
  <1> QED BY <1>1, Invariance, PTL

(***************************************************************************)
(* However many bosses share the queue and whatever fails, worker() is     *)
(* called at most once for a row.                                          *)
(***************************************************************************)
THEOREM RunAtMostOnce == Spec => []AtMostOnce
  <1>1. IInv => AtMostOnce BY DEF IInv
  <1> QED BY <1>1, Invariance, PTL

(***************************************************************************)
(* A live child, orphans included, works on a row that is PROCESSING.      *)
(***************************************************************************)
THEOREM WorkersOwnRows == Spec => []WorkerOwnsRow
  <1>1. IInv => WorkerOwnsRow BY DEF IInv, ProcessOwnsRow, WorkerOwnsRow, Exists, Alive
  <1> QED BY <1>1, Invariance, PTL

(***************************************************************************)
(* Slots and children of a running boss correspond one to one.             *)
(***************************************************************************)
THEOREM SlotsTrackChildren == Spec => []ChildrenTracked
  <1>1. ASSUME IInv PROVE ChildrenTracked
    <2>1. ASSUME NEW b \in Boss, pc[b] # "down", NEW p \in Pid, proc[p].parent = b
          PROVE  \E i \in Slot : threads[b][i].id = p /\ \A j \in Slot \ {i} : threads[b][j].id # p
      <3>1. PICK i \in Slot : threads[b][i].id = p
        BY <1>1, <2>1 DEF IInv, ChildHasSlot
      <3> QED BY <1>1, <2>1, <3>1, PidAssumption DEF IInv, SlotsDistinct
    <2> QED BY <1>1, <2>1 DEF IInv, SlotHoldsChild, ChildrenTracked
  <1> QED BY <1>1, Invariance, PTL

(***************************************************************************)
(* A row only moves JUSTIN, PROCESSING, DONE, one state at a time, whoever *)
(* updates it.                                                             *)
(***************************************************************************)
THEOREM RowsOnlyAdvance == Spec => RowsMoveForward
  <1> DEFINE Forward == \A e \in Entry : queue'[e] # queue[e] =>
                          queue[e] # "DONE" /\ queue'[e] = Successor[queue[e]]
  <1>1. ASSUME IInv, [Next]_vars PROVE Forward
    <2>0. TypeOK BY <1>1 DEF IInv
    <2>1. CASE queue' = queue
      BY <2>1
    <2>2. ASSUME NEW e \in Entry, Insert(e) PROVE Forward
      BY <2>0, <2>2 DEF TypeOK, Insert, insertQueueEntry, Successor
    <2>3. ASSUME NEW b \in Boss, Reap(b) PROVE Forward
      <3>1. Current(b).queueState = "PROCESSING"
        BY <1>1, <2>0, <2>3, CurrentFacts DEF IInv, SlotHoldsChild, Reap, Reapable
      <3>2. "DONE" \in RowState BY DEF RowState
      <3> QED BY <2>0, <2>3, <3>1, <3>2, UpdateFacts DEF Reap, Successor
    <2>4. ASSUME NEW b \in Boss, Claim(b) \/ ClaimAnswerLost(b) PROVE Forward
      <3>1. Current(b).queueState = "JUSTIN"
        BY <1>1, <2>4 DEF IInv, PendingClaim, Claim, ClaimAnswerLost
      <3>2. "PROCESSING" \in RowState BY DEF RowState
      <3> QED BY <2>0, <2>4, <3>1, <3>2, UpdateFacts DEF Claim, ClaimAnswerLost, Successor
    <2>5. [Next]_vars => \/ queue' = queue
                         \/ \E e \in Entry : Insert(e)
                         \/ \E b \in Boss : Reap(b) \/ Claim(b) \/ ClaimAnswerLost(b)
      BY DEF Next, vars, BossStep, SpawnStep, SkipReap, SkipSpawn, SelectNothing, Select, ClaimFails,
             Fork, ForkFails, ConnLost, BossDies, BossStarts, ChildStep, ChildStarts, ChildSetupFails, ChildEnds
    <2> QED BY <1>1, <2>1, <2>2, <2>3, <2>4, <2>5
  <1>2. IInv /\ [Next]_vars => [Forward]_vars
    BY <1>1
  <1> QED BY <1>2, Invariance, PTL DEF Spec, RowsMoveForward
-----------------------------------------------------------------------------
(***************************************************************************)
(* A boss alone on the EMAILIN rows.                                       *)
(***************************************************************************)
OneBoss == QueueType = "EMAILIN" /\ \A b, c \in Boss : b = c

\* Steps after which no row, process or pending claim is new keep AloneInv.
LEMMA AloneShrinks ==
  ASSUME AloneInv,
         \A e \in Entry : queue'[e] = "PROCESSING" => queue[e] = "PROCESSING",
         \A p \in Pid : Exists(p)' => Exists(p) /\ proc'[p].entry = proc[p].entry,
         \A c \in Boss : pc'[c] \in {"claim", "fork"} => pc[c] = pc'[c] /\ Current(c)' = Current(c)
  PROVE  AloneInv'
  BY DEF AloneInv, SelectionHolds, ForkAlone, OneProcessPerVoid, BusyVoids, RowsIn

LEMMA AloneReap == ASSUME OneBoss, IInv, AloneInv, NEW b \in Boss, Reap(b) PROVE AloneInv'
  <1>0. TypeOK BY DEF IInv
  <1>1. \A e \in Entry : queue'[e] = "PROCESSING" => queue[e] = "PROCESSING"
    <2>1. "DONE" \in RowState BY DEF RowState
    <2> QED BY <1>0, <2>1, UpdateFacts DEF Reap
  <1>2. \A p \in Pid : proc'[p] = proc[p] \/ proc'[p] = NoProcess
    BY <1>0 DEF Reap, TypeOK
  <1>3. pc'[b] \in {"reap", "spawn"}
    BY <1>0, AdvanceFacts DEF Reap, PcValues
  <1> QED
    BY <1>1, <1>2, <1>3, AloneShrinks DEF OneBoss, Exists, NoProcess

LEMMA AloneAdvance ==
  ASSUME OneBoss, IInv, AloneInv, NEW b \in Boss, Advance(b, "reap", "spawn") \/ Advance(b, "spawn", "reap"),
         UNCHANGED <<queue, proc>>
  PROVE  AloneInv'
  <1>1. pc'[b] \in {"reap", "spawn"}
    BY AdvanceFacts DEF IInv, PcValues
  <1> QED BY <1>1, AloneShrinks DEF OneBoss, Exists

LEMMA AloneSelect ==
  ASSUME OneBoss, IInv, AloneInv, NEW b \in Boss, NEW e \in Entry, Select(b, e) PROVE AloneInv'
  <1> DEFINE t == [Current(b) EXCEPT !.qentry = e, !.queueState = "JUSTIN"]
  <1>0. TypeOK BY DEF IInv
  <1>1. Current(b) \in Thread /\ slot[b] \in Slot
    BY <1>0, CurrentFacts
  <1>2. t \in Thread /\ t.qentry = e
    BY <1>1 DEF Thread, RowState
  <1>3. threads'[b][slot[b]] = t
    BY <1>0, <1>1, <1>2, SetCurrentFacts DEF Select
  <1>4. Current(b)'.qentry = e /\ pc'[b] = "claim" /\ UNCHANGED <<queue, slot, proc>>
    BY <1>0, <1>2, <1>3 DEF Select, Current, TypeOK
  <1>5. VoidOf[e] \notin BusyVoids(queue)
    BY EntryAssumption, SelectionIsWaiting DEF OneBoss, Select
  <1> QED
    BY <1>4, <1>5 DEF OneBoss, AloneInv, SelectionHolds, ForkAlone, OneProcessPerVoid, Exists, BusyVoids, RowsIn

LEMMA AloneClaim == ASSUME OneBoss, IInv, AloneInv, NEW b \in Boss, Claim(b) PROVE AloneInv'
  <1> DEFINE t == Current(b)
             u == [t EXCEPT !.queueState = "PROCESSING"]
  <1>0. TypeOK BY DEF IInv
  <1>1. t \in Thread /\ slot[b] \in Slot
    BY <1>0, CurrentFacts
  <1>2. u \in Thread /\ u.qentry = t.qentry
    BY <1>1 DEF Thread, RowState
  <1>3. threads'[b][slot[b]] = u
    BY <1>0, <1>1, <1>2, SetCurrentFacts DEF Claim
  <1>4. Current(b)'.qentry = t.qentry /\ pc'[b] = "fork" /\ pc[b] = "claim" /\ UNCHANGED <<slot, proc>>
    BY <1>0, <1>2, <1>3 DEF Claim, Current, TypeOK
  <1>5. \A f \in Entry : queue'[f] = "PROCESSING" => f = t.qentry \/ queue[f] = "PROCESSING"
    <2>1. "PROCESSING" \in RowState BY DEF RowState
    <2> QED BY <1>0, <2>1, UpdateFacts DEF Claim
  <1> HIDE DEF t, u
  <1>6. VoidOf[t.qentry] \notin BusyVoids(queue)
    BY <1>4 DEF AloneInv, SelectionHolds, t
  <1>7. SelectionHolds'
    BY <1>4 DEF OneBoss, SelectionHolds
  <1>8. ForkAlone'
    BY <1>4, <1>5, <1>6 DEF OneBoss, ForkAlone, BusyVoids, RowsIn
  <1>9. OneProcessPerVoid'
    BY <1>4 DEF AloneInv, OneProcessPerVoid, Exists
  <1> QED BY <1>7, <1>8, <1>9 DEF AloneInv

LEMMA AloneClaimAnswerLost ==
  ASSUME OneBoss, IInv, AloneInv, NEW b \in Boss, ClaimAnswerLost(b) PROVE AloneInv'
  <1>1. pc'[b] \in {"reap", "spawn"} /\ proc' = proc
    BY AdvanceFacts DEF IInv, PcValues, ClaimAnswerLost
  <1> QED
    BY <1>1 DEF OneBoss, AloneInv, SelectionHolds, ForkAlone, OneProcessPerVoid, Exists

LEMMA AloneFork == ASSUME OneBoss, IInv, AloneInv, NEW b \in Boss, NEW p \in Pid, Fork(b, p) PROVE AloneInv'
  <1>1. pc'[b] \in {"reap", "spawn"} /\ pc[b] = "fork"
    BY AdvanceFacts DEF IInv, PcValues, Fork
  <1>2. \A r \in Pid : r # p => proc'[r] = proc[r]
    BY DEF Fork, IInv, TypeOK
  <1>3. proc'[p].entry = Current(b).qentry
    BY DEF Fork, IInv, TypeOK
  <1>4. \A r \in Pid : Exists(r) => VoidOf[proc[r].entry] # VoidOf[Current(b).qentry]
    BY <1>1 DEF IInv, AloneInv, ForkAlone, ProcessOwnsRow, PendingFork
  <1>5. OneProcessPerVoid'
    BY <1>2, <1>3, <1>4 DEF AloneInv, OneProcessPerVoid, Exists
  <1> QED BY <1>1, <1>5 DEF OneBoss, AloneInv, SelectionHolds, ForkAlone

LEMMA AloneProcess ==
  ASSUME IInv, AloneInv, UNCHANGED <<queue, slot, threads>>,
         \A p \in Pid : Exists(p)' => Exists(p) /\ proc'[p].entry = proc[p].entry,
         \A c \in Boss : pc'[c] = pc[c] \/ pc'[c] \in {"down", "reap"}
  PROVE  AloneInv'
  BY AloneShrinks DEF Current

LEMMA AloneChild == ASSUME IInv, AloneInv, NEW p \in Pid, ChildStep(p) PROVE AloneInv'
  <1>1. \A r \in Pid : Exists(r)' => Exists(r) /\ proc'[r].entry = proc[r].entry
    <2>1. CASE ChildStarts(p)
      BY <2>1 DEF ChildStarts, Exists, IInv, TypeOK, Process
    <2>2. CASE Exists(p) /\ Exit(p)
      <3>1. CASE proc[p].parent = NULL
        BY <2>2, <3>1 DEF Exit, Exists, IInv, TypeOK, NoProcess
      <3>2. CASE proc[p].parent # NULL
        BY <2>2, <3>2 DEF Exit, Exists, IInv, TypeOK, Process
      <3> QED BY <3>1, <3>2
    <2> QED BY <2>1, <2>2 DEF ChildStep, ChildSetupFails, ChildEnds, Exists
  <1>2. UNCHANGED <<queue, slot, threads, pc>>
    BY DEF ChildStep, ChildStarts, ChildSetupFails, ChildEnds
  <1> QED BY <1>1, <1>2, AloneProcess

LEMMA AloneBossDies == ASSUME IInv, AloneInv, NEW b \in Boss, BossDies(b) PROVE AloneInv'
  <1>1. ASSUME NEW r \in Pid, Exists(r)' PROVE Exists(r) /\ proc'[r].entry = proc[r].entry
    <2>1. \/ proc'[r] = proc[r] \/ proc'[r] = NoProcess
          \/ Alive(r) /\ proc'[r] = [proc[r] EXCEPT !.parent = NULL]
      BY DEF BossDies
    <2> QED BY <1>1, <2>1 DEF Exists, NoProcess, Alive, IInv, TypeOK, Process
  <1>2. \A c \in Boss : pc'[c] = pc[c] \/ pc'[c] = "down"
    BY DEF BossDies, IInv, TypeOK
  <1> QED BY <1>1, <1>2, AloneProcess DEF BossDies

LEMMA AloneNext == OneBoss /\ IInv /\ AloneInv /\ [Next]_vars => AloneInv'
  <1> SUFFICES ASSUME OneBoss, IInv, AloneInv, [Next]_vars PROVE AloneInv'
    OBVIOUS
  <1>1. ASSUME NEW e \in Entry, Insert(e) PROVE AloneInv'
    <2>1. \A f \in Entry : queue'[f] = "PROCESSING" => queue[f] = "PROCESSING"
      BY <1>1 DEF Insert, insertQueueEntry, IInv, TypeOK
    <2> QED BY <1>1, <2>1, AloneShrinks DEF Insert, Exists, Current
  <1>2. ASSUME NEW b \in Boss, BossStep(b) PROVE AloneInv'
    BY <1>2, AloneReap, AloneAdvance, AloneSelect, AloneClaim, AloneClaimAnswerLost, AloneFork
    DEF BossStep, SpawnStep, SkipReap, SkipSpawn, SelectNothing, ClaimFails, ForkFails
  <1>3. ASSUME NEW b \in Boss, ConnLost(b) PROVE AloneInv'
    BY <1>3, AloneProcess DEF ConnLost, Exists
  <1>4. ASSUME NEW b \in Boss, BossStarts(b) PROVE AloneInv'
    <2>1. pc'[b] = "reap"
      BY <1>4 DEF BossStarts, IInv, TypeOK
    <2> QED BY <1>4, <2>1, AloneShrinks DEF BossStarts, Exists, OneBoss
  <1>5. CASE UNCHANGED vars
    BY <1>5, AloneProcess DEF vars, Exists
  <1> QED BY <1>1, <1>2, <1>3, <1>4, <1>5, AloneChild, AloneBossDies DEF Next

LEMMA AloneInit == Init => AloneInv
  BY DEF Init, AloneInv, SelectionHolds, ForkAlone, OneProcessPerVoid, Exists, NoProcess

LEMMA AloneInvariance == ASSUME OneBoss PROVE Spec => [](IInv /\ AloneInv)
  BY InitIInv, IndNext, AloneInit, AloneNext, PTL DEF Spec

(***************************************************************************)
(* With one rulerunner, two children never work for one void, whatever     *)
(* fails: forks, connections, set-ups, and the daemon itself, restarted    *)
(* beside the children it left behind.                                     *)
(***************************************************************************)
THEOREM OneBossIsExclusive == ASSUME OneBoss PROVE Spec => []VoidExclusive
  <1>1. AloneInv => VoidExclusive
    BY DEF AloneInv, OneProcessPerVoid, VoidExclusive, Exists, Alive
  <1> QED BY <1>1, AloneInvariance, PTL
-----------------------------------------------------------------------------
(***************************************************************************)
(* The refinement of Dispatch.                                             *)
(***************************************************************************)
phases == [e \in Entry |-> PhaseOf(e)]

\* A step that changes the phase of e alone, from one value to another.
LEMMA OnePhaseMoves ==
  ASSUME NEW e \in Entry, NEW from, NEW to, PhaseOf(e) = from, PhaseOf(e)' = to,
         \A f \in Entry \ {e} : PhaseOf(f)' = PhaseOf(f)
  PROVE  Promise!Move(e, from, to)
  <1>1. phases' = [phases EXCEPT ![e] = to]
    BY DEF phases
  <1>2. phases[e] = from
    BY DEF phases
  <1> QED BY <1>1, <1>2 DEF Promise!Move, phases

LEMMA NoPhaseMoves ==
  ASSUME \A f \in Entry : PhaseOf(f)' = PhaseOf(f)
  PROVE  UNCHANGED phases
  BY DEF phases

LEMMA SamePhase ==
  ASSUME NEW f \in Entry, queue'[f] = queue[f], runs'[f] = runs[f], Working(f)' <=> Working(f)
  PROVE  PhaseOf(f)' = PhaseOf(f)
  BY DEF PhaseOf

LEMMA RefineInit == Init => Promise!Init
  BY DEF Init, Promise!Init, PhaseOf

LEMMA RefineInsert == ASSUME IInv, NEW e \in Entry, Insert(e) PROVE Promise!Next
  <1>1. queue[e] = "ABSENT" /\ queue'[e] = "JUSTIN" /\ runs[e] = 0 /\ UNCHANGED <<proc, runs>>
    BY DEF IInv, TypeOK, WaitingNotRun, Insert, insertQueueEntry
  <1>2. PhaseOf(e) = "new" /\ PhaseOf(e)' = "waiting"
    BY <1>1 DEF PhaseOf
  <1>3. \A f \in Entry \ {e} : PhaseOf(f)' = PhaseOf(f)
    BY <1>1, SamePhase DEF Insert, insertQueueEntry, IInv, TypeOK, Working
  <1> QED BY <1>2, <1>3, OnePhaseMoves DEF Promise!Next, Promise!Submit

\* The slot is freed and the row, if the update is answered, is DONE.
LEMMA RefineReap == ASSUME IInv, NEW b \in Boss, Reap(b) PROVE Promise!Next \/ UNCHANGED phases
  <1> DEFINE t == Current(b)
  <1>0. TypeOK BY DEF IInv
  <1>1. t.id \in Pid /\ proc[t.id].parent = b /\ proc[t.id].entry = t.qentry /\ t.queueState = "PROCESSING"
    BY <1>0, CurrentFacts DEF IInv, SlotHoldsChild, Reap, Reapable, Thread
  <1>2. t.qentry \in Entry /\ queue[t.qentry] = "PROCESSING" /\ proc[t.id].state = "zombie"
    BY <1>0, <1>1, BossAssumption
    DEF IInv, ProcessOwnsRow, FreeHasNoParent, Exists, Reap, Reapable, Ended, Alive, TypeOK, Process
  <1>3. PICK e \in Entry : e = t.qentry
    BY <1>2
  <1>4. queue[e] = "PROCESSING"
    BY <1>2, <1>3
  <1>5. \A p \in Pid : proc'[p] = IF p = t.id THEN NoProcess ELSE proc[p]
    BY <1>0, <1>1, <1>2 DEF Reap, TypeOK, Alive
  <1>6. \A f \in Entry : Working(f)' <=> Working(f)
    BY <1>2, <1>5 DEF Working, NoProcess
  <1>7. runs' = runs /\ \A f \in Entry \ {e} : queue'[f] = queue[f]
    <2>1. "DONE" \in RowState BY DEF RowState
    <2> QED BY <1>0, <1>3, <2>1, UpdateFacts DEF Reap
  <1>8. queue'[e] \in {"PROCESSING", "DONE"}
    <2>1. "DONE" \in RowState BY DEF RowState
    <2> QED BY <1>0, <1>1, <1>3, <1>4, <2>1, UpdateFacts DEF Reap
  <1>9. ~Working(e)
    BY <1>1, <1>2, <1>3 DEF IInv, OneProcessPerRow, Exists, Working
  <1> HIDE DEF t
  <1>10. \A f \in Entry \ {e} : PhaseOf(f)' = PhaseOf(f)
    BY <1>6, <1>7, SamePhase
  <1>11. CASE runs[e] = 0 /\ queue'[e] = "DONE"
    <2>1. PhaseOf(e) = "waiting" /\ PhaseOf(e)' = "dropped"
      BY <1>4, <1>7, <1>11 DEF PhaseOf
    <2> QED BY <1>4, <1>10, <2>1, OnePhaseMoves DEF Promise!Next, Promise!Drop
  <1>12. CASE runs[e] # 0 \/ queue'[e] = "PROCESSING"
    <2>1. runs[e] \in Nat
      BY <1>0, <1>4 DEF TypeOK
    <2>2. PhaseOf(e)' = PhaseOf(e)
      <3>1. CASE queue'[e] = "PROCESSING"
        BY <1>4, <1>6, <1>7, <3>1, SamePhase
      <3>2. CASE runs[e] # 0
        BY <1>4, <1>6, <1>7, <1>8, <1>9, <2>1, <3>2 DEF PhaseOf
      <3> QED BY <1>12, <3>1, <3>2
    <2> QED BY <1>10, <2>2, NoPhaseMoves
  <1> QED BY <1>8, <1>11, <1>12

\* A claim moves a row from JUSTIN to PROCESSING: it waits before and after.
LEMMA RefineClaim ==
  ASSUME IInv, NEW b \in Boss, Claim(b) \/ ClaimAnswerLost(b) PROVE UNCHANGED phases
  <1>0. TypeOK BY DEF IInv
  <1>1. Current(b).queueState = "JUSTIN"
    BY DEF IInv, PendingClaim, Claim, ClaimAnswerLost
  <1>2. UNCHANGED <<proc, runs>>
    BY DEF Claim, ClaimAnswerLost
  <1>3. \A f \in Entry : queue'[f] = queue[f] \/ (queue[f] = "JUSTIN" /\ queue'[f] = "PROCESSING")
    <2>1. "PROCESSING" \in RowState BY DEF RowState
    <2> QED BY <1>0, <1>1, <2>1, UpdateFacts DEF Claim, ClaimAnswerLost
  <1>4. ASSUME NEW f \in Entry PROVE PhaseOf(f)' = PhaseOf(f)
    <2>1. CASE queue'[f] = queue[f]
      BY <1>2, <2>1, SamePhase DEF Working
    <2>2. CASE queue[f] = "JUSTIN" /\ queue'[f] = "PROCESSING"
      <3>1. runs[f] = 0
        BY <2>2 DEF IInv, WaitingNotRun
      <3> QED BY <1>2, <2>2, <3>1 DEF PhaseOf
    <2> QED BY <1>3, <2>1, <2>2
  <1> QED BY <1>4, NoPhaseMoves

LEMMA RefineFork ==
  ASSUME IInv, NEW b \in Boss, NEW p \in Pid, Fork(b, p) PROVE UNCHANGED phases
  <1>1. \A r \in Pid : r # p => proc'[r] = proc[r]
    BY DEF Fork, IInv, TypeOK
  <1>2. proc[p].state = "free" /\ proc'[p].state = "forked" /\ UNCHANGED <<queue, runs>>
    BY DEF Fork, IInv, TypeOK
  <1>3. \A f \in Entry : Working(f)' <=> Working(f)
    BY <1>1, <1>2 DEF Working
  <1> QED BY <1>2, <1>3, SamePhase, NoPhaseMoves

\* The worker is called: no other worker of the void lives.
LEMMA RefineChildStarts ==
  ASSUME IInv, AloneInv, NEW p \in Pid, ChildStarts(p) PROVE Promise!Next
  <1>0. TypeOK BY DEF IInv
  <1>1. PICK e \in Entry : e = proc[p].entry
    BY DEF IInv, ProcessOwnsRow, Exists, ChildStarts
  <1>2. Exists(p) /\ e \in Entry /\ queue[e] = "PROCESSING" /\ runs[e] = 0 /\ queue' = queue
    BY <1>1 DEF IInv, ProcessOwnsRow, Exists, ChildStarts
  <1>3. /\ proc'[p].state = "working" /\ proc'[p].entry = e
        /\ proc[p].state = "forked"
        /\ \A r \in Pid \ {p} : proc'[r] = proc[r]
    BY <1>0, <1>1 DEF ChildStarts, TypeOK, Process
  <1>4. runs'[e] = 1 /\ \A f \in Entry \ {e} : runs'[f] = runs[f]
    BY <1>0, <1>1, <1>2 DEF ChildStarts, TypeOK
  <1>5. PhaseOf(e) = "waiting" /\ PhaseOf(e)' = "running"
    BY <1>2, <1>3, <1>4 DEF PhaseOf, Working
  <1>6. ASSUME NEW f \in Entry \ {e} PROVE PhaseOf(f)' = PhaseOf(f)
    <2>1. Working(f)' <=> Working(f)
      BY <1>1, <1>3 DEF Working
    <2> QED BY <1>2, <1>4, <2>1, SamePhase
  <1>7. Promise!Move(e, "waiting", "running")
    BY <1>2, <1>5, <1>6, OnePhaseMoves
  <1>8. ASSUME NEW f \in Entry, VoidOf[f] = VoidOf[e], PhaseOf(f) = "running" PROVE FALSE
    <2>1. Working(f)
      BY <1>8 DEF PhaseOf
    <2>2. PICK r \in Pid : proc[r].state = "working" /\ proc[r].entry = f
      BY <2>1 DEF Working
    <2>3. r = p
      BY <1>1, <1>2, <1>8, <2>2 DEF AloneInv, OneProcessPerVoid, Exists
    <2> QED BY <1>3, <2>2, <2>3
  <1>9. \A f \in Entry : VoidOf[f] = VoidOf[e] => phases[f] # "running"
    BY <1>8 DEF phases
  <1>10. Promise!Run(e)
    BY <1>7, <1>9 DEF Promise!Run, phases
  <1> QED BY <1>2, <1>10 DEF Promise!Next

LEMMA RefineExit ==
  ASSUME IInv, NEW p \in Pid, ChildSetupFails(p) \/ ChildEnds(p) PROVE Promise!Next \/ UNCHANGED phases
  <1>0. TypeOK BY DEF IInv
  <1>1. PICK e \in Entry : e = proc[p].entry
    BY DEF IInv, ProcessOwnsRow, Exists, ChildSetupFails, ChildEnds
  <1>2. Exists(p) /\ e \in Entry /\ queue[e] = "PROCESSING" /\ UNCHANGED <<queue, runs>>
    BY <1>1 DEF IInv, ProcessOwnsRow, Exists, ChildSetupFails, ChildEnds
  <1>3. /\ \A r \in Pid \ {p} : proc'[r] = proc[r]
        /\ proc'[p].state # "working"
    BY <1>0 DEF ChildSetupFails, ChildEnds, Exit, TypeOK, Process, NoProcess
  <1>4. \A r \in Pid \ {p} : Exists(r) => proc[r].entry # e
    BY <1>1, <1>2 DEF IInv, OneProcessPerRow
  <1>5. runs[e] \in Nat
    BY <1>0, <1>2 DEF TypeOK
  <1>6. proc[p].state = "forked" => runs[e] = 0
    BY <1>1, <1>2 DEF IInv, ProcessOwnsRow
  <1>7. ~Working(e)'
    BY <1>3, <1>4 DEF Working, Exists
  <1>8. \A f \in Entry \ {e} : Working(f)' <=> Working(f)
    BY <1>1, <1>3 DEF Working
  <1>9. proc[p].state = "working" => Working(e)
    BY <1>1 DEF Working
  <1>10. \A f \in Entry \ {e} : PhaseOf(f)' = PhaseOf(f)
    BY <1>2, <1>8, SamePhase
  <1>11. CASE runs[e] = 0
    <2>1. PhaseOf(e)' = PhaseOf(e)
      BY <1>2, <1>11 DEF PhaseOf
    <2> QED BY <1>10, <2>1, NoPhaseMoves
  <1>12. CASE runs[e] > 0
    <2>1. Working(e)
      BY <1>6, <1>9, <1>12 DEF ChildSetupFails, ChildEnds
    <2>2. PhaseOf(e) = "running" /\ PhaseOf(e)' = "finished"
      BY <1>2, <1>7, <1>12, <2>1 DEF PhaseOf
    <2> QED BY <1>2, <1>10, <2>2, OnePhaseMoves DEF Promise!Next, Promise!Finish
  <1> QED BY <1>5, <1>11, <1>12

LEMMA RefineFrame ==
  ASSUME UNCHANGED <<queue, runs>>, \A p \in Pid : proc'[p].state = "working" <=> proc[p].state = "working",
         \A p \in Pid : proc[p].state = "working" => proc'[p].entry = proc[p].entry
  PROVE  UNCHANGED phases
  BY SamePhase, NoPhaseMoves DEF Working

LEMMA RefineBossDies == ASSUME IInv, NEW b \in Boss, BossDies(b) PROVE UNCHANGED phases
  <1>1. ASSUME NEW p \in Pid
        PROVE  /\ proc'[p].state = "working" <=> proc[p].state = "working"
               /\ proc[p].state = "working" => proc'[p].entry = proc[p].entry
    BY DEF BossDies, Alive, NoProcess, IInv, TypeOK, Process
  <1> QED BY <1>1, RefineFrame DEF BossDies

LEMMA RefineNext == IInv /\ AloneInv /\ [Next]_vars => [Promise!Next]_phases
  <1> SUFFICES ASSUME IInv, AloneInv, [Next]_vars PROVE Promise!Next \/ UNCHANGED phases
    OBVIOUS
  <1>1. ASSUME UNCHANGED <<queue, proc, runs>> PROVE UNCHANGED phases
    BY <1>1, RefineFrame
  <1>2. ASSUME NEW b \in Boss, BossStep(b) PROVE Promise!Next \/ UNCHANGED phases
    BY <1>1, <1>2, RefineReap, RefineClaim, RefineFork
    DEF BossStep, SpawnStep, SkipReap, SkipSpawn, SelectNothing, Select, ClaimFails, ForkFails
  <1>3. ASSUME NEW b \in Boss, ConnLost(b) \/ BossStarts(b) PROVE UNCHANGED phases
    BY <1>1, <1>3 DEF ConnLost, BossStarts
  <1>4. CASE UNCHANGED vars
    BY <1>1, <1>4 DEF vars
  <1> QED
    BY <1>2, <1>3, <1>4, RefineInsert, RefineBossDies, RefineChildStarts, RefineExit DEF Next, ChildStep

(***************************************************************************)
(* With one rulerunner the queue implements Dispatch: every message is     *)
(* handed to the rule of its void at most once, and one at a time.         *)
(***************************************************************************)
THEOREM OneBossKeepsPromise == ASSUME OneBoss PROVE Spec => DispatchSafety
  <1>1. Init => Promise!Init
    BY RefineInit
  <1>2. IInv /\ AloneInv /\ [Next]_vars => [Promise!Next]_phases
    BY RefineNext
  <1> QED BY <1>1, <1>2, AloneInvariance, PTL DEF Spec, DispatchSafety, Promise!Safety, phases
-----------------------------------------------------------------------------
(***************************************************************************)
(* What a step does to the workers and to the rows not inserted yet, for   *)
(* the proofs about two queues that are joined (PipelineProofs).           *)
(***************************************************************************)
WorksOn(p, e) == proc[p].state = "working" /\ proc[p].entry = e

BossFault(b) == ConnLost(b) \/ BossDies(b) \/ BossStarts(b)

(***************************************************************************)
(* No step of a boss calls a worker or makes one of another process; the   *)
(* death of a boss leaves its workers working.                             *)
(***************************************************************************)
LEMMA BossKeepsWorkers ==
  ASSUME IInv, NEW b \in Boss, BossStep(b) \/ BossFault(b)
  PROVE  runs' = runs /\ \A p \in Pid : \A e : WorksOn(p, e)' => WorksOn(p, e)
  <1>0. TypeOK BY DEF IInv
  <1>1. ASSUME UNCHANGED <<proc, runs>>
        PROVE  runs' = runs /\ \A p \in Pid : \A e : WorksOn(p, e)' => WorksOn(p, e)
    BY <1>1 DEF WorksOn
  <1>2. CASE Reap(b)
    <2>1. \A p \in Pid : proc'[p] = proc[p] \/ proc'[p] = NoProcess
      BY <1>0, <1>2 DEF Reap, TypeOK
    <2> QED BY <1>2, <2>1 DEF WorksOn, Reap, NoProcess
  <1>3. ASSUME NEW p \in Pid, Fork(b, p)
        PROVE  runs' = runs /\ \A r \in Pid : \A e : WorksOn(r, e)' => WorksOn(r, e)
    <2>1. proc'[p].state = "forked" /\ \A r \in Pid \ {p} : proc'[r] = proc[r]
      BY <1>0, <1>3 DEF Fork, TypeOK
    <2> QED BY <1>3, <2>1 DEF WorksOn, Fork
  <1>4. CASE BossDies(b)
    <2>1. ASSUME NEW p \in Pid, NEW e, WorksOn(p, e)' PROVE WorksOn(p, e)
      <3>1. CASE proc'[p] = proc[p]
        BY <2>1, <3>1 DEF WorksOn
      <3>2. CASE proc'[p] = [proc[p] EXCEPT !.parent = NULL]
        BY <1>0, <2>1, <3>2 DEF WorksOn, TypeOK, Process
      <3>3. CASE proc'[p] = NoProcess
        BY <2>1, <3>3 DEF WorksOn, NoProcess
      <3> QED BY <1>4, <3>1, <3>2, <3>3 DEF BossDies
    <2> QED BY <1>4, <2>1 DEF BossDies
  <1> QED
    BY <1>1, <1>2, <1>3, <1>4
    DEF BossStep, BossFault, SpawnStep, SkipReap, SkipSpawn, SelectNothing, Select, Claim, ClaimFails,
        ClaimAnswerLost, ForkFails, ConnLost, BossStarts

(***************************************************************************)
(* A child that starts is the first to call the worker of its row; any     *)
(* other step of a child ends it.                                          *)
(***************************************************************************)
LEMMA ChildMoves ==
  ASSUME IInv, NEW p \in Pid, ChildStep(p)
  PROVE  /\ \A r \in Pid \ {p} : proc'[r] = proc[r]
         /\ proc[p].entry \in Entry
         /\ UNCHANGED queue
         /\ \/ runs' = runs /\ proc'[p].state # "working"
            \/ /\ ChildStarts(p)
               /\ proc[p].state = "forked"
               /\ proc'[p].state = "working" /\ proc'[p].entry = proc[p].entry
               /\ runs[proc[p].entry] = 0
               /\ runs' = [runs EXCEPT ![proc[p].entry] = 1]
  <1>0. TypeOK BY DEF IInv
  <1>1. Exists(p)
    BY DEF ChildStep, ChildStarts, ChildSetupFails, ChildEnds, Exists
  <1>2. proc[p].entry \in Entry /\ (proc[p].state = "forked" => runs[proc[p].entry] = 0)
    BY <1>1 DEF IInv, ProcessOwnsRow
  <1>3. CASE ChildStarts(p)
    <2>1. \A r \in Pid \ {p} : proc'[r] = proc[r]
      BY <1>0, <1>3 DEF ChildStarts, TypeOK
    <2>2. proc'[p].state = "working" /\ proc'[p].entry = proc[p].entry
      BY <1>0, <1>3 DEF ChildStarts, TypeOK, Process
    <2>3. runs' = [runs EXCEPT ![proc[p].entry] = 1]
      <3>1. runs[proc[p].entry] = 0
        BY <1>2, <1>3 DEF ChildStarts
      <3>2. runs' = [runs EXCEPT ![proc[p].entry] = runs[proc[p].entry] + 1]
        BY <1>3 DEF ChildStarts
      <3>3. runs[proc[p].entry] + 1 = 1
        BY <3>1
      <3> QED BY <3>2, <3>3
    <2> QED BY <1>2, <1>3, <2>1, <2>2, <2>3 DEF ChildStarts
  <1>4. CASE ChildSetupFails(p) \/ ChildEnds(p)
    <2>1. /\ \A r \in Pid \ {p} : proc'[r] = proc[r]
          /\ proc'[p].state # "working"
          /\ UNCHANGED <<queue, runs>>
      BY <1>0, <1>4 DEF ChildSetupFails, ChildEnds, Exit, TypeOK, Process, NoProcess
    <2> QED BY <1>2, <2>1
  <1> QED BY <1>3, <1>4 DEF ChildStep

\* Only an injector or a worker adds a row.
LEMMA BossKeepsAbsent ==
  ASSUME IInv, NEW b \in Boss, BossStep(b) \/ BossFault(b), NEW e \in Entry
  PROVE  queue'[e] = "ABSENT" <=> queue[e] = "ABSENT"
  <1>0. TypeOK BY DEF IInv
  <1>1. CASE UNCHANGED queue
    BY <1>1
  <1>2. ASSUME NEW to \in {"PROCESSING", "DONE"}, NEW f, NEW from \in {"JUSTIN", "PROCESSING"},
               queue' = setQueueEntryState(queue, f, from, to)
        PROVE  queue'[e] = "ABSENT" <=> queue[e] = "ABSENT"
    <2>1. to \in RowState
      BY DEF RowState
    <2> QED BY <1>0, <1>2, <2>1, UpdateFacts
  <1>3. CASE Reap(b)
    <2>1. Current(b).queueState = "PROCESSING"
      <3>1. pc[b] # "down" /\ Current(b).id # EMPTY
        BY <1>3 DEF Reap, Reapable
      <3> QED BY <1>0, <3>1, CurrentFacts DEF IInv, SlotHoldsChild
    <2> QED BY <1>1, <1>2, <1>3, <2>1 DEF Reap
  <1>4. CASE Claim(b) \/ ClaimAnswerLost(b)
    <2>1. Current(b).queueState = "JUSTIN"
      BY <1>4 DEF Claim, ClaimAnswerLost, IInv, PendingClaim
    <2> QED BY <1>2, <1>4, <2>1 DEF Claim, ClaimAnswerLost
  <1> QED
    BY <1>1, <1>3, <1>4
    DEF BossStep, BossFault, SpawnStep, SkipReap, SkipSpawn, SelectNothing, Select, ClaimFails, Fork,
        ForkFails, ConnLost, BossDies, BossStarts
===============================================================================

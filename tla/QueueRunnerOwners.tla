-------------------------- MODULE QueueRunnerOwners --------------------------
(***************************************************************************)
(* Proof that a row stays with the boss that claimed it, and so that no    *)
(* row is stranded while bosses, their connections and fork do not fail.   *)
(* Each step moves the ownership of at most one row: to the boss that      *)
(* claims it, from there to a slot, and from the slot to DONE.             *)
(***************************************************************************)
EXTENDS QueueRunnerProofs

\* The row of slot slot[b] is held before, and after if the slot holds t.
HadCurrent(b, e) ==
  Current(b).qentry = e /\ (pc[b] = "fork" \/ Current(b).id # EMPTY)

HasCurrent(b, t, e) ==
  t.qentry = e /\ ((pc'[b] = "fork" /\ slot'[b] = slot[b]) \/ t.id # EMPTY)

(***************************************************************************)
(* A step of boss b that puts t into its current slot leaves each boss c   *)
(* the rows it holds, if, c being b, the slot keeps the row.               *)
(***************************************************************************)
LEMMA HoldKept ==
  ASSUME TypeOK, NEW b \in Boss, NEW c \in Boss, NEW t, NEW e,
         \A d \in Boss \ {b} : slot'[d] = slot[d] /\ pc'[d] = pc[d],
         \A d \in Boss, i \in Slot :
           threads'[d][i] = IF d = b /\ i = slot[b] THEN t ELSE threads[d][i],
         c = b => pc'[b] # "down" /\ (HadCurrent(b, e) => HasCurrent(b, t, e)),
         HeldBy(c, e)
  PROVE  HeldBy(c, e)'
  <1>1. slot[c] \in Slot
    BY DEF TypeOK
  <1>2. CASE c # b
    <2>1. slot'[c] = slot[c] /\ pc'[c] = pc[c] /\ \A i \in Slot : threads'[c][i] = threads[c][i]
      BY <1>2
    <2> QED BY <1>1, <2>1 DEF HeldBy, Current
  <1>3. CASE c = b /\ HadCurrent(b, e)
    <2>1. HasCurrent(b, t, e) /\ pc'[b] # "down" /\ threads'[b][slot[b]] = t
      BY <1>1, <1>3
    <2> QED BY <1>1, <1>3, <2>1 DEF HasCurrent, HeldBy, Current
  <1>4. CASE c = b /\ ~HadCurrent(b, e)
    <2>1. PICK i \in Slot : threads[b][i].id # EMPTY /\ threads[b][i].qentry = e
      BY <1>4 DEF HeldBy, HadCurrent
    <2>2. i # slot[b]
      BY <1>4, <2>1 DEF HadCurrent, Current
    <2>3. threads'[b][i] = threads[b][i]
      BY <2>2
    <2> QED BY <1>4, <2>1, <2>3 DEF HeldBy
  <1> QED BY <1>2, <1>3, <1>4
-----------------------------------------------------------------------------
(***************************************************************************)
(* The steps of a boss b, and a row e that is held by a boss c and stays   *)
(* PROCESSING.                                                             *)
(***************************************************************************)
LEMMA HoldReap ==
  ASSUME IInv, NEW b \in Boss, Reap(b), NEW e \in Entry, queue'[e] = "PROCESSING",
         NEW c \in Boss, HeldBy(c, e), conn[c]
  PROVE  HeldBy(c, e)'
  <1> DEFINE t == Current(b)
  <1>0. TypeOK BY DEF IInv
  <1>1. t \in Thread /\ t = threads[b][slot[b]] /\ slot[b] \in Slot
    BY <1>0, CurrentFacts
  <1>2. pc[b] = "reap" /\ t.id # EMPTY /\ SetCurrent(b, NoThread) /\ Advance(b, "reap", "spawn")
    BY DEF Reap, Reapable
  <1>3. t.queueState = "PROCESSING"
    BY <1>1, <1>2 DEF IInv, SlotHoldsChild
  <1>4. "DONE" \in RowState /\ NoThread \in Thread
    BY EntryAssumption DEF RowState, NoThread, Thread
  <1>5. c = b => e # t.qentry
    <2> SUFFICES ASSUME conn[b] PROVE e # t.qentry
      OBVIOUS
    <2>1. queue' = setQueueEntryState(queue, t.qentry, t.queueState, "DONE")
      BY DEF Reap
    <2>2. queue'[e] = IF e = t.qentry /\ queue[e] = t.queueState THEN "DONE" ELSE queue[e]
      BY <1>0, <1>4, <2>1, UpdateFacts
    <2> QED BY <1>3, <2>2
  <1>6. \A d \in Boss \ {b} : slot'[d] = slot[d] /\ pc'[d] = pc[d]
    BY <1>0, <1>2, AdvanceFacts DEF PcValues
  <1>7. pc'[b] # "down"
    BY <1>0, <1>2 DEF Advance, TypeOK
  <1>8. \A d \in Boss, i \in Slot :
           threads'[d][i] = IF d = b /\ i = slot[b] THEN NoThread ELSE threads[d][i]
    BY <1>0, <1>2, <1>4, SetCurrentFacts
  <1>9. c = b => ~HadCurrent(b, e)
    BY <1>5 DEF HadCurrent
  <1>10. c = b => pc'[b] # "down" /\ (HadCurrent(b, e) => HasCurrent(b, NoThread, e))
    BY <1>7, <1>9
  <1> HIDE DEF t
  <1> QED BY <1>0, <1>6, <1>8, <1>10, HoldKept

\* A step past a slot that leaves the threads as they are.
LEMMA HoldAdvance ==
  ASSUME IInv, NEW b \in Boss, pc[b] # "fork",
         NEW h \in {"reap", "spawn"}, NEW t \in {"reap", "spawn"}, Advance(b, h, t), UNCHANGED threads,
         NEW e \in Entry, NEW c \in Boss, HeldBy(c, e)
  PROVE  HeldBy(c, e)'
  <1>0. TypeOK BY DEF IInv
  <1>1. \A d \in Boss \ {b} : slot'[d] = slot[d] /\ pc'[d] = pc[d]
    BY <1>0, AdvanceFacts DEF PcValues
  <1>2. \A d \in Boss, i \in Slot :
           threads'[d][i] = IF d = b /\ i = slot[b] THEN Current(b) ELSE threads[d][i]
    BY DEF Current
  <1>3. pc'[b] # "down"
    BY <1>0 DEF Advance, TypeOK
  <1>4. HadCurrent(b, e) => HasCurrent(b, Current(b), e)
    BY DEF HadCurrent, HasCurrent
  <1> QED BY <1>0, <1>1, <1>2, <1>3, <1>4, HoldKept

\* A step that fills a slot which was empty.
LEMMA HoldEmptySlot ==
  ASSUME IInv, NEW b \in Boss, pc[b] # "fork", Current(b).id = EMPTY, pc'[b] # "down",
         NEW t \in Thread, SetCurrent(b, t),
         \A d \in Boss \ {b} : slot'[d] = slot[d] /\ pc'[d] = pc[d],
         NEW e \in Entry, NEW c \in Boss, HeldBy(c, e)
  PROVE  HeldBy(c, e)'
  <1>0. TypeOK BY DEF IInv
  <1>1. \A d \in Boss, i \in Slot :
           threads'[d][i] = IF d = b /\ i = slot[b] THEN t ELSE threads[d][i]
    BY <1>0, SetCurrentFacts
  <1>2. ~HadCurrent(b, e)
    BY DEF HadCurrent
  <1> QED BY <1>0, <1>1, <1>2, HoldKept

LEMMA HoldFork ==
  ASSUME IInv, NEW b \in Boss, NEW p \in Pid, Fork(b, p),
         NEW e \in Entry, NEW c \in Boss, HeldBy(c, e)
  PROVE  HeldBy(c, e)'
  <1> DEFINE t == Current(b)
             u == [t EXCEPT !.id = p]
  <1>0. TypeOK BY DEF IInv
  <1>1. t \in Thread /\ t = threads[b][slot[b]] /\ slot[b] \in Slot
    BY <1>0, CurrentFacts
  <1>2. u \in Thread /\ u.qentry = t.qentry /\ u.id # EMPTY
    BY <1>1, PidAssumption DEF Thread
  <1>3. \A d \in Boss, i \in Slot :
           threads'[d][i] = IF d = b /\ i = slot[b] THEN u ELSE threads[d][i]
    BY <1>0, <1>2, SetCurrentFacts DEF Fork
  <1>4. \A d \in Boss \ {b} : slot'[d] = slot[d] /\ pc'[d] = pc[d]
    BY <1>0, AdvanceFacts DEF Fork, PcValues
  <1>5. pc'[b] # "down"
    BY <1>0 DEF Fork, Advance, TypeOK
  <1>6. HadCurrent(b, e) => HasCurrent(b, u, e)
    BY <1>2 DEF HadCurrent, HasCurrent
  <1> QED BY <1>0, <1>3, <1>4, <1>5, <1>6, HoldKept

\* Another boss does not fork for a row of c, nor does its fork fail for one.
LEMMA HoldForkFails ==
  ASSUME IInv, NEW b \in Boss, ForkFails(b), NEW e \in Entry, NEW c \in Boss \ {b}, HeldBy(c, e)
  PROVE  HeldBy(c, e)'
  <1> DEFINE u == [Current(b) EXCEPT !.id = EMPTY]
  <1>0. TypeOK BY DEF IInv
  <1>1. u \in Thread
    BY <1>0, CurrentFacts DEF Thread
  <1>2. \A d \in Boss, i \in Slot :
           threads'[d][i] = IF d = b /\ i = slot[b] THEN u ELSE threads[d][i]
    BY <1>0, <1>1, SetCurrentFacts DEF ForkFails
  <1>3. \A d \in Boss \ {b} : slot'[d] = slot[d] /\ pc'[d] = pc[d]
    BY <1>0, AdvanceFacts DEF ForkFails, PcValues
  <1> QED BY <1>0, <1>2, <1>3, HoldKept

LEMMA HoldBoss ==
  ASSUME IInv, NEW b \in Boss, BossStep(b), NEW e \in Entry, queue'[e] = "PROCESSING",
         NEW c \in Boss, HeldBy(c, e), conn[c], ~ForkFails(c)
  PROVE  HeldBy(c, e)'
  <1>0. TypeOK BY DEF IInv
  <1>1. Current(b) \in Thread
    BY <1>0, CurrentFacts
  <1>2. \A h, t \in {"reap", "spawn"} : Advance(b, h, t) =>
          pc'[b] # "down" /\ \A d \in Boss \ {b} : slot'[d] = slot[d] /\ pc'[d] = pc[d]
    <2>1. SUFFICES ASSUME NEW h \in {"reap", "spawn"}, NEW t \in {"reap", "spawn"}, Advance(b, h, t)
                   PROVE  pc'[b] # "down" /\ \A d \in Boss \ {b} : slot'[d] = slot[d] /\ pc'[d] = pc[d]
      OBVIOUS
    <2>2. pc'[b] # "down"
      BY <1>0, <2>1 DEF Advance, TypeOK
    <2> QED BY <1>0, <2>1, <2>2, AdvanceFacts DEF PcValues
  <1>3. CASE SkipReap(b) \/ SkipSpawn(b) \/ ClaimFails(b) \/ ClaimAnswerLost(b)
    BY <1>3, HoldAdvance DEF SkipReap, SkipSpawn, ClaimFails, ClaimAnswerLost
  <1>4. CASE SelectNothing(b)
    <2>1. [Current(b) EXCEPT !.qentry = NULL] \in Thread
      BY <1>1 DEF Thread
    <2> QED BY <1>2, <1>4, <2>1, HoldEmptySlot DEF SelectNothing, SlotFree
  <1>5. ASSUME NEW f \in Entry, Select(b, f) PROVE HeldBy(c, e)'
    <2>1. [Current(b) EXCEPT !.qentry = f, !.queueState = "JUSTIN"] \in Thread
      BY <1>1 DEF Thread, RowState
    <2>2. pc'[b] # "down" /\ \A d \in Boss \ {b} : slot'[d] = slot[d] /\ pc'[d] = pc[d]
      BY <1>0, <1>5 DEF Select, TypeOK
    <2> QED BY <1>5, <2>1, <2>2, HoldEmptySlot DEF Select, SlotFree
  <1>6. CASE Claim(b)
    <2>1. [Current(b) EXCEPT !.queueState = "PROCESSING"] \in Thread
      BY <1>1 DEF Thread, RowState
    <2>2. pc'[b] # "down" /\ \A d \in Boss \ {b} : slot'[d] = slot[d] /\ pc'[d] = pc[d]
      BY <1>0, <1>6 DEF Claim, TypeOK
    <2>3. pc[b] = "claim" /\ Current(b).id = EMPTY
      BY <1>6 DEF Claim, IInv, PendingClaim
    <2> QED BY <1>6, <2>1, <2>2, <2>3, HoldEmptySlot DEF Claim
  <1> QED BY <1>3, <1>4, <1>5, <1>6, HoldReap, HoldFork, HoldForkFails DEF BossStep, SpawnStep
-----------------------------------------------------------------------------
(***************************************************************************)
(* A boss that runs, is connected and whose fork does not fail lets go of  *)
(* no row that stays PROCESSING.                                           *)
(***************************************************************************)
LEMMA HoldNext ==
  ASSUME IInv, [Next]_vars, NEW e \in Entry, queue'[e] = "PROCESSING",
         NEW c \in Boss, HeldBy(c, e), conn[c], ~ForkFails(c), pc'[c] # "down"
  PROVE  HeldBy(c, e)'
  <1>0. TypeOK BY DEF IInv
  <1>1. ASSUME slot'[c] = slot[c], pc'[c] = pc[c], threads'[c] = threads[c] PROVE HeldBy(c, e)'
    BY <1>1 DEF HeldBy, Current
  <1>2. ASSUME NEW f \in Entry, Insert(f) PROVE HeldBy(c, e)'
    BY <1>1, <1>2 DEF Insert
  <1>3. ASSUME NEW p \in Pid, ChildStep(p) PROVE HeldBy(c, e)'
    BY <1>1, <1>3 DEF ChildStep, ChildStarts, ChildSetupFails, ChildEnds
  <1>4. ASSUME NEW b \in Boss, ConnLost(b) PROVE HeldBy(c, e)'
    BY <1>1, <1>4 DEF ConnLost
  <1>5. ASSUME NEW b \in Boss, BossDies(b) PROVE HeldBy(c, e)'
    <2>1. c # b
      BY <1>0, <1>5 DEF BossDies, TypeOK
    <2> QED BY <1>0, <1>1, <1>5, <2>1 DEF BossDies, TypeOK
  <1>6. ASSUME NEW b \in Boss, BossStarts(b) PROVE HeldBy(c, e)'
    <2>1. c # b
      BY <1>6 DEF BossStarts, HeldBy
    <2> QED BY <1>0, <1>1, <1>6, <2>1 DEF BossStarts, TypeOK
  <1>7. CASE UNCHANGED vars
    BY <1>1, <1>7 DEF vars
  <1> QED BY <1>2, <1>3, <1>4, <1>5, <1>6, <1>7, HoldBoss DEF Next

(***************************************************************************)
(* A row becomes PROCESSING by the claim of a boss, which then holds it    *)
(* unless the answer is lost.                                              *)
(***************************************************************************)
Claims(b, e) ==
  /\ pc[b] = "claim" /\ Current(b).qentry = e /\ conn[b]
  /\ HeldBy(b, e)' \/ ~conn'[b]

LEMMA ClaimNext ==
  ASSUME IInv, [Next]_vars, NEW e \in Entry, queue'[e] = "PROCESSING", queue[e] # "PROCESSING"
  PROVE  \E b \in Boss : Claims(b, e)
  <1>0. TypeOK BY DEF IInv
  <1>1. ~UNCHANGED queue
    OBVIOUS
  <1>2. ASSUME NEW f \in Entry, Insert(f) PROVE FALSE
    BY <1>0, <1>2 DEF Insert, insertQueueEntry, TypeOK
  <1>3. ASSUME NEW b \in Boss, Reap(b) PROVE FALSE
    <2>1. queue' = setQueueEntryState(queue, Current(b).qentry, Current(b).queueState, "DONE")
      BY <1>1, <1>3 DEF Reap
    <2>2. "DONE" \in RowState
      BY DEF RowState
    <2> QED BY <1>0, <2>1, <2>2, UpdateFacts
  <1>4. ASSUME NEW b \in Boss, Claim(b) \/ ClaimAnswerLost(b) PROVE Claims(b, e)
    <2>1. pc[b] = "claim" /\ conn[b]
          /\ queue' = setQueueEntryState(queue, Current(b).qentry, Current(b).queueState, "PROCESSING")
      BY <1>4 DEF Claim, ClaimAnswerLost
    <2>2. e = Current(b).qentry
      <3>1. "PROCESSING" \in RowState
        BY DEF RowState
      <3> QED BY <1>0, <2>1, <3>1, UpdateFacts
    <2>3. CASE Claim(b)
      <3>1. [Current(b) EXCEPT !.queueState = "PROCESSING"] \in Thread /\ slot[b] \in Slot
        BY <1>0, CurrentFacts DEF Thread, RowState
      <3>2. threads'[b][slot[b]] = [Current(b) EXCEPT !.queueState = "PROCESSING"]
        BY <1>0, <2>3, <3>1, SetCurrentFacts DEF Claim
      <3>3. threads'[b][slot[b]].qentry = e
        BY <1>0, <2>2, <3>2, CurrentFacts DEF Thread
      <3>4. pc'[b] = "fork" /\ slot'[b] = slot[b]
        BY <1>0, <2>3 DEF Claim, TypeOK
      <3> QED BY <2>1, <2>2, <3>3, <3>4 DEF Claims, HeldBy, Current
    <2>4. CASE ClaimAnswerLost(b)
      <3>1. ~conn'[b]
        BY <1>0, <2>4 DEF ClaimAnswerLost, TypeOK
      <3> QED BY <2>1, <2>2, <3>1 DEF Claims
    <2> QED BY <1>4, <2>3, <2>4
  <1>5. ASSUME NEW b \in Boss, BossStep(b) PROVE Reap(b) \/ Claim(b) \/ ClaimAnswerLost(b)
    BY <1>1, <1>5 DEF BossStep, SpawnStep, SkipReap, SkipSpawn, SelectNothing, Select, ClaimFails, Fork, ForkFails
  <1>6. ASSUME NEW b \in Boss, ConnLost(b) \/ BossDies(b) \/ BossStarts(b) PROVE FALSE
    BY <1>1, <1>6 DEF ConnLost, BossDies, BossStarts
  <1>7. ASSUME NEW p \in Pid, ChildStep(p) PROVE FALSE
    BY <1>1, <1>7 DEF ChildStep, ChildStarts, ChildSetupFails, ChildEnds
  <1> QED BY <1>1, <1>2, <1>3, <1>4, <1>5, <1>6, <1>7 DEF Next, vars

(***************************************************************************)
(* Under every fault and for any number of bosses, slots and rows, a       *)
(* PROCESSING row is left to nobody only by what happens to the boss that  *)
(* has it (runQueueThreads).                                               *)
(***************************************************************************)
THEOREM RowsStayWithBoss == Spec => OnlyFaultsStrand
  <1> DEFINE Stays == \A e \in Entry : queue'[e] = "PROCESSING" =>
       /\ \A b \in Boss : HeldBy(b, e) =>
            HeldBy(b, e)' \/ pc'[b] = "down" \/ ~conn[b] \/ ForkFails(b)
       /\ queue[e] # "PROCESSING" => \E b \in Boss :
            /\ pc[b] = "claim" /\ Current(b).qentry = e /\ conn[b]
            /\ HeldBy(b, e)' \/ ~conn'[b]
  <1>1. IInv /\ [Next]_vars => Stays
    BY HoldNext, ClaimNext DEF Claims
  <1>2. IInv /\ [Next]_vars => [Stays]_vars
    BY <1>1
  <1> QED BY <1>2, Invariance, PTL DEF Spec, OnlyFaultsStrand
-----------------------------------------------------------------------------
OwnersInv == IInv /\ BossesServe /\ NoRowStranded

LEMMA OwnersInit == Init => BossesServe /\ NoRowStranded
  BY DEF Init, BossesServe, NoRowStranded

LEMMA ServeNext == ASSUME BossesServe, IInv, [Next]_vars PROVE BossesServe'
  <1> SUFFICES ASSUME Faults \subseteq {"setup"} PROVE \A c \in Boss : conn'[c] /\ pc'[c] # "down"
    BY DEF BossesServe
  <1>0. TypeOK /\ \A c \in Boss : conn[c] /\ pc[c] # "down"
    BY DEF BossesServe, IInv
  <1>1. ASSUME NEW e \in Entry, Insert(e) PROVE UNCHANGED <<conn, pc>>
    BY <1>1 DEF Insert
  <1>2. ASSUME NEW p \in Pid, ChildStep(p) PROVE UNCHANGED <<conn, pc>>
    BY <1>2 DEF ChildStep, ChildStarts, ChildSetupFails, ChildEnds
  <1>3. ASSUME NEW b \in Boss, ConnLost(b) \/ BossDies(b) \/ BossStarts(b) PROVE FALSE
    BY <1>0, <1>3 DEF ConnLost, BossDies, BossStarts
  <1>4. ASSUME NEW b \in Boss, BossStep(b) PROVE \A c \in Boss : conn'[c] /\ pc'[c] # "down"
    <2>1. ~ClaimAnswerLost(b)
      BY DEF ClaimAnswerLost
    <2>2. UNCHANGED conn
      BY <1>4, <2>1 DEF BossStep, SpawnStep, SkipReap, Reap, SkipSpawn, SelectNothing, Select, Claim,
         ClaimFails, Fork, ForkFails
    <2>3. ASSUME NEW h \in {"reap", "spawn"}, NEW t \in {"reap", "spawn"}, Advance(b, h, t)
          PROVE  \A c \in Boss : pc'[c] # "down"
      BY <1>0, <2>3 DEF Advance, TypeOK
    <2>4. \A h \in {"claim", "fork"} :
            pc' = [pc EXCEPT ![b] = h] => \A c \in Boss : pc'[c] # "down"
      BY <1>0 DEF TypeOK
    <2>5. \A c \in Boss : pc'[c] # "down"
      BY <1>4, <2>1, <2>3, <2>4 DEF BossStep, SpawnStep, SkipReap, Reap, SkipSpawn, SelectNothing, Select,
         Claim, ClaimFails, Fork, ForkFails
    <2> QED BY <1>0, <2>2, <2>5
  <1>5. CASE UNCHANGED vars
    BY <1>0, <1>5 DEF vars
  <1> QED BY <1>0, <1>1, <1>2, <1>3, <1>4, <1>5 DEF Next
LEMMA OwnersNext == ASSUME OwnersInv, [Next]_vars PROVE NoRowStranded'
  <1> SUFFICES ASSUME Faults \subseteq {"setup"}, NEW e \in Entry, queue'[e] = "PROCESSING"
               PROVE  Owned(e)'
    BY DEF NoRowStranded
  <1>1. IInv /\ \A c \in Boss : conn[c] /\ conn'[c] /\ pc'[c] # "down"
    BY ServeNext DEF OwnersInv, BossesServe
  <1>2. CASE queue[e] = "PROCESSING"
    <2>1. PICK c \in Boss : HeldBy(c, e)
      BY <1>2 DEF OwnersInv, NoRowStranded, Owned
    <2>2. ~ForkFails(c)
      BY DEF ForkFails
    <2> QED BY <1>1, <2>1, <2>2, HoldNext DEF Owned
  <1>3. CASE queue[e] # "PROCESSING"
    BY <1>1, <1>3, ClaimNext DEF Claims, Owned
  <1> QED BY <1>2, <1>3

(***************************************************************************)
(* Without faults of boss, connection or fork every PROCESSING row is in   *)
(* the hands of a boss, whatever the number of bosses, slots and rows      *)
(* (runQueueThreads).                                                      *)
(***************************************************************************)
THEOREM RowsKeepOwners == Spec => []NoRowStranded
  <1>1. Init => OwnersInv
    BY InitIInv, OwnersInit DEF OwnersInv
  <1>2. OwnersInv /\ [Next]_vars => OwnersInv'
    BY IndNext, ServeNext, OwnersNext DEF OwnersInv
  <1>3. OwnersInv => NoRowStranded
    BY DEF OwnersInv
  <1> QED BY <1>1, <1>2, <1>3, PTL DEF Spec
=============================================================================

--------------------------- MODULE PipelineProofs ---------------------------
(***************************************************************************)
(* Proofs about the two queues and what joins them, for any number of      *)
(* mails, letters, daemons and slots and any set of faults.  Each queue is *)
(* known to keep the invariant of QueueRunnerProofs, so what remains is    *)
(* about the steps that touch both queues or the sendmails.                *)
(***************************************************************************)
EXTENDS Pipeline, TLAPS

InP == INSTANCE QueueRunnerOwners WITH
  Entry <- Mail, QueueType <- "EMAILIN",
  Boss <- Runner, Pid <- RunnerPid, NumThreads <- RunnerSlots, Faults <- RunnerFaults,
  queue <- inQueue, pc <- inPc, slot <- inSlot, threads <- inThreads, conn <- inConn,
  proc <- inProc, runs <- inRuns

OutP == INSTANCE QueueRunnerOwners WITH
  Entry <- Letter, VoidOf <- [o \in Letter |-> CHOOSE v \in Void : TRUE], QueueType <- "EMAILOUT",
  Boss <- Sender, Pid <- SenderPid, NumThreads <- SenderSlots, Faults <- SenderFaults,
  queue <- outQueue, pc <- outPc, slot <- outSlot, threads <- outThreads, conn <- outConn,
  proc <- outProc, runs <- outRuns
-----------------------------------------------------------------------------
(***************************************************************************)
(* InP and OutP are the queues of Pipeline with the lemmas of              *)
(* QueueRunnerOwners: their definitions say the same.                      *)
(***************************************************************************)
LEMMA InSameSelection ==
  ASSUME NEW q PROVE In!getQueueEntryJustinNotRunning(q) = InP!getQueueEntryJustinNotRunning(q)
  <1>1. In!RowsIn(q, "JUSTIN") = InP!RowsIn(q, "JUSTIN") /\ In!BusyVoids(q) = InP!BusyVoids(q)
    BY DEF In!RowsIn, InP!RowsIn, In!BusyVoids, InP!BusyVoids
  <1>2. In!Ready(q) = InP!Ready(q)
    BY DEF In!Ready, InP!Ready, In!RowsIn, InP!RowsIn, In!BusyVoids, InP!BusyVoids
  <1>3. In!Windows(q) = InP!Windows(q)
    BY DEF In!Windows, InP!Windows, In!RowsIn, InP!RowsIn,
           In!Cardinality, InP!Cardinality
  <1>4. In!NextEmailIn(q) = InP!NextEmailIn(q) /\ In!NextEmailOut(q) = InP!NextEmailOut(q)
    BY <1>1, <1>2, <1>3 DEF In!NextEmailIn, InP!NextEmailIn, In!NextEmailOut, InP!NextEmailOut,
                      In!OneOf, InP!OneOf
  <1> QED BY <1>4 DEF In!getQueueEntryJustinNotRunning, InP!getQueueEntryJustinNotRunning

LEMMA InSameBoss ==
  ASSUME NEW b PROVE In!BossStep(b) <=> InP!BossStep(b)
  BY InSameSelection DEF In!BossStep, In!SpawnStep, In!Slot, In!NoThread, In!NoProcess, In!Alive, In!Current,
         In!SetCurrent, In!Advance, In!Ended, In!Reapable, In!SkipReap, In!Reap, In!SlotFree,
         In!SkipSpawn, In!SelectNothing, In!Select, In!Claim, In!ClaimFails, In!ClaimAnswerLost,
         In!Fork, In!ForkFails, In!StateMatches, In!setQueueEntryState, InP!BossStep, InP!SpawnStep,
         InP!Slot, InP!NoThread, InP!NoProcess, InP!Alive, InP!Current, InP!SetCurrent, InP!Advance,
         InP!Ended, InP!Reapable, InP!SkipReap, InP!Reap, InP!SlotFree, InP!SkipSpawn,
         InP!SelectNothing, InP!Select, InP!Claim, InP!ClaimFails, InP!ClaimAnswerLost, InP!Fork,
         InP!ForkFails, InP!StateMatches, InP!setQueueEntryState

LEMMA InSameFault ==
  ASSUME NEW b
  PROVE  In!ConnLost(b) \/ In!BossDies(b) \/ In!BossStarts(b) <=> InP!BossFault(b)
  BY DEF In!ConnLost, In!BossDies, In!BossStarts, In!Alive, In!NoProcess, In!NoThread, In!Slot,
         InP!ConnLost, InP!BossDies, InP!BossStarts, InP!Alive, InP!NoProcess, InP!NoThread,
         InP!Slot, InP!BossFault

LEMMA InSameChild ==
  ASSUME NEW p
  PROVE  /\ In!ChildStep(p) <=> InP!ChildStep(p)
         /\ In!ChildEnds(p) <=> InP!ChildEnds(p)
  BY DEF In!ChildStep, In!ChildStarts, In!ChildSetupFails, In!ChildEnds, In!Exit, In!NoProcess,
         InP!ChildStep, InP!ChildStarts, InP!ChildSetupFails, InP!ChildEnds, InP!Exit, InP!NoProcess

LEMMA InSameTable ==
  /\ In!Init <=> InP!Init
  /\ \A e : In!Insert(e) <=> InP!Insert(e)
  BY DEF In!Init, In!NoThread, In!NoProcess, In!Slot, In!Insert, In!insertQueueEntry, In!vars,
         InP!Init, InP!NoThread, InP!NoProcess, InP!Slot, InP!Insert, InP!insertQueueEntry, InP!vars

LEMMA OutSameSelection ==
  ASSUME NEW q PROVE Out!getQueueEntryJustinNotRunning(q) = OutP!getQueueEntryJustinNotRunning(q)
  <1>1. Out!RowsIn(q, "JUSTIN") = OutP!RowsIn(q, "JUSTIN") /\ Out!BusyVoids(q) = OutP!BusyVoids(q)
    BY DEF Out!RowsIn, OutP!RowsIn, Out!BusyVoids, OutP!BusyVoids
  <1>2. Out!Ready(q) = OutP!Ready(q)
    BY DEF Out!Ready, OutP!Ready, Out!RowsIn, OutP!RowsIn, Out!BusyVoids, OutP!BusyVoids
  <1>3. Out!Windows(q) = OutP!Windows(q)
    BY DEF Out!Windows, OutP!Windows, Out!RowsIn, OutP!RowsIn,
           Out!Cardinality, OutP!Cardinality
  <1>4. Out!NextEmailIn(q) = OutP!NextEmailIn(q) /\ Out!NextEmailOut(q) = OutP!NextEmailOut(q)
    BY <1>1, <1>2, <1>3 DEF Out!NextEmailIn, OutP!NextEmailIn, Out!NextEmailOut, OutP!NextEmailOut,
                      Out!OneOf, OutP!OneOf
  <1> QED BY <1>4 DEF Out!getQueueEntryJustinNotRunning, OutP!getQueueEntryJustinNotRunning

LEMMA OutSameBoss ==
  ASSUME NEW b PROVE Out!BossStep(b) <=> OutP!BossStep(b)
  BY OutSameSelection DEF Out!BossStep, Out!SpawnStep, Out!Slot, Out!NoThread, Out!NoProcess, Out!Alive, Out!Current,
         Out!SetCurrent, Out!Advance, Out!Ended, Out!Reapable, Out!SkipReap, Out!Reap, Out!SlotFree,
         Out!SkipSpawn, Out!SelectNothing, Out!Select, Out!Claim, Out!ClaimFails,
         Out!ClaimAnswerLost, Out!Fork, Out!ForkFails, Out!StateMatches, Out!setQueueEntryState,
         OutP!BossStep, OutP!SpawnStep, OutP!Slot, OutP!NoThread, OutP!NoProcess, OutP!Alive,
         OutP!Current, OutP!SetCurrent, OutP!Advance, OutP!Ended, OutP!Reapable, OutP!SkipReap,
         OutP!Reap, OutP!SlotFree, OutP!SkipSpawn, OutP!SelectNothing, OutP!Select, OutP!Claim,
         OutP!ClaimFails, OutP!ClaimAnswerLost, OutP!Fork, OutP!ForkFails, OutP!StateMatches,
         OutP!setQueueEntryState

LEMMA OutSameFault ==
  ASSUME NEW b
  PROVE  Out!ConnLost(b) \/ Out!BossDies(b) \/ Out!BossStarts(b) <=> OutP!BossFault(b)
  BY DEF Out!ConnLost, Out!BossDies, Out!BossStarts, Out!Alive, Out!NoProcess, Out!NoThread,
         Out!Slot, OutP!ConnLost, OutP!BossDies, OutP!BossStarts, OutP!Alive, OutP!NoProcess,
         OutP!NoThread, OutP!Slot, OutP!BossFault

LEMMA OutSameChild ==
  ASSUME NEW p
  PROVE  /\ Out!ChildStep(p) <=> OutP!ChildStep(p)
         /\ Out!ChildEnds(p) <=> OutP!ChildEnds(p)
  BY DEF Out!ChildStep, Out!ChildStarts, Out!ChildSetupFails, Out!ChildEnds, Out!Exit,
         Out!NoProcess, OutP!ChildStep, OutP!ChildStarts, OutP!ChildSetupFails, OutP!ChildEnds,
         OutP!Exit, OutP!NoProcess

LEMMA OutSameTable ==
  /\ Out!Init <=> OutP!Init
  /\ \A e : Out!Insert(e) <=> OutP!Insert(e)
  BY DEF Out!Init, Out!NoThread, Out!NoProcess, Out!Slot, Out!Insert, Out!insertQueueEntry,
         Out!vars, OutP!Init, OutP!NoThread, OutP!NoProcess, OutP!Slot, OutP!Insert,
         OutP!insertQueueEntry, OutP!vars

-----------------------------------------------------------------------------
(***************************************************************************)
(* Each queue, taken alone, behaves as QueueRunner says.                   *)
(***************************************************************************)
LEMMA StepsOfIn == [Next]_vars => [InP!Next]_(InP!vars)
  <1> SUFFICES ASSUME [Next]_vars PROVE InP!Next \/ UNCHANGED inVars
    BY DEF InP!vars, inVars
  <1>1. ASSUME NEW m \in Mail, Arrive(m) PROVE InP!Next
    BY <1>1, InSameTable DEF Arrive, InP!Next
  <1>2. ASSUME NEW b \in Runner, RunnerStep(b) PROVE InP!Next
    BY <1>2, InSameBoss, InSameFault DEF RunnerStep, RunnerFault, InP!Next, InP!BossFault
  <1>3. ASSUME NEW p \in RunnerPid, RuleStep(p) \/ RuleEndsInsert(p) PROVE InP!Next
    BY <1>3, InSameChild DEF RuleStep, RuleEndsInsert, InP!Next, InP!ChildStep
  <1>4. CASE PostingStep
    BY <1>4 DEF PostingStep, SendMember, LateInsert, InsertLetter
  <1>5. CASE OutgoingStep
    BY <1>5 DEF OutgoingStep, SenderStep, DeliveryStep, HandOver, SendmailEnds
  <1> QED BY <1>1, <1>2, <1>3, <1>4, <1>5 DEF Next, IncomingStep, vars

LEMMA StepsOfOut == [Next]_vars => [OutP!Next]_(OutP!vars)
  <1> SUFFICES ASSUME [Next]_vars PROVE OutP!Next \/ UNCHANGED outVars
    BY DEF OutP!vars, outVars
  <1>1. ASSUME NEW o \in Letter, NEW m, InsertLetter(m, o) PROVE OutP!Next
    BY <1>1, OutSameTable DEF InsertLetter, OutP!Next
  <1>2. ASSUME NEW b \in Sender, SenderStep(b) PROVE OutP!Next
    BY <1>2, OutSameBoss, OutSameFault DEF SenderStep, SenderFault, OutP!Next, OutP!BossFault
  <1>3. ASSUME NEW p \in SenderPid, DeliveryStep(p) PROVE OutP!Next
    BY <1>3, OutSameChild DEF DeliveryStep, OutP!Next
  <1>4. CASE IncomingStep
    BY <1>4 DEF IncomingStep, Arrive, RunnerStep, RuleStep, RuleEndsInsert
  <1> QED
    BY <1>1, <1>2, <1>3, <1>4
    DEF Next, PostingStep, OutgoingStep, SendMember, LateInsert, HandOver, SendmailEnds, vars

LEMMA InKeepsInvariant == Spec => []InP!IInv
  <1>1. Init => InP!Init
    BY InSameTable DEF Init
  <1>2. InP!Spec => []InP!IInv
    BY InP!Invariance, RowsAssumption, VoidAssumption, DaemonsAssumption, FaultsAssumption
  <1> QED BY <1>1, <1>2, StepsOfIn, PTL DEF Spec, InP!Spec

LEMMA OutKeepsInvariant == Spec => []OutP!IInv
  <1>1. Init => OutP!Init
    BY OutSameTable DEF Init
  <1>2. OutP!Spec => []OutP!IInv
    BY OutP!Invariance, RowsAssumption, VoidAssumption, DaemonsAssumption, FaultsAssumption
  <1> QED BY <1>1, <1>2, StepsOfOut, PTL DEF Spec, OutP!Spec
-----------------------------------------------------------------------------
\* The owners of a row are the same in both readings of a queue.
LEMMA SameOwners ==
  /\ In!NoRowStranded <=> InP!NoRowStranded
  /\ Out!NoRowStranded <=> OutP!NoRowStranded
  BY DEF In!NoRowStranded, In!Owned, In!HeldBy, In!Current, In!Slot,
         InP!NoRowStranded, InP!Owned, InP!HeldBy, InP!Current, InP!Slot,
         Out!NoRowStranded, Out!Owned, Out!HeldBy, Out!Current, Out!Slot,
         OutP!NoRowStranded, OutP!Owned, OutP!HeldBy, OutP!Current, OutP!Slot

(***************************************************************************)
(* The two queues do not cost each other a row: a row of either queue that *)
(* is PROCESSING is in the hands of a daemon of that queue, as long as the *)
(* daemons, connections and forks of that queue do not fail, and whatever  *)
(* happens to the daemons of the other one, to its workers, to the         *)
(* sendmails and to late statements (runQueueThreads of each daemon).      *)
(* Without it a letter would wait for ever for a msgdelivery that no       *)
(* longer knows of it.                                                     *)
(***************************************************************************)
THEOREM QueuesKeepOwners == Spec => [](In!NoRowStranded /\ Out!NoRowStranded)
  <1>1. Init => InP!Init /\ OutP!Init
    BY InSameTable, OutSameTable DEF Init
  <1>2. InP!Spec => []InP!NoRowStranded
    BY InP!RowsKeepOwners, RowsAssumption, VoidAssumption, DaemonsAssumption, FaultsAssumption
  <1>3. OutP!Spec => []OutP!NoRowStranded
    BY OutP!RowsKeepOwners, RowsAssumption, VoidAssumption, DaemonsAssumption, FaultsAssumption
  <1>4. InP!NoRowStranded /\ OutP!NoRowStranded => In!NoRowStranded /\ Out!NoRowStranded
    BY SameOwners
  <1> QED BY <1>1, <1>2, <1>3, <1>4, StepsOfIn, StepsOfOut, PTL DEF Spec, InP!Spec, OutP!Spec
-----------------------------------------------------------------------------
(***************************************************************************)
(* A call of worker() for a letter is spent once: first the worker has it, *)
(* then a sendmail, then the addressee.                                    *)
(***************************************************************************)
Open(o) ==
  \E p \in SenderPid : outProc[p].state = "working" /\ outProc[p].entry = o /\ p \notin handed

LetterInv ==
  /\ handed \subseteq SenderPid
  /\ piped \in [Letter -> Nat]
  /\ taken \in [Letter -> Nat]
  /\ \A o \in Letter : piped[o] + taken[o] <= outRuns[o]
  /\ \A o \in Letter : Open(o) => piped[o] + taken[o] < outRuns[o]

LEMMA LetterInit == Init => LetterInv
  <1> SUFFICES ASSUME Init PROVE LetterInv
    OBVIOUS
  <1>1. \A o \in Letter : ~Open(o) /\ outRuns[o] = 0
    BY DEF Init, Out!Init, Out!NoProcess, Open
  <1> QED BY <1>1 DEF Init, LetterInv

LEMMA LetterFrame ==
  ASSUME LetterInv, UNCHANGED <<piped, taken, outRuns>>, handed' \subseteq SenderPid,
         \A o \in Letter : Open(o)' => Open(o)
  PROVE  LetterInv'
  BY DEF LetterInv

LEMMA LetterSender == ASSUME LetterInv, OutP!IInv, NEW b \in Sender, SenderStep(b) PROVE LetterInv'
  <1>1. OutP!BossStep(b) \/ OutP!BossFault(b)
    BY OutSameBoss, OutSameFault DEF SenderStep, SenderFault
  <1>2. outRuns' = outRuns /\ \A p \in SenderPid : \A e : OutP!WorksOn(p, e)' => OutP!WorksOn(p, e)
    BY <1>1, OutP!BossKeepsWorkers, RowsAssumption, VoidAssumption, DaemonsAssumption, FaultsAssumption
  <1>3. UNCHANGED mailVars
    BY DEF SenderStep
  <1>4. \A o \in Letter : Open(o)' => Open(o)
    BY <1>2, <1>3 DEF Open, OutP!WorksOn, mailVars
  <1> QED BY <1>2, <1>3, <1>4, LetterFrame DEF LetterInv, mailVars

LEMMA LetterDelivery == ASSUME LetterInv, OutP!IInv, NEW p \in SenderPid, DeliveryStep(p) PROVE LetterInv'
  <1> DEFINE e == outProc[p].entry
  <1>1. OutP!ChildStep(p) /\ handed' = handed \ {p} /\ UNCHANGED <<piped, taken>>
    BY OutSameChild DEF DeliveryStep
  <1>2. /\ \A r \in SenderPid \ {p} : outProc'[r] = outProc[r]
        /\ e \in Letter
        /\ \/ outRuns' = outRuns /\ outProc'[p].state # "working"
           \/ /\ outProc[p].state = "forked"
              /\ outProc'[p].entry = e
              /\ outRuns[e] = 0
              /\ outRuns' = [outRuns EXCEPT ![e] = 1]
    BY <1>1, OutP!ChildMoves, RowsAssumption, VoidAssumption, DaemonsAssumption, FaultsAssumption
  <1>3. CASE outRuns' = outRuns /\ outProc'[p].state # "working"
    <2>1. \A o \in Letter : Open(o)' => Open(o)
      BY <1>1, <1>2, <1>3 DEF Open
    <2> QED BY <1>1, <1>3, <2>1, LetterFrame DEF LetterInv
  <1>4. CASE outRuns[e] = 0 /\ outRuns' = [outRuns EXCEPT ![e] = 1] /\ outProc'[p].entry = e
    <2>1. outRuns \in [Letter -> Nat]
      BY DEF OutP!IInv, OutP!TypeOK
    <2>2. outRuns'[e] = 1 /\ \A o \in Letter \ {e} : outRuns'[o] = outRuns[o]
      BY <1>2, <1>4, <2>1
    <2>3. ASSUME NEW o \in Letter \ {e}, Open(o)' PROVE Open(o)
      <3>1. PICK r \in SenderPid : outProc'[r].state = "working" /\ outProc'[r].entry = o /\ r \notin handed'
        BY <2>3 DEF Open
      <3>2. r # p
        BY <1>4, <3>1
      <3>3. outProc'[r] = outProc[r] /\ r \notin handed
        BY <1>1, <1>2, <3>1, <3>2
      <3> QED BY <3>1, <3>3 DEF Open
    <2>4. piped[e] + taken[e] <= outRuns[e] /\ piped[e] \in Nat /\ taken[e] \in Nat
      BY <1>2 DEF LetterInv
    <2>5. piped[e] + taken[e] = 0
      BY <1>4, <2>4
    <2> QED BY <1>1, <2>2, <2>3, <2>5 DEF LetterInv
  <1> QED BY <1>2, <1>3, <1>4

LEMMA LetterHandOver == ASSUME LetterInv, OutP!IInv, NEW p \in SenderPid, HandOver(p) PROVE LetterInv'
  <1> DEFINE e == outProc[p].entry
  <1>1. /\ outProc[p].state = "working" /\ p \notin handed
        /\ handed' = handed \cup {p}
        /\ piped' = [piped EXCEPT ![e] = @ + 1]
        /\ UNCHANGED <<outProc, outRuns, taken>>
    BY DEF HandOver, outVars
  <1>2. e \in Letter /\ \A r \in SenderPid \ {p} : outProc[r].state = "working" => outProc[r].entry # e
    BY <1>1 DEF OutP!IInv, OutP!ProcessOwnsRow, OutP!OneProcessPerRow, OutP!Exists
  <1>3. Open(e)
    BY <1>1 DEF Open
  <1>4. ~Open(e)' /\ \A o \in Letter \ {e} : Open(o)' => Open(o)
    BY <1>1, <1>2 DEF Open
  <1>5. outRuns \in [Letter -> Nat]
    BY DEF OutP!IInv, OutP!TypeOK
  <1>6. piped'[e] + taken'[e] <= outRuns'[e]
    <2>1. piped'[e] = piped[e] + 1 /\ taken'[e] = taken[e] /\ outRuns'[e] = outRuns[e]
      BY <1>1, <1>2 DEF LetterInv
    <2>2. piped[e] \in Nat /\ taken[e] \in Nat /\ outRuns[e] \in Nat /\ piped[e] + taken[e] < outRuns[e]
      BY <1>2, <1>3, <1>5 DEF LetterInv
    <2> QED BY <2>1, <2>2
  <1>7. \A o \in Letter \ {e} : piped'[o] = piped[o]
    BY <1>1 DEF LetterInv
  <1>8. piped' \in [Letter -> Nat]
    <2>1. piped[e] + 1 \in Nat
      BY <1>2 DEF LetterInv
    <2> QED BY <1>1, <2>1 DEF LetterInv
  <1> QED BY <1>1, <1>4, <1>6, <1>7, <1>8 DEF LetterInv

LEMMA LetterSendmail == ASSUME LetterInv, OutP!IInv, NEW o \in Letter, SendmailEnds(o) PROVE LetterInv'
  <1>1. /\ piped[o] > 0
        /\ piped' = [piped EXCEPT ![o] = @ - 1]
        /\ taken' = [taken EXCEPT ![o] = @ + 1] \/ taken' = taken
        /\ UNCHANGED <<outProc, outRuns, handed>>
    BY DEF SendmailEnds, outVars
  <1>2. \A q \in Letter : Open(q)' => Open(q)
    BY <1>1 DEF Open
  <1>3. piped' \in [Letter -> Nat] /\ taken' \in [Letter -> Nat] /\ outRuns \in [Letter -> Nat]
    BY <1>1 DEF LetterInv, OutP!IInv, OutP!TypeOK
  <1>4. \A q \in Letter : piped'[q] + taken'[q] <= piped[q] + taken[q]
    BY <1>1 DEF LetterInv
  <1> QED BY <1>1, <1>2, <1>3, <1>4 DEF LetterInv

LEMMA LetterNext == LetterInv /\ OutP!IInv /\ [Next]_vars => LetterInv'
  <1> SUFFICES ASSUME LetterInv, OutP!IInv, [Next]_vars PROVE LetterInv'
    OBVIOUS
  <1>1. ASSUME UNCHANGED <<outProc, outRuns, mailVars>> PROVE LetterInv'
    <2>1. \A o \in Letter : Open(o)' => Open(o)
      BY <1>1 DEF Open, mailVars
    <2> QED BY <1>1, <2>1, LetterFrame DEF LetterInv, mailVars
  <1>2. CASE IncomingStep
    BY <1>1, <1>2 DEF IncomingStep, Arrive, RunnerStep, RuleStep, RuleEndsInsert, outVars
  <1>3. CASE PostingStep
    BY <1>1, <1>3 DEF PostingStep, SendMember, LateInsert, InsertLetter, Out!Insert
  <1>4. CASE OutgoingStep
    BY <1>4, LetterSender, LetterDelivery, LetterHandOver, LetterSendmail DEF OutgoingStep
  <1>5. CASE UNCHANGED vars
    BY <1>1, <1>5 DEF vars, outVars
  <1> QED BY <1>2, <1>3, <1>4, <1>5 DEF Next

LEMMA LettersAccounted == Spec => [](OutP!IInv /\ LetterInv)
  BY LetterInit, LetterNext, OutKeepsInvariant, PTL DEF Spec

(***************************************************************************)
(* Whatever ends daemons, workers and connections, a letter is given to    *)
(* at most one sendmail and so reaches its addressee at most once.         *)
(***************************************************************************)
THEOREM LettersSentOnce == Spec => []LetterOnce
  <1>1. OutP!IInv /\ LetterInv => LetterOnce
    <2> SUFFICES ASSUME OutP!IInv, LetterInv, NEW o \in Letter PROVE piped[o] + taken[o] <= 1
      BY DEF LetterOnce
    <2>1. outRuns[o] <= 1 /\ outRuns[o] \in Nat
      BY DEF OutP!IInv, OutP!AtMostOnce, OutP!TypeOK
    <2> QED BY <2>1 DEF LetterInv
  <1> QED BY <1>1, LettersAccounted, PTL
-----------------------------------------------------------------------------
(***************************************************************************)
(* Who wrote a letter.                                                     *)
(***************************************************************************)
\* A letter has an author as soon as it has a row, and ids are given in order.
AuthorsKnown ==
  /\ \A o \in Letter : author[o] = NULL <=> outQueue[o] = "ABSENT"
  /\ \A o, q \in Letter : o < q /\ author[o] = NULL => author[q] = NULL

\* The rule of an author was called.
AuthorsRan ==
  /\ \A o \in Letter : author[o] # NULL => inRuns[author[o]] # 0
  /\ \A m \in Mail : In!Working(m) => inRuns[m] # 0

\* A statement that outlives its worker is the last of a mail.
LateIsLast ==
  /\ \A m \in unanswered : inRuns[m] # 0 /\ ~In!Working(m) /\ \A o \in tardy : author[o] # m
  /\ \A o \in tardy : author[o] # NULL /\ ~In!Working(author[o])

PostTypes == author \in [Letter -> Mail \cup {NULL}] /\ unanswered \subseteq Mail /\ tardy \subseteq Letter

PostInv == PostTypes /\ AuthorsKnown /\ AuthorsRan /\ LateIsLast

LEMMA PostInit == Init => PostInv
  <1> SUFFICES ASSUME Init PROVE PostInv
    OBVIOUS
  <1>1. \A m \in Mail : ~In!Working(m)
    BY DEF Init, In!Init, In!NoProcess, In!Working
  <1>2. \A o \in Letter : outQueue[o] = "ABSENT"
    BY DEF Init, Out!Init
  <1> QED BY <1>1, <1>2 DEF Init, PostInv, PostTypes, AuthorsKnown, AuthorsRan, LateIsLast

\* A worker of a mail is new only when it is the first.
OnlyFirstStarts ==
  \A m \in Mail :
    /\ inRuns[m] # 0 => inRuns'[m] # 0
    /\ In!Working(m)' => In!Working(m) \/ (inRuns[m] = 0 /\ inRuns'[m] # 0)

LEMMA PostFrame ==
  ASSUME PostInv, OnlyFirstStarts, UNCHANGED postVars,
         \A o \in Letter : outQueue'[o] = "ABSENT" <=> outQueue[o] = "ABSENT"
  PROVE  PostInv'
  <1>1. UNCHANGED <<author, unanswered, tardy>>
    BY DEF postVars
  <1>2. PostTypes' /\ AuthorsKnown'
    BY <1>1 DEF PostInv, PostTypes, AuthorsKnown
  <1>3. \A o \in Letter : author[o] # NULL => author[o] \in Mail
    BY DEF PostInv, PostTypes
  <1>4. AuthorsRan'
    BY <1>1, <1>3 DEF PostInv, AuthorsRan, OnlyFirstStarts
  <1>5. LateIsLast'
    <2>1. \A m \in unanswered : inRuns'[m] # 0 /\ ~In!Working(m)'
      BY DEF PostInv, PostTypes, LateIsLast, OnlyFirstStarts
    <2>2. \A o \in tardy : ~In!Working(author[o])'
      <3> TAKE o \in tardy
      <3>1. o \in Letter /\ author[o] # NULL /\ ~In!Working(author[o])
        BY DEF PostInv, PostTypes, LateIsLast
      <3>2. inRuns[author[o]] # 0 /\ author'[o] = author[o]
        BY <1>1, <3>1 DEF PostInv, AuthorsRan
      <3>3. \A m \in Mail : m = author[o] => ~In!Working(m)'
        BY <3>1, <3>2 DEF OnlyFirstStarts
      <3> QED BY <1>1, <1>3, <3>1, <3>3 DEF In!Working
    <2> QED BY <1>1, <2>1, <2>2 DEF PostInv, LateIsLast
  <1> QED BY <1>2, <1>4, <1>5 DEF PostInv

LEMMA FirstStarts ==
  ASSUME InP!IInv, [Next]_vars PROVE OnlyFirstStarts
  <1>1. ASSUME UNCHANGED <<inRuns, inProc>> PROVE OnlyFirstStarts
    BY <1>1 DEF OnlyFirstStarts, In!Working
  <1>2. ASSUME NEW b \in Runner, RunnerStep(b) PROVE OnlyFirstStarts
    <2>1. InP!BossStep(b) \/ InP!BossFault(b)
      BY <1>2, InSameBoss, InSameFault DEF RunnerStep, RunnerFault
    <2>2. inRuns' = inRuns /\ \A p \in RunnerPid : \A e : InP!WorksOn(p, e)' => InP!WorksOn(p, e)
      BY <2>1, InP!BossKeepsWorkers, RowsAssumption, VoidAssumption, DaemonsAssumption, FaultsAssumption
    <2> QED BY <2>2 DEF OnlyFirstStarts, In!Working, InP!WorksOn
  <1>3. ASSUME NEW p \in RunnerPid, RuleStep(p) \/ RuleEndsInsert(p) PROVE OnlyFirstStarts
    <2> DEFINE e == inProc[p].entry
    <2>1. InP!ChildStep(p)
      BY <1>3, InSameChild DEF RuleStep, RuleEndsInsert, InP!ChildStep
    <2>2. /\ \A r \in RunnerPid \ {p} : inProc'[r] = inProc[r]
          /\ e \in Mail
          /\ \/ inRuns' = inRuns /\ inProc'[p].state # "working"
             \/ inProc'[p].entry = e /\ inRuns[e] = 0 /\ inRuns' = [inRuns EXCEPT ![e] = 1]
      BY <2>1, InP!ChildMoves, RowsAssumption, VoidAssumption, DaemonsAssumption, FaultsAssumption
    <2>3. inRuns \in [Mail -> Nat]
      BY DEF InP!IInv, InP!TypeOK
    <2>4. CASE inRuns' = inRuns /\ inProc'[p].state # "working"
      BY <2>2, <2>4 DEF OnlyFirstStarts, In!Working
    <2>5. CASE inProc'[p].entry = e /\ inRuns[e] = 0 /\ inRuns' = [inRuns EXCEPT ![e] = 1]
      <3>1. inRuns'[e] = 1 /\ \A m \in Mail \ {e} : inRuns'[m] = inRuns[m]
        BY <2>2, <2>3, <2>5
      <3>2. \A m \in Mail \ {e} : In!Working(m)' => In!Working(m)
        BY <2>2, <2>5 DEF In!Working
      <3> QED BY <2>5, <3>1, <3>2 DEF OnlyFirstStarts
    <2> QED BY <2>2, <2>4, <2>5
  <1>4. ASSUME NEW m \in Mail, Arrive(m) PROVE OnlyFirstStarts
    BY <1>1, <1>4 DEF Arrive, In!Insert
  <1>5. CASE PostingStep
    BY <1>1, <1>5 DEF PostingStep, SendMember, LateInsert, InsertLetter, inVars
  <1>6. CASE OutgoingStep
    BY <1>1, <1>6 DEF OutgoingStep, SenderStep, DeliveryStep, HandOver, SendmailEnds, inVars
  <1>7. CASE UNCHANGED vars
    BY <1>1, <1>7 DEF vars, inVars
  <1> QED BY <1>2, <1>3, <1>4, <1>5, <1>6, <1>7 DEF Next, IncomingStep
-----------------------------------------------------------------------------
LEMMA InsertFacts ==
  ASSUME PostInv, OutP!IInv, NEW m \in Mail, NEW o \in Letter, InsertLetter(m, o)
  PROVE  /\ author[o] = NULL
         /\ author' \in [Letter -> Mail \cup {NULL}]
         /\ \A q \in Letter : author'[q] = IF q = o THEN m ELSE author[q]
         /\ \A q \in Letter : author[q] = NULL => o <= q
         /\ AuthorsKnown'
         /\ UNCHANGED <<inRuns, inProc>>
  <1>1. /\ outQueue[o] = "ABSENT"
        /\ \A q \in Letter : outQueue[q] = "ABSENT" => o <= q
        /\ outQueue' = [outQueue EXCEPT ![o] = "JUSTIN"]
        /\ author' = [author EXCEPT ![o] = m]
        /\ UNCHANGED <<inRuns, inProc>>
    BY DEF InsertLetter, FreshLetter, Out!Insert, Out!insertQueueEntry, inVars
  <1>2. author \in [Letter -> Mail \cup {NULL}] /\ outQueue \in [Letter -> OutP!RowState]
    BY DEF PostInv, PostTypes, OutP!IInv, OutP!TypeOK
  <1>3. author[o] = NULL /\ \A q \in Letter : author[q] = NULL => o <= q
    BY <1>1 DEF PostInv, AuthorsKnown
  <1>4. /\ author' \in [Letter -> Mail \cup {NULL}]
        /\ \A q \in Letter : author'[q] = IF q = o THEN m ELSE author[q]
    BY <1>1, <1>2
  <1>5. \A q \in Letter : author'[q] = NULL <=> outQueue'[q] = "ABSENT"
    BY <1>1, <1>2, <1>4, RowsAssumption DEF PostInv, AuthorsKnown
  <1>6. ASSUME NEW q \in Letter, NEW r \in Letter, q < r, author'[q] = NULL PROVE author'[r] = NULL
    <2>1. q # o /\ author[q] = NULL /\ author[r] = NULL
      BY <1>4, <1>6, RowsAssumption DEF PostInv, AuthorsKnown
    <2>2. o <= q /\ q \in Nat /\ r \in Nat /\ o \in Nat
      BY <1>3, <2>1, RowsAssumption
    <2> QED BY <1>4, <1>6, <2>1, <2>2
  <1> QED BY <1>1, <1>3, <1>4, <1>5, <1>6 DEF AuthorsKnown

LEMMA PostSendMember ==
  ASSUME PostInv, InP!IInv, OutP!IInv, NEW p \in RunnerPid, NEW o \in Letter, SendMember(p, o)
  PROVE  PostInv'
  <1> DEFINE m == inProc[p].entry
  <1>1. inProc[p].state = "working" /\ InsertLetter(m, o) /\ UNCHANGED <<unanswered, tardy>>
    BY DEF SendMember
  <1>2. m \in Mail
    BY <1>1 DEF InP!IInv, InP!ProcessOwnsRow, InP!Exists
  <1>3. /\ author[o] = NULL
        /\ author' \in [Letter -> Mail \cup {NULL}]
        /\ \A q \in Letter : author'[q] = IF q = o THEN m ELSE author[q]
        /\ AuthorsKnown'
        /\ UNCHANGED <<inRuns, inProc>>
    BY <1>1, <1>2, InsertFacts
  <1>4. In!Working(m) /\ \A n \in Mail : In!Working(n)' <=> In!Working(n)
    BY <1>1, <1>3 DEF In!Working
  <1>5. inRuns[m] # 0
    BY <1>2, <1>4 DEF PostInv, AuthorsRan
  <1>6. AuthorsRan'
    BY <1>3, <1>4, <1>5 DEF PostInv, AuthorsRan
  <1>7. o \notin tardy
    BY <1>3 DEF PostInv, LateIsLast
  <1>8. \A q \in tardy : q \in Letter /\ author'[q] = author[q] /\ author[q] \in Mail
    BY <1>3, <1>7 DEF PostInv, PostTypes, LateIsLast
  <1>9. LateIsLast'
    BY <1>1, <1>3, <1>4, <1>8 DEF PostInv, PostTypes, LateIsLast
  <1> QED BY <1>1, <1>3, <1>6, <1>9 DEF PostInv, PostTypes

LEMMA PostLateInsert ==
  ASSUME PostInv, OutP!IInv, NEW m \in Mail, NEW o \in Letter, LateInsert(m, o)
  PROVE  PostInv'
  <1>1. /\ m \in unanswered /\ unanswered' = unanswered \ {m}
        /\ tardy' = tardy \cup {o}
        /\ InsertLetter(m, o)
    BY DEF LateInsert
  <1>2. /\ author[o] = NULL
        /\ author' \in [Letter -> Mail \cup {NULL}]
        /\ \A q \in Letter : author'[q] = IF q = o THEN m ELSE author[q]
        /\ AuthorsKnown'
        /\ UNCHANGED <<inRuns, inProc>>
    BY <1>1, InsertFacts
  <1>3. \A n : In!Working(n)' <=> In!Working(n)
    BY <1>2 DEF In!Working
  <1>4. inRuns[m] # 0 /\ ~In!Working(m) /\ \A q \in tardy : author[q] # m
    BY <1>1 DEF PostInv, LateIsLast
  <1>5. AuthorsRan'
    BY <1>2, <1>3, <1>4 DEF PostInv, AuthorsRan
  <1>6. o \notin tardy
    BY <1>2 DEF PostInv, LateIsLast
  <1>7. \A q \in tardy : q \in Letter /\ author'[q] = author[q] /\ author[q] \in Mail
    BY <1>2, <1>6 DEF PostInv, PostTypes, LateIsLast
  <1>8. \A n \in unanswered' : inRuns'[n] # 0 /\ ~In!Working(n)' /\ \A q \in tardy' : author'[q] # n
    BY <1>1, <1>2, <1>3, <1>7 DEF PostInv, PostTypes, LateIsLast
  <1>9. \A q \in tardy' : author'[q] # NULL /\ ~In!Working(author'[q])
    BY <1>1, <1>2, <1>4, <1>7, RowsAssumption DEF PostInv, LateIsLast
  <1>10. LateIsLast'
    BY <1>2, <1>8, <1>9 DEF LateIsLast, In!Working
  <1> QED BY <1>1, <1>2, <1>5, <1>10 DEF PostInv, PostTypes

LEMMA PostRuleEnds ==
  ASSUME PostInv, InP!IInv, [Next]_vars, NEW p \in RunnerPid, RuleEndsInsert(p)
  PROVE  PostInv'
  <1> DEFINE m == inProc[p].entry
  <1>1. /\ inProc[p].state = "working"
        /\ inProc' = [inProc EXCEPT ![p] = IF @.parent = NULL THEN In!NoProcess ELSE [@ EXCEPT !.state = "zombie"]]
        /\ UNCHANGED inRuns
        /\ unanswered' = unanswered \cup {m}
        /\ UNCHANGED <<outQueue, author, tardy>>
    BY DEF RuleEndsInsert, In!ChildEnds, In!Exit, outVars
  <1>2. m \in Mail /\ \A r \in RunnerPid \ {p} : inProc[r].state = "working" => inProc[r].entry # m
    BY <1>1 DEF InP!IInv, InP!ProcessOwnsRow, InP!OneProcessPerRow, InP!Exists
  <1>3. inProc'[p].state # "working" /\ \A r \in RunnerPid \ {p} : inProc'[r] = inProc[r]
    BY <1>1 DEF InP!IInv, InP!TypeOK, InP!Process, In!NoProcess
  <1>4. \A n : In!Working(n)' => In!Working(n) /\ n # m
    BY <1>2, <1>3 DEF In!Working
  <1>5. In!Working(m)
    BY <1>1 DEF In!Working
  <1>6. inRuns[m] # 0 /\ \A o \in tardy : author[o] # m
    BY <1>2, <1>5 DEF PostInv, AuthorsRan, LateIsLast
  <1>7. AuthorsKnown' /\ PostTypes'
    BY <1>1, <1>2 DEF PostInv, AuthorsKnown, PostTypes
  <1>8. AuthorsRan'
    BY <1>1, <1>4 DEF PostInv, AuthorsRan
  <1>9. \A n \in unanswered' : inRuns'[n] # 0 /\ ~In!Working(n)' /\ \A o \in tardy' : author'[o] # n
    BY <1>1, <1>4, <1>6 DEF PostInv, LateIsLast
  <1>10. \A o \in tardy' : author'[o] # NULL /\ ~In!Working(author[o])'
    <2> TAKE o \in tardy'
    <2>1. author[o] # NULL /\ ~In!Working(author[o])
      BY <1>1 DEF PostInv, LateIsLast
    <2>2. \A n : n = author[o] => ~In!Working(n)'
      BY <1>4, <2>1
    <2> QED BY <1>1, <2>1, <2>2 DEF In!Working
  <1> QED BY <1>7, <1>8, <1>9, <1>10 DEF PostInv, LateIsLast

LEMMA PostNext == PostInv /\ InP!IInv /\ OutP!IInv /\ [Next]_vars => PostInv'
  <1> SUFFICES ASSUME PostInv, InP!IInv, OutP!IInv, [Next]_vars PROVE PostInv'
    OBVIOUS
  <1>1. OnlyFirstStarts
    BY FirstStarts
  <1>2. CASE UNCHANGED <<postVars, outQueue>>
    BY <1>1, <1>2, PostFrame
  <1>3. ASSUME NEW b \in Sender, SenderStep(b) PROVE PostInv'
    <2>1. OutP!BossStep(b) \/ OutP!BossFault(b)
      BY <1>3, OutSameBoss, OutSameFault DEF SenderStep, SenderFault
    <2>2. \A o \in Letter : outQueue'[o] = "ABSENT" <=> outQueue[o] = "ABSENT"
      BY <2>1, OutP!BossKeepsAbsent, RowsAssumption, VoidAssumption, DaemonsAssumption, FaultsAssumption
    <2> QED BY <1>1, <1>3, <2>2, PostFrame DEF SenderStep
  <1>4. ASSUME NEW p \in SenderPid, DeliveryStep(p) PROVE PostInv'
    <2>1. UNCHANGED outQueue
      BY <1>4 DEF DeliveryStep, Out!ChildStep, Out!ChildStarts, Out!ChildSetupFails, Out!ChildEnds
    <2> QED BY <1>2, <1>4, <2>1 DEF DeliveryStep
  <1>5. ASSUME NEW p \in RunnerPid, RuleStep(p) \/ RuleEndsInsert(p) PROVE PostInv'
    BY <1>2, <1>5, PostRuleEnds DEF RuleStep, outVars
  <1>6. CASE PostingStep
    BY <1>6, PostSendMember, PostLateInsert DEF PostingStep
  <1>7. CASE UNCHANGED vars
    BY <1>2, <1>7 DEF vars, outVars
  <1> QED
    BY <1>2, <1>3, <1>4, <1>5, <1>6, <1>7
    DEF Next, IncomingStep, OutgoingStep, Arrive, RunnerStep, HandOver, SendmailEnds, outVars

LEMMA PostInvariance == Spec => [](InP!IInv /\ OutP!IInv /\ PostInv /\ LetterInv)
  BY PostInit, PostNext, LetterInit, LetterNext, InKeepsInvariant, OutKeepsInvariant, PTL DEF Spec

(***************************************************************************)
(* The variables that join the queues keep their types.                    *)
(***************************************************************************)
THEOREM TypeCorrect == Spec => []TypeOK
  <1>1. PostInv /\ LetterInv => TypeOK
    BY DEF PostInv, PostTypes, LetterInv, TypeOK
  <1> QED BY <1>1, PostInvariance, PTL
-----------------------------------------------------------------------------
(***************************************************************************)
(* With one rulerunner.                                                    *)
(***************************************************************************)
OneRunner == \A b, c \in Runner : b = c

LEMMA AloneKept == ASSUME OneRunner PROVE Spec => []InP!AloneInv
  <1>1. InP!OneBoss
    BY DEF OneRunner, InP!OneBoss
  <1>2. Init => InP!Init
    BY InSameTable DEF Init
  <1>3. InP!Spec => [](InP!IInv /\ InP!AloneInv)
    BY <1>1, InP!AloneInvariance, RowsAssumption, VoidAssumption, DaemonsAssumption, FaultsAssumption
  <1> QED BY <1>2, <1>3, StepsOfIn, PTL DEF Spec, InP!Spec

Timely == {o \in Letter \ tardy : author[o] # NULL}

LEMMA TurnNext ==
  ASSUME PostsInTurn, PostInv, InP!IInv, InP!AloneInv, OutP!IInv, [Next]_vars
  PROVE  PostsInTurn'
  <1> SUFFICES ASSUME NEW o \in Timely', NEW q \in Timely', o < q, SameVoid(o, q)', author'[o] # author'[q],
                      In!Working(author[o])'
               PROVE  FALSE
    BY DEF PostsInTurn, Timely
  <1>1. OnlyFirstStarts
    BY FirstStarts
  <1>2. ASSUME o \in Timely, q \in Timely, author'[o] = author[o], author'[q] = author[q] PROVE FALSE
    <2>1. ~In!Working(author[o])
      BY <1>2 DEF PostsInTurn, Timely, SameVoid
    <2>2. author[o] \in Mail /\ inRuns[author[o]] # 0
      BY <1>2 DEF Timely, PostInv, PostTypes, AuthorsRan
    <2>3. \A m \in Mail : m = author[o] => ~In!Working(m)'
      BY <2>1, <2>2, <1>1 DEF OnlyFirstStarts
    <2> QED BY <1>2, <2>2, <2>3 DEF In!Working
  <1>3. CASE UNCHANGED <<author, tardy>>
    BY <1>2, <1>3 DEF Timely
  <1>4. ASSUME NEW m \in Mail, NEW l \in Letter, LateInsert(m, l) PROVE FALSE
    <2>1. \A r \in Letter : author'[r] = IF r = l THEN m ELSE author[r]
      BY <1>4, InsertFacts DEF LateInsert
    <2>2. tardy' = tardy \cup {l}
      BY <1>4 DEF LateInsert
    <2> QED BY <1>2, <2>1, <2>2 DEF Timely
  <1>5. ASSUME NEW p \in RunnerPid, NEW l \in Letter, SendMember(p, l) PROVE FALSE
    <2> DEFINE m == inProc[p].entry
    <2>1. inProc[p].state = "working" /\ InsertLetter(m, l) /\ UNCHANGED tardy
      BY <1>5 DEF SendMember
    <2>2. m \in Mail
      BY <2>1 DEF InP!IInv, InP!ProcessOwnsRow, InP!Exists
    <2>3. /\ author[l] = NULL
          /\ \A r \in Letter : author'[r] = IF r = l THEN m ELSE author[r]
          /\ \A r \in Letter : author[r] = NULL => l <= r
          /\ UNCHANGED inProc
      BY <2>1, <2>2, InsertFacts
    <2>4. CASE o # l /\ q # l
      BY <1>2, <2>1, <2>3, <2>4 DEF Timely
    <2>5. CASE o = l
      <3>1. q # l /\ author[q] # NULL /\ q \in Letter /\ l < q
        BY <2>3, <2>5 DEF Timely
      <3> QED BY <2>3, <3>1 DEF PostInv, AuthorsKnown
    <2>6. CASE q = l /\ o # l
      <3>1. author'[q] = m /\ author'[o] = author[o] /\ o \in Letter
        BY <2>3, <2>6 DEF Timely
      <3>2. PICK r \in RunnerPid : inProc[r].state = "working" /\ inProc[r].entry = author[o]
        BY <2>3, <3>1 DEF In!Working
      <3>3. VoidOf[author[o]] = VoidOf[m] /\ author[o] # m
        BY <3>1 DEF SameVoid
      <3>4. r = p
        BY <2>1, <3>2, <3>3 DEF InP!AloneInv, InP!OneProcessPerVoid, InP!Exists
      <3> QED BY <3>2, <3>3, <3>4
    <2> QED BY <2>4, <2>5, <2>6
  <1>6. CASE IncomingStep
    BY <1>3, <1>6 DEF IncomingStep, Arrive, RunnerStep, RuleStep, RuleEndsInsert, postVars
  <1>7. CASE OutgoingStep
    BY <1>3, <1>7 DEF OutgoingStep, SenderStep, DeliveryStep, HandOver, SendmailEnds, postVars
  <1>8. CASE UNCHANGED vars
    BY <1>3, <1>8 DEF vars, postVars
  <1> QED BY <1>4, <1>5, <1>6, <1>7, <1>8 DEF Next, PostingStep

(***************************************************************************)
(* With one rulerunner, killed and started again as often as one likes,    *)
(* the letters of two mails of one void are not mixed.                     *)
(***************************************************************************)
THEOREM OneRunnerPostsInTurn == ASSUME OneRunner PROVE Spec => []PostsInTurn
  <1>1. Init => PostsInTurn
    BY DEF Init, PostsInTurn
  <1> QED BY <1>1, TurnNext, AloneKept, PostInvariance, PTL DEF Spec
-----------------------------------------------------------------------------
(***************************************************************************)
(* The refinement of MailingList.                                          *)
(***************************************************************************)
phases == [m \in Mail |-> In!PhaseOf(m)]
belated == {author[o] : o \in tardy}

LEMMA PhasesMove == ASSUME InP!IInv, InP!AloneInv, [Next]_vars PROVE List!Next \/ UNCHANGED phases
  <1>1. InP!phases = phases /\ InP!phases' = phases'
    BY DEF phases, InP!phases, In!PhaseOf, InP!PhaseOf, In!Working, InP!Working
  <1>2. InP!Promise!Next \/ UNCHANGED InP!phases
    BY StepsOfIn, InP!RefineNext, RowsAssumption, VoidAssumption, DaemonsAssumption, FaultsAssumption
  <1>3. InP!Promise!Next => List!Next
    BY <1>1
    DEF List!Next, List!Submit, List!Run, List!Finish, List!Drop, List!Move, phases, InP!phases,
        InP!Promise!Next, InP!Promise!Submit, InP!Promise!Run, InP!Promise!Finish, InP!Promise!Drop,
        InP!Promise!Move
  <1> QED BY <1>1, <1>2, <1>3

LEMMA RefineSendMember ==
  ASSUME PostInv, InP!IInv, OutP!IInv, NEW p \in RunnerPid, NEW o \in Letter, SendMember(p, o)
  PROVE  List!ListNext
  <1> DEFINE m == inProc[p].entry
  <1>1. inProc[p].state = "working" /\ InsertLetter(m, o) /\ UNCHANGED tardy
    BY DEF SendMember
  <1>2. m \in Mail /\ inQueue[m] = "PROCESSING"
    BY <1>1 DEF InP!IInv, InP!ProcessOwnsRow, InP!Exists
  <1>3. /\ author[o] = NULL
        /\ author' = [author EXCEPT ![o] = m]
        /\ \A q \in Letter : author'[q] = IF q = o THEN m ELSE author[q]
        /\ UNCHANGED <<phases, taken>>
    BY <1>1, <1>2, InsertFacts DEF InsertLetter, inVars, mailVars, phases, In!PhaseOf, In!Working
  <1>4. In!Working(m)
    BY <1>1 DEF In!Working
  <1>5. phases[m] = "running"
    BY <1>2, <1>4 DEF PostInv, AuthorsRan, In!PhaseOf, phases
  <1>6. belated' = belated
    <2>1. \A q \in tardy : author'[q] = author[q]
      BY <1>3 DEF PostInv, PostTypes, LateIsLast
    <2> QED BY <1>1, <2>1 DEF belated
  <1>7. List!Post(m, o)
    BY <1>3, <1>5, <1>6 DEF List!Post, List!Write, phases, belated
  <1> QED BY <1>2, <1>7 DEF List!ListNext

LEMMA RefineLateInsert ==
  ASSUME PostInv, InP!IInv, OutP!IInv, NEW m \in Mail, NEW o \in Letter, LateInsert(m, o)
  PROVE  List!ListNext
  <1>1. m \in unanswered /\ InsertLetter(m, o) /\ tardy' = tardy \cup {o}
    BY DEF LateInsert
  <1>2. inRuns[m] # 0 /\ ~In!Working(m) /\ \A q \in tardy : author[q] # m
    BY <1>1 DEF PostInv, LateIsLast
  <1>3. /\ author[o] = NULL
        /\ author' = [author EXCEPT ![o] = m]
        /\ \A q \in Letter : author'[q] = IF q = o THEN m ELSE author[q]
        /\ UNCHANGED <<phases, taken>>
    BY <1>1, InsertFacts DEF InsertLetter, inVars, mailVars, phases, In!PhaseOf, In!Working
  <1>4. phases[m] = "finished"
    BY <1>2 DEF InP!IInv, InP!WaitingNotRun, In!PhaseOf, phases
  <1>5. m \notin belated
    BY <1>2 DEF belated
  <1>6. belated' = belated \cup {m}
    <2>1. \A q \in tardy : q # o /\ author'[q] = author[q]
      BY <1>3 DEF PostInv, PostTypes, LateIsLast
    <2>2. author'[o] = m
      BY <1>3
    <2> QED BY <1>1, <2>1, <2>2 DEF belated
  <1>7. List!PostBelated(m, o)
    BY <1>3, <1>4, <1>5, <1>6 DEF List!PostBelated, List!Write, phases, belated
  <1> QED BY <1>7 DEF List!ListNext

LEMMA RefineSendmail ==
  ASSUME PostInv, LetterInv, OutP!IInv, NEW o \in Letter, SendmailEnds(o), taken' # taken
  PROVE  List!ListNext
  <1>1. /\ piped[o] > 0 /\ taken' = [taken EXCEPT ![o] = @ + 1]
        /\ UNCHANGED <<author, tardy, phases>>
    BY DEF SendmailEnds, inVars, postVars, phases, In!PhaseOf, In!Working
  <1>2. outRuns[o] \in Nat /\ outRuns[o] <= 1 /\ piped[o] \in Nat /\ taken[o] \in Nat
        /\ piped[o] + taken[o] <= outRuns[o]
    BY DEF OutP!IInv, OutP!TypeOK, OutP!AtMostOnce, LetterInv
  <1>3. taken[o] = 0 /\ outRuns[o] # 0
    BY <1>1, <1>2
  <1>4. author[o] # NULL
    BY <1>3 DEF OutP!IInv, OutP!WaitingNotRun, PostInv, AuthorsKnown
  <1>5. taken' = [taken EXCEPT ![o] = 1]
    BY <1>1, <1>3
  <1>6. List!Deliver(o)
    BY <1>1, <1>3, <1>4, <1>5 DEF List!Deliver, phases
  <1> QED BY <1>6 DEF List!ListNext

LEMMA RefineInit == Init => List!ListInit
  BY DEF Init, In!Init, In!PhaseOf, List!ListInit, List!Init

LEMMA RefineNext ==
  ASSUME PostInv, LetterInv, InP!IInv, InP!AloneInv, OutP!IInv, [Next]_vars
  PROVE  [List!ListNext]_(List!listVars)
  <1> SUFFICES List!ListNext \/ UNCHANGED <<phases, author, belated, taken>>
    BY DEF List!listVars, phases, belated
  <1>1. CASE UNCHANGED <<author, tardy, taken>>
    <2>1. belated' = belated
      BY <1>1 DEF belated
    <2>2. CASE List!Next
      BY <1>1, <2>1, <2>2 DEF List!ListNext, belated
    <2>3. CASE UNCHANGED phases
      BY <1>1, <2>1, <2>3
    <2> QED BY <2>2, <2>3, PhasesMove
  <1>2. CASE IncomingStep
    BY <1>1, <1>2 DEF IncomingStep, Arrive, RunnerStep, RuleStep, RuleEndsInsert, postVars, mailVars
  <1>3. CASE PostingStep
    BY <1>3, RefineSendMember, RefineLateInsert DEF PostingStep
  <1>4. CASE OutgoingStep
    <2>1. ASSUME NEW o \in Letter, SendmailEnds(o) PROVE List!ListNext \/ UNCHANGED <<author, tardy, taken>>
      BY <2>1, RefineSendmail DEF SendmailEnds, postVars
    <2> QED BY <1>1, <1>4, <2>1 DEF OutgoingStep, SenderStep, DeliveryStep, HandOver, postVars, mailVars
  <1>5. CASE UNCHANGED vars
    BY <1>1, <1>5 DEF vars, postVars, mailVars
  <1> QED BY <1>2, <1>3, <1>4, <1>5 DEF Next

(***************************************************************************)
(* With one rulerunner and any number of msgdeliveries Thwonk implements   *)
(* MailingList, whatever fails.                                            *)
(***************************************************************************)
THEOREM OneRunnerKeepsListPromise == ASSUME OneRunner PROVE Spec => KeepsListPromise
  BY RefineInit, RefineNext, AloneKept, PostInvariance, PTL
  DEF Spec, KeepsListPromise, List!ListSafety
=============================================================================

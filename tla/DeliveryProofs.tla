--------------------------- MODULE DeliveryProofs ---------------------------
(***************************************************************************)
(* Proofs about the worker of an outgoing mail and its sendmail, for all   *)
(* sizes with the one relation the code relies on: what buildMessageOut    *)
(* may build fits into an empty pipe.                                      *)
(***************************************************************************)
EXTENDS Delivery, TLAPS

Fits == Buffer <= Capacity

Holding == {"fork", "build", "write", "close"}   \* the worker has both ends open
Before == {"pipe", "fork", "build", "write"}     \* it has written nothing

\* The message goes into the pipe at once, so the pipe and sendmail together
\* have all of it or nothing, whoever is killed.
PipeInv ==
  /\ TypeOK
  /\ worker \in Holding => "W" \in readers /\ "W" \in writers
  /\ worker \in Before => pipe = 0 /\ got = 0
  /\ worker \in {"pipe", "fork"} => sendmail = "none"
  /\ worker = "write" => left = Built(stored)
  /\ pipe + got \in {0, Built(stored)}
  /\ accepted => sendmail = "zombie" /\ got = Built(stored)

\* What a worker reports is decided when it has written, or has not yet.
ReportInv ==
  /\ worker \in {"build", "write", "close", "wait"} => sendmail # "none"
  /\ worker \in {"close", "wait"} => Given = Built(stored)
  /\ worker # "returned" => result = "none"
  /\ ReportsAreTrue

LEMMA BuiltFits ==
  ASSUME Fits, stored \in Lengths
  PROVE  Built(stored) \in Nat \ {0} /\ Built(stored) <= Capacity
  <1>1. stored \in Nat \ {0} /\ Buffer \in Nat \ {0} /\ Capacity \in Nat
    BY SizesAssumption
  <1>2. Built(stored) = IF stored < Buffer THEN stored ELSE Buffer
    BY DEF Built, Min2
  <1>3. Buffer <= Capacity
    BY DEF Fits
  <1> QED BY <1>1, <1>2, <1>3

(***************************************************************************)
(* A write is never refused room: the worker does not sleep in write(),    *)
(* whatever became of sendmail.                                            *)
(***************************************************************************)
LEMMA WriteNeverSleeps == ASSUME Fits, PipeInv, worker = "write" PROVE Min2(left, Capacity - pipe) = left /\ left > 0
  BY BuiltFits, SizesAssumption DEF PipeInv, TypeOK, Before, Min2

LEMMA PipeInit == Init => PipeInv
  <1> SUFFICES ASSUME Init PROVE PipeInv
    OBVIOUS
  <1>1. TypeOK
    <2>1. pipe \in 0..Capacity
      BY SizesAssumption DEF Init
    <2> QED BY <2>1 DEF Init, TypeOK
  <1>2. pipe + got = 0
    BY DEF Init
  <1>3. worker = "pipe" /\ pipe = 0 /\ got = 0 /\ sendmail = "none" /\ ~accepted
    BY DEF Init
  <1> QED BY <1>1, <1>2, <1>3 DEF PipeInv, Holding, Before

LEMMA PipeWorker == ASSUME Fits, PipeInv, WorkerStep PROVE PipeInv'
  <1>0. Built(stored) \in Nat \ {0} /\ Built(stored) <= Capacity /\ Capacity \in Nat
    BY BuiltFits, SizesAssumption DEF PipeInv, TypeOK
  <1>1. CASE Pipe
    BY <1>1 DEF Pipe, PipeInv, TypeOK, Process, Over, Holding, Before, Built
  <1>2. CASE Fork
    BY <1>2 DEF Fork, PipeInv, TypeOK, Process, Over, Holding, Before, Built
  <1>3. CASE buildMessageOut
    <2>1. worker = "build" /\ left' = Built(stored) /\ worker' = "write"
          /\ UNCHANGED <<sendmail, readers, writers, pipe, stored, got, accepted, result>>
      BY <1>3 DEF buildMessageOut
    <2>2. Built(stored)' = Built(stored)
      BY <2>1 DEF Built
    <2> QED BY <1>0, <2>1, <2>2 DEF PipeInv, TypeOK, Process, Over, Holding, Before
  <1>4. CASE Write
    <2>1. worker = "write" /\ left = Built(stored) /\ pipe = 0 /\ got = 0
      BY <1>4 DEF Write, PipeInv, Before
    <2>2. Min2(left, Capacity - pipe) = Built(stored)
      BY <1>0, <2>1 DEF Min2
    <2>3. pipe' = Built(stored) /\ left' = 0 /\ worker' = "close"
      BY <1>0, <1>4, <2>1, <2>2 DEF Write
    <2>4. UNCHANGED <<sendmail, readers, writers, stored, got, accepted, result>>
      BY <1>4 DEF Write
    <2>5. Built(stored)' = Built(stored)
      BY <2>4 DEF Built
    <2> QED BY <1>0, <2>1, <2>3, <2>4, <2>5 DEF PipeInv, TypeOK, Process, Over, Holding, Before
  <1>5. CASE Close
    BY <1>5 DEF Close, PipeInv, TypeOK, Process, Over, Holding, Before, Built
  <1>6. CASE Wait
    BY <1>6 DEF Wait, Return, CloseAll, PipeInv, TypeOK, Process, Over, Holding, Before, Built
  <1> QED BY <1>1, <1>2, <1>3, <1>4, <1>5, <1>6 DEF WorkerStep

LEMMA PipeFault == ASSUME PipeInv, WorkerFault PROVE PipeInv'
  <1>1. /\ worker' \in Over
        /\ readers' \subseteq readers /\ writers' \subseteq writers
        /\ result' \in {result, "ERR_PROC_PIPE_CREATE", "ERR_PROC_FORK", "ERR_PROC_PIPE_WRITE"}
        /\ UNCHANGED <<sendmail, pipe, stored, left, got, accepted>>
    BY DEF WorkerFault, PipeFails, ForkFails, BuildFails, WriteFails, WaitFails, WorkerKilled, Return, CloseAll, Over
  <1>2. Built(stored)' = Built(stored)
    BY <1>1 DEF Built
  <1>3. TypeOK'
    BY <1>1 DEF PipeInv, TypeOK
  <1>4. worker' \notin Holding \cup Before
    BY <1>1 DEF Over, Holding, Before
  <1> QED BY <1>1, <1>2, <1>3, <1>4 DEF PipeInv, Holding, Before

LEMMA PipeSendmail == ASSUME Fits, PipeInv, SendmailStep \/ ChildExits PROVE PipeInv'
  <1>0. Built(stored) \in Nat \ {0} /\ Built(stored) <= Capacity
    BY BuiltFits DEF PipeInv, TypeOK
  <1>1. UNCHANGED <<worker, stored, left, result>> /\ Built(stored)' = Built(stored)
    BY DEF SendmailStep, ChildExits, Dup, CloseEnds, Exec, Read, EndOfFile, Built
  <1>2. CASE Dup \/ CloseEnds \/ Exec \/ ChildExits
    <2>1. /\ sendmail \notin {"none", "zombie"}
          /\ sendmail' \in {"close", "exec", "reading", "zombie"}
          /\ readers' \in {readers, readers \ {"S"}} /\ writers' \in {writers, writers \ {"S"}}
          /\ UNCHANGED <<pipe, got, accepted>>
      BY <1>2 DEF Dup, CloseEnds, Exec, ChildExits, CloseAll
    <2>2. TypeOK'
      BY <1>1, <2>1 DEF PipeInv, TypeOK
    <2>3. worker \in Holding => "W" \in readers' /\ "W" \in writers'
      BY <2>1 DEF PipeInv
    <2> QED BY <1>1, <2>1, <2>2, <2>3 DEF PipeInv
  <1>3. CASE Read
    <2>1. sendmail = "reading" /\ pipe > 0 /\ pipe' = pipe - 1 /\ got' = got + 1
          /\ UNCHANGED <<sendmail, readers, writers, accepted>>
      BY <1>3 DEF Read
    <2>2. pipe' \in 0..Capacity /\ got' \in Nat /\ pipe' + got' = pipe + got /\ worker \notin Before /\ ~accepted
      BY <2>1, SizesAssumption DEF PipeInv, TypeOK
    <2> QED BY <1>1, <2>1, <2>2 DEF PipeInv, TypeOK, Before, Holding
  <1>4. CASE EndOfFile
    <2>1. sendmail = "reading" /\ pipe = 0 /\ writers = {} /\ accepted' = (got > 0) /\ sendmail' = "zombie"
          /\ CloseAll("S") /\ UNCHANGED <<pipe, got>>
      BY <1>4 DEF EndOfFile
    <2>2. worker \notin Holding /\ worker \notin {"pipe", "fork"}
      BY <2>1 DEF PipeInv, Holding
    <2>3. got > 0 => got = Built(stored)
      BY <2>1 DEF PipeInv, TypeOK
    <2>4. readers' \subseteq Process /\ writers' \subseteq Process /\ accepted' \in BOOLEAN
      BY <2>1 DEF CloseAll, PipeInv, TypeOK
    <2> QED BY <1>1, <2>1, <2>2, <2>3, <2>4 DEF PipeInv, TypeOK
  <1> QED BY <1>2, <1>3, <1>4 DEF SendmailStep

LEMMA PipeInvariance == ASSUME Fits PROVE Spec => []PipeInv
  <1>1. PipeInv /\ [Next]_vars => PipeInv'
    <2> SUFFICES ASSUME PipeInv, [Next]_vars PROVE PipeInv'
      OBVIOUS
    <2>1. CASE UNCHANGED vars
      BY <2>1 DEF vars, PipeInv, TypeOK, Built
    <2> QED BY <2>1, PipeWorker, PipeFault, PipeSendmail DEF Next, Ended
  <1> QED BY <1>1, PipeInit, PTL DEF Spec

(***************************************************************************)
(* Every variable of a delivery keeps its type; the pipe is never          *)
(* overfilled.                                                             *)
(***************************************************************************)
THEOREM DeliveryTypes == ASSUME Fits PROVE Spec => []TypeOK
  BY PipeInvariance, PTL DEF PipeInv

(***************************************************************************)
(* Sendmail takes a message whole or not at all, wherever the worker or    *)
(* sendmail itself is ended.                                               *)
(***************************************************************************)
THEOREM TakenWhole == ASSUME Fits PROVE Spec => []AllOrNothing
  <1>1. PipeInv => AllOrNothing
    BY DEF PipeInv, AllOrNothing
  <1> QED BY <1>1, PipeInvariance, PTL

(***************************************************************************)
(* A worker about to write still holds the read end: no SIGPIPE.           *)
(***************************************************************************)
THEOREM WritesHaveReader == ASSUME Fits PROVE Spec => []WriteHasReader
  <1>1. PipeInv => WriteHasReader
    BY DEF PipeInv, WriteHasReader, Holding
  <1> QED BY <1>1, PipeInvariance, PTL

(***************************************************************************)
(* A worker reports success for what a sendmail has been given whole, an   *)
(* error of the pipe for what will never be sent, and the error it has for *)
(* fork() and waitpid() for nothing given or for everything, whoever is    *)
(* killed and whichever calls fail.                                        *)
(***************************************************************************)
THEOREM ReportsTrue == ASSUME Fits PROVE Spec => []ReportsAreTrue
  <1>1. Init => ReportInv
    BY DEF Init, ReportInv, ReportsAreTrue
  <1>2. ASSUME PipeInv, ReportInv, PipeInv', [Next]_vars PROVE ReportInv'
    <2>0. Built(stored)' = Built(stored)
      BY <1>2 DEF Next, vars, WorkerStep, WorkerFault, SendmailStep, Ended, Built, Pipe, Fork, buildMessageOut, Write,
         Close, Wait, PipeFails, ForkFails, BuildFails, WriteFails, WaitFails, WorkerKilled, Dup, CloseEnds, Exec,
         Read, EndOfFile, ChildExits
    <2>1. CASE Pipe \/ Fork \/ buildMessageOut \/ WorkerKilled
      BY <1>2, <2>0, <2>1
      DEF Pipe, Fork, buildMessageOut, WorkerKilled, ReportInv, ReportsAreTrue, Given, Over
    <2>2. CASE Write
      <3>1. Given' = Built(stored)
        <4>1. worker = "write" /\ pipe' = pipe + Min2(left, Capacity - pipe) /\ left = Built(stored) /\ pipe = 0 /\ got = 0 /\ got' = got
          BY <1>2, <2>2 DEF Write, PipeInv, Before
        <4>2. Built(stored) \in Nat /\ Min2(left, Capacity - pipe) = left
          BY <1>2, <4>1, BuiltFits, WriteNeverSleeps DEF PipeInv, TypeOK
        <4> QED BY <4>1, <4>2 DEF Given
      <3>2. UNCHANGED <<result, sendmail, accepted>> /\ worker' # "returned" /\ worker = "write"
        BY <2>2 DEF Write
      <3> QED BY <1>2, <2>0, <3>1, <3>2 DEF ReportInv, ReportsAreTrue
    <2>3. CASE Close \/ Wait \/ WaitFails
      BY <1>2, <2>0, <2>3 DEF Close, Wait, WaitFails, Return, ReportInv, ReportsAreTrue, Given
    <2>4. CASE PipeFails \/ ForkFails \/ BuildFails \/ WriteFails
      <3>1. Given = 0 /\ ~accepted
        BY <1>2, <2>4, BuiltFits DEF PipeFails, ForkFails, BuildFails, WriteFails, PipeInv, TypeOK, Before, Given
      <3>2. /\ worker' = "returned" /\ UNCHANGED <<sendmail, pipe, got, accepted>>
            /\ \/ result' \in {"ERR_PROC_PIPE_CREATE", "ERR_PROC_PIPE_WRITE"}
               \/ result' = "ERR_PROC_FORK" /\ worker = "fork"
        BY <2>4 DEF PipeFails, ForkFails, BuildFails, WriteFails, Return
      <3>3. worker = "fork" => sendmail = "none"
        BY <1>2 DEF PipeInv
      <3> QED BY <1>2, <2>0, <3>1, <3>2, <3>3 DEF ReportInv, ReportsAreTrue, Given
    <2>5. CASE Dup \/ CloseEnds \/ Exec \/ ChildExits
      BY <1>2, <2>0, <2>5 DEF Dup, CloseEnds, Exec, ChildExits, ReportInv, ReportsAreTrue, Given
    <2>6. CASE Read
      <3>1. Given' = Given /\ Given # 0
        BY <1>2, <2>6, SizesAssumption DEF Read, PipeInv, TypeOK, Given
      <3>2. sendmail = "reading" /\ UNCHANGED <<sendmail, worker, result, accepted>>
        BY <2>6 DEF Read
      <3> QED BY <1>2, <2>0, <3>1, <3>2 DEF ReportInv, ReportsAreTrue
    <2>7. CASE EndOfFile
      <3>1. Given = 0 => ~accepted'
        <4>1. Given = 0 => ~(got > 0)
          BY <1>2, SizesAssumption DEF PipeInv, TypeOK, Given
        <4>2. accepted' = (got > 0)
          BY <2>7 DEF EndOfFile
        <4> QED BY <4>1, <4>2
      <3>2. sendmail = "reading" /\ sendmail' = "zombie" /\ UNCHANGED <<pipe, got, result, worker>>
        BY <2>7 DEF EndOfFile
      <3> QED BY <1>2, <2>0, <3>1, <3>2 DEF ReportInv, ReportsAreTrue, Given
    <2>8. CASE UNCHANGED vars
      BY <1>2, <2>0, <2>8 DEF vars, ReportInv, ReportsAreTrue, Given
    <2> QED BY <1>2, <2>1, <2>2, <2>3, <2>4, <2>5, <2>6, <2>7, <2>8 DEF Next, WorkerStep, WorkerFault, SendmailStep, Ended
  <1>3. ReportInv => ReportsAreTrue
    BY DEF ReportInv
  <1> QED BY <1>1, <1>2, <1>3, PipeInvariance, PTL DEF Spec
=============================================================================

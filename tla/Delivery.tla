------------------------------ MODULE Delivery ------------------------------
(***************************************************************************)
(* spawnProcessOutQueue (msgdelivery.c): the worker of one EMAILOUT row.   *)
(* It opens a pipe, forks, and the fork becomes sendmail reading the pipe  *)
(* on its standard input, while the worker builds the message, writes it,  *)
(* closes its end and waits.  Whether both processes end depends on who    *)
(* still holds which end of the pipe, so descriptors are counted: readers  *)
(* and writers are the processes that have the end open.                   *)
(*                                                                         *)
(* Bytes are counted in units; the bytes themselves do not matter.         *)
(* Faults: "pipe", "fork", "dup", "exec", "write", "wait" (the call        *)
(* fails), "sendmail" (it ends before it read everything), "kill" (the     *)
(* worker is killed: resource limits, launch.sh, a null pointer in         *)
(* buildMessageOut).                                                       *)
(***************************************************************************)
EXTENDS Naturals

CONSTANTS
  Capacity,     \* bytes a pipe holds
  Buffer,       \* bytes buildMessageOut lets a message have
  Lengths,      \* lengths a stored message may have, headers included
  Faults

ASSUME SizesAssumption ==
  /\ Capacity \in Nat \ {0}
  /\ Buffer \in Nat \ {0}
  /\ Lengths \subseteq Nat \ {0}
ASSUME FaultsAssumption ==
  Faults \subseteq {"pipe", "fork", "dup", "exec", "write", "wait", "sendmail", "kill"}

VARIABLES
  worker,     \* where the worker is
  sendmail,   \* where the forked process is
  readers,    \* processes with the read end open
  writers,    \* processes with the write end open
  pipe,       \* bytes in the pipe
  stored,     \* length of the message in the database
  left,       \* bytes the worker has still to write
  got,        \* bytes sendmail has read
  accepted,   \* sendmail read to the end and took the message
  result      \* what the worker returns to runQueueThreads

vars == <<worker, sendmail, readers, writers, pipe, stored, left, got, accepted, result>>

Process == {"W", "S"}
Over == {"returned", "killed"}

Init ==
  /\ worker = "pipe"
  /\ sendmail = "none"
  /\ readers = {} /\ writers = {}
  /\ pipe = 0
  /\ stored \in Lengths
  /\ left = 0
  /\ got = 0
  /\ accepted = FALSE
  /\ result = "none"

Min2(a, b) == IF a < b THEN a ELSE b
-----------------------------------------------------------------------------
(***************************************************************************)
(* The worker.                                                             *)
(***************************************************************************)
Return(r) == worker' = "returned" /\ result' = r

\* Whatever a process holds is closed when it ends.
CloseAll(p) == readers' = readers \ {p} /\ writers' = writers \ {p}

PipeFails ==
  /\ "pipe" \in Faults
  /\ worker = "pipe"
  /\ Return("ERR_PROC_PIPE_CREATE")
  /\ UNCHANGED <<sendmail, readers, writers, pipe, stored, left, got, accepted>>

Pipe ==
  /\ worker = "pipe"
  /\ worker' = "fork"
  /\ readers' = {"W"} /\ writers' = {"W"}
  /\ UNCHANGED <<sendmail, pipe, stored, left, got, accepted, result>>

ForkFails ==
  /\ "fork" \in Faults
  /\ worker = "fork"
  /\ CloseAll("W")
  /\ Return("ERR_PROC_FORK")
  /\ UNCHANGED <<sendmail, pipe, stored, left, got, accepted>>

\* A worker that closes its read end, as the line commented out would.
ForkClosingReader ==
  /\ worker = "fork"
  /\ worker' = "build"
  /\ sendmail' = "dup"
  /\ readers' = {"S"} /\ writers' = Process
  /\ UNCHANGED <<pipe, stored, left, got, accepted, result>>

\* Both processes have both ends; the worker keeps its read end to the last.
Fork ==
  /\ worker = "fork"
  /\ worker' = "build"
  /\ sendmail' = "dup"
  /\ readers' = Process /\ writers' = Process
  /\ UNCHANGED <<pipe, stored, left, got, accepted, result>>

\* A message that is sent as long as it is.
BuiltWhole(n) == n

\* snprintf cuts the message at the size of the buffer.
Built(n) == Min2(n, Buffer)

buildMessageOut ==
  /\ worker = "build"
  /\ left' = Built(stored)
  /\ worker' = "write"
  /\ UNCHANGED <<sendmail, readers, writers, pipe, stored, got, accepted, result>>

\* No such message, protocol row or message type.  The child is not waited for.
BuildFails ==
  /\ worker = "build"
  /\ CloseAll("W")
  /\ Return("ERR_PROC_PIPE_WRITE")
  /\ UNCHANGED <<sendmail, pipe, stored, left, got, accepted>>

\* A worker that writes the headers and the body apart.
WriteByParts ==
  /\ worker = "write"
  /\ pipe < Capacity
  /\ pipe' = pipe + 1
  /\ left' = left - 1
  /\ worker' = IF left' = 0 THEN "close" ELSE "write"
  /\ UNCHANGED <<sendmail, readers, writers, stored, got, accepted, result>>

\* A worker that writes blocks of the size of the pipe.
WriteBlocks ==
  /\ worker = "write"
  /\ pipe = 0
  /\ pipe' = Capacity
  /\ left' = left - Capacity
  /\ worker' = IF left' = 0 THEN "close" ELSE "write"
  /\ UNCHANGED <<sendmail, readers, writers, stored, got, accepted, result>>

\* write() copies what fits and sleeps until the rest does.
Write ==
  LET n == Min2(left, Capacity - pipe) IN
  /\ worker = "write"
  /\ n > 0
  /\ pipe' = pipe + n
  /\ left' = left - n
  /\ worker' = IF left' = 0 THEN "close" ELSE "write"
  /\ UNCHANGED <<sendmail, readers, writers, stored, got, accepted, result>>

\* -1: nothing was written, and the child is not waited for.
WriteFails ==
  /\ "write" \in Faults
  /\ worker = "write"
  /\ CloseAll("W")
  /\ Return("ERR_PROC_PIPE_WRITE")
  /\ UNCHANGED <<sendmail, pipe, stored, left, got, accepted>>

Close ==
  /\ worker = "close"
  /\ worker' = "wait"
  /\ writers' = writers \ {"W"}
  /\ UNCHANGED <<sendmail, readers, pipe, stored, left, got, accepted, result>>

\* A worker that does not wait for the process it forked.
NotWaited ==
  /\ worker = "wait"
  /\ CloseAll("W")
  /\ Return("ERR_NONE")
  /\ UNCHANGED <<sendmail, pipe, stored, left, got, accepted>>

\* waitpid(pid, NULL, 0): how the child ended is not asked.
Wait ==
  /\ worker = "wait"
  /\ sendmail = "zombie"
  /\ CloseAll("W")
  /\ Return("ERR_NONE")
  /\ UNCHANGED <<sendmail, pipe, stored, left, got, accepted>>

\* waitpid gives -1, at once or when the child has ended.  The error is that
\* of a failed fork, and sendmail has the whole message.
WaitFails ==
  /\ "wait" \in Faults
  /\ worker = "wait"
  /\ CloseAll("W")
  /\ Return("ERR_PROC_FORK")
  /\ UNCHANGED <<sendmail, pipe, stored, left, got, accepted>>

WorkerKilled ==
  /\ "kill" \in Faults
  /\ worker \notin Over
  /\ worker' = "killed"
  /\ CloseAll("W")
  /\ UNCHANGED <<sendmail, pipe, stored, left, got, accepted, result>>
-----------------------------------------------------------------------------
(***************************************************************************)
(* The forked process: dup2, close both, execl, then sendmail itself       *)
(* (external), which reads to the end of file and takes what it read if    *)
(* there was anything.                                                     *)
(***************************************************************************)
Dup ==
  /\ sendmail = "dup"
  /\ sendmail' = "close"
  /\ UNCHANGED <<worker, readers, writers, pipe, stored, left, got, accepted, result>>

\* A child that keeps the write end it inherited.
KeepWriteEnd ==
  /\ sendmail = "close"
  /\ sendmail' = "exec"
  /\ UNCHANGED <<worker, readers, writers, pipe, stored, left, got, accepted, result>>

\* Both descriptors are closed; standard input still is the read end.
CloseEnds ==
  /\ sendmail = "close"
  /\ sendmail' = "exec"
  /\ writers' = writers \ {"S"}
  /\ UNCHANGED <<worker, readers, pipe, stored, left, got, accepted, result>>

Exec ==
  /\ sendmail = "exec"
  /\ sendmail' = "reading"
  /\ UNCHANGED <<worker, readers, writers, pipe, stored, left, got, accepted, result>>

\* exit(ERR_PROC_PIPE_CREATE), exit(ERR_EXEC_MAILOUT), or sendmail gives up.
ChildExits ==
  /\ \/ sendmail = "dup" /\ "dup" \in Faults
     \/ sendmail = "exec" /\ "exec" \in Faults
     \/ sendmail = "reading" /\ "sendmail" \in Faults
  /\ sendmail' = "zombie"
  /\ CloseAll("S")
  /\ UNCHANGED <<worker, pipe, stored, left, got, accepted, result>>

Read ==
  /\ sendmail = "reading"
  /\ pipe > 0
  /\ pipe' = pipe - 1
  /\ got' = got + 1
  /\ UNCHANGED <<worker, sendmail, readers, writers, stored, left, accepted, result>>

EndOfFile ==
  /\ sendmail = "reading"
  /\ pipe = 0
  /\ writers = {}
  /\ accepted' = (got > 0)
  /\ sendmail' = "zombie"
  /\ CloseAll("S")
  /\ UNCHANGED <<worker, pipe, stored, left, got, result>>
-----------------------------------------------------------------------------
WorkerStep == Pipe \/ Fork \/ buildMessageOut \/ Write \/ Close \/ Wait

WorkerFault == PipeFails \/ ForkFails \/ BuildFails \/ WriteFails \/ WaitFails \/ WorkerKilled

SendmailStep == Dup \/ CloseEnds \/ Exec \/ Read \/ EndOfFile

\* Both processes have ended.
Ended == worker \in Over /\ sendmail \in {"none", "zombie"} /\ UNCHANGED vars

Next == WorkerStep \/ WorkerFault \/ SendmailStep \/ ChildExits \/ Ended

Spec == Init /\ [][Next]_vars

\* The kernel schedules both processes, and sendmail reads while it can.  Faults
\* are not fair: no process ends because one happens.
FairSpec == Spec /\ WF_vars(WorkerStep) /\ WF_vars(SendmailStep)
-----------------------------------------------------------------------------
TypeOK ==
  /\ worker \in {"pipe", "fork", "build", "write", "close", "wait"} \cup Over
  /\ sendmail \in {"none", "dup", "close", "exec", "reading", "zombie"}
  /\ readers \subseteq Process /\ writers \subseteq Process
  /\ pipe \in 0..Capacity
  /\ stored \in Lengths
  /\ left \in Nat /\ got \in Nat
  /\ accepted \in BOOLEAN
  /\ result \in {"none", "ERR_NONE", "ERR_PROC_PIPE_CREATE", "ERR_PROC_FORK", "ERR_PROC_PIPE_WRITE"}

(***************************************************************************)
(* Sendmail is never left with part of what the worker built, although the *)
(* worker may be killed anywhere: the end of file means to it that the     *)
(* message is complete.                                                    *)
(***************************************************************************)
AllOrNothing == accepted => got = Built(stored)

(***************************************************************************)
(* A write always has a reader, the worker itself, so SIGPIPE never ends a *)
(* worker half way, however early the child exits.                         *)
(***************************************************************************)
WriteHasReader == worker = "write" => readers # {}

(***************************************************************************)
(* The worker always ends: it never sleeps in write() behind a dead        *)
(* reader, nor in waitpid() for a sendmail that waits for the worker.      *)
(***************************************************************************)
WorkerEnds == <>(worker \in Over)

(***************************************************************************)
(* The forked process always ends, also when the worker was killed or      *)
(* returned without waiting: nobody keeps the write end open.              *)
(***************************************************************************)
SendmailEnds == (sendmail # "none") ~> (sendmail = "zombie")

(***************************************************************************)
(* What the result of a worker says of the mail, "SUCCESS = ERR_NONE,      *)
(* FAILURE = ERR_* that took place".  After ERR_NONE a sendmail was given  *)
(* the whole message and has ended; whether it took the message nobody     *)
(* asks.  After an error of the pipe nothing was given and nothing will    *)
(* be sent.  ERR_PROC_FORK is the error of fork() and of waitpid(): there  *)
(* is no sendmail, or it was given the whole message and may yet send it.  *)
(* No result stands for a message half given.                              *)
(***************************************************************************)
Given == pipe + got

ReportsAreTrue ==
  /\ result = "ERR_NONE" => sendmail = "zombie" /\ Given = Built(stored)
  /\ result \in {"ERR_PROC_PIPE_CREATE", "ERR_PROC_PIPE_WRITE"} => Given = 0 /\ ~accepted
  /\ result = "ERR_PROC_FORK" => IF sendmail = "none" THEN Given = 0 ELSE Given = Built(stored)
=============================================================================

----------------------------- MODULE QueueRunner -----------------------------
(***************************************************************************)
(* runQueueThreads (msgqueue.c): the boss/worker loop both daemons run,    *)
(* rulerunner on the EMAILIN rows and msgdelivery on the EMAILOUT rows.    *)
(* Several bosses may serve one type (launch.sh starts two rulerunner and  *)
(* three msgdelivery); they share nothing but the message_queue table.     *)
(*                                                                         *)
(* A boss walks its slots twice per round: the reap loop collects children *)
(* that ended and marks their rows DONE, the spawn loop gives each empty   *)
(* slot an entry, claims the row, and forks a child to work on it.  Every  *)
(* SQL statement and every system call is a step of its own, so bosses,    *)
(* children and mail injectors interleave between any two of them.         *)
(*                                                                         *)
(* Faults names what may go wrong in a behaviour:                          *)
(*   "fork"   fork() fails                                                 *)
(*   "conn"   a boss loses its database connection (it never reconnects)   *)
(*   "boss"   a boss is killed; launch.sh may start it again               *)
(*   "setup"  a child ends before its worker runs (no connection, no       *)
(*            sandbox, or killed)                                          *)
(***************************************************************************)
EXTENDS MessageQueue

CONSTANTS
  Boss,        \* the running daemons of this type
  Pid,         \* process ids the kernel can give to children
  NumThreads,  \* worker slots per boss
  EMPTY,       \* QUEUE_THREAD_SLOT_EMPTY: -1, also what a failed fork() returns
  Faults       \* the faults that may happen

ASSUME BossAssumption == NULL \notin Boss
ASSUME PidAssumption == EMPTY \notin Pid
ASSUME NumThreadsAssumption == NumThreads \in Nat \ {0}
ASSUME FaultsAssumption == Faults \subseteq {"fork", "conn", "boss", "setup"}

Slot == 1..NumThreads

VARIABLES
  queue,    \* the message_queue table: Entry -> RowState
  pc,       \* pc[b]: where boss b is in its loop, "down" when it is not running
  slot,     \* slot[b]: the loop variable i
  threads,  \* threads[b][i]: Queuerunner_Thread, with its entry's queueState
  conn,     \* conn[b]: whether _myconn of the boss still answers
  proc,     \* proc[p]: the child process of pid p
  runs      \* history: how many times worker() was called for an entry

vars == <<queue, pc, slot, threads, conn, proc, runs>>

Thread == [id : Pid \cup {EMPTY}, qentry : Entry \cup {NULL}, queueState : RowState]
NoThread == [id |-> EMPTY, qentry |-> NULL, queueState |-> "ABSENT"]

\* parent is NULL for an orphan, which init reaps.
Process == [state : {"free", "forked", "working", "zombie"},
            parent : Boss \cup {NULL},
            entry : Entry \cup {NULL}]
NoProcess == [state |-> "free", parent |-> NULL, entry |-> NULL]

Alive(p) == proc[p].state \in {"forked", "working"}
-----------------------------------------------------------------------------
Init ==
  /\ queue = [e \in Entry |-> "ABSENT"]
  /\ pc = [b \in Boss |-> "reap"]
  /\ slot = [b \in Boss |-> 1]
  /\ threads = [b \in Boss |-> [i \in Slot |-> NoThread]]
  /\ conn = [b \in Boss |-> TRUE]
  /\ proc = [p \in Pid |-> NoProcess]
  /\ runs = [e \in Entry |-> 0]

Current(b) == threads[b][slot[b]]

SetCurrent(b, t) == threads' = [threads EXCEPT ![b][slot[b]] = t]

\* A loop that runs to i <= QUEUE_RUNNER_THREADS.
AdvancePast(b, here, there) ==
  LET last == slot[b] > NumThreads IN
  /\ slot' = [slot EXCEPT ![b] = IF last THEN 1 ELSE @ + 1]
  /\ pc' = [pc EXCEPT ![b] = IF last THEN there ELSE here]

\* i++ in the loop called here; after the last slot the loop called there.
Advance(b, here, there) ==
  LET last == slot[b] = NumThreads IN
  /\ slot' = [slot EXCEPT ![b] = IF last THEN 1 ELSE @ + 1]
  /\ pc' = [pc EXCEPT ![b] = IF last THEN there ELSE here]

\* A mail injector or a worker adds a row (insertQueueEntry).
Insert(e) ==
  /\ queue[e] = "ABSENT"
  /\ queue' = insertQueueEntry(queue, e)
  /\ UNCHANGED <<pc, slot, threads, conn, proc, runs>>
-----------------------------------------------------------------------------
(***************************************************************************)
(* The reap loop.                                                          *)
(***************************************************************************)
\* A waitpid() result that is taken for an end without looking at it.
AlwaysEnded(b, p) == TRUE

\* waitpid(p, ..., WNOHANG) # 0: the child is a zombie, or not ours (ECHILD).
Ended(b, p) == proc[p].parent # b \/ ~Alive(p)

Reapable(b) == Current(b).id # EMPTY /\ Ended(b, Current(b).id)

SkipReap(b) ==
  /\ pc[b] = "reap"
  /\ ~Reapable(b)
  /\ Advance(b, "reap", "spawn")
  /\ UNCHANGED <<queue, threads, conn, proc, runs>>

\* A reap loop that frees the slot of an ended child but leaves its row alone.
ReapWithoutDone(b) ==
  /\ pc[b] = "reap"
  /\ Reapable(b)
  /\ proc' = [proc EXCEPT ![Current(b).id] = NoProcess]
  /\ SetCurrent(b, NoThread)
  /\ Advance(b, "reap", "spawn")
  /\ UNCHANGED <<queue, conn, runs>>

\* The result of the UPDATE is not looked at: the slot is freed regardless.
\* Waiting for a zombie of ours removes it.
Reap(b) ==
  LET t == Current(b) IN
  /\ pc[b] = "reap"
  /\ Reapable(b)
  /\ queue' = IF conn[b] THEN setQueueEntryState(queue, t.qentry, t.queueState, "DONE") ELSE queue
  /\ proc' = IF proc[t.id].parent = b /\ ~Alive(t.id) THEN [proc EXCEPT ![t.id] = NoProcess] ELSE proc
  /\ SetCurrent(b, NoThread)
  /\ Advance(b, "reap", "spawn")
  /\ UNCHANGED <<conn, runs>>
-----------------------------------------------------------------------------
(***************************************************************************)
(* The spawn loop: select, claim, fork.                                    *)
(***************************************************************************)
\* A slot that is filled whether or not a child runs in it.
AnySlot(t) == TRUE

\* "Don't want to replace existing threads"
SlotFree(t) == t.id = EMPTY

SkipSpawn(b) ==
  /\ pc[b] = "spawn"
  /\ ~SlotFree(Current(b))
  /\ Advance(b, "spawn", "reap")
  /\ UNCHANGED <<queue, threads, conn, proc, runs>>

\* Nothing to do, or the query failed: qentry becomes NULL.
SelectNothing(b) ==
  /\ pc[b] = "spawn"
  /\ SlotFree(Current(b))
  /\ conn[b] => NULL \in getQueueEntryJustinNotRunning(queue)
  /\ SetCurrent(b, [Current(b) EXCEPT !.qentry = NULL])
  /\ Advance(b, "spawn", "reap")
  /\ UNCHANGED <<queue, conn, proc, runs>>

Select(b, e) ==
  /\ pc[b] = "spawn"
  /\ SlotFree(Current(b))
  /\ conn[b]
  /\ e \in getQueueEntryJustinNotRunning(queue)
  /\ SetCurrent(b, [Current(b) EXCEPT !.qentry = e, !.queueState = "JUSTIN"])
  /\ pc' = [pc EXCEPT ![b] = "claim"]
  /\ UNCHANGED <<queue, slot, conn, proc, runs>>

\* The claim succeeds: exactly one row changed.
Claim(b) ==
  LET t == Current(b) IN
  /\ pc[b] = "claim"
  /\ conn[b]
  /\ StateMatches(queue, t.qentry, t.queueState)
  /\ queue' = setQueueEntryState(queue, t.qentry, t.queueState, "PROCESSING")
  /\ SetCurrent(b, [t EXCEPT !.queueState = "PROCESSING"])
  /\ pc' = [pc EXCEPT ![b] = "fork"]
  /\ UNCHANGED <<slot, conn, proc, runs>>

\* Another boss was faster, or the connection is gone: the slot stays EMPTY.
ClaimFails(b) ==
  LET t == Current(b) IN
  /\ pc[b] = "claim"
  /\ conn[b] => ~StateMatches(queue, t.qentry, t.queueState)
  /\ Advance(b, "spawn", "reap")
  /\ UNCHANGED <<queue, threads, conn, proc, runs>>

\* The server changes the row, the connection breaks before the answer.
ClaimAnswerLost(b) ==
  LET t == Current(b) IN
  /\ "conn" \in Faults
  /\ pc[b] = "claim"
  /\ conn[b]
  /\ queue' = setQueueEntryState(queue, t.qentry, t.queueState, "PROCESSING")
  /\ conn' = [conn EXCEPT ![b] = FALSE]
  /\ Advance(b, "spawn", "reap")
  /\ UNCHANGED <<threads, proc, runs>>

\* A boss that forgets the pid of the child it forked.
ForkUntracked(b, p) ==
  /\ pc[b] = "fork"
  /\ proc[p].state = "free"
  /\ proc' = [proc EXCEPT ![p] = [state |-> "forked", parent |-> b, entry |-> Current(b).qentry]]
  /\ SetCurrent(b, NoThread)
  /\ Advance(b, "spawn", "reap")
  /\ UNCHANGED <<queue, conn, runs>>

Fork(b, p) ==
  LET t == Current(b) IN
  /\ pc[b] = "fork"
  /\ proc[p].state = "free"
  /\ proc' = [proc EXCEPT ![p] = [state |-> "forked", parent |-> b, entry |-> t.qentry]]
  /\ SetCurrent(b, [t EXCEPT !.id = p])
  /\ Advance(b, "spawn", "reap")
  /\ UNCHANGED <<queue, conn, runs>>

\* fork() returns -1, which is EMPTY: the slot is free again, the row is not.
ForkFails(b) ==
  /\ "fork" \in Faults
  /\ pc[b] = "fork"
  /\ SetCurrent(b, [Current(b) EXCEPT !.id = EMPTY])
  /\ Advance(b, "spawn", "reap")
  /\ UNCHANGED <<queue, conn, proc, runs>>
-----------------------------------------------------------------------------
(***************************************************************************)
(* The child.                                                              *)
(***************************************************************************)
\* An ended child stays a zombie for its boss; init collects orphans at once.
Exit(p) ==
  proc' = [proc EXCEPT ![p] = IF @.parent = NULL THEN NoProcess ELSE [@ EXCEPT !.state = "zombie"]]

\* dbConnect and putInSandbox succeeded: worker(qentry) is called.
ChildStarts(p) ==
  /\ proc[p].state = "forked"
  /\ proc' = [proc EXCEPT ![p].state = "working"]
  /\ runs' = [runs EXCEPT ![proc[p].entry] = @ + 1]
  /\ UNCHANGED <<queue, pc, slot, threads, conn>>

ChildSetupFails(p) ==
  /\ "setup" \in Faults
  /\ proc[p].state = "forked"
  /\ Exit(p)
  /\ UNCHANGED <<queue, pc, slot, threads, conn, runs>>

\* worker() returned, or a handler, a limit or a signal ended the process.
ChildEnds(p) ==
  /\ proc[p].state = "working"
  /\ Exit(p)
  /\ UNCHANGED <<queue, pc, slot, threads, conn, runs>>
-----------------------------------------------------------------------------
(***************************************************************************)
(* Faults of the boss.                                                     *)
(***************************************************************************)
ConnLost(b) ==
  /\ "conn" \in Faults
  /\ pc[b] # "down"
  /\ conn[b]
  /\ conn' = [conn EXCEPT ![b] = FALSE]
  /\ UNCHANGED <<queue, pc, slot, threads, proc, runs>>

\* The children of a dead boss become orphans and go on working.
BossDies(b) ==
  /\ "boss" \in Faults
  /\ pc[b] # "down"
  /\ pc' = [pc EXCEPT ![b] = "down"]
  /\ proc' = [p \in Pid |->
                IF proc[p].parent # b THEN proc[p]
                ELSE IF Alive(p) THEN [proc[p] EXCEPT !.parent = NULL]
                ELSE NoProcess]
  /\ UNCHANGED <<queue, slot, threads, conn, runs>>

\* launch.sh again: new memory, a new connection; the table is as it was left.
BossStarts(b) ==
  /\ pc[b] = "down"
  /\ pc' = [pc EXCEPT ![b] = "reap"]
  /\ slot' = [slot EXCEPT ![b] = 1]
  /\ threads' = [threads EXCEPT ![b] = [i \in Slot |-> NoThread]]
  /\ conn' = [conn EXCEPT ![b] = TRUE]
  /\ UNCHANGED <<queue, proc, runs>>
-----------------------------------------------------------------------------
SpawnStep(b) ==
  \/ SkipSpawn(b)
  \/ SelectNothing(b)
  \/ \E e \in Entry : Select(b, e)
  \/ Claim(b)
  \/ ClaimFails(b)
  \/ ClaimAnswerLost(b)
  \/ \E p \in Pid : Fork(b, p)
  \/ ForkFails(b)

BossStep(b) == SkipReap(b) \/ Reap(b) \/ SpawnStep(b)
ChildStep(p) == ChildStarts(p) \/ ChildSetupFails(p) \/ ChildEnds(p)

Next ==
  \/ \E e \in Entry : Insert(e)
  \/ \E b \in Boss : BossStep(b) \/ ConnLost(b) \/ BossDies(b) \/ BossStarts(b)
  \/ \E p \in Pid : ChildStep(p)

Spec == Init /\ [][Next]_vars

(***************************************************************************)
(* The kernel schedules every boss and every child; a worker ends because  *)
(* setupLimits gives it a bounded CPU time and every statement is answered *)
(* or fails.  Nothing says that mail keeps arriving: Insert is not fair.   *)
(***************************************************************************)
Fairness ==
  /\ \A b \in Boss : WF_vars(BossStep(b))
  /\ \A p \in Pid : WF_vars(ChildStep(p))

FairSpec == Spec /\ Fairness
-----------------------------------------------------------------------------
TypeOK ==
  /\ queue \in [Entry -> RowState]
  /\ pc \in [Boss -> {"reap", "spawn", "claim", "fork", "down"}]
  /\ slot \in [Boss -> Slot]
  /\ threads \in [Boss -> [Slot -> Thread]]
  /\ conn \in [Boss -> BOOLEAN]
  /\ proc \in [Pid -> Process]
  /\ runs \in [Entry -> Nat]

(***************************************************************************)
(* No message is acted on twice, whatever the number of bosses and         *)
(* whatever fails: worker() is called at most once per row.  The whole of  *)
(* it rests on the compare-and-set of setQueueEntryState.                  *)
(***************************************************************************)
AtMostOnce == \A e \in Entry : runs[e] <= 1

(***************************************************************************)
(* While a child exists that works, or is about to work, on a row, the row *)
(* is PROCESSING: no boss can claim it, and it is not reported DONE early. *)
(* Orphans of a boss that died are covered too.                            *)
(***************************************************************************)
WorkerOwnsRow == \A p \in Pid : Alive(p) => queue[proc[p].entry] = "PROCESSING"

(***************************************************************************)
(* "only get items where a rule isn't currently getting run for a void"    *)
(* (getQueueEntryJustinNotRunning): two children never work for one void.  *)
(* The select and the claim are two statements, so this needs the boss to  *)
(* be alone on its queue; it then holds through crashes and restarts.      *)
(***************************************************************************)
VoidExclusive ==
  \A p, r \in Pid :
    (Alive(p) /\ Alive(r) /\ VoidOf[proc[p].entry] = VoidOf[proc[r].entry]) => p = r

(***************************************************************************)
(* Slots and children of a running boss correspond one to one, so a slot   *)
(* is never lost, no child is left a zombie for ever, waitpid never fails  *)
(* with ECHILD, and a boss has at most NumThreads children.                *)
(***************************************************************************)
ChildrenTracked ==
  \A b \in Boss : pc[b] # "down" =>
    /\ \A p \in Pid : proc[p].parent = b =>
         \E i \in Slot : threads[b][i].id = p /\ \A j \in Slot \ {i} : threads[b][j].id # p
    /\ \A i \in Slot : threads[b][i].id # EMPTY => proc[threads[b][i].id].parent = b

(***************************************************************************)
(* A row only moves forward, JUSTIN, PROCESSING, DONE, one state at a      *)
(* time, although several bosses with copies of it of different ages       *)
(* update it.                                                              *)
(***************************************************************************)
Successor == [ABSENT |-> "JUSTIN", JUSTIN |-> "PROCESSING", PROCESSING |-> "DONE"]
RowsMoveForward ==
  [][\A e \in Entry : queue'[e] # queue[e] =>
       queue[e] # "DONE" /\ queue'[e] = Successor[queue[e]]]_vars

\* A boss that runs has the row in a slot in use, or is about to fork for it.
HeldBy(b, e) ==
  \/ pc[b] = "fork" /\ Current(b).qentry = e
  \/ pc[b] # "down" /\ \E i \in Slot : threads[b][i].id # EMPTY /\ threads[b][i].qentry = e

Owned(e) == \E b \in Boss : HeldBy(b, e)

(***************************************************************************)
(* No row is left PROCESSING for ever, and its void busy with it: without  *)
(* faults of boss, connection or fork some boss has it in a slot whose     *)
(* child it will collect, or is about to fork for it.  The select never    *)
(* looks at PROCESSING rows again, so this is all that leads out of the    *)
(* state; a row that lost its owner needs an administrator.                *)
(***************************************************************************)
NoRowStranded ==
  Faults \subseteq {"setup"} => \A e \in Entry : queue[e] = "PROCESSING" => Owned(e)

(***************************************************************************)
(* A row stays with the boss that claimed it until that boss reports it    *)
(* DONE, whatever other bosses select, claim and write and whatever        *)
(* becomes of children.  Only the end, the lost connection or the failed   *)
(* fork of the boss itself may leave a PROCESSING row to nobody, or a      *)
(* connection that breaks on the way back from the claim.                  *)
(***************************************************************************)
OnlyFaultsStrand ==
  [][\A e \in Entry : queue'[e] = "PROCESSING" =>
       /\ \A b \in Boss : HeldBy(b, e) =>
            HeldBy(b, e)' \/ pc'[b] = "down" \/ ~conn[b] \/ ForkFails(b)
       /\ queue[e] # "PROCESSING" => \E b \in Boss :
            /\ pc[b] = "claim" /\ Current(b).qentry = e /\ conn[b]
            /\ HeldBy(b, e)' \/ ~conn'[b]]_vars

(***************************************************************************)
(* Without faults of boss, connection or fork, every row that was inserted *)
(* is run and marked DONE, although selections leave busy voids out, see   *)
(* only Window rows, and claims may be lost to other bosses.               *)
(***************************************************************************)
EveryEntryFinishes ==
  \A e \in Entry : queue[e] = "JUSTIN" ~> queue[e] = "DONE"
-----------------------------------------------------------------------------
(***************************************************************************)
(* A boss alone on its queue implements Dispatch.  A message is running    *)
(* while its worker lives; a row whose worker was never called waits, and  *)
(* is dropped when it is marked DONE.                                      *)
(***************************************************************************)
Working(e) == \E p \in Pid : proc[p].state = "working" /\ proc[p].entry = e

PhaseOf(e) ==
  IF queue[e] = "ABSENT" THEN "new"
  ELSE IF runs[e] = 0 THEN IF queue[e] = "DONE" THEN "dropped" ELSE "waiting"
  ELSE IF Working(e) THEN "running" ELSE "finished"

Promise == INSTANCE Dispatch WITH phase <- [e \in Entry |-> PhaseOf(e)]

(***************************************************************************)
(* Every step of the one boss, of its children and of whatever fails is a  *)
(* step of Dispatch or changes nothing a rule can see.                     *)
(***************************************************************************)
DispatchSafety == Promise!Safety
=============================================================================

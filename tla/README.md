# Thwonk: specifications, model checking and proofs

Thwonk (`src/`) runs programmable mailing lists.  A list is a *void*; a void has a
rule, a JavaScript program; a mail sent to the void is stored in a MySQL database,
queued, and handed to the rule, which may keep files and send mails of its own.
This directory holds TLA+ models of the daemons that do so and of the one rule that
comes with them, the TLC runs that check the models, and proofs about the queues,
the files and the deliveries.

Paths below are relative to `src/backend/src` unless they start with `src/`.

  mail server --> mailinject --> [message, message_queue EMAILIN]                      |
select, claim                   rulerunner (boss) --fork--> child: rule in a sandbox
| file.read/write -> [vfile, vfile_rights]                                  | sendMember
[message, message_protocol_mail, message_queue EMAILOUT]                      | select,
claim                   msgdelivery (boss) --fork--> child --pipe--> sendmail

The processes share nothing but the database.  `dbchatter.c` runs with autocommit and
never opens a transaction, so one SQL statement is the unit of atomicity everywhere.

## 1. Inventory

| Component | State | Operations | What is hard | What makes it correct |
|---|---|---|---|---|
| Message queue table (`msgqueue.c`) | `message_queue`: a `queueState` per row | `insertQueueEntry`, `getQueueEntryJustinNotRunning`, `setQueueEntryState` | `LIMIT` without `ORDER BY`, nested selection, compare-and-set by `WHERE queueState` | a row moves JUSTIN, PROCESSING, DONE and never back |
| Boss/worker loop (`runQueueThreads` in `msgqueue.c`; `rulerunner.c`, `msgdelivery.c`, `launch.sh`) | slots of each boss, child processes | reap, select, claim, fork, child's set-up and end | several bosses on one queue, select and claim apart, failing `fork`, lost connections, bosses killed and started beside orphans | no row is worked on twice; one rule of a void at a time; every row is finished, and one being worked on has somebody who will finish it; no slot and no child is lost |
| Pipeline: both queues, the rules between them, the sendmails behind them | the two above, and who wrote and who was given which letter | the loop of each daemon, `sendMember`, a statement that outlives its sender, a sendmail that outlives its worker | steps of four kinds of process in any order, each of which may be killed | a letter is given out at most once, its author is a rule that ran, letters of two mails of a void are not mixed |
| Delivery worker (`msgdelivery.c`, `buildMessageOut` in `message.c`) | a pipe with two ends in two processes | pipe, fork, build, write, close, wait | who still has which end open; kills and failures on both sides | both processes end; sendmail never takes half a message; what the worker reports is so of what it handed over |
| Virtual files (`mngvfile.c`, `file.*` of `jsthwonk.c`) | `vfile`, `vfile_rights` | `insertVFileEntryByName`, `getVFileEntryByName` | several statements per write, no unique key on files nor on names of voids, kills in between, statements executed late | one row per name; what was acknowledged is what is read; a void writes in its own directory only; a file is changed by its owner |
| BumpList (`javascript/bumplist.js`) | the list, a record per person, three counts, two top lists and a page, each a virtual file | subscribe, bump, post, statistics | read-modify-write of many files, a failed read looks like an empty file, records copied to and from the list | list, records and counts tell one story; only the oldest subscriber is bumped |
| Posting (`mngmail.c`, `mailinject.c`, `message.c`, `sendMember` of `jsthwonk.c`) | `message`, `message_protocol_mail`, `message_queue` | `addMailToInQueue`, `insertMessageOutMail`, `deleteMessage` | three inserts without a transaction, clean-up by DELETE against foreign keys, kills and lost answers in between | a queued row has all its worker needs; results told to scripts are true; nothing is left behind |
| Users, voids, rights (`user.c`, `void.c`) | `user`, `filter_user`, `filter_void`, `void_membership` | look-ups, `checkVoidAllowSubmit` | addresses shared by users, several addresses of one user, `LIMIT 1` | who is let in is who the void's right names |
| Sandbox (`sandbox.c`) | rlimits, signal handlers, chroot | `putInSandbox` | ends a worker between any two of its steps | a worker's life is bounded |
| Database access (`dbchatter.c`) | one connection per process, a global error type | `dbQuery`, `dbQueryCountRows`, `dbQueryLastInsertId` | done but not answered, done after the sender is gone; "0 rows changed" for an UPDATE that changes nothing; never reconnects | the outcome a caller sees is that of its own statement |
| Script runner and script API (`jsrunner.c`, `mnglogic.c`, `jsthwonk.c`) | the child's own | load the rule, run it, API calls | the script may call anything in any order | see the tables it changes |
| Mail parsing (`parsemail.c`, `javascript/ParseMail.js`) | none | fields and addresses of a mail | wraps libmailutils, splits header lines | - |
| Strings (`misc.c`), configuration and logging (`setupthang.c`, `codewide.c`, `logerror.c`), build files | none shared | - | bounds of buffers | - |

The hazards of this code, each at the line where it bites and with the properties
that would catch it, are listed under `hazards` in `PROJECT.json`.

## 2. Modules

| Module | Models | Built on |
|---|---|---|
| `MessageQueue` | the table and its three statements as operators | - |
| `QueueRunner` | `runQueueThreads` of any number of bosses, their children, and their faults | `MessageQueue`, `Dispatch` |
| `Dispatch` | abstract: what the queue promises to those who write rules | - |
| `Pipeline` | the EMAILIN and the EMAILOUT queue, joined by rules and sendmails | two instances of `QueueRunner`, `MailingList` |
| `MailingList` | abstract: what the whole promises to the members of a list | `Dispatch` |
| `Delivery` | `spawnProcessOutQueue` and the process it forks | - |
| `VFile` | file.read and file.write of scripts of several voids | - |
| `BumpList` | the rule `bumplist.js`, a call of file.read or file.write a step | - |
| `Directory` | the tables the daemons only read, and the questions asked of them | - |
| `Posting` | mailinject and sendMember, statement by statement | `Directory` |
| `QueueRunnerInvariant` | the inductive invariants | `QueueRunner` |
| `QueueRunnerProofs` | the theorems about a queue, and lemmas on what a step does to workers and fresh rows | `QueueRunnerInvariant`, `TLAPS` |
| `QueueRunnerOwners` | that no row loses its owner | `QueueRunnerProofs` |
| `PipelineProofs`, `DeliveryProofs`, `VFileProofs`, `PostingProofs`, `BumpListProofs` | the theorems about the module of that name | that module; `PipelineProofs` two instances of `QueueRunnerOwners` |
| `BumpListCounts` | the theorems about counts, records and the list | `BumpListProofs` |
| `MCQueueRunner`, `MCPipeline`, `MCVFile`, `MCBumpList`, `MCPosting` | instances for TLC (`Delivery` needs none) | the module of that name |

In each module operators defined just before a definition, with a comment such as "A
selection that forgets ...", are faulty variants of it.  Nothing uses them; putting one
in the place of the definition must make TLC report a named property (`mutants` in
`PROJECT.json`), which shows that the property depends on that piece of code.

### QueueRunner

One action per SQL statement or system call of the loop, so that other bosses,
children and injectors may act between any two.

| Model | Code (`msgqueue.c`) |
|---|---|
| `queue` | column `queueState` of the rows of one `messageType` |
| `threads[b][i]`, `slot[b]` | `threads[i]` (its `qentry` with the queueState the boss remembers), loop variable `i` |
| `pc[b]` | which loop the boss is in; between the select (342) and the claim (346); between the claim and the fork (348) |
| `SkipReap`, `Reap` | lines 308-334: `waitpid(WNOHANG)`, DONE, slot emptied, whatever the UPDATE returned |
| `SkipSpawn`, `SelectNothing`, `Select` | 341-342 |
| `Claim`, `ClaimFails`, `ClaimAnswerLost` | 346 |
| `Fork`, `ForkFails` | 348; -1 is also `QUEUE_THREAD_SLOT_EMPTY`, so a failed fork frees the slot and leaves the row |
| `ChildStarts`, `ChildSetupFails`, `ChildEnds` | 350-366, and every limit and signal of `sandbox.c` |
| `ConnLost` | `dbConnect` is called once per process |
| `BossDies`, `BossStarts` | `launch.sh` |

Left out: the sleep between rounds (it changes no state), the log lines, allocation
failures at start-up, and the columns `track` and `processDate`, which no statement
that is sent compares.  The EMAILIN selection takes any `Window` (8 in the code) JUSTIN
rows, since there is no `ORDER BY`, and only then leaves out the busy voids; the
EMAILOUT one takes the lowest id and does not look at voids.  A pid is given again
as soon as it is free.

### Dispatch

Every message is `new`, `waiting`, `running`, `finished` or `dropped`; it runs at most
once, only while no other of its void runs, and a dropped one never ran.
`QueueRunner!PhaseOf` maps the loop's state to it: a message is running while a child
that called `worker()` for it lives, and dropped when its row is DONE and no worker was
ever called (a child that failed in its set-up).

### Pipeline, MailingList

`In` and `Out` are `QueueRunner` with the state of the EMAILIN and of the EMAILOUT rows;
every step of the pipeline is a step of at most one of them, or joins them:

| Model | Code |
|---|---|
| `SendMember` | a working child of a rulerunner inserts the next EMAILOUT row (`jsthwonk.c`, `mngmail.c:601`); `author` says for which mail |
| `RuleEndsInsert`, `LateInsert` | the child is killed while the server has its INSERT: the row comes later (`unanswered`, `tardy`) |
| `HandOver` | a working child of a msgdelivery has written the last byte and closed the pipe (`msgdelivery.c:194`); from here sendmail needs nobody |
| `SendmailEnds` | sendmail took the message, or refused it |

What happens inside a `SendMember` or a `HandOver` is in `Posting` and `Delivery`.
`MailingList` knows no queue and no process: every mail is treated as `Dispatch` says, a
letter is written by the rule of a mail that runs or, once, has just ended, and is
delivered at most once.

### Delivery

Descriptors are counted as sets of processes that hold an end of the pipe.  The point
is that the worker keeps its *read* end (`close(pipeNode[0])` is commented out): a write
never meets a closed pipe, and in exchange a message longer than what a pipe holds would
put the worker to sleep for ever when sendmail ended early.  It does not because
`buildMessageOut` cuts the message at 10000 characters, less than a Linux pipe of 65536.
`Built` models the cut.  Sendmail (`-i -t`) is external: it reads to the end of file and
takes what it got.  `SIGPIPE` never happens (`WriteHasReader`) and so is not modelled.
Each call may fail: `PipeFails`, `ForkFails`, `BuildFails`, `WriteFails` (-1, and nothing
written) and `WaitFails`.  A write is short only when it slept and was interrupted, and
it never sleeps.  `waitpid` comes after the whole message was handed over and its failure is
reported as `ERR_PROC_FORK`, the error of a failed fork: `ReportsAreTrue` says of that
error only what is so of both, nobody was forked and nothing given, or all was given.

### VFile

A path is a pair of a directory and a base name.  The directory of a write is the name
of its void; `Namings` are the names the voids may have, which need not differ, since
`database/thwonk.sql` has no unique key on them.  `Write` stands for the path check,
then follow the look-up, the two inserts, or the rights check and the UPDATE, each a
step.  A worker may be killed while the server has its statement (`late`), which then is
executed at any later time, also when another script of the void has begun.
`file_read` looks the path up as given.  `getVoidCreatorUserId` reads its row after
freeing it, so it returns the creator or anything else (`CreatorReads`).

Two history variables say what may be promised.  `expected[n]` is the set of contents
file `n` may have after the calls so far.  `disturbed` is the set of directories in which
scripts (or a script and a late statement) overlapped, or a look-up failed: there two
rows of one name may come to be, after which the file is not readable and each write adds
a row.
The queue gives one script at a time to a void as long as there is one rulerunner, but
neither to voids of one name nor beside a late statement.

### BumpList

A call of file.read or file.write is a step; what the script computes between two calls
belongs to the step before.  `file` is the content of the files, `run[s]` the variables of
a run of the rule.  A read may answer -1 (`Reads`), which the script takes for an empty
list, an unknown person, or a count of -1; a write may not be done (`Writes`), which it
never notices; a run may be killed between two calls, and two runs may overlap.
`trouble` remembers which of these happened, so that each property can say what it
needs: some hold whatever happens, some only without overlap, some only in quiet times.
Records are `numPosts`, `numSubscribes`, `numBumps`; a count that could not be read is
-1, which the `+ 1` makes 0, as in the code.

### Posting, Directory

A process is at the statement it will send next: `select` (all the look-ups of
`addMailToInQueue`), `message`, `protocol`, `queue`, `delete`.  mailinject lets one
destination through, so the loop of `addMailToInQueue` has one round.  The only type
`sendMember` accepts is `TJS_MAIL_FROM_ANYTHWONK_MEMBER_TO_THWONK`.  Messages are the
columns other statements use.  `deleteMessage` does nothing to a message a protocol or
queue row refers to (foreign keys of `database/thwonk.sql`).  When the answer of a
statement is lost the connection is gone, so nothing is taken back.  Which queue row
becomes a script, and that it does so once, is `QueueRunner`'s; here any EMAILIN row may.
`abandoned` is a history variable: messages without a queue row whose writer was
killed, cut off, or could not delete them.

## 3. Runs

| Run | Instance | Shows |
|---|---|---|
| `MCFaults` | 2 bosses with 1 slot on EMAILOUT, 3 pids, 3 rows of 2 voids, all faults | `TypeOK`, `AtMostOnce`, `WorkerOwnsRow`, `ChildrenTracked`, `RowsMoveForward`, `OnlyFaultsStrand` |
| `MCOneBoss` | 1 boss with 2 slots on EMAILIN, 3 pids, 3 rows, `Window` 2, all faults | `VoidExclusive`, and the refinement `DispatchSafety` |
| `MCProgress` | 2 bosses with 1 slot on EMAILIN, 2 pids, 3 rows, `Window` 1, failing set-ups, fair | `NoRowStranded`, `EveryEntryFinishes` |
| `MCTwoRunners` | 2 bosses on EMAILIN, no fault | **violates** `VoidExclusive` |
| `MCForkFails` | 1 boss whose fork may fail, fair | **violates** `EveryEntryFinishes` |
| `MCPipeline` | 2 mails of 1 void, 2 letters; 1 rulerunner with 1 slot and 2 pids that may be killed and started again; 1 msgdelivery with 1 slot and 1 pid, fair; late statements | `TypeOK`, `LetterOnce`, `PostsInTurn`, `LettersServed`, and the refinement `KeepsListPromise` |
| `MCDelivery` | all faults, messages shorter than, as long as and longer than the buffer | `TypeOK`, `AllOrNothing`, `WriteHasReader`, `ReportsAreTrue`, `WorkerEnds`, `SendmailEnds` |
| `MCFiles` | 2 workers of one void and 1 of another with the same name or not, all faults | `TypeOK`, `OneRowPerName`, `AcknowledgedIsKept`, `KeptInTheirSpace`, `OwnersChange` |
| `MCFilesOverlap` | 2 scripts of one void, no fault | **violates** `FilesStayReadable` |
| `MCBumpList` | 2 runs at once, 3 mails, 2 faults of any kind, 2 places, 3 persons one of whom is the list itself | `TypeOK`, `NobodyTwice`, `SubscribesCoverBumps`, `CountsNeverShort`, `CountsAddUp`, `FilesAgree`, `OldestIsBumped`, `HistoryKept`, `TopOnlyRises` |
| `MCPosting` | 2 injectors, 1 script, 4 addresses, 9 directories, all faults | `TypeOK`, `QueuedIsComplete`, `PrivateIsPrivate`, `ResultIsTrue`, `ArrivedIsQueued` |
| `MCPostingOrphan` | the queue insert may fail | **violates** `OutgoingIsQueued` |

### Why the bounds are enough

*Queue.* A row is contended by two bosses; three bosses add no step two do not have.
Three rows over two voids give a void with two rows and one with one.  With `Window` 2 a
selection does not see every row; with `Window` 1, in `MCProgress`, it may see the row
of a busy void only and so hide that of an idle one, as 8 rows of busy voids do in the
code.  Two slots are needed for one boss to run two children, which `MCOneBoss` has;
three pids let orphans of a dead boss live beside its new children.  The theorems of
section 5 remove these bounds for everything but progress.  `Insert` happens at any
time, each row once: rows are the only unbounded thing and their number is the bound.

*Pipeline.*  Two mails of one void are what can be mixed; the second pid lets the orphan
of a killed rulerunner post beside the next one's child.  Two letters suffice for one to
come between or after another.  The msgdelivery has no faults here since the refinement
does not depend on them (section 5) and its own faults are `MCFaults`'s.

*Delivery.*  Capacity 4, buffer 3 and lengths 1, 3 and 5 keep the order of the real
numbers, buffer below capacity (10000 < 65536) and messages on both sides of the buffer.

*Files.*  One base name in two directories, absolute and relative, two contents.
`MaxRows` bounds inserts; at the bound an insert may only fail, so a worker may be stuck
there and a late insert is never executed, which safety does not mind.

*BumpList.*  Two places and three persons make everyone leave and come back; three mails
let two overlapping runs follow a third.  Deadlock is not checked: after `MaxMails` mails
the list rests.

*Posting.*  Three message rows: two mails arrive and one is sent, or one arrives and
two are sent.  A mail is only begun when there is room for its row; one that is not
ours is dropped without trace at any time.  The nine directories are every right of a
void with and without the sender's membership, a blocked sender, a void that is not
active, and the sample data of `thwonk.sql`, where two users have one address.

### What the properties leave out

A property that is false under some fault or overlap, because the code does not provide
for it, names that case in its statement, and what the case does is in section 6.
`OneRowPerName`, `AcknowledgedIsKept` and `OwnersChange` leave out directories in which
scripts overlapped or a look-up failed; `KeptInTheirSpace` leaves out nothing.
`CountsNeverShort`, `HistoryKept` and `TopOnlyRises` leave out overlapping scripts of
`bumplist.js`, the first two failed calls too, `CountsAddUp` and `FilesAgree` anything
but quiet times; `NobodyTwice` and `SubscribesCoverBumps` leave out nothing, and
`OldestIsBumped` overlap only.  `NoRowStranded` and `EveryEntryFinishes` leave out
deaths, lost connections and failed forks; `OnlyFaultsStrand` does not.  `AllOrNothing`
is about the message as it was cut.  A hazard lists a property only if the property
speaks of it.

## 4. Fairness

`QueueRunner`, `Pipeline` and `Delivery` have liveness.  `WF(BossStep(b))`: the loop never
blocks (`WNOHANG`, and a statement is answered or fails).  `WF(ChildStep(p))`:
`setupLimits` bounds the CPU time of a worker and its statements end, so it ends;
this is the one external assumption, since a worker that sleeps uses no CPU.  Mail need
not arrive: `Insert` is not fair.  In `Pipeline` only the outgoing daemons and their
workers are fair: `LettersServed` may not depend on what becomes of the rule that posted
a letter or of its rulerunner.  In `Delivery` the kernel runs both processes and
sendmail reads while it can; faults are not fair there.  In `QueueRunner` a fair step is
a call that returns, which may be one that fails, and no liveness run needs it to fail.
No action has strong fairness: a boss that loses a claim selects again in its next
round, and its rival's success is progress.
`EveryEntryFinishes` is stated without faults of bosses, connections and fork because the
code has no recovery: rows they left PROCESSING are never looked at again.
`NoRowStranded` says the safety half of the same: without these faults such a row is in
a slot whose child will be collected, or its boss is about to fork for it.
`OnlyFaultsStrand` is the same step by step and under every fault: what takes a row from
the boss that claimed it, before it is DONE, is that boss's own end, lost connection or
failed fork, never another boss or a child.

## 5. Proofs

TLAPS checks the theorems for every value of the constants, under the named `ASSUME`s
of the modules, which TLC evaluates on every run.

| Module | Theorem | Statement |
|---|---|---|
| `QueueRunnerProofs` | `Invariance` | `Spec => []IInv` |
| | `TypeCorrect` | `Spec => []TypeOK` |
| | `RunAtMostOnce` | `Spec => []AtMostOnce` |
| | `WorkersOwnRows` | `Spec => []WorkerOwnsRow` |
| | `SlotsTrackChildren` | `Spec => []ChildrenTracked` |
| | `RowsOnlyAdvance` | `Spec => RowsMoveForward` |
| | `OneBossIsExclusive` | one boss, EMAILIN: `Spec => []VoidExclusive` |
| | `OneBossKeepsPromise` | one boss, EMAILIN: `Spec => DispatchSafety` |
| `QueueRunnerOwners` | `RowsStayWithBoss` | `Spec => OnlyFaultsStrand` |
| | `RowsKeepOwners` | `Spec => []NoRowStranded` |
| `PipelineProofs` | `TypeCorrect` | `Spec => []TypeOK` |
| | `QueuesKeepOwners` | `Spec => [](In!NoRowStranded /\ Out!NoRowStranded)` |
| | `LettersSentOnce` | `Spec => []LetterOnce` |
| | `OneRunnerPostsInTurn` | one rulerunner: `Spec => []PostsInTurn` |
| | `OneRunnerKeepsListPromise` | one rulerunner: `Spec => KeepsListPromise` |
| `DeliveryProofs` | `DeliveryTypes` | `Buffer <= Capacity`: `Spec => []TypeOK` |
| | `TakenWhole` | `Buffer <= Capacity`: `Spec => []AllOrNothing` |
| | `WritesHaveReader` | `Buffer <= Capacity`: `Spec => []WriteHasReader` |
| | `ReportsTrue` | `Buffer <= Capacity`: `Spec => []ReportsAreTrue` |
| `VFileProofs` | `FilesTyped` | `Spec => []TypeOK` |
| | `OneRow` | `Spec => []OneRowPerName` |
| | `Acknowledged` | `Spec => []AcknowledgedIsKept` |
| | `InTheirSpace` | `Spec => KeptInTheirSpace` |
| | `OwnersOnly` | `Spec => OwnersChange` |
| `PostingProofs` | `PostingTyped` | `Spec => []TypeOK` |
| | `Complete` | `Spec => []QueuedIsComplete` |
| | `MembersOnly` | `Spec => []PrivateIsPrivate` |
| | `TruthTold` | `Spec => []ResultIsTrue` |
| | `NoneForgotten` | `Spec => []ArrivedIsQueued` |
| `BumpListProofs` | `BumpTyped` | `Spec => []TypeOK` |
| | `NoPlaceTaken` | `Spec => []NobodyTwice` |
| | `BumpsAreCovered` | `Spec => []SubscribesCoverBumps` |
| | `OldestLeaves` | `Spec => OldestIsBumped` |
| | `TopsOnlyRise` | `Spec => TopOnlyRises` |
| `BumpListCounts` | `CountsAreEnough` | `Spec => []CountsNeverShort` |
| | `CountsAreRight` | `Spec => []CountsAddUp` |
| | `FilesDoAgree` | `Spec => []FilesAgree` |
| | `NoHistoryLost` | `Spec => HistoryKept` |

*Queue.*  `AtMostOnce` alone is not inductive: nothing in it says that the
row a boss is about to fork for was not run before.  The argument is about ownership.
From the claim to DONE a row has exactly one owner: the boss between its claim and its
fork (`PendingFork`), then the process it forked, zombie included (`ProcessOwnsRow`,
`OneProcessPerRow`).  An owner's row is PROCESSING, so no claim matches it
(`StateMatches`), and it was not run before the owner's `ChildStarts`.  A row that nobody
claimed was never run (`WaitingNotRun`).  The reap loop writes DONE for the row of the
slot's own child only, because slots and children match (`SlotHoldsChild`,
`SlotsDistinct`, `ChildHasSlot`, `FreeHasNoParent`), and then that child no longer lives.
A dead boss leaves its children as orphans, which still own their rows; that is why the
invariant speaks of processes, not of slots.  A row whose boss died between claim and
fork has no owner and stays PROCESSING: safe, and lost.

For one boss on EMAILIN `AloneInv` says that what the selection found about the void is
still true at the claim (`SelectionHolds`): only this boss makes rows PROCESSING.  Hence
at most one process, zombies included, per void.  With two bosses `SelectionHolds` is
what fails (`MCTwoRunners`).  The refinement follows step by step: `ChildStarts` is
`Run`, `ChildEnds` is `Finish`, `Reap` of a row that was never run is `Drop`, `Insert` is
`Submit`, and everything else leaves `PhaseOf` as it is.

`OnlyFaultsStrand` is the converse, that a PROCESSING row keeps an owner.  A step of a boss
changes one slot of its own (`HoldKept`), and the row in it is kept, or reported DONE, or
its fork fails (`HoldReap`, `HoldFork`, `HoldForkFails`); a row becomes PROCESSING only at a
boss that has it selected (`ClaimNext`).  `NoRowStranded` follows: without deaths and lost
connections no boss is down and every UPDATE is executed (`BossesServe`), so every row
that is PROCESSING was claimed by a boss that still holds it.

*Pipeline.* Every step of the pipeline is a step of each queue or leaves it alone
(`StepsOfIn`, `StepsOfOut`), so each queue keeps `IInv` and, with one rulerunner,
`AloneInv`, without being proved again; and each keeps the owners of its rows
(`QueuesKeepOwners`), the safety half of `LettersServed`: no fault of a rulerunner and
no late statement makes the msgdeliveries lose a letter they claimed.  For `LetterOnce`
a call of `worker()` for a letter is an account that is spent once: while the worker has
not handed over (`Open`) it is still there, then it is a sendmail's, then the
addressee's; `AtMostOnce` says there is one account.  For `PostsInTurn` the authors of
rows in the order of their ids change from one mail of a void to the next only when the
former's worker is gone, by `VoidExclusive`; a late statement may come between and is
excepted (`tardy`).  In the refinement `SendMember` is `Post`, `LateInsert` is
`PostBelated`, a `SendmailEnds` that takes the message is `Deliver`, and the steps of
the incoming queue are those of `Dispatch`.

*Delivery.*  `Buffer <= Capacity` is the one relation of sizes the code relies on.  With it
what was built fits into the empty pipe (`BuiltFits`), so the write never sleeps
(`WriteNeverSleeps`), and pipe and sendmail together have all of the message or nothing
(`PipeInv`), whoever is killed.  A worker's report is decided before or after that one step
(`ReportInv`): the errors of pipe, fork, build and write before it, the success and the
error of `waitpid` after it, with sendmail forked; this is what tells the two
`ERR_PROC_FORK` apart.

*Files.*  For `OneRowPerName` the invariant must say what a call has learned from its
look-up and that it is still so at its last statement.  That holds in a directory that is
not disturbed, since the script of the call, or its late statement, is alone there
(`Alone`), and nobody else writes there (`CallInv`: a call's name is in the directory of
its void).  A step that changes rows of one name (`ChangeAt`) is then checked for
that name only (`ChangeKeeps`).  In a disturbed directory nothing is claimed of files
(`AnythingGoes`), and disturbing one does not reach the others (`DisturbKeeps`).
`OwnersChange` needs the same: rights that were looked at are not changed before the UPDATE.

*Posting.*  What a process knows of its own message is the heart of it (`CallInv`): from
its first insert to its last statement the row is there as it wrote it, no queue row
refers to it, and once at the queue insert of an outgoing mail exactly one protocol row
does.  That stays so because nobody else has this id (`OwnMessages`; ids are given out
once, `Unused`), and so a step is checked for one message only, its own (`StepAt`,
`PostKeeps`).  At the queue insert this knowledge becomes that of the row (`RowInv`), which
no later step can take away: the foreign keys guard a message that is referred to, and
its writer has left.  `checkVoidAllowSubmit` was asked before the message existed and the
daemons do not change the directory, so `Admitted` still holds when the row is queued;
this is all `MembersOnly` rests on, with the primary key of `filter_void`
(`DirectoriesAssumption`).  `RoomLeft` counts the mails that still need an id of the
bounded table; it is about the bound of the model, not about the code.

*BumpList.* Scripts may overlap and calls may fail, so at first nothing is said of how
the files hang together.  What is kept is that every single value is sound: `BumpInv`
says that a list, a record or a top list is so in the file (`FileOK`) and in the
variables of a script (`RunInv`), where it may be out of date but was sound when it was
read.  A bump is covered because it is counted in an entry of the list, which has one
subscription to spare; the newcomer's record has just got one.  What a step makes of the
list that is in the file needs more, that the script's copy is still that list:
`AloneInv` says so while there is one script at a time (`Fresh`).  A failed write leaves
the file as it was and a failed read ends the script before it touches the list, so
faults do not matter.

*Counts of BumpList.*  Without overlap and failing calls the files do hang together.  A
count is compared with a sum over all persons (`Total`), which is the number of pairs of a
person and a number up to the person's.  A write of one record changes the pairs of one
person, so it moves the sum by what it changes there (`TotalMoves`, `RecordWritten`).
What is written comes from an entry of the list or from the record itself.  Scripts that
are killed leave entries of the list that are older than the records, but by bumps and
posts only: `Copies` says that an entry has the subscriptions of its record and no more
bumps.  So a bump adds at most one to the sum, after one was added to the count (`Counted`
says how far the script at work is), and a post writes back entries that count no more
than the records.  This is `CountInv`, and it gives `CountsNeverShort` and the half of
`HistoryKept` that survives kills.  If nothing was killed either, `PerfectInv` says at each
point of a run exactly which records and which counts are ahead of the others: the list as
far as it is written (`Cur`), a bump counted but not recorded, a resubscription counted
but not recorded, a post counted but not yet in the poster's record (`PostPending`).
With no script at work nothing is ahead, which is `CountsAddUp` and `FilesAgree`.

*Only model-checked.*  Progress: `EveryEntryFinishes`, `WorkerEnds`, `SendmailEnds` and
`LettersServed`.  Every invariant and action property of the passing runs is a theorem.
Liveness under fairness and `ENABLED` are out of TLAPS's reach as installed, as are
induction over data and recursive operators; none of the modules declares one.

## 6. What disagrees with the documents

Four runs end in a violation, each of a sentence of the documents or comments
(`findings` in `PROJECT.json` quotes them):

- `MCTwoRunners`: `launch.sh` starts two rulerunners.  Both select rows of one idle
  void, then both claims succeed, since a claim only looks at its own row.
- `MCForkFails`: after a failed fork the row stays PROCESSING and blocks its void.
- `MCFilesOverlap`: two scripts of one void look a file up, find none and insert it both
  (`mngvfile.c:242`); a name of two rows is read as no file, and each
  further write adds a row.
- `MCPostingOrphan`: the clean-up of an outgoing mail forgets the protocol row, and
  the foreign key then keeps the message.

Others were met while modelling.  The models behave as the code does, no run is about
them:

- `msgqueue.c:153` says "oldest"; the EMAILIN query has no `ORDER BY` (line 181), and
  its inner `limit 8` can hide every mail of an idle void behind eight of busy ones.
- A row is DONE however its child ended (`msgqueue.c:329`), although line 363 says the
  boss checks; a child that could not connect never ran its rule.
- A worker reports success although sendmail refused the mail or could not be executed:
  it waits for the process and does not look at how it ended (`msgdelivery.c:204`).
- `ERR_PROC_FORK` means "Couldn't fork a process" (`logerror.h:30`); a worker returns it
  also when `waitpid` fails, after sendmail was given everything (`msgdelivery.c:205`).
- A long outgoing message loses its end (`message.c:231`), "complete" in line 194.
- The owner of a new file is read from freed memory (`void.c:274`), although it is to be
  its creator's (`mngvfile.c:175`); the models let it read as anything.
- A look-up that fails inserts a second row of a file name, as an overlap does.
- A worker killed between the insert of a file and of its rights leaves a file nobody
  may change (`mngvfile.c:271`).
- `file.write` of a relative path and `file.read` of the same path mean different
  files (`jsthwonk.c:435`, `mngvfile.c:227`).
- Writing what a file already holds, in the same second, is reported as a failure
  (`mngvfile.c:299`): the server counts changed rows.
- A blocked member may send to a private void (`void.c:200`, against 187).
- A mail from a second address of a user is recorded as the unknown user's, and the
  sample data gives that user the address of admin (`user.c:80`, `thwonk.sql:276`).
- mailinject exits with SUCCESS whatever happened to the mail (`mailinject.c:201`).
- `sendMember` takes one type only; `bumplist.js` uses others, so neither the one who is
  bumped nor the subscribers are ever told.
- `sendMember` passes on a body it has freed (`jsthwonk.c:337`, 372) and looks for
  newlines in a subject after escaping them (331, 348).
- `bumplist.js` calls `Thwonk.*`, but the object is `thwonk` since January 2012
  (`src/backend/ChangeLog:10`, `jsthwonkobjects.h:35`): as shipped the script stops at its
  first call.  `BumpList` models it as if the names agreed.
- `bumplist.js` takes the -1 of a failed read for data: a count starts again at 0, and a
  person who is known starts with an empty record, which is then written.
- A run of `bumplist.js` that is killed between the record of a person and the list leaves
  the older copy on the list, which the next post writes back: a post or a bump is taken
  back, never a subscription (`HistoryKept`).
- A top list replaces the entry closest below the newcomer, not the lowest one, and never
  refreshes the value of somebody who is on it (`bumplist.js:477`): it may drop its second
  best and show what was true once.

## 7. Not modelled

Mail parsing (a wrapper of libmailutils), `ParseMail.js`, configuration, logging and the
build have no state two actors share.  `misc.c` copies and escapes byte strings of one
process; subjects, bodies and pages are text and appear as model values or not at all,
and with them what `sendMember` does to a freed body or an escaped newline.  The engine
that runs scripts is external; outside `BumpList` a script is any sequence of API calls.
The third top list of `bumplist.js`, by time on the list, is the algorithm of the other two
over a wall clock.  Which resource limit ends a worker is the kernel's business; that
one may is a fault.  Wall-clock times are not modelled; no statement compares them.
MySQL may compare file names without regard to case; names here are equal or not.

## 8. Plan

Done, in this order: `MessageQueue`, `QueueRunner`, `Dispatch` and their proofs;
`Delivery`; `VFile`; `Directory` and `Posting`; `BumpList`; `Pipeline` and `MailingList`;
the proofs about `NoRowStranded`, `Pipeline`, `Delivery`, `VFile`, `Posting` and
`BumpList`, the counts of the latter last.

Next, the most important first:

1. *Text*: `misc.c` and the bounds of `buildMessageOut` as functions over short
   sequences, against reference definitions.

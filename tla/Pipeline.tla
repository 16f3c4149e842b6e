------------------------------ MODULE Pipeline ------------------------------
(***************************************************************************)
(* The way of a mail through Thwonk: the EMAILIN rows with the rulerunner  *)
(* daemons, the EMAILOUT rows with the msgdelivery daemons, and what joins *)
(* the two queues.  The worker of an EMAILIN row runs the rule of a void,  *)
(* which inserts EMAILOUT rows (sendMember, jsthwonk.c); the worker of an  *)
(* EMAILOUT row hands one message to one sendmail (msgdelivery.c).         *)
(*                                                                         *)
(* Both queues are instances of QueueRunner.  A worker may be ended at any *)
(* time; what it asked the server to do may then still be done (Late),     *)
(* and a sendmail it gave a whole message goes on by itself.  What         *)
(* sendMember does before it inserts the row is in Posting, how a message  *)
(* gets from worker to sendmail in Delivery.                               *)
(***************************************************************************)
EXTENDS Naturals, FiniteSets

CONSTANTS
  Mail, Letter,          \* rows of message_queue: EMAILIN and EMAILOUT
  Void, VoidOf,          \* the void each mail was sent to
  Window, NULL, EMPTY,
  Runner, RunnerPid, RunnerSlots, RunnerFaults,    \* the rulerunner daemons
  Sender, SenderPid, SenderSlots, SenderFaults,    \* the msgdelivery daemons
  Late                   \* whether statements may outlive who sent them

ASSUME RowsAssumption ==
  Mail \subseteq Nat /\ Letter \subseteq Nat /\ NULL \notin Mail /\ NULL \notin Letter
ASSUME VoidAssumption == Void # {} /\ VoidOf \in [Mail -> Void]
ASSUME DaemonsAssumption ==
  /\ NULL \notin Runner \cup Sender /\ EMPTY \notin RunnerPid \cup SenderPid
  /\ {Window, RunnerSlots, SenderSlots} \subseteq Nat \ {0}
ASSUME FaultsAssumption ==
  /\ RunnerFaults \cup SenderFaults \subseteq {"fork", "conn", "boss", "setup"}
  /\ Late \in BOOLEAN

VARIABLES
  inQueue, inPc, inSlot, inThreads, inConn, inProc, inRuns,
  outQueue, outPc, outSlot, outThreads, outConn, outProc, outRuns,
  author,     \* author[o]: the mail whose worker inserted row o
  unanswered, \* mails whose worker ended with its insert on the way to the server
  tardy,      \* letters inserted by such a statement
  handed,     \* workers that have handed their message to sendmail
  piped,      \* piped[o]: sendmail processes that have o whole and not taken it yet
  taken       \* taken[o]: how often a sendmail took o

inVars == <<inQueue, inPc, inSlot, inThreads, inConn, inProc, inRuns>>
outVars == <<outQueue, outPc, outSlot, outThreads, outConn, outProc, outRuns>>
postVars == <<author, unanswered, tardy>>
mailVars == <<handed, piped, taken>>
vars == <<inVars, outVars, postVars, mailVars>>

In == INSTANCE QueueRunner WITH
  Entry <- Mail, QueueType <- "EMAILIN",
  Boss <- Runner, Pid <- RunnerPid, NumThreads <- RunnerSlots, Faults <- RunnerFaults,
  queue <- inQueue, pc <- inPc, slot <- inSlot, threads <- inThreads, conn <- inConn,
  proc <- inProc, runs <- inRuns

\* No statement on EMAILOUT rows reads their voidId.
Out == INSTANCE QueueRunner WITH
  Entry <- Letter, VoidOf <- [o \in Letter |-> CHOOSE v \in Void : TRUE], QueueType <- "EMAILOUT",
  Boss <- Sender, Pid <- SenderPid, NumThreads <- SenderSlots, Faults <- SenderFaults,
  queue <- outQueue, pc <- outPc, slot <- outSlot, threads <- outThreads, conn <- outConn,
  proc <- outProc, runs <- outRuns

Init ==
  /\ In!Init
  /\ Out!Init
  /\ author = [o \in Letter |-> NULL]
  /\ unanswered = {}
  /\ tardy = {}
  /\ handed = {}
  /\ piped = [o \in Letter |-> 0]
  /\ taken = [o \in Letter |-> 0]
-----------------------------------------------------------------------------
(***************************************************************************)
(* Incoming: mailinject inserts a row, rulerunner works on it.             *)
(***************************************************************************)
Arrive(m) == In!Insert(m) /\ UNCHANGED <<outVars, postVars, mailVars>>

RunnerFault(b) == In!ConnLost(b) \/ In!BossDies(b) \/ In!BossStarts(b)

RunnerStep(b) == (In!BossStep(b) \/ RunnerFault(b)) /\ UNCHANGED <<outVars, postVars, mailVars>>

RuleStep(p) == In!ChildStep(p) /\ UNCHANGED <<outVars, postVars, mailVars>>

\* The worker is ended in the middle of an insert.
RuleEndsInsert(p) ==
  /\ Late
  /\ In!ChildEnds(p)
  /\ unanswered' = unanswered \cup {inProc[p].entry}
  /\ UNCHANGED <<outVars, author, tardy, mailVars>>
-----------------------------------------------------------------------------
(***************************************************************************)
(* From one queue to the other.                                            *)
(***************************************************************************)
\* AUTO_INCREMENT: row ids are given in order.
FreshLetter(o) ==
  outQueue[o] = "ABSENT" /\ \A q \in Letter : outQueue[q] = "ABSENT" => o <= q

InsertLetter(m, o) ==
  /\ FreshLetter(o)
  /\ Out!Insert(o)
  /\ author' = [author EXCEPT ![o] = m]
  /\ UNCHANGED <<inVars, mailVars>>

\* A rule whose last letters are sent by somebody else once it has ended.
SendMemberDeferred(p, o) ==
  /\ inProc[p].state # "free"
  /\ InsertLetter(inProc[p].entry, o)
  /\ UNCHANGED <<unanswered, tardy>>

SendMember(p, o) ==
  /\ inProc[p].state = "working"
  /\ InsertLetter(inProc[p].entry, o)
  /\ UNCHANGED <<unanswered, tardy>>

LateInsert(m, o) ==
  /\ m \in unanswered
  /\ unanswered' = unanswered \ {m}
  /\ tardy' = tardy \cup {o}
  /\ InsertLetter(m, o)
-----------------------------------------------------------------------------
(***************************************************************************)
(* Outgoing: msgdelivery, its workers, and the sendmails they start.       *)
(***************************************************************************)
SenderFault(b) == Out!ConnLost(b) \/ Out!BossDies(b) \/ Out!BossStarts(b)

SenderStep(b) == (Out!BossStep(b) \/ SenderFault(b)) /\ UNCHANGED <<inVars, postVars, mailVars>>

DeliveryStep(p) ==
  /\ Out!ChildStep(p)
  /\ handed' = handed \ {p}
  /\ UNCHANGED <<inVars, postVars, piped, taken>>

\* A worker that writes its message again when it is not sure.
HandOverAgain(p) ==
  /\ outProc[p].state = "working"
  /\ handed' = handed \cup {p}
  /\ piped' = [piped EXCEPT ![outProc[p].entry] = IF @ < 2 THEN @ + 1 ELSE @]
  /\ UNCHANGED <<inVars, outVars, postVars, taken>>

\* The last byte is written and the pipe closed: sendmail has it all.
HandOver(p) ==
  /\ outProc[p].state = "working"
  /\ p \notin handed
  /\ handed' = handed \cup {p}
  /\ piped' = [piped EXCEPT ![outProc[p].entry] = @ + 1]
  /\ UNCHANGED <<inVars, outVars, postVars, taken>>

\* A sendmail that takes what it was given before it has all of it.
SendmailTooEarly(o) ==
  /\ outQueue[o] = "PROCESSING"
  /\ taken[o] = 0
  /\ piped' = [piped EXCEPT ![o] = @ - 1]
  /\ taken' = [taken EXCEPT ![o] = @ + 1]
  /\ UNCHANGED <<inVars, outVars, postVars, handed>>

\* Nobody has to live for it but sendmail.
SendmailEnds(o) ==
  /\ piped[o] > 0
  /\ piped' = [piped EXCEPT ![o] = @ - 1]
  /\ \/ taken' = [taken EXCEPT ![o] = @ + 1]
     \/ UNCHANGED taken
  /\ UNCHANGED <<inVars, outVars, postVars, handed>>
-----------------------------------------------------------------------------
IncomingStep ==
  \/ \E m \in Mail : Arrive(m)
  \/ \E b \in Runner : RunnerStep(b)
  \/ \E p \in RunnerPid : RuleStep(p) \/ RuleEndsInsert(p)

PostingStep ==
  \/ \E p \in RunnerPid, o \in Letter : SendMember(p, o)
  \/ \E m \in Mail, o \in Letter : LateInsert(m, o)

OutgoingStep ==
  \/ \E b \in Sender : SenderStep(b)
  \/ \E p \in SenderPid : DeliveryStep(p) \/ HandOver(p)
  \/ \E o \in Letter : SendmailEnds(o)

Next == IncomingStep \/ PostingStep \/ OutgoingStep

Spec == Init /\ [][Next]_vars

\* As for a queue alone, and of the outgoing daemons only.
Fairness ==
  /\ \A b \in Sender : WF_vars(Out!BossStep(b) /\ UNCHANGED <<inVars, postVars, mailVars>>)
  /\ \A p \in SenderPid : WF_vars(DeliveryStep(p))

FairSpec == Spec /\ Fairness
-----------------------------------------------------------------------------
TypeOK ==
  /\ author \in [Letter -> Mail \cup {NULL}]
  /\ unanswered \subseteq Mail
  /\ tardy \subseteq Letter
  /\ handed \subseteq SenderPid
  /\ piped \in [Letter -> Nat]
  /\ taken \in [Letter -> Nat]

(***************************************************************************)
(* A letter is given to at most one sendmail, and by that to its addressee *)
(* at most once, whatever ends rulerunners, msgdeliveries, their workers   *)
(* and their connections, and although a sendmail may finish long after    *)
(* its worker was killed and its row marked DONE.                          *)
(***************************************************************************)
LetterOnce == \A o \in Letter : piped[o] + taken[o] <= 1

(***************************************************************************)
(* The letters of two mails of one void are not mixed: once the rule has   *)
(* posted for a later mail, the worker of the earlier one is gone, also    *)
(* when it was an orphan of a rulerunner that died.  Only a statement that *)
(* outlived its worker may come between.  With one rulerunner.             *)
(***************************************************************************)
SameVoid(o, q) == VoidOf[author[o]] = VoidOf[author[q]]
PostsInTurn ==
  \A o, q \in {r \in Letter \ tardy : author[r] # NULL} :
    o < q /\ SameVoid(o, q) /\ author[o] # author[q] => ~In!Working(author[o])

(***************************************************************************)
(* Every letter that was posted is served, whatever becomes of the worker  *)
(* that posted it, of its rulerunner and of the row it worked on.          *)
(***************************************************************************)
LettersServed == \A o \in Letter : author[o] # NULL ~> outQueue[o] = "DONE"

(***************************************************************************)
(* One rulerunner and any number of msgdeliveries implement MailingList.   *)
(***************************************************************************)
List == INSTANCE MailingList WITH
  Entry <- Mail, NOBODY <- NULL,
  phase <- [m \in Mail |-> In!PhaseOf(m)],
  belated <- {author[o] : o \in tardy},
  copies <- taken

(***************************************************************************)
(* Every step of a daemon, a worker, a sendmail or the server, and every   *)
(* fault, is a step of MailingList or changes nothing a member can see.    *)
(***************************************************************************)
KeepsListPromise == List!ListSafety
=============================================================================

------------------------------- MODULE Posting -------------------------------
(***************************************************************************)
(* How mails enter and leave the database: mailinject puts an arriving     *)
(* mail in (addMailToInQueue), the scripts rulerunner runs put outgoing    *)
(* ones (sendMember, addMailToOutQueueForUser, insertMessageOutMail).      *)
(* Both write several tables, message, message_protocol_mail and           *)
(* message_queue, one statement a step and no transaction around them,     *)
(* and try to take back what they wrote when a later statement fails.      *)
(* The foreign keys of thwonk.sql refuse to delete a message that another  *)
(* row refers to.                                                          *)
(*                                                                         *)
(* Faults: "select", "message", "protocol", "queue", "delete" (a statement *)
(* of that kind fails and does nothing), "answer" (a statement is done,    *)
(* the connection breaks before its answer), "kill" (a process is killed). *)
(***************************************************************************)
EXTENDS Naturals, FiniteSets, Directory

CONSTANTS
  Injector,       \* mailinject processes
  Script,         \* rulerunner children
  Address,        \* mail addresses
  Looping,        \* addresses of our own domain but the two let through
  Ours,           \* destinations of our own domain
  Directories,    \* the directories to be considered
  MaxMessages,    \* bound: message rows ever inserted
  Faults

ASSUME ProcessAssumption == Injector \cap Script = {}
ASSUME AddressAssumption == Looping \subseteq Address /\ Ours \subseteq Address
ASSUME ProcessesAssumption == IsFiniteSet(Injector \cup Script)
ASSUME MaxMessagesAssumption == MaxMessages \in Nat
ASSUME FaultsAssumption ==
  Faults \subseteq {"select", "message", "protocol", "queue", "delete", "answer", "kill"}

VARIABLES
  directory,   \* the tables the daemons only read
  message,     \* message[id]: the row of that id, or NULL
  protocol,    \* rows of message_protocol_mail
  queue,       \* rows of message_queue; their queueState is QueueRunner's
  lastId,      \* AUTO_INCREMENT of message
  call,        \* call[c]: what process c is doing
  started,     \* history: rows of queue a script was started for
  abandoned,   \* history: messages whose writer could not finish its call
  result       \* result[s]: what sendMember last told script s

vars == <<directory, message, protocol, queue, lastId, call, started, abandoned, result>>

Process == Injector \cup Script
MsgId == 1..MaxMessages

User == UNION {D.user : D \in Directories}
UserFilter == UNION {D.filter_user : D \in Directories}
VoidFilter == UNION {D.filter_void : D \in Directories}
UserId == {u.id : u \in User} \cup {f.userId : f \in UserFilter}
FilterUserId == {f.id : f \in UserFilter}
FilterVoidId == {v.id : v \in VoidFilter}
VoidId == {v.voidId : v \in VoidFilter}

\* Rows of the three tables.
Message == [type : {"EMAILIN", "EMAILOUT_TYPE2"}, filterVoidId : FilterVoidId, userId : UserId,
            filterUserId : FilterUserId, address : Address]
Protocol == [messageId : MsgId, toFilterUserId : FilterUserId, fromFilterUserId : FilterUserId,
             replytoFilterVoidId : FilterVoidId]
QueueEntry == [messageId : MsgId, messageType : {"EMAILIN", "EMAILOUT"}, userId : UserId, voidId : VoidId]

ASSUME NullAssumption ==
  /\ NULL \notin Nat /\ NULL \notin Message /\ NULL \notin QueueEntry
  /\ NULL \notin User /\ NULL \notin UserFilter /\ NULL \notin VoidFilter
\* PRIMARY KEY (id) of filter_void, and the user thwonk.sql begins with.
ASSUME DirectoriesAssumption ==
  \A D \in Directories :
    /\ \A v, w \in D.filter_void : v.id = w.id => v = w
    /\ \E u \in D.user : u.username = UNKNOWN_USER

\* address: the sender of an arriving mail, the destination of an outgoing one.
Idle == [pc |-> "idle", address |-> NULL, voidFilter |-> NULL, userId |-> NULL,
         userFilter |-> NULL, id |-> NULL, entry |-> NULL]
NoResult == [value |-> "none", id |-> NULL, address |-> NULL]

Init ==
  /\ directory \in Directories
  /\ message = [id \in MsgId |-> NULL]
  /\ protocol = {} /\ queue = {}
  /\ lastId = 0
  /\ call = [c \in Process |-> Idle]
  /\ started = {} /\ abandoned = {}
  /\ result = [s \in Script |-> NoResult]

At(c, pc) == call[c].pc = pc
Goto(c, pc) == call' = [call EXCEPT ![c].pc = pc]

\* mailinject ends whatever happened; a script is told and goes on at pc.
Leave(c, value, pc) ==
  IF c \in Script
    THEN /\ call' = [call EXCEPT ![c] = [Idle EXCEPT !.pc = pc, !.entry = call[c].entry]]
         /\ result' = [result EXCEPT ![c] =
              [value |-> value, id |-> call[c].id, address |-> call[c].address]]
    ELSE /\ call' = [call EXCEPT ![c] = Idle]
         /\ UNCHANGED result

Fail(c) == Leave(c, "FAILURE", "script")

\* What is left of message id when its writer stops here: a row nobody queued.
LeaveBehind(id) ==
  abandoned' = abandoned \cup
    {x \in {id} \ {NULL} : message'[x] # NULL /\ \A q \in queue' : q.messageId # x}

\* The fault happens to process c, which is about to run a statement of kind pc.
Broken(c, pc) == pc \in Faults /\ At(c, pc)
-----------------------------------------------------------------------------
(***************************************************************************)
(* mailinject: from the mail on standard input to the user it is filed     *)
(* under.                                                                  *)
(***************************************************************************)
\* Every mail on its way may still need a message row.
Room == lastId + Cardinality({c \in Process : call[c].pc \in {"select", "message"}}) < MaxMessages

Accepted(from, to) == from \notin Looping /\ to \in Ours

SomeAreDropped == \E from, to \in Address : ~Accepted(from, to)

\* A mail that would loop, or is for another domain, leaves no trace.
Drop(i) ==
  /\ At(i, "idle")
  /\ SomeAreDropped
  /\ UNCHANGED vars

Receive(i, from, to) ==
  /\ At(i, "idle")
  /\ Accepted(from, to)
  /\ Room
  /\ \E v \in getVoidFilterByIdentifier(directory, to) :
       call' = [call EXCEPT ![i] = [Idle EXCEPT !.pc = "select", !.address = from, !.voidFilter = v]]
  /\ UNCHANGED <<directory, message, protocol, queue, lastId, started, abandoned, result>>

Admitted(i) ==
  LET v == call[i].voidFilter IN
  /\ v # NULL
  /\ v.status = "ACTIVE"
  /\ checkVoidAllowSubmit(directory, v, call[i].address)

\* rejectMail: no such void, not active, no right to submit, or no answer.
Reject(i) ==
  /\ At(i, "select")
  /\ ~Admitted(i) \/ Broken(i, "select")
  /\ Fail(i)
  /\ UNCHANGED <<directory, message, protocol, queue, lastId, started, abandoned>>

FileUnder(i, u, f) ==
  call' = [call EXCEPT ![i].pc = "message", ![i].userId = u.id, ![i].userFilter = f]

\* The sender's address is the main address of a user.
IdentifyUser(i) ==
  /\ At(i, "select")
  /\ Admitted(i)
  /\ \E u \in getUserEntryByEmail(directory, call[i].address),
        f \in getUserFilterByIdentifier(directory, call[i].address) :
       u # NULL /\ FileUnder(i, u, f)
  /\ UNCHANGED <<directory, message, protocol, queue, lastId, started, abandoned, result>>

\* There is no such user, or the query for it failed.
IdentifyUnknown(i) ==
  /\ At(i, "select")
  /\ Admitted(i)
  /\ NULL \in getUserEntryByEmail(directory, call[i].address) \/ Broken(i, "select")
  /\ \E u \in getUserEntryByUsername(directory, UNKNOWN_USER) :
       \E f \in getUserFilterById(directory, u.emailId) : f # NULL /\ FileUnder(i, u, f)
  /\ UNCHANGED <<directory, message, protocol, queue, lastId, started, abandoned, result>>
-----------------------------------------------------------------------------
(***************************************************************************)
(* Scripts.                                                                *)
(***************************************************************************)
\* A queue runner hands a row to a script, at most once (QueueRunner!AtMostOnce).
StartScript(s, q) ==
  /\ At(s, "idle")
  /\ q.messageType = "EMAILIN" /\ q \notin started
  /\ started' = started \cup {q}
  /\ call' = [call EXCEPT ![s] = [Idle EXCEPT !.pc = "script", !.entry = q]]
  /\ UNCHANGED <<directory, message, protocol, queue, lastId, abandoned, result>>

EndScript(s) ==
  /\ call[s].pc \in {"script", "noconn"}
  /\ call' = [call EXCEPT ![s] = Idle]
  /\ result' = [result EXCEPT ![s] = NoResult]
  /\ UNCHANGED <<directory, message, protocol, queue, lastId, started, abandoned>>

\* thwonk.message.sendMember to somebody with an address in the directory.
SendMember(s, to) ==
  /\ At(s, "script")
  /\ Room
  /\ \E f \in getUserFilterByIdentifier(directory, to) :
       /\ f # NULL
       /\ call' = [call EXCEPT ![s].pc = "message", ![s].address = to,
                               ![s].userId = f.userId, ![s].userFilter = f]
  /\ result' = [result EXCEPT ![s] = NoResult]
  /\ UNCHANGED <<directory, message, protocol, queue, lastId, started, abandoned>>

\* Nobody has this address, or a SELECT failed, the parent message's included.
SendMemberFails(s, to) ==
  /\ At(s, "script")
  /\ NULL \in getUserFilterByIdentifier(directory, to) \/ "select" \in Faults
  /\ result' = [result EXCEPT ![s] = [NoResult EXCEPT !.value = "FAILURE"]]
  /\ UNCHANGED <<directory, message, protocol, queue, lastId, call, started, abandoned>>
-----------------------------------------------------------------------------
(***************************************************************************)
(* The statements that write.                                              *)
(***************************************************************************)
MessageRow(c) ==
  [type |-> IF c \in Script THEN "EMAILOUT_TYPE2" ELSE "EMAILIN",
   filterVoidId |-> IF c \in Script THEN message[call[c].entry.messageId].filterVoidId
                    ELSE call[c].voidFilter.id,
   userId |-> call[c].userFilter.userId,
   filterUserId |-> call[c].userFilter.id,
   address |-> call[c].address]

ProtocolRow(s) ==
  LET parent == message[call[s].entry.messageId] IN
  [messageId |-> call[s].id,
   toFilterUserId |-> call[s].userFilter.id,
   fromFilterUserId |-> parent.filterUserId,
   replytoFilterVoidId |-> parent.filterVoidId]

QueueRow(c) ==
  [messageId |-> call[c].id,
   messageType |-> IF c \in Script THEN "EMAILOUT" ELSE "EMAILIN",
   userId |-> call[c].userId,
   voidId |-> IF c \in Script THEN call[c].entry.voidId ELSE call[c].voidFilter.voidId]

Referred(id) == \E r \in protocol \cup queue : r.messageId = id

PutMessage(c) ==
  /\ lastId' = lastId + 1
  /\ message' = [message EXCEPT ![lastId + 1] = MessageRow(c)]
  /\ UNCHANGED <<protocol, queue>>

PutProtocol(s) ==
  /\ protocol' = protocol \cup {ProtocolRow(s)}
  /\ UNCHANGED <<message, queue, lastId>>

PutQueue(c) ==
  /\ queue' = queue \cup {QueueRow(c)}
  /\ UNCHANGED <<message, protocol, lastId>>

\* deleteMessage, with the foreign keys of the two tables that refer to message.
TakeMessage(c) ==
  /\ message' = IF Referred(call[c].id) THEN message ELSE [message EXCEPT ![call[c].id] = NULL]
  /\ UNCHANGED <<protocol, queue, lastId>>

\* A script whose outgoing mail goes to the queue with its message alone.
ProtocolForgotten(c) == "queue"

AfterMessage(c) == IF c \in Script THEN "protocol" ELSE "queue"

\* An id that was not read back.
IdForgotten(c) == lastId

\* dbQueryLastInsertId: of this connection, so of this process's insert.
LastInsertId(c) == lastId + 1

InsertMessage(c) ==
  /\ At(c, "message")
  /\ PutMessage(c)
  /\ call' = [call EXCEPT ![c].pc = AfterMessage(c), ![c].id = LastInsertId(c)]
  /\ UNCHANGED <<directory, started, abandoned, result>>

InsertMessageFails(c) ==
  /\ Broken(c, "message")
  /\ Fail(c)
  /\ UNCHANGED <<directory, message, protocol, queue, lastId, started, abandoned>>

InsertProtocol(s) ==
  /\ At(s, "protocol")
  /\ PutProtocol(s)
  /\ Goto(s, "queue")
  /\ UNCHANGED <<directory, started, abandoned, result>>

InsertQueue(c) ==
  /\ At(c, "queue")
  /\ PutQueue(c)
  /\ Leave(c, "SUCCESS", "script")
  /\ UNCHANGED <<directory, started, abandoned>>

\* A caller that does not look at what insertQueueEntry returned.
QueueFailureIgnored(c) ==
  /\ Broken(c, "queue")
  /\ Leave(c, "SUCCESS", "script")
  /\ UNCHANGED <<directory, message, protocol, queue, lastId, started, abandoned>>

\* What was inserted so far is taken back.
InsertFails(c) ==
  /\ Broken(c, "protocol") \/ Broken(c, "queue")
  /\ Goto(c, "delete")
  /\ UNCHANGED <<directory, message, protocol, queue, lastId, started, abandoned, result>>

Delete(c) ==
  /\ At(c, "delete")
  /\ TakeMessage(c)
  /\ Fail(c)
  /\ UNCHANGED <<directory, started, abandoned>>

DeleteFails(c) ==
  /\ Broken(c, "delete")
  /\ Fail(c)
  /\ UNCHANGED <<directory, message, protocol, queue, lastId, started>>
  /\ LeaveBehind(call[c].id)

\* Every later statement of the process fails: nothing is taken back.
AnswerLost(c) ==
  /\ "answer" \in Faults
  /\ \/ At(c, "message") /\ PutMessage(c)
     \/ At(c, "protocol") /\ PutProtocol(c)
     \/ At(c, "queue") /\ PutQueue(c)
     \/ At(c, "delete") /\ TakeMessage(c)
  /\ LeaveBehind(IF At(c, "message") THEN lastId' ELSE call[c].id)
  /\ Leave(c, "FAILURE", "noconn")
  /\ UNCHANGED <<directory, started>>

Kill(c) ==
  /\ "kill" \in Faults
  /\ ~At(c, "idle")
  /\ call' = [call EXCEPT ![c] = Idle]
  /\ result' = IF c \in Script THEN [result EXCEPT ![c] = NoResult] ELSE result
  /\ UNCHANGED <<directory, message, protocol, queue, lastId, started>>
  /\ LeaveBehind(call[c].id)
-----------------------------------------------------------------------------
InjectorStep(i) ==
  \/ Drop(i)
  \/ \E from, to \in Address : Receive(i, from, to)
  \/ Reject(i)
  \/ IdentifyUser(i)
  \/ IdentifyUnknown(i)

ScriptStep(s) ==
  \/ \E q \in queue : StartScript(s, q)
  \/ EndScript(s)
  \/ \E to \in Address : SendMember(s, to) \/ SendMemberFails(s, to)
  \/ InsertProtocol(s)

WriteStep(c) ==
  \/ InsertMessage(c)
  \/ InsertMessageFails(c)
  \/ InsertQueue(c)
  \/ InsertFails(c)
  \/ Delete(c)
  \/ DeleteFails(c)
  \/ AnswerLost(c)
  \/ Kill(c)

Next ==
  \/ \E i \in Injector : InjectorStep(i)
  \/ \E s \in Script : ScriptStep(s)
  \/ \E c \in Process : WriteStep(c)

Spec == Init /\ [][Next]_vars
-----------------------------------------------------------------------------
Call == [pc : {"idle", "select", "script", "message", "protocol", "queue", "delete", "noconn"},
         address : Address \cup {NULL}, voidFilter : VoidFilter \cup {NULL}, userId : UserId \cup {NULL},
         userFilter : UserFilter \cup {NULL}, id : MsgId \cup {NULL}, entry : QueueEntry \cup {NULL}]
Result == [value : {"none", "SUCCESS", "FAILURE"}, id : MsgId \cup {NULL}, address : Address \cup {NULL}]

TypeOK ==
  /\ directory \in Directories
  /\ message \in [MsgId -> Message \cup {NULL}]
  /\ protocol \subseteq Protocol
  /\ queue \subseteq QueueEntry
  /\ lastId \in 0..MaxMessages
  /\ call \in [Process -> Call]
  /\ started \subseteq queue
  /\ abandoned \subseteq MsgId
  /\ result \in [Script -> Result]

(***************************************************************************)
(* Whoever takes a row off a queue finds all it needs, however its writer  *)
(* ended: the message, of the type of the queue and of the void of the     *)
(* row; and for an outgoing mail one protocol row, with a user to send to  *)
(* and the list to reply to.  buildMessageOut uses them unchecked.         *)
(***************************************************************************)
QueuedIsComplete ==
  \A q \in queue :
    LET m == message[q.messageId]
        rows == {p \in protocol : p.messageId = q.messageId}
    IN /\ m # NULL
       /\ \E v \in directory.filter_void : v.id = m.filterVoidId /\ v.voidId = q.voidId
       /\ m.type = "EMAILIN" <=> q.messageType = "EMAILIN"
       /\ q.messageType = "EMAILOUT" =>
            /\ Cardinality(rows) = 1
            /\ \A p \in rows :
                 /\ p.replytoFilterVoidId = m.filterVoidId
                 /\ \E f \in getUserFilterById(directory, p.toFilterUserId) :
                      f # NULL /\ f.identifier = m.address

Queued(id) == \E q \in queue : q.messageId = id

(***************************************************************************)
(* "SUCCESS = Outgoing queue in the database has mail to deliver, FAILURE" *)
(* that it has not: what sendMember tells a script is so, whatever         *)
(* statements fail, as long as the server answers.                         *)
(***************************************************************************)
ResultIsTrue ==
  \A s \in Script :
    /\ result[s].value = "SUCCESS" =>
         Queued(result[s].id) /\ message[result[s].id].address = result[s].address
    /\ result[s].value = "FAILURE" /\ ~At(s, "noconn") => ~Queued(result[s].id)

\* Its writer is still at it, or was killed or cut off, or could not delete it.
BeingWritten(id) == \E c \in Process : call[c].id = id
Excused(id) == BeingWritten(id) \/ id \in abandoned

(***************************************************************************)
(* "Add queue item and if that fails remove last inserted message": an     *)
(* arrived mail whose writer came to its end is queued or is gone.         *)
(***************************************************************************)
ArrivedIsQueued ==
  \A id \in MsgId :
    message[id] # NULL /\ message[id].type = "EMAILIN" => Queued(id) \/ Excused(id)

(***************************************************************************)
(* The same for outgoing mails: deleteMessage after a failed insert        *)
(* removes the message.                                                    *)
(***************************************************************************)
OutgoingIsQueued ==
  \A id \in MsgId :
    message[id] # NULL /\ message[id].type = "EMAILOUT_TYPE2" => Queued(id) \/ Excused(id)

SenderFilters(q) == FiltersNamed(directory, message[q.messageId].address)

(***************************************************************************)
(* Whatever fails, a script of a private void never runs for a mail of     *)
(* somebody who is not a member of that very void.                         *)
(***************************************************************************)
PrivateIsPrivate ==
  \A q \in started, v \in directory.filter_void :
    v.id = message[q.messageId].filterVoidId /\ v.accessRights = "PRIVATETHWONK" =>
      \E f \in SenderFilters(q), m \in directory.void_membership :
        m.userId = f.userId /\ m.voidId = q.voidId
=============================================================================

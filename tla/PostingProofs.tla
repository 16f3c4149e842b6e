---------------------------- MODULE PostingProofs ----------------------------
(***************************************************************************)
(* Proofs about the tables mailinject and sendMember write, for every      *)
(* number of processes, addresses and directories and under every fault.   *)
(*                                                                         *)
(* Each step is about the rows of one message: the one its process is      *)
(* writing, or the next one the table gives out.  Nobody else writes these *)
(* rows and no queue row refers to them, so what is known of all others    *)
(* stays; of its own message a process knows what its statements have put  *)
(* into which table.                                                       *)
(***************************************************************************)
EXTENDS Posting, FiniteSetTheorems, TLAPS

Writing(c) == call[c].pc \in {"protocol", "queue", "delete"}

RowsOf(id) == {p \in protocol : p.messageId = id}

InjectorInv(i) ==
  /\ call[i].pc \in {"idle", "select", "message", "queue", "delete"}
  /\ call[i].pc # "idle" =>
       call[i].address \in Address /\ call[i].voidFilter \in directory.filter_void \cup {NULL}
  /\ call[i].pc \in {"message", "queue", "delete"} =>
       Admitted(i) /\ call[i].userFilter \in directory.filter_user /\ call[i].userId \in UserId
  /\ Writing(i) => RowsOf(call[i].id) = {}

ScriptInv(s) ==
  /\ call[s].pc \in {"idle", "script", "message", "protocol", "queue", "delete", "noconn"}
  /\ call[s].pc # "idle" => call[s].entry \in started
  /\ call[s].pc \in {"message", "protocol", "queue", "delete"} =>
       /\ call[s].address \in Address /\ call[s].userId \in UserId
       /\ call[s].userFilter \in FiltersNamed(directory, call[s].address)
  /\ call[s].pc = "protocol" => RowsOf(call[s].id) = {}
  /\ call[s].pc = "queue" => RowsOf(call[s].id) = {ProtocolRow(s)}

CallInv(c) ==
  /\ c \in Injector => InjectorInv(c)
  /\ c \in Script => ScriptInv(c)
  /\ ~Writing(c) => call[c].id = NULL
  /\ Writing(c) =>
       /\ call[c].id \in 1..lastId
       /\ message[call[c].id] = MessageRow(c)
       /\ ~Queued(call[c].id)

OwnMessages == \A c, d \in Process : Writing(c) /\ call[c].id = call[d].id => c = d

\* What QueuedIsComplete says of a row, and of an arrived one PrivateIsPrivate.
RowInv(q) ==
  LET m == message[q.messageId] IN
  /\ q.messageId <= lastId
  /\ m # NULL
  /\ \E v \in directory.filter_void : v.id = m.filterVoidId /\ v.voidId = q.voidId
  /\ m.type = "EMAILIN" <=> q.messageType = "EMAILIN"
  /\ q.messageType = "EMAILOUT" =>
       \E p \in protocol :
         /\ RowsOf(q.messageId) = {p}
         /\ p.replytoFilterVoidId = m.filterVoidId
         /\ \E f \in FiltersNamed(directory, m.address) : f.id = p.toFilterUserId
  /\ q.messageType = "EMAILIN" =>
       \A v \in directory.filter_void :
         v.id = m.filterVoidId /\ v.accessRights = "PRIVATETHWONK" =>
           \E f \in FiltersNamed(directory, m.address), x \in directory.void_membership :
             x.userId = f.userId /\ x.voidId = q.voidId

ResultInv(s) ==
  /\ result[s].id # NULL => result[s].id <= lastId
  /\ result[s].value = "SUCCESS" =>
       Queued(result[s].id) /\ message[result[s].id].address = result[s].address
  /\ result[s].value = "FAILURE" /\ ~At(s, "noconn") =>
       ~Queued(result[s].id) /\ \A c \in Process : Writing(c) => call[c].id # result[s].id

Unused ==
  \A id \in MsgId : id > lastId => message[id] = NULL /\ RowsOf(id) = {} /\ ~Queued(id)

Beginners == {c \in Process : call[c].pc \in {"select", "message"}}

RoomLeft == lastId + Cardinality(Beginners) <= MaxMessages

PostInv ==
  /\ TypeOK
  /\ RoomLeft
  /\ Unused
  /\ OwnMessages
  /\ \A q \in started : q.messageType = "EMAILIN"
  /\ \A c \in Process : CallInv(c)
  /\ \A q \in queue : RowInv(q)
  /\ \A s \in Script : ResultInv(s)
  /\ ArrivedIsQueued
-----------------------------------------------------------------------------
(***************************************************************************)
(* A step of process c that changes no rows but those of message k.        *)
(***************************************************************************)
StepAt(c, k) ==
  /\ UNCHANGED directory
  /\ lastId' >= lastId
  /\ \A id \in MsgId \ {k} : message'[id] = message[id]
  /\ \A p \in protocol \cup protocol' : p.messageId # k => (p \in protocol' <=> p \in protocol)
  /\ queue \subseteq queue'
  /\ \A q \in queue' \ queue : q.messageId = k
  /\ started \subseteq started'
  /\ abandoned \subseteq abandoned'
  /\ \A d \in Process \ {c} : call'[d] = call[d]
  /\ \A s \in Script \ {c} : result'[s] = result[s]

\* The message of the step is nobody else's.
LEMMA Apart ==
  ASSUME PostInv, NEW c \in Process, NEW k, k = call[c].id \/ k = lastId + 1
  PROVE  /\ ~Queued(k)
         /\ \A d \in Process \ {c} : Writing(d) => call[d].id # k
         /\ \A s \in Script : result[s].value = "FAILURE" /\ ~At(s, "noconn") => result[s].id # k \/ k = NULL
         /\ \A s \in Script : result[s].value = "SUCCESS" => result[s].id # k
  <1>0. TypeOK /\ lastId \in Nat /\ CallInv(c)
    BY MaxMessagesAssumption DEF PostInv, TypeOK
  <1>1. CASE k = NULL
    <2>1. \A q \in queue : q.messageId # NULL
      BY <1>0, NullAssumption DEF TypeOK, QueueEntry, MsgId
    <2>2. \A d \in Process : Writing(d) => call[d].id # NULL
      BY <1>0, NullAssumption DEF PostInv, CallInv
    <2> QED BY <1>1, <2>1, <2>2 DEF Queued, PostInv, ResultInv
  <1>2. CASE k = call[c].id /\ k # NULL
    <2>1. Writing(c) /\ ~Queued(k)
      BY <1>0, <1>2 DEF CallInv
    <2>2. \A d \in Process \ {c} : call[d].id # k
      BY <1>2, <2>1 DEF PostInv, OwnMessages
    <2> QED BY <1>2, <2>1, <2>2 DEF PostInv, ResultInv
  <1>3. CASE k = lastId + 1
    <2>1. \A q \in queue : q.messageId <= lastId /\ q.messageId \in Nat
      BY <1>0 DEF PostInv, RowInv, TypeOK, QueueEntry, MsgId
    <2>2. ~Queued(k)
      BY <1>0, <1>3, <2>1 DEF Queued
    <2>3. \A d \in Process : Writing(d) => call[d].id \in 1..lastId
      BY DEF PostInv, CallInv
    <2>4. \A s \in Script : result[s].id # k
      <3> SUFFICES ASSUME NEW s \in Script, result[s].id = k PROVE FALSE
        OBVIOUS
      <3>1. result[s].id # NULL
        BY <1>0, <1>3, NullAssumption
      <3> QED BY <1>0, <1>3, <3>1 DEF PostInv, ResultInv
    <2> QED BY <1>0, <1>3, <2>2, <2>3, <2>4
  <1> QED BY <1>1, <1>2, <1>3

LEMMA RowsStay ==
  ASSUME NEW c, NEW k, StepAt(c, k), NEW id, id # k
  PROVE  RowsOf(id)' = RowsOf(id) /\ (Queued(id)' <=> Queued(id))
  <1>1. \A p \in protocol \cup protocol' : p.messageId = id => (p \in protocol' <=> p \in protocol)
    BY DEF StepAt
  <1>2. \A q \in queue' : q.messageId = id => q \in queue
    BY DEF StepAt
  <1>3. queue \subseteq queue'
    BY DEF StepAt
  <1>4. RowsOf(id)' = RowsOf(id)
    BY <1>1 DEF RowsOf
  <1>5. Queued(id)' <=> Queued(id)
    BY <1>2, <1>3 DEF Queued
  <1> QED BY <1>4, <1>5

LEMMA OldRowsKeep ==
  ASSUME PostInv, NEW c, NEW k, ~Queued(k), StepAt(c, k), TypeOK', NEW q \in queue
  PROVE  RowInv(q)' /\ message'[q.messageId] = message[q.messageId]
  <1>1. q.messageId # k /\ q.messageId \in MsgId
    BY DEF Queued, PostInv, TypeOK, QueueEntry
  <1>2. message'[q.messageId] = message[q.messageId] /\ RowsOf(q.messageId)' = RowsOf(q.messageId)
    BY <1>1, RowsStay DEF StepAt
  <1>3. directory' = directory /\ lastId' >= lastId /\ q.messageId <= lastId
    BY DEF StepAt, PostInv, RowInv
  <1>4. lastId \in Nat /\ lastId' \in Nat /\ q.messageId \in Nat
    BY <1>1, MaxMessagesAssumption DEF PostInv, TypeOK, MsgId
  <1>5. RowInv(q)
    BY DEF PostInv
  <1>6. q.messageId <= lastId'
    BY <1>3, <1>4
  <1>7. ASSUME q.messageType = "EMAILOUT"
        PROVE  \E p \in protocol' :
                 /\ RowsOf(q.messageId)' = {p}
                 /\ p.replytoFilterVoidId = message'[q.messageId].filterVoidId
                 /\ \E f \in FiltersNamed(directory', message'[q.messageId].address) : f.id = p.toFilterUserId
    <2>1. PICK p \in protocol :
            /\ RowsOf(q.messageId) = {p}
            /\ p.replytoFilterVoidId = message[q.messageId].filterVoidId
            /\ \E f \in FiltersNamed(directory, message[q.messageId].address) : f.id = p.toFilterUserId
      BY <1>5, <1>7 DEF RowInv
    <2>2. p \in protocol'
      BY <1>2, <2>1 DEF RowsOf
    <2> QED BY <1>2, <1>3, <2>1, <2>2
  <1>8. RowInv(q)'
    BY <1>2, <1>3, <1>5, <1>6, <1>7 DEF RowInv
  <1> QED BY <1>2, <1>8

LEMMA OthersKeep ==
  ASSUME PostInv, NEW c \in Process, NEW k, k = call[c].id \/ k = lastId + 1, StepAt(c, k), TypeOK',
         NEW d \in Process \ {c}
  PROVE  CallInv(d)'
  <1>0. /\ TypeOK /\ CallInv(d) /\ call'[d] = call[d] /\ directory' = directory /\ lastId' >= lastId
        /\ lastId \in Nat /\ lastId' \in Nat
    BY MaxMessagesAssumption DEF PostInv, StepAt, TypeOK
  <1>1. ~Queued(k) /\ (Writing(d) => call[d].id # k)
    BY Apart
  <1>2. Writing(d)' <=> Writing(d)
    BY <1>0 DEF Writing
  <1>3. ASSUME d \in Script, call[d].pc # "idle"
        PROVE  MessageRow(d)' = MessageRow(d) /\ ProtocolRow(d)' = ProtocolRow(d)
    <2>1. call[d].entry \in queue
      BY <1>0, <1>3 DEF CallInv, ScriptInv, TypeOK
    <2>2. message'[call[d].entry.messageId] = message[call[d].entry.messageId]
      BY <1>1, <2>1, OldRowsKeep
    <2> QED BY <1>0, <1>3, <2>2 DEF MessageRow, ProtocolRow
  <1>4. d \notin Script => MessageRow(d)' = MessageRow(d)
    BY <1>0 DEF MessageRow
  <1>5. ASSUME Writing(d)
        PROVE  /\ message'[call[d].id] = message[call[d].id] /\ RowsOf(call[d].id)' = RowsOf(call[d].id)
               /\ ~Queued(call[d].id)' /\ call[d].id \in 1..lastId'
    <2>1. call[d].id \in 1..lastId /\ call[d].id \in MsgId /\ ~Queued(call[d].id)
      BY <1>0, <1>5, MaxMessagesAssumption DEF CallInv, TypeOK, MsgId
    <2>2. \A id : id = call[d].id => RowsOf(id)' = RowsOf(id) /\ ~Queued(id)' /\ message'[id] = message[id]
      BY <1>1, <1>5, <2>1, RowsStay DEF StepAt
    <2>3. call[d].id \in 1..lastId'
      BY <1>0, <2>1
    <2> QED BY <1>0, <2>2, <2>3 DEF RowsOf, Queued
  <1>6. ASSUME d \in Injector PROVE InjectorInv(d)'
    <2>1. InjectorInv(d)
      BY <1>0, <1>6 DEF CallInv
    <2>2. Admitted(d)' <=> Admitted(d)
      BY <1>0 DEF Admitted
    <2>3. Writing(d) => RowsOf(call[d].id)' = {}
      BY <1>5, <2>1 DEF InjectorInv
    <2> QED BY <1>0, <1>2, <2>1, <2>2, <2>3 DEF InjectorInv
  <1>7. ASSUME d \in Script PROVE ScriptInv(d)'
    <2>1. ScriptInv(d) /\ started \subseteq started'
      BY <1>0, <1>7 DEF CallInv, StepAt
    <2>2. call[d].pc = "protocol" => RowsOf(call[d].id)' = {}
      BY <1>5, <2>1 DEF ScriptInv, Writing
    <2>3. call[d].pc = "queue" => RowsOf(call[d].id)' = {ProtocolRow(d)}'
      BY <1>3, <1>5, <1>7, <2>1 DEF ScriptInv, Writing
    <2> QED BY <1>0, <2>1, <2>2, <2>3 DEF ScriptInv
  <1>8. Writing(d) => MessageRow(d)' = MessageRow(d)
    BY <1>3, <1>4 DEF Writing
  <1> QED BY <1>0, <1>2, <1>5, <1>6, <1>7, <1>8 DEF CallInv

\* What a script was told stays true while the step writes another message.
LEMMA ResultKeeps ==
  ASSUME PostInv, TypeOK', NEW c \in Process, NEW k,
         k = call[c].id \/ (k = lastId + 1 /\ At(c, "message")),
         k = NULL \/ k <= lastId', StepAt(c, k), CallInv(c)', call'[c].id \in {NULL, k},
         NEW s \in Script, result'[s] = result[s], ~At(s, "noconn") \/ At(s, "noconn")'
  PROVE  ResultInv(s)'
  <1>0. /\ TypeOK /\ lastId \in Nat /\ lastId' \in Nat /\ lastId' >= lastId
        /\ ResultInv(s) /\ result[s].id \in MsgId \cup {NULL}
    BY MaxMessagesAssumption DEF PostInv, TypeOK, StepAt, Result
  <1>1. /\ \A d \in Process \ {c} : Writing(d) => call[d].id # k
        /\ result[s].value = "FAILURE" /\ ~At(s, "noconn") => result[s].id # k \/ k = NULL
        /\ result[s].value = "SUCCESS" => result[s].id # k
    BY Apart
  <1>2. result[s].id # NULL => result[s].id <= lastId'
    BY <1>0 DEF ResultInv, MsgId
  <1>3. ASSUME result[s].value = "SUCCESS"
        PROVE  Queued(result[s].id)' /\ message'[result[s].id].address = result[s].address
    <2>1. result[s].id # k /\ Queued(result[s].id)
      BY <1>0, <1>1, <1>3 DEF ResultInv
    <2>2. result[s].id \in MsgId
      BY <1>0, <2>1 DEF Queued, TypeOK, QueueEntry
    <2>3. Queued(result[s].id)'
      BY <2>1 DEF Queued, StepAt
    <2> QED BY <1>0, <1>3, <2>1, <2>2, <2>3 DEF ResultInv, StepAt
  <1>4. ASSUME result[s].value = "FAILURE", ~At(s, "noconn")
        PROVE  ~Queued(result[s].id)' /\ \A d \in Process : Writing(d)' => call'[d].id # result[s].id
    <2>1. result[s].id # k \/ (k = NULL /\ result[s].id = NULL)
      BY <1>1, <1>4
    <2>2. ASSUME NEW id, id = result[s].id PROVE ~Queued(id)'
      <3>1. CASE id # k
        BY <1>0, <1>4, <2>2, <3>1, RowsStay DEF ResultInv
      <3>2. CASE id = NULL
        BY <3>2, NullAssumption DEF Queued, TypeOK, QueueEntry, MsgId
      <3> QED BY <2>1, <2>2, <3>1, <3>2
    <2>3. ASSUME NEW d \in Process, Writing(d)' PROVE call'[d].id # result[s].id
      <3>1. CASE d = c
        BY <1>0, <2>1, <2>3, <3>1, NullAssumption DEF CallInv
      <3>2. CASE d # c
        <4>1. call'[d] = call[d]
          BY <3>2 DEF StepAt
        <4>2. Writing(d)
          BY <2>3, <4>1 DEF Writing
        <4> QED BY <1>0, <1>4, <4>1, <4>2 DEF ResultInv
      <3> QED BY <3>1, <3>2
    <2>4. ~Queued(result[s].id)'
      BY <2>2 DEF Queued
    <2> QED BY <2>3, <2>4
  <1> QED BY <1>0, <1>2, <1>3, <1>4 DEF ResultInv, Queued

\* The whole invariant, from what a step of c has to say of its own message.
LEMMA PostKeeps ==
  ASSUME PostInv, TypeOK', RoomLeft', NEW c \in Process, NEW k,
         k = call[c].id \/ (k = lastId + 1 /\ At(c, "message")),
         k = NULL \/ k <= lastId', StepAt(c, k),
         \A q \in started' : q.messageType = "EMAILIN",
         CallInv(c)', call'[c].id \in {NULL, k},
         \A q \in queue' \ queue : RowInv(q)',
         c \in Script => ResultInv(c)',
         k \in MsgId /\ message'[k] # NULL /\ message'[k].type = "EMAILIN" =>
           Queued(k)' \/ call'[c].id = k \/ k \in abandoned'
  PROVE  PostInv'
  <1>0. TypeOK /\ lastId \in Nat /\ lastId' \in Nat /\ lastId' >= lastId /\ (k = NULL \/ k \in 1..lastId')
    <2>1. TypeOK /\ lastId \in Nat /\ lastId' \in Nat /\ lastId' >= lastId
      BY MaxMessagesAssumption DEF PostInv, TypeOK, StepAt
    <2>2. k = call[c].id => k = NULL \/ k \in 1..lastId
      BY DEF PostInv, CallInv
    <2> QED BY <2>1, <2>2
  <1>1. /\ ~Queued(k)
        /\ \A d \in Process \ {c} : Writing(d) => call[d].id # k
        /\ \A s \in Script : result[s].value = "FAILURE" /\ ~At(s, "noconn") => result[s].id # k \/ k = NULL
        /\ \A s \in Script : result[s].value = "SUCCESS" => result[s].id # k
    BY Apart
  <1>2. \A d \in Process \ {c} : call'[d] = call[d] /\ CallInv(d)'
    BY OthersKeep DEF StepAt
  <1>3. \A d \in Process : CallInv(d)'
    BY <1>2
  <1>4. \A id : id # k => RowsOf(id)' = RowsOf(id) /\ (Queued(id)' <=> Queued(id))
    BY RowsStay
  <1>5. \A d \in Process : Writing(d)' => call'[d].id \in 1..lastId' /\ call'[d].id # NULL
    BY <1>0, <1>3, NullAssumption DEF CallInv
  <1>6. \A d \in Process \ {c} : call[d].id # k \/ k = NULL
    BY <1>0, <1>1 DEF PostInv, CallInv
  <1>7. \A d \in Process \ {c} : Writing(d)' <=> Writing(d)
    BY <1>2 DEF Writing
  <1>8. Unused'
    <2> SUFFICES ASSUME NEW id \in MsgId, id > lastId'
                 PROVE  message'[id] = NULL /\ RowsOf(id)' = {} /\ ~Queued(id)'
      BY DEF Unused, RowsOf, Queued
    <2>1. id \in Nat /\ id # k /\ id > lastId
      BY <1>0, NullAssumption DEF MsgId
    <2> QED BY <1>4, <2>1 DEF PostInv, Unused, StepAt
  <1>9. OwnMessages'
    <2> SUFFICES ASSUME NEW a \in Process, NEW b \in Process, Writing(a)', call'[a].id = call'[b].id
                 PROVE  a = b
      BY DEF OwnMessages, Writing
    <2>1. CASE a # c /\ b # c
      BY <1>2, <1>7, <2>1 DEF PostInv, OwnMessages
    <2>2. CASE a = c /\ b # c
      BY <1>2, <1>5, <1>6, <2>2
    <2>3. CASE a # c /\ b = c
      BY <1>2, <1>5, <1>6, <2>3
    <2> QED BY <2>1, <2>2, <2>3
  <1>10. \A q \in queue' : RowInv(q)'
    BY <1>1, OldRowsKeep
  <1>11. ASSUME NEW s \in Script \ {c} PROVE ResultInv(s)'
    <2>1. s \in Process /\ result'[s] = result[s] /\ call'[s] = call[s]
      BY DEF Process, StepAt
    <2>2. ~At(s, "noconn") \/ At(s, "noconn")'
      BY <2>1 DEF At
    <2> QED BY <2>1, <2>2, ResultKeeps
  <1>12. ArrivedIsQueued'
    <2> SUFFICES ASSUME NEW id \in MsgId, message'[id] # NULL, message'[id].type = "EMAILIN"
                 PROVE  Queued(id)' \/ Excused(id)'
      BY DEF ArrivedIsQueued, Queued, Excused, BeingWritten
    <2>1. CASE id = k
      BY <2>1 DEF Excused, BeingWritten, Queued
    <2>2. CASE id # k
      <3>1. message[id] = message'[id] /\ abandoned \subseteq abandoned'
        BY <2>2 DEF StepAt
      <3>2. Queued(id) \/ BeingWritten(id) \/ id \in abandoned
        BY <3>1 DEF PostInv, ArrivedIsQueued, Excused
      <3>3. call[c].id # id
        <4>1. At(c, "message") => call[c].id = NULL
          BY DEF PostInv, CallInv, Writing, At
        <4> QED BY <2>2, <4>1, NullAssumption DEF MsgId
      <3>4. BeingWritten(id) => BeingWritten(id)'
        BY <1>2, <3>3 DEF BeingWritten
      <3> QED BY <1>4, <2>2, <3>1, <3>2, <3>4 DEF Excused, BeingWritten, Queued
    <2> QED BY <2>1, <2>2
  <1>13. \A s \in Script : ResultInv(s)'
    BY <1>11
  <1> QED BY <1>3, <1>8, <1>9, <1>10, <1>12, <1>13 DEF PostInv

\* A step that changes no row: c may go on, or give its message up.
LEMMA QuietKeeps ==
  ASSUME PostInv, TypeOK', RoomLeft', NEW c \in Process,
         UNCHANGED <<directory, message, protocol, queue, lastId>>,
         started \subseteq started', \A q \in started' : q.messageType = "EMAILIN",
         abandoned \subseteq abandoned',
         \A d \in Process \ {c} : call'[d] = call[d],
         \A s \in Script \ {c} : result'[s] = result[s],
         CallInv(c)', c \in Script => ResultInv(c)',
         call'[c].id = call[c].id
           \/ (call'[c].id = NULL /\ (call[c].id = NULL \/ message[call[c].id] = NULL \/ call[c].id \in abandoned'))
  PROVE  PostInv'
  <1> DEFINE k == call[c].id
  <1>0. lastId \in Nat /\ (k = NULL \/ k \in 1..lastId)
    BY MaxMessagesAssumption DEF PostInv, TypeOK, CallInv
  <1>1. StepAt(c, k)
    BY <1>0 DEF StepAt
  <1>2. k = NULL \/ k <= lastId'
    BY <1>0
  <1>3. k \in MsgId => k # NULL
    BY NullAssumption DEF MsgId
  <1> HIDE DEF k
  <1>4. k \in MsgId /\ message'[k] # NULL /\ message'[k].type = "EMAILIN" =>
          Queued(k)' \/ call'[c].id = k \/ k \in abandoned'
    BY <1>3 DEF k
  <1>5. call'[c].id \in {NULL, k}
    BY DEF k
  <1> QED BY <1>1, <1>2, <1>4, <1>5, PostKeeps DEF k
-----------------------------------------------------------------------------
(***************************************************************************)
(* Types, and what keeps lastId within its bound.                          *)
(***************************************************************************)
LEMMA BeginnersFinite == IsFiniteSet(Beginners) /\ Cardinality(Beginners) \in Nat
  <1>1. Beginners \in SUBSET Process /\ IsFiniteSet(Process)
    BY ProcessesAssumption DEF Beginners, Process
  <1>2. IsFiniteSet(Beginners)
    BY <1>1, FS_Subset
  <1> QED BY <1>2, FS_CardinalityType

LEMMA RoomKept ==
  ASSUME PostInv, UNCHANGED lastId, Beginners' \subseteq Beginners
  PROVE  RoomLeft'
  <1>1. Cardinality(Beginners') <= Cardinality(Beginners) /\ Cardinality(Beginners') \in Nat
    <2>1. Beginners' \in SUBSET Beginners
      OBVIOUS
    <2>2. IsFiniteSet(Beginners') /\ Cardinality(Beginners') <= Cardinality(Beginners)
      BY <2>1, BeginnersFinite, FS_Subset
    <2> QED BY <2>2, FS_CardinalityType
  <1>2. lastId \in Nat /\ lastId' = lastId /\ RoomLeft
    BY DEF PostInv, TypeOK
  <1> HIDE DEF Beginners
  <1>3. RoomLeft' <=> lastId' + Cardinality(Beginners') <= MaxMessages
    BY DEF RoomLeft
  <1> QED BY <1>1, <1>2, <1>3, BeginnersFinite, MaxMessagesAssumption DEF RoomLeft

LEMMA RoomTaken ==
  ASSUME PostInv, Room, UNCHANGED lastId, NEW c, Beginners' \subseteq Beginners \cup {c}
  PROVE  RoomLeft'
  <1>1. Cardinality(Beginners') <= Cardinality(Beginners) + 1 /\ Cardinality(Beginners') \in Nat
    <2>1. /\ IsFiniteSet(Beginners \cup {c}) /\ Cardinality(Beginners \cup {c}) \in Nat
          /\ Cardinality(Beginners \cup {c}) <= Cardinality(Beginners) + 1
      <3>1. IsFiniteSet(Beginners \cup {c})
            /\ Cardinality(Beginners \cup {c}) = IF c \in Beginners THEN Cardinality(Beginners) ELSE Cardinality(Beginners) + 1
        BY BeginnersFinite, FS_AddElement
      <3> HIDE DEF Beginners
      <3> QED BY <3>1, BeginnersFinite
    <2>2. Beginners' \in SUBSET (Beginners \cup {c})
      OBVIOUS
    <2>3. IsFiniteSet(Beginners') /\ Cardinality(Beginners') <= Cardinality(Beginners \cup {c})
      BY <2>1, <2>2, FS_Subset
    <2>4. Cardinality(Beginners') \in Nat
      BY <2>3, FS_CardinalityType
    <2> HIDE DEF Beginners
    <2> QED BY <2>1, <2>3, <2>4, BeginnersFinite
  <1>2. lastId \in Nat /\ lastId' = lastId
    BY DEF PostInv, TypeOK
  <1>3. lastId + Cardinality(Beginners) < MaxMessages
    BY DEF Room, Beginners
  <1> HIDE DEF Beginners
  <1>4. RoomLeft' <=> lastId' + Cardinality(Beginners') <= MaxMessages
    BY DEF RoomLeft
  <1> QED BY <1>1, <1>2, <1>3, <1>4, BeginnersFinite, MaxMessagesAssumption

\* The process that inserts a message was counted.
LEMMA RoomUsed ==
  ASSUME PostInv, NEW c \in Process, At(c, "message"), lastId' = lastId + 1, Beginners' = Beginners \ {c}
  PROVE  RoomLeft' /\ lastId' \in 1..MaxMessages
  <1>1. c \in Beginners
    BY DEF At, Beginners
  <1>2. Cardinality(Beginners \ {c}) = Cardinality(Beginners) - 1 /\ Cardinality(Beginners \ {c}) \in Nat
    <2>1. /\ IsFiniteSet(Beginners \ {c})
          /\ Cardinality(Beginners \ {c}) = IF c \in Beginners THEN Cardinality(Beginners) - 1 ELSE Cardinality(Beginners)
      BY BeginnersFinite, FS_RemoveElement
    <2>2. Cardinality(Beginners \ {c}) \in Nat
      BY <2>1, FS_CardinalityType
    <2> QED BY <1>1, <2>1, <2>2
  <1>3. lastId \in Nat /\ RoomLeft
    BY DEF PostInv, TypeOK
  <1>4. RoomLeft' <=> lastId' + Cardinality(Beginners') <= MaxMessages
    BY DEF RoomLeft
  <1> HIDE DEF Beginners
  <1> QED BY <1>2, <1>3, <1>4, BeginnersFinite, MaxMessagesAssumption DEF RoomLeft

\* A quiet step, told by the record that c goes on with.
LEMMA QuietStep ==
  ASSUME PostInv, NEW c \in Process, NEW r \in Call, call' = [call EXCEPT ![c] = r],
         UNCHANGED <<directory, message, protocol, queue, lastId>>,
         r.pc \notin {"select", "message"} \/ c \in Beginners \/ Room,
         started \subseteq started', started' \subseteq queue, \A q \in started' : q.messageType = "EMAILIN",
         abandoned \subseteq abandoned', abandoned' \subseteq MsgId,
         result' \in [Script -> Result], \A s \in Script \ {c} : result'[s] = result[s],
         CallInv(c)', c \in Script => ResultInv(c)',
         r.id = call[c].id
           \/ (r.id = NULL /\ (call[c].id = NULL \/ message[call[c].id] = NULL \/ call[c].id \in abandoned'))
  PROVE  PostInv'
  <1>0. TypeOK
    BY DEF PostInv
  <1>1. call' \in [Process -> Call] /\ call'[c] = r /\ \A d \in Process \ {c} : call'[d] = call[d]
    BY <1>0 DEF TypeOK
  <1>2. TypeOK'
    BY <1>0, <1>1 DEF TypeOK
  <1>3. RoomLeft'
    <2>1. CASE r.pc \notin {"select", "message"} \/ c \in Beginners
      <3>1. Beginners' \subseteq Beginners
        BY <1>1, <2>1 DEF Beginners
      <3> QED BY <3>1, RoomKept
    <2>2. CASE Room
      <3>1. Beginners' \subseteq Beginners \cup {c}
        BY <1>1 DEF Beginners
      <3> QED BY <2>2, <3>1, RoomTaken
    <2> QED BY <2>1, <2>2
  <1> QED BY <1>1, <1>2, <1>3, QuietKeeps
-----------------------------------------------------------------------------
(***************************************************************************)
(* Types of what the actions read.                                         *)
(***************************************************************************)
LEMMA DirectoryTyped ==
  ASSUME TypeOK
  PROVE  /\ directory.user \subseteq User /\ directory.filter_user \subseteq UserFilter
         /\ directory.filter_void \subseteq VoidFilter
         /\ \A u \in User : u # NULL /\ u.id \in UserId
         /\ \A f \in UserFilter : f # NULL /\ f.userId \in UserId /\ f.id \in FilterUserId
         /\ \A v \in VoidFilter : v # NULL /\ v.id \in FilterVoidId /\ v.voidId \in VoidId
         /\ \A v, w \in directory.filter_void : v.id = w.id => v = w
         /\ \E u \in directory.user : u.username = UNKNOWN_USER
  <1>1. directory \in Directories
    BY DEF TypeOK
  <1>2. /\ directory.user \subseteq User /\ directory.filter_user \subseteq UserFilter
        /\ directory.filter_void \subseteq VoidFilter
    BY <1>1 DEF User, UserFilter, VoidFilter
  <1>3. \A u \in User : u # NULL /\ u.id \in UserId
    BY NullAssumption DEF UserId
  <1>4. \A f \in UserFilter : f # NULL /\ f.userId \in UserId /\ f.id \in FilterUserId
    BY NullAssumption DEF UserId, FilterUserId
  <1>5. \A v \in VoidFilter : v # NULL /\ v.id \in FilterVoidId /\ v.voidId \in VoidId
    BY NullAssumption DEF FilterVoidId, VoidId
  <1> QED BY <1>1, <1>2, <1>3, <1>4, <1>5, DirectoriesAssumption

LEMMA CallTyped ==
  ASSUME PostInv, NEW c \in Process
  PROVE  /\ call[c] \in Call /\ CallInv(c)
         /\ Idle \in Call /\ NoResult \in Result
         /\ c \in Script => result[c] \in Result /\ ResultInv(c)
         /\ c \in Injector <=> c \notin Script
  <1>1. call[c] \in Call /\ CallInv(c) /\ (c \in Script => result[c] \in Result /\ ResultInv(c))
    BY DEF PostInv, TypeOK
  <1>2. Idle \in Call /\ NoResult \in Result
    BY DEF Idle, NoResult, Call, Result
  <1> QED BY <1>1, <1>2, ProcessAssumption DEF Process

\* Where a process is when it has left.
Afterwards(c, pc) == IF c \in Script THEN [Idle EXCEPT !.pc = pc, !.entry = call[c].entry] ELSE Idle

LEMMA Left ==
  ASSUME PostInv, NEW c \in Process, NEW value \in {"SUCCESS", "FAILURE"}, NEW pc \in {"script", "noconn"},
         call[c].pc # "idle", Leave(c, value, pc)
  PROVE  /\ Afterwards(c, pc) \in Call /\ call' = [call EXCEPT ![c] = Afterwards(c, pc)]
         /\ Afterwards(c, pc).id = NULL /\ Afterwards(c, pc).pc \in {"idle", "script", "noconn"}
         /\ result' \in [Script -> Result] /\ \A s \in Script \ {c} : result'[s] = result[s]
         /\ c \in Script =>
              /\ result'[c] = [value |-> value, id |-> call[c].id, address |-> call[c].address]
              /\ Afterwards(c, pc).pc = pc
         /\ call' \in [Process -> Call] /\ call'[c] = Afterwards(c, pc)
  <1>1. call[c] \in Call /\ TypeOK
    BY CallTyped DEF PostInv
  <1>2. Afterwards(c, pc) \in Call /\ Afterwards(c, pc).id = NULL
        /\ Afterwards(c, pc).pc = IF c \in Script THEN pc ELSE "idle"
    BY <1>1 DEF Afterwards, Idle, Call
  <1>3. call' = [call EXCEPT ![c] = Afterwards(c, pc)]
    BY DEF Leave, Afterwards
  <1>4. CASE c \in Script
    <2>1. result' = [result EXCEPT ![c] = [value |-> value, id |-> call[c].id, address |-> call[c].address]]
      BY <1>4 DEF Leave
    <2>2. [value |-> value, id |-> call[c].id, address |-> call[c].address] \in Result
      BY <1>1 DEF Call, Result
    <2> QED BY <1>1, <1>2, <1>3, <1>4, <2>1, <2>2 DEF TypeOK
  <1>5. CASE c \notin Script
    BY <1>1, <1>2, <1>3, <1>5 DEF TypeOK, Leave
  <1> QED BY <1>4, <1>5

\* Once it has left, a process has nothing in hand.
LEMMA LeftInv ==
  ASSUME PostInv, NEW c \in Process, NEW pc \in {"script", "noconn"}, call[c].pc # "idle",
         call' \in [Process -> Call], call'[c] = Afterwards(c, pc), started \subseteq started'
  PROVE  CallInv(c)'
  <1>1. CallInv(c) /\ (c \in Injector <=> c \notin Script)
    BY CallTyped
  <1>2. /\ call'[c].id = NULL /\ call'[c].pc = IF c \in Script THEN pc ELSE "idle"
        /\ c \in Script => call'[c].entry = call[c].entry
    BY DEF Afterwards, Idle
  <1>3. ~Writing(c)'
    BY <1>2 DEF Writing
  <1>4. ASSUME c \in Injector PROVE InjectorInv(c)'
    BY <1>1, <1>2, <1>3, <1>4 DEF InjectorInv
  <1>5. ASSUME c \in Script PROVE ScriptInv(c)'
    BY <1>1, <1>2, <1>5 DEF CallInv, ScriptInv
  <1> QED BY <1>2, <1>3, <1>4, <1>5 DEF CallInv
-----------------------------------------------------------------------------
(***************************************************************************)
(* Steps that change no row.                                               *)
(***************************************************************************)
\* A call that failed: its message, if there was one, is nobody's any more.
LEMMA FailedResult ==
  ASSUME PostInv, NEW c \in Script, NEW pc \in {"script", "noconn"}, call[c].pc # "idle",
         Leave(c, "FAILURE", pc), lastId' \in Nat, lastId' >= lastId, pc = "noconn" \/ queue' = queue
  PROVE  ResultInv(c)'
  <1>1. c \in Process /\ lastId \in Nat
    BY DEF Process, PostInv, TypeOK
  <1>2. /\ call'[c] = Afterwards(c, pc) /\ Afterwards(c, pc).pc = pc
        /\ result'[c] = [value |-> "FAILURE", id |-> call[c].id, address |-> call[c].address]
        /\ call' = [call EXCEPT ![c] = Afterwards(c, pc)]
    BY <1>1, Left
  <1>3. ~Queued(call[c].id) /\ \A d \in Process \ {c} : Writing(d) => call[d].id # call[c].id
    BY <1>1, Apart
  <1>4. call[c].id # NULL => call[c].id <= lastId'
    BY <1>1 DEF PostInv, CallInv
  <1>5. At(c, "noconn")' <=> pc = "noconn"
    BY <1>2 DEF At
  <1>6. \A d \in Process \ {c} : call'[d] = call[d]
    BY <1>2 DEF PostInv, TypeOK
  <1>7. ~Writing(c)'
    BY <1>2 DEF Writing
  <1>8. \A d \in Process : Writing(d)' => call'[d].id # call[c].id
    BY <1>3, <1>6, <1>7 DEF Writing
  <1>9. pc = "noconn" \/ \A q \in queue' : q.messageId # call[c].id
    BY <1>3 DEF Queued
  <1>10. NULL # call[c].id => call[c].id <= lastId' /\ lastId' \in Nat
    BY <1>4
  <1> HIDE DEF Writing
  <1> QED BY <1>2, <1>5, <1>8, <1>9, <1>10 DEF ResultInv, Queued

LEMMA FailKeeps ==
  ASSUME PostInv, NEW c \in Process, NEW pc \in {"script", "noconn"}, call[c].pc # "idle",
         Leave(c, "FAILURE", pc), UNCHANGED <<directory, message, protocol, queue, lastId, started>>,
         abandoned \subseteq abandoned', abandoned' \subseteq MsgId,
         call[c].id = NULL \/ message[call[c].id] = NULL \/ call[c].id \in abandoned'
  PROVE  PostInv'
  <1>1. /\ Afterwards(c, pc) \in Call /\ call' = [call EXCEPT ![c] = Afterwards(c, pc)]
        /\ Afterwards(c, pc).id = NULL /\ Afterwards(c, pc).pc \in {"idle", "script", "noconn"}
        /\ result' \in [Script -> Result] /\ \A s \in Script \ {c} : result'[s] = result[s]
        /\ call' \in [Process -> Call] /\ call'[c] = Afterwards(c, pc)
    BY Left
  <1>2. CallInv(c)'
    BY <1>1, LeftInv
  <1>3. lastId \in Nat /\ started \subseteq queue /\ \A q \in started : q.messageType = "EMAILIN"
    BY DEF PostInv, TypeOK
  <1>4. c \in Script => ResultInv(c)'
    BY <1>3, FailedResult
  <1> QED BY <1>1, <1>2, <1>3, <1>4, QuietStep

LEMMA RejectKeeps ==
  ASSUME PostInv, NEW i \in Injector, Reject(i)
  PROVE  PostInv'
  <1>1. i \in Process /\ At(i, "select")
    BY DEF Process, Reject
  <1>2. call[i].id = NULL /\ call[i].pc # "idle" /\ abandoned \subseteq MsgId
    BY <1>1 DEF PostInv, CallInv, Writing, At, TypeOK
  <1> QED BY <1>1, <1>2, FailKeeps DEF Reject, Fail

LEMMA InsertMessageFailsKeeps ==
  ASSUME PostInv, NEW c \in Process, InsertMessageFails(c)
  PROVE  PostInv'
  <1>1. At(c, "message")
    BY DEF InsertMessageFails, Broken
  <1>2. call[c].id = NULL /\ call[c].pc # "idle" /\ abandoned \subseteq MsgId
    BY <1>1 DEF PostInv, CallInv, Writing, At, TypeOK
  <1> QED BY <1>1, <1>2, FailKeeps DEF InsertMessageFails, Fail

\* Whoever stops leaves its message queued, taken back or abandoned.
LEMMA Abandons ==
  ASSUME PostInv, NEW c \in Process, UNCHANGED <<message, queue>>, LeaveBehind(call[c].id)
  PROVE  /\ abandoned \subseteq abandoned' /\ abandoned' \subseteq MsgId
         /\ call[c].id = NULL \/ message[call[c].id] = NULL \/ call[c].id \in abandoned'
  <1>1. call[c].id \in MsgId \cup {NULL} /\ abandoned \subseteq MsgId
    BY CallTyped DEF Call, PostInv, TypeOK
  <1>2. \A q \in queue : q.messageId # call[c].id
    BY Apart DEF Queued
  <1> QED BY <1>1, <1>2 DEF LeaveBehind

LEMMA DeleteFailsKeeps ==
  ASSUME PostInv, NEW c \in Process, DeleteFails(c)
  PROVE  PostInv'
  <1>1. At(c, "delete")
    BY DEF DeleteFails, Broken
  <1> QED BY <1>1, Abandons, FailKeeps DEF DeleteFails, Fail, At

LEMMA IdleInv ==
  ASSUME NEW c \in Process, call' \in [Process -> Call], call'[c] = Idle
  PROVE  CallInv(c)'
  <1>1. call'[c].pc = "idle" /\ call'[c].id = NULL
    BY DEF Idle
  <1>2. ~Writing(c)'
    BY <1>1 DEF Writing
  <1> QED BY <1>1, <1>2 DEF CallInv, InjectorInv, ScriptInv

LEMMA NoResultInv ==
  ASSUME NEW s \in Script, result'[s] = NoResult
  PROVE  ResultInv(s)'
  BY DEF ResultInv, NoResult

LEMMA KillKeeps ==
  ASSUME PostInv, NEW c \in Process, Kill(c)
  PROVE  PostInv'
  <1>1. Idle \in Call /\ NoResult \in Result /\ Idle.pc = "idle" /\ Idle.id = NULL
    BY CallTyped DEF Idle
  <1>2. TypeOK /\ started \subseteq queue /\ \A q \in started : q.messageType = "EMAILIN"
    BY DEF PostInv, TypeOK
  <1>3. call' = [call EXCEPT ![c] = Idle] /\ call' \in [Process -> Call] /\ call'[c] = Idle
    BY <1>1, <1>2 DEF Kill, TypeOK
  <1>4. CallInv(c)'
    BY <1>3, IdleInv
  <1>5. /\ result' \in [Script -> Result] /\ \A s \in Script \ {c} : result'[s] = result[s]
        /\ c \in Script => result'[c] = NoResult
    BY <1>1, <1>2 DEF Kill, TypeOK
  <1>6. c \in Script => ResultInv(c)'
    BY <1>5, NoResultInv
  <1>7. UNCHANGED <<directory, message, protocol, queue, lastId, started>>
    BY DEF Kill
  <1>8. /\ abandoned \subseteq abandoned' /\ abandoned' \subseteq MsgId
        /\ call[c].id = NULL \/ message[call[c].id] = NULL \/ call[c].id \in abandoned'
    BY Abandons DEF Kill
  <1> QED BY <1>1, <1>2, <1>3, <1>4, <1>5, <1>6, <1>7, <1>8, QuietStep

LEMMA InsertFailsKeeps ==
  ASSUME PostInv, NEW c \in Process, InsertFails(c)
  PROVE  PostInv'
  <1> DEFINE r == [call[c] EXCEPT !.pc = "delete"]
  <1>1. call[c].pc \in {"protocol", "queue"} /\ Writing(c)
    BY DEF InsertFails, Broken, At, Writing
  <1>2. call[c] \in Call /\ r \in Call /\ call' = [call EXCEPT ![c] = r] /\ CallInv(c)
    BY CallTyped DEF InsertFails, Goto, Call
  <1>3. TypeOK /\ started \subseteq queue /\ \A q \in started : q.messageType = "EMAILIN"
    BY DEF PostInv, TypeOK
  <1>4. call' \in [Process -> Call] /\ call'[c] = r
    BY <1>2, <1>3 DEF TypeOK
  <1>5. UNCHANGED <<directory, message, protocol, queue, lastId, started, abandoned, result>>
    BY DEF InsertFails
  <1>6. /\ r.pc = "delete" /\ r.id = call[c].id /\ r.address = call[c].address /\ r.voidFilter = call[c].voidFilter
        /\ r.userId = call[c].userId /\ r.userFilter = call[c].userFilter /\ r.entry = call[c].entry
    BY <1>2 DEF Call
  <1>7. CallInv(c)'
    <2> HIDE DEF r
    <2>1. MessageRow(c)' = MessageRow(c)
      BY <1>4, <1>5, <1>6 DEF MessageRow
    <2>2. Writing(c)' /\ (Queued(call[c].id)' <=> Queued(call[c].id))
      BY <1>4, <1>5, <1>6 DEF Writing, Queued
    <2>3. c \in Injector => InjectorInv(c)'
      BY <1>1, <1>2, <1>4, <1>5, <1>6 DEF CallInv, InjectorInv, Admitted, RowsOf, Writing
    <2>4. c \in Script => ScriptInv(c)'
      BY <1>1, <1>2, <1>4, <1>5, <1>6 DEF CallInv, ScriptInv
    <2> QED BY <1>1, <1>2, <1>4, <1>5, <1>6, <2>1, <2>2, <2>3, <2>4 DEF CallInv, Queued
  <1>8. ASSUME c \in Script PROVE ResultInv(c)'
    <2>1. ResultInv(c) /\ ~At(c, "noconn")
      BY <1>1, <1>8, CallTyped DEF At
    <2>2. \A d \in Process : Writing(d)' => Writing(d) /\ call'[d].id = call[d].id
      BY <1>1, <1>2, <1>3, <1>6 DEF Writing, TypeOK
    <2> QED BY <1>5, <1>8, <2>1, <2>2 DEF ResultInv, Queued
  <1>9. result' \in [Script -> Result] /\ abandoned' \subseteq MsgId
    BY <1>3, <1>5 DEF TypeOK
  <1> QED BY <1>2, <1>3, <1>5, <1>6, <1>7, <1>8, <1>9, QuietStep


LEMMA UnchangedKeeps ==
  ASSUME PostInv, UNCHANGED vars
  PROVE  PostInv'
  <1> USE DEF vars
  <1>1. TypeOK' /\ RoomLeft' /\ Unused' /\ OwnMessages'
    BY DEF PostInv, TypeOK, RoomLeft, Beginners, Unused, OwnMessages, Writing, RowsOf, Queued
  <1>2. ASSUME NEW c \in Process PROVE CallInv(c)'
    <2>1. CallInv(c)
      BY DEF PostInv
    <2> QED BY <2>1 DEF CallInv, InjectorInv, ScriptInv, Writing, Admitted, MessageRow, ProtocolRow, Queued, RowsOf
  <1>3. ASSUME NEW q \in queue PROVE RowInv(q)'
    BY DEF PostInv, RowInv, RowsOf
  <1>4. ASSUME NEW s \in Script PROVE ResultInv(s)'
    BY DEF PostInv, ResultInv, Queued, At, Writing
  <1>5. ArrivedIsQueued'
    BY DEF PostInv, ArrivedIsQueued, Queued, Excused, BeingWritten
  <1>6. \A q \in started' : q.messageType = "EMAILIN"
    BY DEF PostInv
  <1> QED BY <1>1, <1>2, <1>3, <1>4, <1>5, <1>6 DEF PostInv

\* A step of an injector that only looks things up.
LEMMA InjectorReads ==
  ASSUME PostInv, NEW i \in Injector, NEW r \in Call, call' = [call EXCEPT ![i] = r],
         UNCHANGED <<directory, message, protocol, queue, lastId, started, abandoned, result>>,
         r.pc \in {"select", "message"}, r.id = NULL, call[i].id = NULL,
         i \in Beginners \/ Room, InjectorInv(i)'
  PROVE  PostInv'
  <1>1. TypeOK /\ i \in Process /\ i \notin Script /\ started \subseteq queue
    BY ProcessAssumption DEF PostInv, TypeOK, Process
  <1>2. call'[i] = r
    BY <1>1 DEF TypeOK
  <1>3. CallInv(i)'
    BY <1>1, <1>2 DEF CallInv, Writing
  <1>4. result' \in [Script -> Result] /\ abandoned' \subseteq MsgId
    BY <1>1 DEF TypeOK
  <1>5. \A q \in started : q.messageType = "EMAILIN"
    BY DEF PostInv
  <1> QED BY <1>1, <1>3, <1>4, <1>5, QuietStep

LEMMA ReceiveKeeps ==
  ASSUME PostInv, NEW i \in Injector, NEW from \in Address, NEW to \in Address, Receive(i, from, to)
  PROVE  PostInv'
  <1>1. PICK v \in getVoidFilterByIdentifier(directory, to) :
          call' = [call EXCEPT ![i] = [Idle EXCEPT !.pc = "select", !.address = from, !.voidFilter = v]]
    BY DEF Receive
  <1> DEFINE r == [Idle EXCEPT !.pc = "select", !.address = from, !.voidFilter = v]
  <1>2. TypeOK /\ i \in Process /\ v \in directory.filter_void \cup {NULL} /\ call[i].id = NULL
    BY DEF PostInv, Process, CallInv, Writing, Receive, At, getVoidFilterByIdentifier, LimitOne
  <1>3. r \in Call
    BY <1>2, DirectoryTyped DEF Idle, Call
  <1>4. call'[i] = r /\ r.pc = "select" /\ r.id = NULL /\ r.address = from /\ r.voidFilter = v
    BY <1>1, <1>2 DEF TypeOK, Idle
  <1>5. InjectorInv(i)'
    BY <1>2, <1>4 DEF InjectorInv, Writing, Receive
  <1> HIDE DEF r
  <1>6. call' = [call EXCEPT ![i] = r]
    BY <1>1 DEF r
  <1> QED BY <1>2, <1>3, <1>4, <1>5, <1>6, InjectorReads DEF Receive

LEMMA FileUnderKeeps ==
  ASSUME PostInv, NEW i \in Injector, At(i, "select"), Admitted(i),
         NEW u \in User, NEW f \in directory.filter_user, FileUnder(i, u, f),
         UNCHANGED <<directory, message, protocol, queue, lastId, started, abandoned, result>>
  PROVE  PostInv'
  <1> DEFINE r == [call[i] EXCEPT !.pc = "message", !.userId = u.id, !.userFilter = f]
  <1>1. TypeOK /\ i \in Process /\ call[i] \in Call /\ InjectorInv(i) /\ call[i].id = NULL /\ i \in Beginners
    BY CallTyped DEF PostInv, Process, CallInv, Writing, At, Beginners
  <1>2. r \in Call
    BY <1>1, DirectoryTyped DEF Call
  <1>3. call' = [call EXCEPT ![i] = r]
    BY <1>1 DEF FileUnder, TypeOK
  <1>4. /\ call'[i] = r /\ r.pc = "message" /\ r.id = NULL /\ r.address = call[i].address
        /\ r.voidFilter = call[i].voidFilter /\ r.userId = u.id /\ r.userFilter = f
    BY <1>1, <1>3 DEF TypeOK, Call
  <1>5. u.id \in UserId
    BY <1>1, DirectoryTyped
  <1> HIDE DEF r
  <1>6. InjectorInv(i)'
    BY <1>1, <1>4, <1>5 DEF InjectorInv, Writing, Admitted, At
  <1> QED BY <1>1, <1>2, <1>3, <1>4, <1>6, InjectorReads

LEMMA IdentifyUserKeeps ==
  ASSUME PostInv, NEW i \in Injector, IdentifyUser(i)
  PROVE  PostInv'
  <1>1. PICK u \in getUserEntryByEmail(directory, call[i].address),
             f \in getUserFilterByIdentifier(directory, call[i].address) : u # NULL /\ FileUnder(i, u, f)
    BY DEF IdentifyUser
  <1>2. /\ u \in directory.user
        /\ \E g \in FiltersNamed(directory, call[i].address) : g.id = u.emailId
    BY <1>1 DEF getUserEntryByEmail, LimitOne
  <1>3. f \in directory.filter_user
    BY <1>2 DEF getUserFilterByIdentifier, LimitOne, FiltersNamed
  <1>4. u \in User
    BY <1>2, DirectoryTyped DEF PostInv
  <1> QED BY <1>1, <1>3, <1>4, FileUnderKeeps DEF IdentifyUser

LEMMA IdentifyUnknownKeeps ==
  ASSUME PostInv, NEW i \in Injector, IdentifyUnknown(i)
  PROVE  PostInv'
  <1>1. PICK u \in getUserEntryByUsername(directory, UNKNOWN_USER) :
          \E f \in getUserFilterById(directory, u.emailId) : f # NULL /\ FileUnder(i, u, f)
    BY DEF IdentifyUnknown
  <1>2. PICK f \in getUserFilterById(directory, u.emailId) : f # NULL /\ FileUnder(i, u, f)
    BY <1>1
  <1>3. u \in User
    BY DirectoryTyped DEF PostInv, getUserEntryByUsername, LimitOne
  <1>4. f \in directory.filter_user
    BY <1>2 DEF getUserFilterById, LimitOne
  <1> QED BY <1>2, <1>3, <1>4, FileUnderKeeps DEF IdentifyUnknown


LEMMA StartScriptKeeps ==
  ASSUME PostInv, NEW s \in Script, NEW q \in queue, StartScript(s, q)
  PROVE  PostInv'
  <1> DEFINE r == [Idle EXCEPT !.pc = "script", !.entry = q]
  <1>1. TypeOK /\ s \in Process /\ s \notin Injector /\ call[s].id = NULL /\ ResultInv(s)
    BY ProcessAssumption DEF PostInv, Process, CallInv, Writing, StartScript, At
  <1>2. r \in Call
    BY <1>1 DEF Idle, Call, TypeOK
  <1>3. /\ call' = [call EXCEPT ![s] = r] /\ call'[s] = r
        /\ r.pc = "script" /\ r.id = NULL /\ r.entry = q
    BY <1>1 DEF StartScript, TypeOK, Idle
  <1> HIDE DEF r
  <1>4. CallInv(s)'
    BY <1>1, <1>3 DEF CallInv, ScriptInv, Writing, StartScript
  <1>5. UNCHANGED <<directory, message, protocol, queue, lastId, abandoned, result>>
    BY DEF StartScript
  <1>6. ResultInv(s)'
    <2>1. \A d \in Process : Writing(d)' => Writing(d) /\ call'[d].id = call[d].id
      BY <1>1, <1>3 DEF Writing, TypeOK
    <2>2. ~At(s, "noconn")
      BY DEF StartScript, At
    <2> QED BY <1>1, <1>5, <2>1, <2>2 DEF ResultInv, Queued
  <1>7. started \subseteq started' /\ started' \subseteq queue /\ \A x \in started' : x.messageType = "EMAILIN"
    BY <1>1 DEF StartScript, TypeOK, PostInv
  <1>8. result' \in [Script -> Result] /\ abandoned' \subseteq MsgId
    BY <1>1, <1>5 DEF TypeOK
  <1> QED BY <1>1, <1>2, <1>3, <1>4, <1>5, <1>6, <1>7, <1>8, QuietStep

LEMMA EndScriptKeeps ==
  ASSUME PostInv, NEW s \in Script, EndScript(s)
  PROVE  PostInv'
  <1>1. /\ Idle \in Call /\ NoResult \in Result /\ Idle.pc = "idle" /\ Idle.id = NULL
        /\ s \in Process /\ TypeOK /\ call[s].id = NULL
    BY CallTyped DEF Idle, PostInv, Process, CallInv, Writing, EndScript
  <1>2. call' = [call EXCEPT ![s] = Idle] /\ call' \in [Process -> Call] /\ call'[s] = Idle
    BY <1>1 DEF EndScript, TypeOK
  <1>3. CallInv(s)'
    BY <1>1, <1>2, IdleInv
  <1>4. /\ result' \in [Script -> Result] /\ \A t \in Script \ {s} : result'[t] = result[t]
        /\ result'[s] = NoResult
    BY <1>1 DEF EndScript, TypeOK
  <1>5. ResultInv(s)'
    BY <1>4, NoResultInv
  <1>6. started \subseteq queue /\ abandoned \subseteq MsgId /\ \A q \in started : q.messageType = "EMAILIN"
    BY <1>1 DEF PostInv, TypeOK
  <1> QED BY <1>1, <1>2, <1>3, <1>4, <1>5, <1>6, QuietStep DEF EndScript

LEMMA SendMemberKeeps ==
  ASSUME PostInv, NEW s \in Script, NEW to \in Address, SendMember(s, to)
  PROVE  PostInv'
  <1>1. PICK f \in getUserFilterByIdentifier(directory, to) :
          /\ f # NULL
          /\ call' = [call EXCEPT ![s].pc = "message", ![s].address = to,
                                  ![s].userId = f.userId, ![s].userFilter = f]
    BY DEF SendMember
  <1> DEFINE r == [call[s] EXCEPT !.pc = "message", !.address = to, !.userId = f.userId, !.userFilter = f]
  <1>2. /\ TypeOK /\ s \in Process /\ s \notin Injector /\ call[s] \in Call /\ ScriptInv(s)
        /\ call[s].id = NULL /\ call[s].entry \in started /\ NoResult \in Result
    BY CallTyped, ProcessAssumption DEF PostInv, Process, CallInv, ScriptInv, Writing, SendMember, At
  <1>3. f \in FiltersNamed(directory, to) /\ f \in UserFilter /\ f.userId \in UserId
    <2>1. f \in FiltersNamed(directory, to)
      BY <1>1 DEF getUserFilterByIdentifier, LimitOne
    <2>2. f \in directory.filter_user
      BY <2>1 DEF FiltersNamed
    <2> QED BY <1>2, <2>1, <2>2, DirectoryTyped
  <1>4. r \in Call
    BY <1>2, <1>3 DEF Call
  <1>5. call' = [call EXCEPT ![s] = r]
    BY <1>1, <1>2 DEF TypeOK
  <1>6. /\ call'[s] = r /\ r.pc = "message" /\ r.id = NULL /\ r.address = to /\ r.entry = call[s].entry
        /\ r.userId = f.userId /\ r.userFilter = f
    BY <1>2, <1>5 DEF TypeOK, Call
  <1> HIDE DEF r
  <1>7. CallInv(s)'
    BY <1>2, <1>3, <1>6 DEF CallInv, ScriptInv, Writing, SendMember
  <1>8. /\ result' \in [Script -> Result] /\ \A t \in Script \ {s} : result'[t] = result[t]
        /\ result'[s] = NoResult
    BY <1>2 DEF SendMember, TypeOK
  <1>9. ResultInv(s)'
    BY <1>8, NoResultInv
  <1>10. started \subseteq queue /\ abandoned \subseteq MsgId /\ \A q \in started : q.messageType = "EMAILIN"
    BY <1>2 DEF PostInv, TypeOK
  <1> QED BY <1>2, <1>4, <1>5, <1>6, <1>7, <1>8, <1>9, <1>10, QuietStep DEF SendMember

LEMMA SendMemberFailsKeeps ==
  ASSUME PostInv, NEW s \in Script, NEW to \in Address, SendMemberFails(s, to)
  PROVE  PostInv'
  <1> DEFINE failed == [NoResult EXCEPT !.value = "FAILURE"]
  <1>1. TypeOK /\ s \in Process /\ call[s] \in Call /\ CallInv(s)
    BY CallTyped DEF PostInv, Process
  <1>2. failed \in Result /\ failed.value = "FAILURE" /\ failed.id = NULL
    BY DEF NoResult, Result
  <1>3. /\ result' \in [Script -> Result] /\ \A t \in Script \ {s} : result'[t] = result[t]
        /\ result'[s] = failed
    BY <1>1, <1>2 DEF SendMemberFails, TypeOK
  <1> HIDE DEF failed
  <1>4. UNCHANGED <<directory, message, protocol, queue, lastId, call, started, abandoned>>
    BY DEF SendMemberFails
  <1>5. CallInv(s)'
    BY <1>1, <1>4 DEF CallInv, InjectorInv, ScriptInv, Writing, Admitted, MessageRow, ProtocolRow, Queued, RowsOf
  <1>6. ResultInv(s)'
    <2>1. \A q \in queue : q.messageId # NULL
      BY <1>1, NullAssumption DEF TypeOK, QueueEntry, MsgId
    <2>2. \A d \in Process : Writing(d)' => call'[d].id # NULL
      BY <1>4, NullAssumption DEF PostInv, CallInv, Writing
    <2> QED BY <1>2, <1>3, <1>4, <2>1, <2>2 DEF ResultInv, Queued
  <1>7. started \subseteq queue /\ abandoned \subseteq MsgId /\ \A q \in started : q.messageType = "EMAILIN"
    BY <1>1 DEF PostInv, TypeOK
  <1>8. call' = [call EXCEPT ![s] = call[s]] /\ call[s].pc = "script"
    BY <1>1, <1>4 DEF TypeOK, SendMemberFails, At
  <1> QED BY <1>1, <1>3, <1>4, <1>5, <1>6, <1>7, <1>8, QuietStep
-----------------------------------------------------------------------------
(***************************************************************************)
(* Steps that write.                                                       *)
(***************************************************************************)
\* What a script works for is a row of the queue, with its message.
LEMMA Parent ==
  ASSUME PostInv, NEW s \in Script, call[s].pc # "idle"
  PROVE  LET q == call[s].entry
             m == message[q.messageId]
         IN /\ q \in queue /\ q \in QueueEntry /\ q.messageType = "EMAILIN"
            /\ q.messageId \in MsgId /\ q.voidId \in VoidId
            /\ m \in Message /\ m.filterVoidId \in FilterVoidId /\ m.filterUserId \in FilterUserId
            /\ \E v \in directory.filter_void : v.id = m.filterVoidId /\ v.voidId = q.voidId
  <1> DEFINE q == call[s].entry
  <1>1. q \in queue /\ q \in QueueEntry /\ q.messageType = "EMAILIN"
    BY DEF PostInv, CallInv, ScriptInv, Process, TypeOK
  <1>2. q.messageId \in MsgId /\ q.voidId \in VoidId
    BY <1>1 DEF QueueEntry
  <1>3. RowInv(q) /\ message[q.messageId] \in Message \cup {NULL}
    BY <1>1, <1>2 DEF PostInv, TypeOK
  <1>4. message[q.messageId] \in Message
    BY <1>3 DEF RowInv
  <1>5. message[q.messageId].filterVoidId \in FilterVoidId /\ message[q.messageId].filterUserId \in FilterUserId
    BY <1>4 DEF Message
  <1>6. \E v \in directory.filter_void : v.id = message[q.messageId].filterVoidId /\ v.voidId = q.voidId
    BY <1>3 DEF RowInv
  <1> QED BY <1>1, <1>2, <1>4, <1>5, <1>6

LEMMA RowTyped ==
  ASSUME PostInv, NEW c \in Process
  PROVE  /\ call[c].pc \in {"message", "queue"} => MessageRow(c) \in Message
         /\ call[c].pc = "protocol" => c \in Script /\ ProtocolRow(c) \in Protocol
         /\ call[c].pc = "queue" => QueueRow(c) \in QueueEntry
  <1>1. /\ TypeOK /\ call[c] \in Call /\ CallInv(c) /\ (c \in Injector <=> c \notin Script)
    BY CallTyped DEF PostInv
  <1>2. Writing(c) => call[c].id \in MsgId
    BY <1>1, NullAssumption, MaxMessagesAssumption DEF CallInv, TypeOK, MsgId
  <1>3. ASSUME c \in Injector, call[c].pc \in {"message", "queue"}
        PROVE  /\ call[c].userFilter \in UserFilter /\ call[c].userId \in UserId
               /\ call[c].voidFilter \in VoidFilter /\ call[c].address \in Address
    <2>1. InjectorInv(c)
      BY <1>1, <1>3 DEF CallInv
    <2>2. call[c].voidFilter # NULL
      BY <1>3, <2>1 DEF InjectorInv, Admitted
    <2> QED BY <1>1, <1>3, <2>1, <2>2, DirectoryTyped DEF InjectorInv
  <1>4. ASSUME c \in Script, call[c].pc \in {"message", "protocol", "queue"}
        PROVE  call[c].userFilter \in UserFilter /\ call[c].userId \in UserId /\ call[c].address \in Address
    <2>1. ScriptInv(c)
      BY <1>1, <1>4 DEF CallInv
    <2> QED BY <1>1, <1>4, <2>1, DirectoryTyped DEF ScriptInv, FiltersNamed
  <1>5. \A f \in UserFilter : f.userId \in UserId /\ f.id \in FilterUserId
    BY <1>1, DirectoryTyped
  <1>6. \A v \in VoidFilter : v.id \in FilterVoidId /\ v.voidId \in VoidId
    BY <1>1, DirectoryTyped
  <1>7. CASE c \in Injector
    <2>1. ASSUME call[c].pc \in {"message", "queue"} PROVE MessageRow(c) \in Message
      BY <1>1, <1>3, <1>5, <1>6, <1>7, <2>1 DEF MessageRow, Message
    <2>2. call[c].pc # "protocol"
      BY <1>1, <1>7 DEF CallInv, InjectorInv
    <2>3. ASSUME call[c].pc = "queue" PROVE QueueRow(c) \in QueueEntry
      BY <1>1, <1>2, <1>3, <1>6, <1>7, <2>3 DEF QueueRow, QueueEntry, Writing
    <2> QED BY <2>1, <2>2, <2>3
  <1>8. CASE c \in Script
    <2>1. ASSUME call[c].pc \in {"message", "queue"} PROVE MessageRow(c) \in Message
      BY <1>4, <1>5, <1>8, <2>1, Parent DEF MessageRow, Message
    <2>2. ASSUME call[c].pc = "protocol" PROVE ProtocolRow(c) \in Protocol
      BY <1>2, <1>4, <1>5, <1>8, <2>2, Parent DEF ProtocolRow, Protocol, Writing
    <2>3. ASSUME call[c].pc = "queue" PROVE QueueRow(c) \in QueueEntry
      BY <1>2, <1>4, <1>8, <2>3, Parent DEF QueueRow, QueueEntry, Writing
    <2> QED BY <1>8, <2>1, <2>2, <2>3
  <1> QED BY <1>1, <1>7, <1>8

\* What a process means to write does not change under it.
LEMMA OwnRowsKeep ==
  ASSUME PostInv, TypeOK', NEW c \in Process, NEW k,
         k = call[c].id \/ (k = lastId + 1 /\ At(c, "message")), StepAt(c, k),
         call[c].pc # "idle",
         call'[c].address = call[c].address, call'[c].voidFilter = call[c].voidFilter,
         call'[c].userFilter = call[c].userFilter, call'[c].entry = call[c].entry
  PROVE  /\ MessageRow(c)' = MessageRow(c)
         /\ c \in Script => message'[call[c].entry.messageId] = message[call[c].entry.messageId]
  <1>1. ~Queued(k)
    BY Apart
  <1>2. CASE c \in Script
    <2>1. call[c].entry \in queue
      BY <1>2, Parent
    <2>2. message'[call[c].entry.messageId] = message[call[c].entry.messageId]
      BY <1>1, <2>1, OldRowsKeep
    <2> QED BY <1>2, <2>2 DEF MessageRow
  <1>3. CASE c \notin Script
    BY <1>3 DEF MessageRow
  <1> QED BY <1>2, <1>3

\* Statements that put a row of message.
LEMMA MessagePut ==
  ASSUME PostInv, NEW c \in Process, At(c, "message"), PutMessage(c), Beginners' = Beginners \ {c}
  PROVE  LET k == lastId + 1 IN
         /\ RoomLeft' /\ lastId' = k /\ lastId' \in 1..MaxMessages /\ k \in MsgId /\ k # NULL
         /\ message' \in [MsgId -> Message \cup {NULL}] /\ message'[k] = MessageRow(c)
         /\ \A id \in MsgId \ {k} : message'[id] = message[id]
         /\ RowsOf(k) = {} /\ ~Queued(k)
         /\ UNCHANGED <<protocol, queue>>
  <1> DEFINE k == lastId + 1
  <1>1. TypeOK /\ lastId \in Nat /\ lastId' = k /\ call[c].pc = "message"
    BY DEF PostInv, TypeOK, PutMessage, At
  <1>2. RoomLeft' /\ lastId' \in 1..MaxMessages
    BY <1>1, RoomUsed
  <1>3. k \in MsgId /\ k # NULL /\ k > lastId
    BY <1>1, <1>2, NullAssumption DEF MsgId
  <1>4. MessageRow(c) \in Message
    BY <1>1, RowTyped
  <1>5. message' = [message EXCEPT ![k] = MessageRow(c)]
    BY DEF PutMessage
  <1>6. /\ message' \in [MsgId -> Message \cup {NULL}] /\ message'[k] = MessageRow(c)
        /\ \A id \in MsgId \ {k} : message'[id] = message[id]
    BY <1>1, <1>3, <1>4, <1>5 DEF TypeOK
  <1>7. RowsOf(k) = {} /\ ~Queued(k)
    BY <1>3 DEF PostInv, Unused
  <1> QED BY <1>1, <1>2, <1>3, <1>6, <1>7 DEF PutMessage

LEMMA InsertMessageKeeps ==
  ASSUME PostInv, NEW c \in Process, InsertMessage(c)
  PROVE  PostInv'
  <1> DEFINE k == lastId + 1
             r == [call[c] EXCEPT !.pc = AfterMessage(c), !.id = k]
  <1>1. /\ TypeOK /\ lastId \in Nat /\ call[c] \in Call /\ CallInv(c) /\ call[c].pc = "message" /\ At(c, "message")
        /\ (c \in Injector <=> c \notin Script) /\ PutMessage(c)
    BY CallTyped DEF PostInv, TypeOK, InsertMessage, At
  <1>2. call' = [call EXCEPT ![c] = r]
    BY <1>1 DEF InsertMessage, LastInsertId, TypeOK
  <1>3. /\ call'[c] = r /\ r.pc = AfterMessage(c) /\ r.id = k /\ r.address = call[c].address
        /\ r.voidFilter = call[c].voidFilter /\ r.userId = call[c].userId
        /\ r.userFilter = call[c].userFilter /\ r.entry = call[c].entry
    BY <1>1, <1>2 DEF TypeOK, Call
  <1>4. AfterMessage(c) = IF c \in Script THEN "protocol" ELSE "queue"
    BY DEF AfterMessage
  <1>5. \A d \in Process \ {c} : call'[d] = call[d]
    BY <1>1, <1>2 DEF TypeOK
  <1>6. Beginners' = Beginners \ {c}
    BY <1>3, <1>4, <1>5 DEF Beginners
  <1>7. /\ RoomLeft' /\ lastId' = k /\ lastId' \in 1..MaxMessages /\ k \in MsgId /\ k # NULL
        /\ message' \in [MsgId -> Message \cup {NULL}] /\ message'[k] = MessageRow(c)
        /\ \A id \in MsgId \ {k} : message'[id] = message[id]
        /\ RowsOf(k) = {} /\ ~Queued(k)
        /\ UNCHANGED <<protocol, queue>>
    BY <1>1, <1>6, MessagePut
  <1>8. UNCHANGED <<directory, started, abandoned, result>>
    BY DEF InsertMessage
  <1>9. call' \in [Process -> Call]
    <2>1. r \in Call
      BY <1>1, <1>4, <1>7 DEF Call
    <2> QED BY <1>1, <1>2, <2>1 DEF TypeOK
  <1> HIDE DEF r
  <1>10. TypeOK'
    BY <1>1, <1>7, <1>8, <1>9 DEF TypeOK
  <1>11. StepAt(c, k)
    BY <1>1, <1>5, <1>7, <1>8 DEF StepAt
  <1>12. MessageRow(c)' = MessageRow(c)
    BY <1>1, <1>3, <1>10, <1>11, OwnRowsKeep
  <1>13. Writing(c)' /\ call'[c].id = k /\ k \in 1..lastId'
    BY <1>1, <1>3, <1>4, <1>7 DEF Writing
  <1>14. \A p \in protocol : p.messageId # k
    BY <1>7 DEF RowsOf
  <1>15. \A q \in queue : q.messageId # k
    BY <1>7 DEF Queued
  <1>16. RowsOf(call[c].id)' = {} /\ ~Queued(call[c].id)'
    BY <1>7, <1>13, <1>14, <1>15 DEF RowsOf, Queued
  <1>17. ASSUME c \in Injector PROVE InjectorInv(c)'
    BY <1>1, <1>3, <1>4, <1>8, <1>16, <1>17 DEF CallInv, InjectorInv, Admitted
  <1>18. ASSUME c \in Script PROVE ScriptInv(c)'
    BY <1>1, <1>3, <1>4, <1>8, <1>16, <1>18 DEF CallInv, ScriptInv
  <1>19. CallInv(c)'
    BY <1>7, <1>12, <1>13, <1>16, <1>17, <1>18 DEF CallInv
  <1>20. ASSUME c \in Script PROVE ResultInv(c)'
    <2>1. ~At(c, "noconn") /\ result'[c] = result[c]
      BY <1>1, <1>8 DEF At
    <2> QED BY <1>1, <1>7, <1>10, <1>11, <1>13, <1>19, <1>20, <2>1, ResultKeeps
  <1>21. \A q \in started' : q.messageType = "EMAILIN"
    BY <1>8 DEF PostInv
  <1>22. k <= lastId'
    BY <1>1, <1>7
  <1>23. queue' \ queue = {}
    BY <1>7
  <1> HIDE DEF k
  <1> QED BY <1>1, <1>7, <1>10, <1>11, <1>13, <1>19, <1>20, <1>21, <1>22, <1>23, PostKeeps DEF k


\* Statements that put a row of message_protocol_mail.
LEMMA ProtocolPut ==
  ASSUME PostInv, NEW c \in Process, At(c, "protocol"), PutProtocol(c)
  PROVE  LET k == call[c].id IN
         /\ c \in Script /\ k \in 1..lastId /\ k \in MsgId /\ k # NULL
         /\ protocol' \subseteq Protocol
         /\ \A p \in protocol \cup protocol' : p.messageId # k => (p \in protocol' <=> p \in protocol)
         /\ RowsOf(k) = {} /\ {p \in protocol' : p.messageId = k} = {ProtocolRow(c)}
         /\ message[k] = MessageRow(c) /\ ~Queued(k)
  <1> DEFINE k == call[c].id
  <1>1. /\ TypeOK /\ CallInv(c) /\ c \in Script /\ ProtocolRow(c) \in Protocol /\ ProtocolRow(c).messageId = k
        /\ call[c].pc = "protocol"
    BY RowTyped DEF PostInv, At, ProtocolRow
  <1>2. k \in 1..lastId /\ k \in MsgId /\ k # NULL /\ message[k] = MessageRow(c) /\ ~Queued(k)
    BY <1>1, NullAssumption, MaxMessagesAssumption DEF CallInv, Writing, TypeOK, MsgId
  <1>3. RowsOf(k) = {}
    BY <1>1 DEF CallInv, ScriptInv
  <1>4. protocol' = protocol \cup {ProtocolRow(c)}
    BY DEF PutProtocol
  <1>5. {p \in protocol' : p.messageId = k} = {ProtocolRow(c)}
    BY <1>1, <1>3, <1>4 DEF RowsOf
  <1>6. \A p \in protocol \cup protocol' : p.messageId # k => (p \in protocol' <=> p \in protocol)
    BY <1>1, <1>4
  <1> QED BY <1>1, <1>2, <1>3, <1>4, <1>5, <1>6 DEF TypeOK

\* Statements that put a row of message_queue: all it needs is there.
LEMMA QueuePut ==
  ASSUME PostInv, NEW c \in Process, At(c, "queue"), PutQueue(c), UNCHANGED directory
  PROVE  LET k == call[c].id IN
         /\ k \in 1..lastId /\ k \in MsgId /\ k # NULL /\ message[k] = MessageRow(c)
         /\ queue' \subseteq QueueEntry /\ queue \subseteq queue' /\ QueueRow(c) \in queue'
         /\ QueueRow(c).messageId = k
         /\ \A q \in queue' \ queue : q.messageId = k /\ RowInv(q)'
  <1> DEFINE k == call[c].id
             q == QueueRow(c)
             m == message[k]
  <1>1. /\ TypeOK /\ CallInv(c) /\ (c \in Injector <=> c \notin Script) /\ QueueRow(c) \in QueueEntry
        /\ call[c].pc = "queue" /\ call[c] \in Call
    BY RowTyped, CallTyped DEF PostInv, At
  <1>2. k \in 1..lastId /\ k \in MsgId /\ k # NULL /\ m = MessageRow(c)
    BY <1>1, NullAssumption, MaxMessagesAssumption DEF CallInv, Writing, TypeOK, MsgId
  <1>3. UNCHANGED <<directory, message, protocol, lastId>> /\ queue' = queue \cup {q}
    BY DEF PutQueue
  <1>4. q.messageId = k
    BY DEF QueueRow
  <1>5. MessageRow(c) \in Message /\ MessageRow(c) # NULL
    BY <1>1, RowTyped, NullAssumption
  <1>6. \A v, w \in directory.filter_void : v.id = w.id => v = w
    BY <1>1, DirectoryTyped
  <1>7. k <= lastId
    BY <1>1, <1>2 DEF TypeOK
  <1>8. CASE c \in Injector
    <2>1. InjectorInv(c)
      BY <1>1, <1>8 DEF CallInv
    <2> DEFINE v == call[c].voidFilter
    <2>2. v \in directory.filter_void /\ checkVoidAllowSubmit(directory, v, call[c].address)
      BY <1>1, <2>1 DEF InjectorInv, Admitted
    <2>3. /\ q.voidId = v.voidId /\ q.messageType = "EMAILIN"
          /\ m.filterVoidId = v.id /\ m.type = "EMAILIN" /\ m.address = call[c].address
      BY <1>1, <1>2, <1>8 DEF QueueRow, MessageRow
    <2>4. ASSUME v.accessRights = "PRIVATETHWONK"
          PROVE  \E f \in FiltersNamed(directory, m.address), x \in directory.void_membership :
                   x.userId = f.userId /\ x.voidId = q.voidId
      <3>1. IsMember(directory, v, call[c].address)
        BY <2>2, <2>4 DEF checkVoidAllowSubmit
      <3> QED BY <2>3, <3>1 DEF IsMember
    <2>5. \A w \in directory.filter_void : w.id = m.filterVoidId => w = v
      BY <1>6, <2>2, <2>3
    <2> HIDE DEF v, q, m, k
    <2>6. RowInv(q)
      BY <1>2, <1>4, <1>5, <1>7, <2>2, <2>3, <2>4, <2>5 DEF RowInv, m
    <2>7. \A x : x = q => RowInv(x)'
      BY <1>3, <2>6 DEF RowInv, RowsOf
    <2>8. \A x \in queue' \ queue : x.messageId = k /\ RowInv(x)'
      BY <1>3, <1>4, <2>7
    <2> QED BY <1>1, <1>2, <1>3, <1>4, <2>8 DEF k, q, m, TypeOK
  <1>9. CASE c \in Script
    <2>1. ScriptInv(c)
      BY <1>1, <1>9 DEF CallInv
    <2> DEFINE e == call[c].entry
               p == ProtocolRow(c)
               f == call[c].userFilter
    <2>2. RowsOf(k) = {p} /\ f \in FiltersNamed(directory, call[c].address)
      BY <1>1, <2>1 DEF ScriptInv
    <2>3. /\ q.voidId = e.voidId /\ q.messageType = "EMAILOUT"
          /\ m.filterVoidId = message[e.messageId].filterVoidId /\ m.type = "EMAILOUT_TYPE2"
          /\ m.address = call[c].address
      BY <1>1, <1>2, <1>9 DEF QueueRow, MessageRow
    <2>4. p.replytoFilterVoidId = m.filterVoidId /\ p.toFilterUserId = f.id
      BY <2>3 DEF ProtocolRow
    <2>5. \E v \in directory.filter_void : v.id = m.filterVoidId /\ v.voidId = q.voidId
      BY <1>1, <1>9, <2>3, Parent
    <2>6. p \in protocol
      BY <2>2 DEF RowsOf
    <2> HIDE DEF q, m, k, e, p, f
    <2>7. RowInv(q)
      BY <1>2, <1>4, <1>5, <1>7, <2>2, <2>3, <2>4, <2>5, <2>6 DEF RowInv, m
    <2>8. \A x : x = q => RowInv(x)'
      BY <1>3, <2>7 DEF RowInv, RowsOf
    <2>9. \A x \in queue' \ queue : x.messageId = k /\ RowInv(x)'
      BY <1>3, <1>4, <2>8
    <2> QED BY <1>1, <1>2, <1>3, <1>4, <2>9 DEF k, q, m, TypeOK
  <1> QED BY <1>1, <1>8, <1>9

\* deleteMessage
LEMMA MessageTaken ==
  ASSUME PostInv, NEW c \in Process, At(c, "delete"), TakeMessage(c)
  PROVE  LET k == call[c].id IN
         /\ k \in 1..lastId /\ k \in MsgId /\ k # NULL /\ ~Queued(k)
         /\ message' \in [MsgId -> Message \cup {NULL}]
         /\ \A id \in MsgId \ {k} : message'[id] = message[id]
         /\ message'[k] = NULL \/ (message' = message /\ RowsOf(k) # {} /\ message[k] = MessageRow(c))
  <1> DEFINE k == call[c].id
  <1>1. TypeOK /\ CallInv(c) /\ Writing(c)
    BY DEF PostInv, At, Writing
  <1>2. k \in 1..lastId /\ k \in MsgId /\ k # NULL /\ ~Queued(k) /\ message[k] = MessageRow(c)
    BY <1>1, NullAssumption, MaxMessagesAssumption DEF CallInv, TypeOK, MsgId
  <1>3. Referred(k) => RowsOf(k) # {}
    BY <1>2 DEF Referred, Queued, RowsOf
  <1>4. CASE Referred(k)
    BY <1>1, <1>2, <1>3, <1>4 DEF TakeMessage, TypeOK
  <1>5. CASE ~Referred(k)
    BY <1>1, <1>2, <1>5 DEF TakeMessage, TypeOK
  <1> QED BY <1>4, <1>5


LEMMA InsertProtocolKeeps ==
  ASSUME PostInv, NEW c \in Script, InsertProtocol(c)
  PROVE  PostInv'
  <1> DEFINE k == call[c].id
             r == [call[c] EXCEPT !.pc = "queue"]
  <1>1. /\ TypeOK /\ lastId \in Nat /\ c \in Process /\ call[c] \in Call /\ CallInv(c) /\ ScriptInv(c)
        /\ call[c].pc = "protocol" /\ At(c, "protocol") /\ c \notin Injector /\ PutProtocol(c)
    BY CallTyped, ProcessAssumption DEF PostInv, TypeOK, Process, InsertProtocol, At, CallInv
  <1>2. call' = [call EXCEPT ![c] = r] /\ r \in Call
    BY <1>1 DEF InsertProtocol, Goto, TypeOK, Call
  <1>3. /\ call'[c] = r /\ r.pc = "queue" /\ r.id = k /\ r.address = call[c].address
        /\ r.voidFilter = call[c].voidFilter /\ r.userId = call[c].userId
        /\ r.userFilter = call[c].userFilter /\ r.entry = call[c].entry
        /\ \A d \in Process \ {c} : call'[d] = call[d]
    BY <1>1, <1>2 DEF TypeOK, Call
  <1> HIDE DEF r
  <1>4. /\ k \in 1..lastId /\ k \in MsgId /\ k # NULL /\ protocol' \subseteq Protocol
        /\ \A p \in protocol \cup protocol' : p.messageId # k => (p \in protocol' <=> p \in protocol)
        /\ {p \in protocol' : p.messageId = k} = {ProtocolRow(c)}
        /\ message[k] = MessageRow(c) /\ ~Queued(k)
    BY <1>1, ProtocolPut
  <1>5. UNCHANGED <<directory, message, queue, lastId, started, abandoned, result>>
    BY <1>1 DEF InsertProtocol, PutProtocol
  <1>6. TypeOK'
    BY <1>1, <1>2, <1>4, <1>5 DEF TypeOK
  <1>7. StepAt(c, k)
    BY <1>1, <1>3, <1>4, <1>5 DEF StepAt
  <1>8. RoomLeft'
    <2>1. Beginners' \subseteq Beginners
      BY <1>3 DEF Beginners
    <2> QED BY <1>5, <2>1, RoomKept
  <1>9. MessageRow(c)' = MessageRow(c) /\ ProtocolRow(c)' = ProtocolRow(c)
    <2>1. MessageRow(c)' = MessageRow(c)
      BY <1>1, <1>3, <1>6, <1>7, OwnRowsKeep
    <2>2. ProtocolRow(c)' = ProtocolRow(c)
      BY <1>3, <1>5 DEF ProtocolRow
    <2> QED BY <2>1, <2>2
  <1>10. RowsOf(call[c].id)' = {ProtocolRow(c)} /\ ~Queued(call[c].id)' /\ Writing(c)'
    BY <1>3, <1>4, <1>5 DEF RowsOf, Queued, Writing
  <1>11. ScriptInv(c)'
    BY <1>1, <1>3, <1>5, <1>9, <1>10 DEF ScriptInv
  <1>12. CallInv(c)'
    BY <1>1, <1>3, <1>4, <1>5, <1>9, <1>10, <1>11 DEF CallInv
  <1>13. k <= lastId' /\ queue' \ queue = {}
    BY <1>1, <1>4, <1>5
  <1>14. ResultInv(c)'
    <2>1. ~At(c, "noconn") /\ result'[c] = result[c]
      BY <1>1, <1>5 DEF At
    <2> QED BY <1>1, <1>3, <1>6, <1>7, <1>12, <1>13, <2>1, ResultKeeps
  <1>15. \A q \in started' : q.messageType = "EMAILIN"
    BY <1>5 DEF PostInv
  <1>16. call'[c].id = k
    BY <1>3
  <1> HIDE DEF k
  <1> QED BY <1>1, <1>6, <1>7, <1>8, <1>12, <1>13, <1>14, <1>15, <1>16, PostKeeps DEF k

LEMMA InsertQueueKeeps ==
  ASSUME PostInv, NEW c \in Process, InsertQueue(c)
  PROVE  PostInv'
  <1>0. PICK k : k = call[c].id
    OBVIOUS
  <1>1. TypeOK /\ lastId \in Nat /\ At(c, "queue") /\ call[c].pc = "queue" /\ PutQueue(c) /\ CallInv(c)
        /\ UNCHANGED <<directory, message, protocol, lastId, started, abandoned>>
        /\ Leave(c, "SUCCESS", "script")
    BY DEF PostInv, TypeOK, InsertQueue, PutQueue, At
  <1>2. /\ call' = [call EXCEPT ![c] = Afterwards(c, "script")]
        /\ Afterwards(c, "script").id = NULL /\ Afterwards(c, "script").pc \in {"idle", "script", "noconn"}
        /\ result' \in [Script -> Result] /\ \A s \in Script \ {c} : result'[s] = result[s]
        /\ c \in Script => result'[c] = [value |-> "SUCCESS", id |-> call[c].id, address |-> call[c].address]
        /\ call' \in [Process -> Call] /\ call'[c] = Afterwards(c, "script")
    BY <1>1, Left
  <1>3. /\ k \in 1..lastId /\ k \in MsgId /\ k # NULL /\ message[k] = MessageRow(c)
        /\ queue' \subseteq QueueEntry /\ queue \subseteq queue' /\ QueueRow(c) \in queue'
        /\ QueueRow(c).messageId = k
        /\ \A q \in queue' \ queue : q.messageId = k /\ RowInv(q)'
    BY <1>0, <1>1, QueuePut
  <1>4. \A d \in Process \ {c} : call'[d] = call[d]
    BY <1>1, <1>2 DEF TypeOK
  <1>5. TypeOK'
    BY <1>1, <1>2, <1>3 DEF TypeOK
  <1>6. StepAt(c, k)
    BY <1>0, <1>1, <1>2, <1>3, <1>4 DEF StepAt
  <1>7. RoomLeft'
    <2>1. Beginners' \subseteq Beginners
      BY <1>2, <1>4 DEF Beginners
    <2> QED BY <1>1, <2>1, RoomKept
  <1>8. CallInv(c)'
    BY <1>1, <1>2, LeftInv
  <1>9. k <= lastId' /\ Queued(k)'
    BY <1>1, <1>3 DEF Queued
  <1>10. ASSUME c \in Script PROVE ResultInv(c)'
    <2>1. message[k].address = call[c].address
      BY <1>0, <1>3 DEF MessageRow
    <2>2. result'[c].id = k /\ result'[c].value = "SUCCESS" /\ result'[c].address = call[c].address
      BY <1>0, <1>2, <1>10
    <2>3. Queued(result[c].id)' /\ message'[result'[c].id].address = result'[c].address
      BY <1>1, <1>9, <2>1, <2>2 DEF Queued
    <2> QED BY <1>9, <2>2, <2>3 DEF ResultInv, Queued
  <1>11. \A q \in started' : q.messageType = "EMAILIN"
    BY <1>1 DEF PostInv
  <1>12. call'[c].id = NULL
    BY <1>2
  <1> QED BY <1>0, <1>1, <1>3, <1>5, <1>6, <1>7, <1>8, <1>9, <1>10, <1>11, <1>12, PostKeeps

\* A call that fails after a statement that wrote, or after none.
LEMMA FailedWrite ==
  ASSUME PostInv, NEW c \in Process, NEW pc \in {"script", "noconn"}, call[c].pc # "idle",
         Leave(c, "FAILURE", pc), NEW k, k = call[c].id \/ (k = lastId + 1 /\ At(c, "message")),
         k \in MsgId, k <= lastId', lastId' \in lastId..MaxMessages, RoomLeft', UNCHANGED <<directory, started>>,
         message' \in [MsgId -> Message \cup {NULL}],
         \A id \in MsgId \ {k} : message'[id] = message[id],
         protocol' \subseteq Protocol,
         \A p \in protocol \cup protocol' : p.messageId # k => (p \in protocol' <=> p \in protocol),
         queue' \subseteq QueueEntry, queue \subseteq queue',
         \A q \in queue' \ queue : q.messageId = k /\ RowInv(q)',
         pc = "noconn" \/ queue' = queue,
         abandoned \subseteq abandoned', abandoned' \subseteq MsgId,
         message'[k] # NULL /\ message'[k].type = "EMAILIN" => (\E q \in queue' : q.messageId = k) \/ k \in abandoned'
  PROVE  PostInv'
  <1>1. /\ call' = [call EXCEPT ![c] = Afterwards(c, pc)]
        /\ Afterwards(c, pc).id = NULL /\ Afterwards(c, pc).pc \in {"idle", "script", "noconn"}
        /\ result' \in [Script -> Result] /\ \A s \in Script \ {c} : result'[s] = result[s]
        /\ call' \in [Process -> Call] /\ call'[c] = Afterwards(c, pc)
    BY Left
  <1>2. TypeOK /\ lastId \in Nat /\ lastId' \in Nat /\ lastId' >= lastId /\ lastId' \in 0..MaxMessages
    BY MaxMessagesAssumption DEF PostInv, TypeOK
  <1>3. \A d \in Process \ {c} : call'[d] = call[d]
    BY <1>1, <1>2 DEF TypeOK
  <1>4. TypeOK'
    BY <1>1, <1>2 DEF TypeOK
  <1>5. StepAt(c, k)
    BY <1>1, <1>2, <1>3 DEF StepAt
  <1>6. CallInv(c)'
    BY <1>1, LeftInv
  <1>7. c \in Script => ResultInv(c)'
    BY <1>2, FailedResult
  <1>8. \A q \in started' : q.messageType = "EMAILIN"
    BY DEF PostInv
  <1>9. message'[k] # NULL /\ message'[k].type = "EMAILIN" => Queued(k)' \/ k \in abandoned'
    BY DEF Queued
  <1> QED BY <1>1, <1>4, <1>5, <1>6, <1>7, <1>8, <1>9, PostKeeps


LEMMA DeleteKeeps ==
  ASSUME PostInv, NEW c \in Process, Delete(c)
  PROVE  PostInv'
  <1>0. PICK k : k = call[c].id
    OBVIOUS
  <1>1. /\ TypeOK /\ lastId \in 0..MaxMessages /\ At(c, "delete") /\ call[c].pc = "delete" /\ TakeMessage(c)
        /\ UNCHANGED <<directory, protocol, queue, lastId, started, abandoned>>
        /\ Leave(c, "FAILURE", "script")
    BY DEF PostInv, TypeOK, Delete, TakeMessage, At, Fail
  <1>2. /\ k \in 1..lastId /\ k \in MsgId
        /\ message' \in [MsgId -> Message \cup {NULL}]
        /\ \A id \in MsgId \ {k} : message'[id] = message[id]
        /\ message'[k] = NULL \/ (message' = message /\ RowsOf(k) # {} /\ message[k] = MessageRow(c))
    BY <1>0, <1>1, MessageTaken
  <1>3. RoomLeft'
    <2>1. Beginners' \subseteq Beginners
      BY <1>1, Left DEF Beginners, PostInv, TypeOK
    <2> QED BY <1>1, <2>1, RoomKept
  <1>4. c \in Injector => RowsOf(k) = {}
    BY <1>0, <1>1 DEF PostInv, CallInv, InjectorInv, Writing
  <1>5. message'[k] # NULL => message'[k].type # "EMAILIN"
    <2>1. c \notin Injector => c \in Script
      BY DEF Process
    <2> QED BY <1>2, <1>4, <2>1 DEF MessageRow
  <1>6. k <= lastId' /\ lastId' \in lastId..MaxMessages
    BY <1>1, <1>2, MaxMessagesAssumption
  <1> QED BY <1>0, <1>1, <1>2, <1>3, <1>5, <1>6, FailedWrite DEF TypeOK

\* The statement was done, its answer is lost: c leaves without taking anything back.
LEMMA AnswerLostKeeps ==
  ASSUME PostInv, NEW c \in Process, AnswerLost(c)
  PROVE  PostInv'
  <1>0. PICK k : k = IF At(c, "message") THEN lastId' ELSE call[c].id
    OBVIOUS
  <1>1. /\ TypeOK /\ lastId \in Nat /\ lastId \in 0..MaxMessages /\ Leave(c, "FAILURE", "noconn")
        /\ call[c].pc \in {"message", "protocol", "queue", "delete"}
        /\ UNCHANGED <<directory, started>> /\ LeaveBehind(k) /\ abandoned \subseteq MsgId
    BY <1>0, MaxMessagesAssumption DEF PostInv, TypeOK, AnswerLost, At
  <1>2. call' = [call EXCEPT ![c] = Afterwards(c, "noconn")]
        /\ call'[c] = Afterwards(c, "noconn") /\ call'[c].pc \in {"idle", "noconn", "script"}
    BY <1>1, Left
  <1>3. Beginners' = Beginners \ {c}
    BY <1>1, <1>2 DEF Beginners, TypeOK
  <1>4. ASSUME k \in MsgId
        PROVE  /\ abandoned \subseteq abandoned' /\ abandoned' \subseteq MsgId
               /\ message'[k] # NULL => (\E q \in queue' : q.messageId = k) \/ k \in abandoned'
    <2>1. k # NULL
      BY <1>4, NullAssumption DEF MsgId
    <2>2. abandoned' = abandoned \cup
            {x \in {k} \ {NULL} : message'[x] # NULL /\ \A q \in queue' : q.messageId # x}
      BY <1>1 DEF LeaveBehind
    <2>3. abandoned \subseteq abandoned' /\ abandoned' \subseteq MsgId
      BY <1>1, <1>4, <2>2
    <2>4. ASSUME message'[k] # NULL, \A q \in queue' : q.messageId # k PROVE k \in abandoned'
      BY <2>1, <2>2, <2>4
    <2> QED BY <2>3, <2>4
  <1>5. ASSUME UNCHANGED lastId PROVE RoomLeft' /\ lastId' \in lastId..MaxMessages
    BY <1>1, <1>3, <1>5, RoomKept
  <1>6. CASE At(c, "message")
    <2>1. PutMessage(c) /\ k = lastId + 1
      BY <1>0, <1>6 DEF AnswerLost, At, PutMessage
    <2>2. /\ RoomLeft' /\ lastId' = k /\ lastId' \in 1..MaxMessages /\ k \in MsgId
          /\ message' \in [MsgId -> Message \cup {NULL}]
          /\ \A id \in MsgId \ {k} : message'[id] = message[id]
          /\ UNCHANGED <<protocol, queue>>
      BY <1>3, <1>6, <2>1, MessagePut
    <2>3. k <= lastId' /\ lastId' \in lastId..MaxMessages
      BY <1>1, <2>1, <2>2
    <2> QED BY <1>1, <1>4, <1>6, <2>1, <2>2, <2>3, FailedWrite DEF TypeOK
  <1>7. CASE At(c, "protocol")
    <2>1. PutProtocol(c) /\ k = call[c].id /\ UNCHANGED <<message, queue, lastId>>
      BY <1>0, <1>7 DEF AnswerLost, At, PutProtocol
    <2>2. /\ k \in 1..lastId /\ k \in MsgId /\ protocol' \subseteq Protocol
          /\ \A p \in protocol \cup protocol' : p.messageId # k => (p \in protocol' <=> p \in protocol)
      BY <1>7, <2>1, ProtocolPut
    <2>3. k <= lastId'
      BY <1>1, <2>1, <2>2
    <2> QED BY <1>1, <1>4, <1>5, <2>1, <2>2, <2>3, FailedWrite DEF TypeOK
  <1>8. CASE At(c, "queue")
    <2>1. PutQueue(c) /\ k = call[c].id /\ UNCHANGED <<message, protocol, lastId>>
      BY <1>0, <1>8 DEF AnswerLost, At, PutQueue
    <2>2. /\ k \in 1..lastId /\ k \in MsgId
          /\ queue' \subseteq QueueEntry /\ queue \subseteq queue'
          /\ \A q \in queue' \ queue : q.messageId = k /\ RowInv(q)'
      BY <1>1, <1>8, <2>1, QueuePut
    <2>3. k <= lastId'
      BY <1>1, <2>1, <2>2
    <2> QED BY <1>1, <1>4, <1>5, <2>1, <2>2, <2>3, FailedWrite DEF TypeOK
  <1>9. CASE At(c, "delete")
    <2>1. TakeMessage(c) /\ k = call[c].id /\ UNCHANGED <<protocol, queue, lastId>>
      BY <1>0, <1>9 DEF AnswerLost, At, TakeMessage
    <2>2. /\ k \in 1..lastId /\ k \in MsgId
          /\ message' \in [MsgId -> Message \cup {NULL}]
          /\ \A id \in MsgId \ {k} : message'[id] = message[id]
      BY <1>9, <2>1, MessageTaken
    <2>3. k <= lastId'
      BY <1>1, <2>1, <2>2
    <2> QED BY <1>1, <1>4, <1>5, <2>1, <2>2, <2>3, FailedWrite DEF TypeOK
  <1> QED BY <1>6, <1>7, <1>8, <1>9 DEF AnswerLost
-----------------------------------------------------------------------------
LEMMA PostInit == Init => PostInv
  <1> SUFFICES ASSUME Init PROVE PostInv
    OBVIOUS
  <1>1. Idle \in Call /\ NoResult \in Result /\ Idle.pc = "idle" /\ Idle.id = NULL
    BY DEF Idle, NoResult, Call, Result
  <1>2. TypeOK
    BY <1>1, MaxMessagesAssumption DEF Init, TypeOK
  <1>3. RoomLeft
    <2>1. Beginners = {}
      BY <1>1 DEF Init, Beginners
    <2>2. Cardinality(Beginners) = 0
      BY <2>1, FS_EmptySet
    <2> HIDE DEF Beginners
    <2> QED BY <2>2, MaxMessagesAssumption DEF Init, RoomLeft
  <1>4. \A c \in Process : ~Writing(c) /\ CallInv(c)
    BY <1>1 DEF Init, Writing, CallInv, InjectorInv, ScriptInv
  <1>5. \A s \in Script : ResultInv(s)
    BY DEF Init, ResultInv, NoResult
  <1>6. Unused /\ OwnMessages /\ ArrivedIsQueued
    BY <1>4 DEF Init, Unused, RowsOf, Queued, OwnMessages, ArrivedIsQueued
  <1> QED BY <1>2, <1>3, <1>4, <1>5, <1>6 DEF PostInv, Init

LEMMA PostNext == PostInv /\ [Next]_vars => PostInv'
  <1> SUFFICES ASSUME PostInv, [Next]_vars PROVE PostInv'
    OBVIOUS
  <1>1. ASSUME NEW i \in Injector, InjectorStep(i) PROVE PostInv'
    <2>1. Drop(i) => UNCHANGED vars
      BY DEF Drop
    <2> QED BY <1>1, <2>1, UnchangedKeeps, ReceiveKeeps, RejectKeeps, IdentifyUserKeeps, IdentifyUnknownKeeps
            DEF InjectorStep
  <1>2. ASSUME NEW s \in Script, ScriptStep(s) PROVE PostInv'
    BY <1>2, StartScriptKeeps, EndScriptKeeps, SendMemberKeeps, SendMemberFailsKeeps, InsertProtocolKeeps
    DEF ScriptStep
  <1>3. ASSUME NEW c \in Process, WriteStep(c) PROVE PostInv'
    BY <1>3, InsertMessageKeeps, InsertMessageFailsKeeps, InsertQueueKeeps, InsertFailsKeeps, DeleteKeeps,
       DeleteFailsKeeps, AnswerLostKeeps, KillKeeps DEF WriteStep
  <1>4. CASE UNCHANGED vars
    BY <1>4, UnchangedKeeps
  <1> QED BY <1>1, <1>2, <1>3, <1>4 DEF Next

LEMMA PostInvariant == Spec => []PostInv
  BY PostInit, PostNext, PTL DEF Spec

(***************************************************************************)
(* Every row of the three tables, and all a process holds of them, has its *)
(* type: no half-filled row is ever inserted.                              *)
(***************************************************************************)
THEOREM PostingTyped == Spec => []TypeOK
  <1>1. PostInv => TypeOK
    BY DEF PostInv
  <1> QED BY <1>1, PostInvariant, PTL

(***************************************************************************)
(* However its writer ended, a queued row has its message, and an outgoing *)
(* one exactly one protocol row, with an address to send to.               *)
(***************************************************************************)
THEOREM Complete == Spec => []QueuedIsComplete
  <1>1. PostInv => QueuedIsComplete
    <2> SUFFICES ASSUME PostInv, NEW q \in queue
                 PROVE  LET m == message[q.messageId]
                            rows == {p \in protocol : p.messageId = q.messageId}
                        IN /\ m # NULL
                           /\ \E v \in directory.filter_void : v.id = m.filterVoidId /\ v.voidId = q.voidId
                           /\ m.type = "EMAILIN" <=> q.messageType = "EMAILIN"
                           /\ q.messageType = "EMAILOUT" =>
                                /\ Cardinality(rows) = 1
                                /\ \A p \in rows :
                                     /\ p.replytoFilterVoidId = m.filterVoidId
                                     /\ \E f \in getUserFilterById(directory, p.toFilterUserId) :
                                          f # NULL /\ f.identifier = m.address
      BY DEF QueuedIsComplete
    <2> DEFINE m == message[q.messageId]
               rows == {p \in protocol : p.messageId = q.messageId}
    <2>1. RowInv(q)
      BY DEF PostInv
    <2>2. /\ m # NULL /\ \E v \in directory.filter_void : v.id = m.filterVoidId /\ v.voidId = q.voidId
          /\ m.type = "EMAILIN" <=> q.messageType = "EMAILIN"
      BY <2>1 DEF RowInv
    <2>3. ASSUME q.messageType = "EMAILOUT"
          PROVE  /\ Cardinality(rows) = 1
                 /\ \A p \in rows :
                      /\ p.replytoFilterVoidId = m.filterVoidId
                      /\ \E f \in getUserFilterById(directory, p.toFilterUserId) : f # NULL /\ f.identifier = m.address
      <3>1. PICK p \in protocol :
              /\ rows = {p} /\ p.replytoFilterVoidId = m.filterVoidId
              /\ \E f \in FiltersNamed(directory, m.address) : f.id = p.toFilterUserId
        BY <2>1, <2>3 DEF RowInv, RowsOf
      <3>2. PICK f \in FiltersNamed(directory, m.address) : f.id = p.toFilterUserId
        BY <3>1
      <3>3. f \in directory.filter_user /\ f.identifier = m.address
        BY <3>2 DEF FiltersNamed
      <3>4. f \in getUserFilterById(directory, p.toFilterUserId) /\ f # NULL
        BY <3>2, <3>3, DirectoryTyped DEF getUserFilterById, LimitOne, PostInv
      <3>5. Cardinality(rows) = 1
        BY <3>1, FS_Singleton
      <3> QED BY <3>1, <3>3, <3>4, <3>5
    <2> QED BY <2>2, <2>3
  <1> QED BY <1>1, PostInvariant, PTL

(***************************************************************************)
(* Whatever fails, a script of a private void runs for mails of its        *)
(* members only.                                                           *)
(***************************************************************************)
THEOREM MembersOnly == Spec => []PrivateIsPrivate
  <1>1. PostInv => PrivateIsPrivate
    <2> SUFFICES ASSUME PostInv, NEW q \in started, NEW v \in directory.filter_void,
                        v.id = message[q.messageId].filterVoidId, v.accessRights = "PRIVATETHWONK"
                 PROVE  \E f \in SenderFilters(q), m \in directory.void_membership :
                          m.userId = f.userId /\ m.voidId = q.voidId
      BY DEF PrivateIsPrivate
    <2>1. q \in queue /\ q.messageType = "EMAILIN"
      BY DEF PostInv, TypeOK
    <2>2. RowInv(q)
      BY <2>1 DEF PostInv
    <2> QED BY <2>1, <2>2 DEF RowInv, SenderFilters
  <1> QED BY <1>1, PostInvariant, PTL

(***************************************************************************)
(* sendMember tells a script the truth, as long as the server answers.     *)
(***************************************************************************)
THEOREM TruthTold == Spec => []ResultIsTrue
  <1>1. PostInv => ResultIsTrue
    BY DEF PostInv, ResultInv, ResultIsTrue
  <1> QED BY <1>1, PostInvariant, PTL

(***************************************************************************)
(* The row of an arrived mail is queued or gone, unless its writer is      *)
(* still at it, was killed or cut off, or could not delete it.             *)
(***************************************************************************)
THEOREM NoneForgotten == Spec => []ArrivedIsQueued
  <1>1. PostInv => ArrivedIsQueued
    BY DEF PostInv
  <1> QED BY <1>1, PostInvariant, PTL
=============================================================================

----------------------------- MODULE VFileProofs -----------------------------
(***************************************************************************)
(* Proofs about the virtual files, for every number of voids, names,       *)
(* scripts and files, and under every fault.                               *)
(*                                                                         *)
(* The argument is about the directory a call works in.  Either it is      *)
(* disturbed, and then nothing is claimed of its files; or the script of   *)
(* the call, or its late statement, is alone there, and what its look-up   *)
(* found is still so at its last statement.                                *)
(***************************************************************************)
EXTENDS VFile, TLAPS

\* What a call of w has learned, that nobody else can have changed.
Undisturbed(w, c) ==
  /\ c.content \in expected[c.name]
  /\ c.pc = "insert" => Ids(c.name) = {}
  /\ c.pc = "rights" => vfile[c.id].content = c.content
  /\ c.pc = "update" => rights[c.id] # NONE /\ rights[c.id].voidId = VoidOf[w]

CallInv(w) ==
  \A c \in {call[w], late[w]} : c.pc # "idle" =>
    /\ c.name \in Name /\ c.content \in Content
    /\ c.name[1] = DirOf(w)
    /\ c.pc \in {"rights", "check", "update"} =>
         c.id \in Id /\ vfile[c.id] # NONE /\ vfile[c.id].name = c.name
    /\ c.name[1] \notin disturbed => Undisturbed(w, c)

OneProcess(w) ==
  /\ call[w].pc # "idle" => alive[w]
  /\ late[w].pc # "idle" => ~alive[w] /\ late[w].pc \in Changing

Alone ==
  \A w, x \in Worker :
    w # x /\ Present(w) /\ Present(x) /\ DirOf(w) = DirOf(x) => DirOf(w) \in disturbed

AnythingGoes == \A n \in Name : n[1] \in disturbed => expected[n] = Content \cup {NONE}

FileInv ==
  /\ TypeOK
  /\ \A w \in Worker : CallInv(w) /\ OneProcess(w)
  /\ Alone
  /\ AnythingGoes
  /\ OneRowPerName
  /\ AcknowledgedIsKept

\* A step that changes rows, rights and expectations of the name n only.
ChangeAt(n) ==
  /\ \A id \in Id : vfile[id] # NONE => vfile'[id] # NONE /\ vfile'[id].name = vfile[id].name
  /\ \A id \in Id : vfile'[id] # vfile[id] => vfile'[id] # NONE /\ vfile'[id].name = n
  /\ \A id \in Id : rights'[id] # rights[id] => vfile[id] # NONE /\ vfile[id].name = n
  /\ \A m \in Name \ {n} : expected'[m] = expected[m]
  /\ UNCHANGED <<names, disturbed>>
-----------------------------------------------------------------------------
(***************************************************************************)
(* What a read of a name returns depends on the rows of the name alone.    *)
(***************************************************************************)
RowsOf(f, n) == {id \in Id : f[id] # NONE /\ f[id].name = n}

OnlyRow(f, n) == CHOOSE id \in Id : RowsOf(f, n) = {id}

ReadIn(f, n) == IF \E id \in Id : RowsOf(f, n) = {id} THEN f[OnlyRow(f, n)].content ELSE NONE

LEMMA NoneNotId == \A id \in Id : id # NONE
  BY NoneAssumption, MaxRowsAssumption DEF Id

LEMMA OnlyRowIs ==
  ASSUME NEW f, NEW n, NEW id \in Id, RowsOf(f, n) = {id}
  PROVE  OnlyRow(f, n) = id
  <1>1. OnlyRow(f, n) \in Id /\ RowsOf(f, n) = {OnlyRow(f, n)}
    BY DEF OnlyRow
  <1> QED BY <1>1

LEMMA ReadOne ==
  ASSUME NEW f, NEW n, NEW id \in Id, RowsOf(f, n) = {id}
  PROVE  ReadIn(f, n) = f[id].content
  BY OnlyRowIs DEF ReadIn

LEMMA ReadNone == ASSUME NEW f, NEW n, RowsOf(f, n) = {} PROVE ReadIn(f, n) = NONE
  BY DEF ReadIn

LEMMA ReadSame ==
  ASSUME NEW f, NEW g, NEW n, RowsOf(f, n) = RowsOf(g, n), \A id \in RowsOf(f, n) : f[id] = g[id]
  PROVE  ReadIn(f, n) = ReadIn(g, n)
  <1>1. CASE \E id \in Id : RowsOf(f, n) = {id}
    <2>1. PICK id \in Id : RowsOf(f, n) = {id}
      BY <1>1
    <2>2. RowsOf(g, n) = {id} /\ f[id] = g[id]
      BY <2>1
    <2>3. ReadIn(f, n) = f[id].content
      BY <2>1, ReadOne
    <2>4. ReadIn(g, n) = g[id].content
      BY <2>2, ReadOne
    <2> QED BY <2>2, <2>3, <2>4
  <1>2. CASE ~ \E id \in Id : RowsOf(f, n) = {id}
    BY <1>2 DEF ReadIn
  <1> QED BY <1>1, <1>2

LEMMA ReadTyped ==
  ASSUME NEW f \in [Id -> Row \cup {NONE}], NEW n
  PROVE  ReadIn(f, n) \in Content \cup {NONE}
  <1>1. CASE \E id \in Id : RowsOf(f, n) = {id}
    <2>1. PICK id \in Id : RowsOf(f, n) = {id}
      BY <1>1
    <2>2. f[id] # NONE
      BY <2>1 DEF RowsOf
    <2>3. f[id] \in Row
      BY <2>2
    <2> QED BY <2>1, <2>3, ReadOne DEF Row
  <1>2. CASE ~ \E id \in Id : RowsOf(f, n) = {id}
    BY <1>2 DEF ReadIn
  <1> QED BY <1>1, <1>2

LEMMA ReadNow == \A n : Ids(n) = RowsOf(vfile, n) /\ file_read(n) = ReadIn(vfile, n)
  <1>1. \A n : Ids(n) = RowsOf(vfile, n)
    BY DEF Ids, RowsOf
  <1>2. \A n : FileId(n) = IF \E id \in Id : RowsOf(vfile, n) = {id} THEN OnlyRow(vfile, n) ELSE NONE
    BY <1>1 DEF FileId, OnlyRow
  <1>3. ASSUME NEW n PROVE file_read(n) = ReadIn(vfile, n)
    <2>1. CASE \E id \in Id : RowsOf(vfile, n) = {id}
      <3>1. FileId(n) = OnlyRow(vfile, n) /\ FileId(n) # NONE
        BY <1>2, <2>1, OnlyRowIs, NoneNotId
      <3> QED BY <2>1, <3>1 DEF file_read, ReadIn
    <2>2. CASE ~ \E id \in Id : RowsOf(vfile, n) = {id}
      <3>1. FileId(n) = NONE
        BY <1>2, <2>2
      <3> QED BY <2>2, <3>1 DEF file_read, ReadIn
    <2> QED BY <2>1, <2>2
  <1> QED BY <1>1, <1>3

LEMMA ReadNext == \A n : Ids(n)' = RowsOf(vfile', n) /\ file_read(n)' = ReadIn(vfile', n)
  <1>1. \A n : Ids(n)' = RowsOf(vfile', n)
    BY DEF Ids, RowsOf
  <1>2. \A n : FileId(n)' = IF \E id \in Id : RowsOf(vfile', n) = {id} THEN OnlyRow(vfile', n) ELSE NONE
    BY <1>1 DEF FileId, OnlyRow
  <1>3. ASSUME NEW n PROVE file_read(n)' = ReadIn(vfile', n)
    <2>1. CASE \E id \in Id : RowsOf(vfile', n) = {id}
      <3>1. FileId(n)' = OnlyRow(vfile', n) /\ FileId(n)' # NONE
        BY <1>2, <2>1, OnlyRowIs, NoneNotId
      <3> QED BY <2>1, <3>1 DEF file_read, ReadIn
    <2>2. CASE ~ \E id \in Id : RowsOf(vfile', n) = {id}
      <3>1. FileId(n)' = NONE
        BY <1>2, <2>2
      <3> QED BY <2>2, <3>1 DEF file_read, ReadIn
    <2> QED BY <2>1, <2>2
  <1> QED BY <1>1, <1>3
-----------------------------------------------------------------------------
(***************************************************************************)
(* Steps seen from the directories and scripts they do not touch.          *)
(***************************************************************************)
LEMMA RowsElsewhere ==
  ASSUME NEW n, ChangeAt(n), NEW m, m # n
  PROVE  Ids(m)' = Ids(m) /\ file_read(m)' = file_read(m) /\ \A id \in Ids(m) : vfile'[id] = vfile[id]
  <1>1. \A id \in Ids(m) : vfile'[id] = vfile[id]
    BY DEF ChangeAt, Ids
  <1>2. RowsOf(vfile', m) = RowsOf(vfile, m)
    BY DEF ChangeAt, RowsOf
  <1>3. ReadIn(vfile', m) = ReadIn(vfile, m)
    BY <1>1, <1>2, ReadSame, ReadNow
  <1> QED BY <1>1, <1>2, <1>3, ReadNow, ReadNext

LEMMA CallsElsewhere ==
  ASSUME FileInv, NEW w \in Worker, Present(w), NEW n \in Name, n[1] = DirOf(w), ChangeAt(n),
         NEW x \in Worker, x # w, UNCHANGED <<call[x], late[x]>>
  PROVE  CallInv(x)'
  <1> SUFFICES ASSUME NEW c \in {call[x], late[x]}, c.pc # "idle"
               PROVE  /\ c.name \in Name /\ c.content \in Content
                      /\ c.name[1] = DirOf(x)'
                      /\ c.pc \in {"rights", "check", "update"} =>
                           c.id \in Id /\ vfile'[c.id] # NONE /\ vfile'[c.id].name = c.name
                      /\ c.name[1] \notin disturbed' =>
                           /\ c.content \in expected'[c.name]
                           /\ c.pc = "insert" => Ids(c.name)' = {}
                           /\ c.pc = "rights" => vfile'[c.id].content = c.content
                           /\ c.pc = "update" => rights'[c.id] # NONE /\ rights'[c.id].voidId = VoidOf[x]
    BY DEF CallInv, Undisturbed
  <1>1. /\ c.name \in Name /\ c.content \in Content
        /\ c.name[1] = DirOf(x)
        /\ c.pc \in {"rights", "check", "update"} => c.id \in Id /\ vfile[c.id] # NONE /\ vfile[c.id].name = c.name
        /\ c.name[1] \notin disturbed => Undisturbed(x, c)
    BY DEF FileInv, CallInv
  <1>2. DirOf(x)' = DirOf(x) /\ disturbed' = disturbed
    BY DEF ChangeAt, DirOf, getVoidNameById
  <1>3. CASE c.name[1] \in disturbed
    BY <1>1, <1>2, <1>3 DEF ChangeAt
  <1>4. CASE c.name[1] \notin disturbed
    <2>1. Present(x)
      BY DEF FileInv, OneProcess, Present
    <2>2. c.name # n
      BY <1>1, <1>4, <2>1 DEF FileInv, Alone
    <2>3. Ids(c.name)' = Ids(c.name) /\ \A id \in Ids(c.name) : vfile'[id] = vfile[id]
      BY <2>2, RowsElsewhere
    <2>4. c.pc \in {"rights", "check", "update"} => c.id \in Ids(c.name)
      BY <1>1 DEF Ids
    <2>5. c.pc \in {"rights", "check", "update"} => rights'[c.id] = rights[c.id]
      BY <1>1, <2>2 DEF ChangeAt
    <2>6. expected'[c.name] = expected[c.name]
      BY <1>1, <2>2 DEF ChangeAt
    <2> QED BY <1>1, <1>2, <1>4, <2>3, <2>4, <2>5, <2>6 DEF Undisturbed
  <1> QED BY <1>3, <1>4

\* The whole invariant, when it is kept for the name and the call of w.
LEMMA ChangeKeeps ==
  ASSUME FileInv, NEW w \in Worker, Present(w), NEW n \in Name, n[1] = DirOf(w), ChangeAt(n),
         \A x \in Worker \ {w} : UNCHANGED <<call[x], late[x], alive[x]>>,
         Present(w)' => Present(w),
         TypeOK', CallInv(w)', OneProcess(w)',
         n[1] \in disturbed => expected'[n] = expected[n],
         n[1] \notin disturbed => \A i, j \in Ids(n)' : i = j,
         n[1] \notin disturbed => file_read(n)' \in expected'[n]
  PROVE  FileInv'
  <1>1. \A x \in Worker : DirOf(x)' = DirOf(x)
    BY DEF ChangeAt, DirOf, getVoidNameById
  <1>2. \A x \in Worker : CallInv(x)'
    BY CallsElsewhere
  <1>3. \A x \in Worker : OneProcess(x)'
    <2> SUFFICES ASSUME NEW x \in Worker, x # w PROVE OneProcess(x)'
      OBVIOUS
    <2> QED BY DEF FileInv, OneProcess
  <1>4. Alone'
    <2>1. \A x \in Worker : Present(x)' => Present(x)
      BY DEF Present
    <2> QED BY <1>1, <2>1 DEF FileInv, Alone, ChangeAt
  <1>5. AnythingGoes'
    BY DEF FileInv, AnythingGoes, ChangeAt
  <1>6. OneRowPerName'
    <2> SUFFICES ASSUME NEW i \in Id, NEW j \in Id, vfile'[i] # NONE, vfile'[j] # NONE,
                        vfile'[i].name = vfile'[j].name, vfile'[i].name[1] \notin disturbed'
                 PROVE  i = j
      BY DEF OneRowPerName
    <2>1. disturbed' = disturbed
      BY DEF ChangeAt
    <2>2. CASE vfile'[i].name = n
      BY <2>1, <2>2 DEF Ids
    <2>3. CASE vfile'[i].name # n
      <3>1. vfile'[i] = vfile[i] /\ vfile'[j] = vfile[j]
        BY <2>3 DEF ChangeAt
      <3> QED BY <2>1, <3>1 DEF FileInv, OneRowPerName
    <2> QED BY <2>2, <2>3
  <1>7. AcknowledgedIsKept'
    <2> SUFFICES ASSUME NEW m \in Name PROVE file_read(m)' \in expected'[m]
      BY DEF AcknowledgedIsKept
    <2>1. CASE m # n
      <3>1. file_read(m)' = file_read(m) /\ expected'[m] = expected[m]
        BY <2>1, RowsElsewhere DEF ChangeAt
      <3> QED BY <3>1 DEF FileInv, AcknowledgedIsKept
    <2>2. CASE m = n /\ n[1] \in disturbed
      <3>1. file_read(m)' \in Content \cup {NONE}
        BY ReadTyped, ReadNext DEF TypeOK
      <3>2. expected'[m] = Content \cup {NONE}
        BY <2>2 DEF FileInv, AnythingGoes
      <3> QED BY <3>1, <3>2
    <2> QED BY <2>1, <2>2
  <1> QED BY <1>2, <1>3, <1>4, <1>5, <1>6, <1>7 DEF FileInv
-----------------------------------------------------------------------------
(***************************************************************************)
(* Steps that change no row: scripts begin and end, calls go on.           *)
(***************************************************************************)
LEMMA FilesInit == Init => FileInv
  <1> SUFFICES ASSUME Init PROVE FileInv
    OBVIOUS
  <1>1. Idle \in Call /\ Idle.pc = "idle"
    BY MaxRowsAssumption DEF Idle, Call
  <1>2. TypeOK
    BY <1>1 DEF Init, TypeOK
  <1>3. \A w \in Worker : CallInv(w) /\ OneProcess(w) /\ ~Present(w)
    BY <1>1 DEF Init, CallInv, OneProcess, Present
  <1>4. OneRowPerName /\ AnythingGoes
    BY DEF Init, OneRowPerName, AnythingGoes
  <1>5. AcknowledgedIsKept
    <2>1. \A n \in Name : RowsOf(vfile, n) = {}
      BY DEF Init, RowsOf
    <2> QED BY <2>1, ReadNone, ReadNow DEF Init, AcknowledgedIsKept
  <1> QED BY <1>2, <1>3, <1>4, <1>5 DEF FileInv, Alone

LEMMA FilesSame ==
  ASSUME FileInv, UNCHANGED <<vfile, expected, disturbed>>
  PROVE  OneRowPerName' /\ AnythingGoes' /\ AcknowledgedIsKept'
  <1>1. \A n : file_read(n)' = file_read(n)
    BY ReadNow, ReadNext
  <1> QED BY <1>1 DEF FileInv, OneRowPerName, AnythingGoes, AcknowledgedIsKept

LEMMA ScriptEnds == ASSUME FileInv, NEW w \in Worker, EndScript(w) \/ KillScript(w) PROVE FileInv'
  <1>0. TypeOK /\ UNCHANGED <<names, vfile, rights, expected, disturbed>>
    BY DEF FileInv, EndScript, KillScript, history
  <1>1. \A x \in Worker \ {w} : UNCHANGED <<call[x], late[x], alive[x]>>
    BY <1>0 DEF EndScript, KillScript, TypeOK
  <1>2. /\ alive[w] /\ ~alive'[w] /\ call'[w].pc = "idle"
        /\ \/ late'[w].pc = "idle"
           \/ late'[w] = call[w] /\ call[w].pc \in Changing
           \/ late'[w] = late[w]
    BY <1>0 DEF EndScript, KillScript, TypeOK, Idle
  <1>3. TypeOK'
    <2>1. Idle \in Call
      BY MaxRowsAssumption DEF Idle, Call
    <2>2. call[w] \in Call
      BY <1>0 DEF TypeOK
    <2>3. alive' = [alive EXCEPT ![w] = FALSE]
          /\ call' \in {call, [call EXCEPT ![w] = Idle]}
          /\ late' \in {late, [late EXCEPT ![w] = Idle], [late EXCEPT ![w] = call[w]]}
      BY DEF EndScript, KillScript
    <2>4. call' \in [Worker -> Call] /\ late' \in [Worker -> Call] /\ alive' \in [Worker -> BOOLEAN]
      BY <1>0, <2>1, <2>2, <2>3 DEF TypeOK
    <2> QED BY <1>0, <2>4 DEF TypeOK
  <1>4. \A x \in Worker : DirOf(x)' = DirOf(x) /\ (Present(x)' => Present(x))
    BY <1>0, <1>1, <1>2 DEF DirOf, getVoidNameById, Present, FileInv, OneProcess
  <1>5. \A x \in Worker : OneProcess(x)'
    BY <1>1, <1>2 DEF FileInv, OneProcess
  <1>6. \A x \in Worker : CallInv(x)'
    <2> SUFFICES ASSUME NEW x \in Worker, NEW c \in {call'[x], late'[x]}, c.pc # "idle"
                 PROVE  c \in {call[x], late[x]}
      BY <1>0, <1>4 DEF FileInv, CallInv, Undisturbed, Ids
    <2> QED BY <1>1, <1>2
  <1>7. Alone'
    BY <1>0, <1>4 DEF FileInv, Alone
  <1> QED BY <1>0, <1>3, <1>5, <1>6, <1>7, FilesSame DEF FileInv

\* What disturbs a directory keeps the invariant of those that work elsewhere.
LEMMA DisturbKeeps ==
  ASSUME FileInv, NEW D \in SUBSET Dir, Disturb(D), UNCHANGED <<names, vfile, rights>>
  PROVE  /\ expected' \in [Name -> SUBSET (Content \cup {NONE})] /\ disturbed' \subseteq Dir
         /\ OneRowPerName' /\ AnythingGoes' /\ AcknowledgedIsKept'
         /\ \A x \in Worker : call'[x] = call[x] /\ late'[x] = late[x] => CallInv(x)'
  <1>1. /\ expected' \in [Name -> SUBSET (Content \cup {NONE})] /\ disturbed' \subseteq Dir
        /\ \A n \in Name : expected'[n] = IF n[1] \in D THEN Content \cup {NONE} ELSE expected[n]
        /\ disturbed' = disturbed \cup D
    BY DEF Disturb, FileInv, TypeOK
  <1>2. OneRowPerName' /\ AnythingGoes'
    BY <1>1 DEF FileInv, OneRowPerName, AnythingGoes
  <1>3. AcknowledgedIsKept'
    <2> SUFFICES ASSUME NEW n \in Name PROVE file_read(n)' \in expected'[n]
      BY DEF AcknowledgedIsKept
    <2>1. file_read(n)' = file_read(n) /\ file_read(n) \in Content \cup {NONE}
      BY ReadNow, ReadNext, ReadTyped DEF FileInv, TypeOK
    <2> QED BY <1>1, <2>1 DEF FileInv, AcknowledgedIsKept
  <1>4. ASSUME NEW x \in Worker, call'[x] = call[x], late'[x] = late[x] PROVE CallInv(x)'
    <2>1. CallInv(x) /\ DirOf(x)' = DirOf(x) /\ \A n : Ids(n)' = Ids(n)
      BY ReadNow, ReadNext DEF FileInv, DirOf, getVoidNameById
    <2> QED BY <1>1, <1>4, <2>1 DEF CallInv, Undisturbed
  <1> QED BY <1>1, <1>2, <1>3, <1>4

LEMMA ScriptBegins == ASSUME FileInv, NEW w \in Worker, BeginScript(w) PROVE FileInv'
  <1> DEFINE D == {DirOf(w)} \cap {DirOf(x) : x \in {y \in Worker : Present(y)}}
  <1>0. TypeOK /\ Disturb(D) /\ UNCHANGED <<names, vfile, rights, call, late>> /\ ~Present(w)
    BY DEF FileInv, BeginScript
  <1>1. D \in SUBSET Dir /\ disturbed' = disturbed \cup D
    BY <1>0, VoidAssumption DEF DirOf, getVoidNameById, TypeOK, Disturb
  <1>2. /\ expected' \in [Name -> SUBSET (Content \cup {NONE})] /\ disturbed' \subseteq Dir
        /\ OneRowPerName' /\ AnythingGoes' /\ AcknowledgedIsKept'
        /\ \A x \in Worker : CallInv(x)'
    BY <1>0, <1>1, DisturbKeeps
  <1>3. \A x \in Worker \ {w} : alive'[x] = alive[x]
    BY <1>0 DEF BeginScript, TypeOK
  <1>4. TypeOK'
    BY <1>0, <1>2 DEF BeginScript, TypeOK
  <1>5. \A x \in Worker : OneProcess(x)'
    BY <1>0, <1>3 DEF FileInv, OneProcess, Present
  <1>6. Alone'
    <2> SUFFICES ASSUME NEW x \in Worker, NEW y \in Worker, x # y, Present(x)', Present(y)', DirOf(x)' = DirOf(y)'
                 PROVE  DirOf(x)' \in disturbed'
      BY DEF Alone
    <2>1. DirOf(x)' = DirOf(x) /\ DirOf(y)' = DirOf(y)
      BY <1>0 DEF DirOf, getVoidNameById
    <2>2. \A z \in {x, y} \ {w} : Present(z)
      BY <1>0, <1>3 DEF Present
    <2>3. CASE w \notin {x, y}
      BY <1>1, <2>1, <2>2, <2>3 DEF FileInv, Alone
    <2>4. CASE w \in {x, y}
      BY <1>1, <2>1, <2>2, <2>4
    <2> QED BY <2>3, <2>4
  <1> QED BY <1>2, <1>4, <1>5, <1>6 DEF FileInv

\* A step of a call that changes no row and forgets no content.
LEMMA QuietKeeps ==
  ASSUME FileInv, NEW w \in Worker, alive[w], NEW n \in Name, n[1] = DirOf(w), NEW c \in Call,
         call' = [call EXCEPT ![w] = c],
         UNCHANGED <<names, vfile, rights, alive, late, disturbed>>,
         expected' \in [Name -> SUBSET (Content \cup {NONE})],
         \A m \in Name \ {n} : expected'[m] = expected[m],
         n[1] \in disturbed => expected'[n] = expected[n],
         expected[n] \subseteq expected'[n],
         c.pc # "idle" =>
           /\ c.name = n /\ c.content \in Content /\ c.pc # "rights"
           /\ c.pc \in {"check", "update"} => c.id \in Id /\ vfile[c.id] # NONE /\ vfile[c.id].name = n
           /\ n[1] \notin disturbed =>
                /\ c.content \in expected'[n]
                /\ c.pc = "insert" => Ids(n) = {}
                /\ c.pc = "update" => rights[c.id] # NONE /\ rights[c.id].voidId = VoidOf[w]
  PROVE  FileInv'
  <1>0. TypeOK /\ OneProcess(w) /\ late[w].pc = "idle" /\ call' \in [Worker -> Call] /\ call'[w] = c
    BY DEF FileInv, OneProcess, TypeOK
  <1>1. TypeOK'
    BY <1>0 DEF TypeOK
  <1>2. ChangeAt(n)
    BY DEF ChangeAt
  <1>3. \A x \in Worker \ {w} : UNCHANGED <<call[x], late[x], alive[x]>>
    BY <1>0 DEF TypeOK
  <1>4. \A m : Ids(m)' = Ids(m) /\ file_read(m)' = file_read(m)
    BY ReadNow, ReadNext
  <1>5. CallInv(w)'
    <2>1. DirOf(w)' = DirOf(w)
      BY DEF DirOf, getVoidNameById
    <2> QED BY <1>0, <1>4, <2>1 DEF CallInv, Undisturbed
  <1>6. OneProcess(w)'
    BY <1>0 DEF OneProcess
  <1>7. Present(w) /\ Present(w)'
    BY DEF Present
  <1>8. n[1] \notin disturbed => \A i, j \in Ids(n)' : i = j
    BY <1>4 DEF FileInv, OneRowPerName, Ids
  <1>9. file_read(n)' \in expected'[n]
    BY <1>4 DEF FileInv, AcknowledgedIsKept
  <1> QED BY <1>1, <1>2, <1>3, <1>5, <1>6, <1>7, <1>8, <1>9, ChangeKeeps

\* What the invariant says of a call that goes on.
LEMMA CallNow ==
  ASSUME FileInv, NEW w \in Worker, call[w].pc # "idle"
  PROVE  /\ TypeOK /\ call[w] \in Call /\ alive[w] /\ call[w].name \in Name /\ call[w].content \in Content
         /\ call[w].name[1] = DirOf(w) /\ expected[call[w].name] \in SUBSET (Content \cup {NONE})
         /\ call[w].pc \in {"rights", "check", "update"} =>
              call[w].id \in Id /\ vfile[call[w].id] # NONE /\ vfile[call[w].id].name = call[w].name
         /\ call[w].name[1] \notin disturbed => Undisturbed(w, call[w])
  BY DEF FileInv, CallInv, OneProcess, TypeOK

LEMMA WriteBegins ==
  ASSUME FileInv, NEW w \in Worker, NEW p \in Path, NEW t \in Content, Write(w, p, t)
  PROVE  FileInv'
  <1> DEFINE n == safe_name(w, p)
             c == [pc |-> "select", name |-> n, content |-> t, id |-> 0]
  <1>0. TypeOK /\ alive[w] /\ Allowed(w, p) /\ call' = [call EXCEPT ![w] = c]
        /\ Expect(n, expected[n] \cup {t}) /\ UNCHANGED <<names, vfile, rights, alive, late>>
    BY DEF FileInv, Write
  <1>1. n \in Name /\ n[1] = DirOf(w)
    <2>1. DirOf(w) \in Dir
      BY <1>0, VoidAssumption DEF DirOf, getVoidNameById, TypeOK
    <2>2. p[1] \in Dir \cup {REL} /\ p[2] \in Base /\ p = <<p[1], p[2]>>
      BY DEF Path
    <2>3. CASE p[1] = REL
      BY <2>1, <2>2, <2>3 DEF safe_name, Name
    <2>4. CASE p[1] # REL
      BY <1>0, <2>1, <2>2, <2>4 DEF safe_name, Name, Allowed
    <2> QED BY <2>3, <2>4
  <1> HIDE DEF n
  <1>2. c \in Call
    BY <1>1, MaxRowsAssumption DEF Call
  <1>3. expected' = (IF n[1] \in disturbed THEN expected ELSE [expected EXCEPT ![n] = expected[n] \cup {t}])
        /\ UNCHANGED disturbed
    BY <1>0 DEF Expect
  <1>4. /\ expected' \in [Name -> SUBSET (Content \cup {NONE})]
        /\ \A m \in Name \ {n} : expected'[m] = expected[m]
        /\ expected[n] \subseteq expected'[n]
        /\ n[1] \notin disturbed => t \in expected'[n]
    BY <1>0, <1>1, <1>3 DEF TypeOK
  <1> QED BY <1>0, <1>1, <1>2, <1>3, <1>4, QuietKeeps

LEMMA FileIdFound == \A n : FileId(n) # NONE => FileId(n) \in Id /\ Ids(n) = {FileId(n)}
  <1> SUFFICES ASSUME NEW n, FileId(n) # NONE PROVE FileId(n) \in Id /\ Ids(n) = {FileId(n)}
    OBVIOUS
  <1>1. \E id \in Id : Ids(n) = {id}
    BY DEF FileId
  <1> QED BY <1>1 DEF FileId

LEMMA FileSelected ==
  ASSUME FileInv, NEW w \in Worker, SelectFile(w)
  PROVE  FileInv'
  <1> DEFINE n == call[w].name
             id == FileId(n)
  <1>0. call[w].pc = "select" /\ UNCHANGED <<names, vfile, rights, alive, late, expected, disturbed>>
    BY DEF SelectFile, history
  <1>1. /\ TypeOK /\ call[w] \in Call /\ alive[w] /\ n \in Name /\ call[w].content \in Content /\ n[1] = DirOf(w)
        /\ n[1] \notin disturbed => Undisturbed(w, call[w])
    BY <1>0, CallNow
  <1>2. CASE id = NONE
    <2> DEFINE c == [call[w] EXCEPT !.pc = "insert"]
    <2>1. call' = [call EXCEPT ![w] = c]
      BY <1>1, <1>2 DEF SelectFile, Goto, TypeOK
    <2>2. c \in Call /\ c.pc = "insert" /\ c.name = n /\ c.content = call[w].content
      BY <1>1 DEF Call
    <2>3. n[1] \notin disturbed => Ids(n) = {}
      <3> SUFFICES ASSUME n[1] \notin disturbed, NEW i \in Ids(n) PROVE FALSE
        OBVIOUS
      <3>1. Ids(n) = {i} /\ i \in Id
        BY DEF Ids, FileInv, OneRowPerName
      <3>2. FileId(n) \in Id
        BY <3>1 DEF FileId
      <3> QED BY <1>2, <3>2, NoneNotId
    <2>4. n[1] \notin disturbed => c.content \in expected'[n]
      BY <1>0, <1>1, <2>2 DEF Undisturbed
    <2> HIDE DEF c, n
    <2> QED BY <1>0, <1>1, <2>1, <2>2, <2>3, <2>4, QuietKeeps DEF TypeOK
  <1>3. CASE id # NONE
    <2> DEFINE c == [call[w] EXCEPT !.pc = "check", !.id = id]
    <2>1. call' = [call EXCEPT ![w] = c]
      BY <1>1, <1>3 DEF SelectFile, TypeOK
    <2>2. id \in Id /\ vfile[id] # NONE /\ vfile[id].name = n
      BY <1>3, FileIdFound DEF Ids
    <2> HIDE DEF id
    <2>5. id \in 0..MaxRows
      BY <2>2, MaxRowsAssumption DEF Id
    <2>3. c \in Call /\ c.pc = "check" /\ c.name = n /\ c.content = call[w].content /\ c.id = id
      BY <1>1, <2>5 DEF Call
    <2>4. n[1] \notin disturbed => c.content \in expected'[n]
      BY <1>0, <1>1, <2>3 DEF Undisturbed
    <2> HIDE DEF c, n
    <2> QED BY <1>0, <1>1, <2>1, <2>2, <2>3, <2>4, QuietKeeps DEF TypeOK
  <1> QED BY <1>2, <1>3

LEMMA RightsChecked ==
  ASSUME FileInv, NEW w \in Worker, CheckRights(w)
  PROVE  FileInv'
  <1> DEFINE n == call[w].name
             c == [call[w] EXCEPT !.pc = "update"]
  <1>0. call[w].pc = "check" /\ UNCHANGED <<names, vfile, rights, alive, late, expected, disturbed>>
    BY DEF CheckRights, history
  <1>1. /\ TypeOK /\ call[w] \in Call /\ alive[w] /\ n \in Name /\ call[w].content \in Content /\ n[1] = DirOf(w)
        /\ call[w].id \in Id /\ vfile[call[w].id] # NONE /\ vfile[call[w].id].name = n
        /\ n[1] \notin disturbed => Undisturbed(w, call[w])
    BY <1>0, CallNow
  <1>2. call' = [call EXCEPT ![w] = c]
    BY <1>1 DEF CheckRights, Goto, TypeOK
  <1>3. c \in Call /\ c.pc = "update" /\ c.name = n /\ c.content = call[w].content /\ c.id = call[w].id
    BY <1>1 DEF Call
  <1>4. rights[c.id] # NONE /\ rights[c.id].voidId = VoidOf[w]
    <2>1. PICK u \in CreatorReads : rights[call[w].id] = [voidId |-> VoidOf[w], userId |-> u]
      BY DEF CheckRights, MayEdit, getVFileRightsByFileId, getVoidCreatorUserId
    <2>2. rights[call[w].id] \in Right
      BY <2>1, VoidAssumption, CreatorAssumption DEF Right
    <2> QED BY <1>3, <2>1, <2>2, NoneAssumption
  <1>5. n[1] \notin disturbed => c.content \in expected'[n]
    BY <1>0, <1>1, <1>3 DEF Undisturbed
  <1> HIDE DEF c, n
  <1> QED BY <1>0, <1>1, <1>2, <1>3, <1>4, <1>5, QuietKeeps DEF TypeOK

LEMMA CallGivenUp ==
  ASSUME FileInv, NEW w \in Worker, RightsDenied(w) \/ StatementFails(w)
  PROVE  FileInv'
  <1>0. call[w].pc # "idle" /\ call' = [call EXCEPT ![w] = Idle]
        /\ UNCHANGED <<names, vfile, rights, alive, late, expected, disturbed>>
    BY DEF RightsDenied, StatementFails, ReturnFalse, history
  <1>1. TypeOK /\ alive[w] /\ call[w].name \in Name /\ call[w].name[1] = DirOf(w)
    BY <1>0, CallNow
  <1>2. Idle \in Call /\ Idle.pc = "idle"
    BY MaxRowsAssumption DEF Idle, Call
  <1> QED BY <1>0, <1>1, <1>2, QuietKeeps DEF TypeOK

LEMMA SelectGivesUp ==
  ASSUME FileInv, NEW w \in Worker, SelectFails(w)
  PROVE  FileInv'
  <1> DEFINE c == [call[w] EXCEPT !.pc = "insert"]
  <1>0. call[w].pc = "select" /\ Disturb({DirOf(w)}) /\ UNCHANGED <<names, vfile, rights, alive, late>>
    BY DEF SelectFails
  <1>1. /\ TypeOK /\ call[w] \in Call /\ alive[w] /\ call[w].name \in Name /\ call[w].content \in Content
        /\ call[w].name[1] = DirOf(w) /\ OneProcess(w)
    BY <1>0, CallNow DEF FileInv
  <1>2. call' = [call EXCEPT ![w] = c] /\ c \in Call /\ c.name = call[w].name /\ c.content = call[w].content
        /\ c.pc = "insert"
    BY <1>1 DEF SelectFails, Goto, TypeOK, Call
  <1>3. {DirOf(w)} \in SUBSET Dir
    BY <1>1, VoidAssumption DEF DirOf, getVoidNameById, TypeOK
  <1>4. /\ expected' \in [Name -> SUBSET (Content \cup {NONE})] /\ disturbed' \subseteq Dir
        /\ OneRowPerName' /\ AnythingGoes' /\ AcknowledgedIsKept'
        /\ \A x \in Worker : call'[x] = call[x] /\ late'[x] = late[x] => CallInv(x)'
    BY <1>0, <1>3, DisturbKeeps
  <1> HIDE DEF c
  <1>5. call' \in [Worker -> Call] /\ call'[w] = c /\ \A x \in Worker \ {w} : call'[x] = call[x]
    BY <1>1, <1>2 DEF TypeOK
  <1>6. TypeOK'
    BY <1>0, <1>1, <1>4, <1>5 DEF TypeOK
  <1>7. DirOf(w)' = DirOf(w) /\ DirOf(w) \in disturbed'
    BY <1>0 DEF DirOf, getVoidNameById, Disturb
  <1>8. CallInv(w)' /\ OneProcess(w)'
    <2>1. late'[w].pc = "idle"
      BY <1>0, <1>1 DEF OneProcess
    <2> QED BY <1>0, <1>1, <1>2, <1>5, <1>7, <2>1 DEF CallInv, OneProcess
  <1>9. \A x \in Worker : CallInv(x)' /\ OneProcess(x)'
    <2> SUFFICES ASSUME NEW x \in Worker, x # w PROVE CallInv(x)' /\ OneProcess(x)'
      BY <1>8
    <2> QED BY <1>0, <1>4, <1>5 DEF FileInv, OneProcess
  <1>10. Alone'
    BY <1>0 DEF FileInv, Alone, Present, DirOf, getVoidNameById, Disturb
  <1> QED BY <1>4, <1>6, <1>9, <1>10 DEF FileInv
-----------------------------------------------------------------------------
(***************************************************************************)
(* The statements that change the tables, sent or late.                    *)
(***************************************************************************)
LEMMA RowInserted ==
  ASSUME TypeOK, NEW c \in Call, c.name \in Name, c.content \in Content, NEW id \in Id, InsertRow(c, id),
         UNCHANGED <<names, expected, disturbed>>
  PROVE  /\ vfile' \in [Id -> Row \cup {NONE}] /\ rights' = rights
         /\ ChangeAt(c.name)
         /\ vfile'[id] # NONE /\ vfile'[id].name = c.name /\ vfile'[id].content = c.content
         /\ Ids(c.name) = {} => (\A i, j \in Ids(c.name)' : i = j) /\ file_read(c.name)' = c.content
  <1> DEFINE row == [name |-> c.name, content |-> c.content]
  <1>1. row \in Row /\ row # NONE /\ row.name = c.name /\ row.content = c.content
    BY NoneAssumption DEF Row
  <1>2. vfile[id] = NONE /\ vfile' = [vfile EXCEPT ![id] = row] /\ rights' = rights
    BY DEF InsertRow, FreshIds
  <1> HIDE DEF row
  <1>3. vfile' \in [Id -> Row \cup {NONE}] /\ vfile'[id] = row /\ \A i \in Id \ {id} : vfile'[i] = vfile[i]
    BY <1>1, <1>2 DEF TypeOK
  <1>4. ChangeAt(c.name)
    BY <1>1, <1>2, <1>3 DEF ChangeAt
  <1>5. ASSUME Ids(c.name) = {} PROVE RowsOf(vfile', c.name) = {id}
    BY <1>1, <1>3, <1>5 DEF Ids, RowsOf
  <1>6. ASSUME Ids(c.name) = {} PROVE (\A i, j \in Ids(c.name)' : i = j) /\ file_read(c.name)' = c.content
    BY <1>1, <1>3, <1>5, <1>6, ReadNext, ReadOne
  <1> QED BY <1>1, <1>2, <1>3, <1>4, <1>6

LEMMA RightsInserted ==
  ASSUME TypeOK, NEW w \in Worker, NEW id \in Id, insertVFileRights(w, id)
  PROVE  /\ rights' \in [Id -> Right \cup {NONE}] /\ vfile' = vfile
         /\ \A i \in Id \ {id} : rights'[i] = rights[i]
  <1>1. PICK u \in CreatorReads : rights' = [rights EXCEPT ![id] = [voidId |-> VoidOf[w], userId |-> u]]
    BY DEF insertVFileRights, getVoidCreatorUserId
  <1>2. [voidId |-> VoidOf[w], userId |-> u] \in Right
    BY VoidAssumption, CreatorAssumption DEF Right
  <1> QED BY <1>1, <1>2 DEF TypeOK, insertVFileRights

LEMMA RowsUpdated ==
  ASSUME TypeOK, NEW c \in Call, c.name \in Name, c.content \in Content, UpdateRows(c)
  PROVE  /\ vfile' \in [Id -> Row \cup {NONE}] /\ rights' = rights
         /\ \A id \in Id : vfile[id] # NONE => vfile'[id] # NONE /\ vfile'[id].name = vfile[id].name
         /\ \A id \in Id : vfile'[id] # vfile[id] => vfile'[id] # NONE /\ vfile'[id].name = c.name
         /\ Ids(c.name)' = Ids(c.name)
         /\ \A id \in Id : Ids(c.name) = {id} => file_read(c.name)' = c.content
  <1>1. \A id \in Id : vfile[id] # NONE =>
          /\ vfile[id] \in Row
          /\ [vfile[id] EXCEPT !.content = c.content] \in Row
          /\ [vfile[id] EXCEPT !.content = c.content].name = vfile[id].name
          /\ [vfile[id] EXCEPT !.content = c.content].content = c.content
    BY DEF TypeOK, Row
  <1>2. \A id \in Id : vfile'[id] = IF id \in Ids(c.name) THEN [vfile[id] EXCEPT !.content = c.content] ELSE vfile[id]
    BY DEF UpdateRows, WithContent
  <1>3. \A id \in Ids(c.name) : id \in Id /\ vfile[id] # NONE /\ vfile[id].name = c.name
    BY DEF Ids
  <1>4. \A id \in Id : vfile[id] # NONE => vfile'[id] # NONE /\ vfile'[id].name = vfile[id].name
    BY <1>1, <1>2, NoneAssumption
  <1>5. \A id \in Id : vfile'[id] # vfile[id] => vfile'[id] # NONE /\ vfile'[id].name = c.name
    BY <1>2, <1>3, <1>4
  <1>6. RowsOf(vfile', c.name) = Ids(c.name)
    <2>1. ASSUME NEW id \in Id PROVE id \in RowsOf(vfile', c.name) <=> id \in Ids(c.name)
      BY <1>2, <1>3, <1>4 DEF RowsOf, Ids
    <2> QED BY <2>1 DEF RowsOf, Ids
  <1>7. ASSUME NEW id \in Id, Ids(c.name) = {id} PROVE file_read(c.name)' = c.content
    <2>1. vfile'[id].content = c.content
      BY <1>1, <1>2, <1>3, <1>7
    <2> QED BY <1>6, <1>7, <2>1, ReadOne, ReadNext
  <1>8. vfile' \in [Id -> Row \cup {NONE}] /\ rights' = rights
    <2>1. vfile' = [id \in Id |-> IF id \in Ids(c.name) THEN [vfile[id] EXCEPT !.content = c.content] ELSE vfile[id]]
          /\ rights' = rights
      BY DEF UpdateRows, WithContent
    <2>2. \A id \in Id : (IF id \in Ids(c.name) THEN [vfile[id] EXCEPT !.content = c.content] ELSE vfile[id]) \in Row \cup {NONE}
      BY <1>1, <1>3 DEF TypeOK
    <2> QED BY <2>1, <2>2
  <1> QED BY <1>4, <1>5, <1>6, <1>7, <1>8, ReadNext

LEMMA OnlyOne ==
  ASSUME FileInv, NEW n, n[1] \notin disturbed
  PROVE  /\ \A i, j \in Ids(n) : i = j
         /\ \A id \in Ids(n) : Ids(n) = {id}
  <1>1. \A i, j \in Ids(n) : i = j
    BY DEF FileInv, OneRowPerName, Ids
  <1> QED BY <1>1

LEMMA ExpectKeeps ==
  ASSUME TypeOK, NEW n \in Name, NEW t \in Content, Expect(n, {t})
  PROVE  /\ expected' \in [Name -> SUBSET (Content \cup {NONE})] /\ disturbed' = disturbed
         /\ \A m \in Name \ {n} : expected'[m] = expected[m]
         /\ n[1] \in disturbed => expected'[n] = expected[n]
         /\ n[1] \notin disturbed => expected'[n] = {t}
  <1>1. n[1] \in disturbed => expected' = expected
    BY DEF Expect
  <1>2. n[1] \notin disturbed => expected' = [expected EXCEPT ![n] = {t}]
    BY DEF Expect
  <1> QED BY <1>1, <1>2 DEF TypeOK, Expect

LEMMA FileInserted ==
  ASSUME FileInv, NEW w \in Worker, InsertFile(w), NEW k, k = call[w]
  PROVE  FileInv'
  <1> DEFINE n == k.name
  <1>0. k.pc = "insert" /\ UNCHANGED <<names, alive, late, expected, disturbed>>
    BY DEF InsertFile, history
  <1>1. /\ TypeOK /\ k \in Call /\ alive[w] /\ n \in Name /\ k.content \in Content /\ n[1] = DirOf(w)
        /\ n[1] \notin disturbed => k.content \in expected[n] /\ Ids(n) = {}
    BY <1>0, CallNow DEF Undisturbed
  <1>2. PICK id \in Id : InsertRow(k, id) /\ call' = [call EXCEPT ![w].pc = "rights", ![w].id = id]
    BY DEF InsertFile
  <1> DEFINE c == [k EXCEPT !.pc = "rights", !.id = id]
  <1>3. call' = [call EXCEPT ![w] = c]
    BY <1>1, <1>2 DEF TypeOK
  <1>4. id \in 0..MaxRows
    BY MaxRowsAssumption DEF Id
  <1>5. c \in Call /\ c.pc = "rights" /\ c.name = n /\ c.content = k.content /\ c.id = id
    BY <1>1, <1>4 DEF Call
  <1> HIDE DEF c
  <1>6. /\ vfile' \in [Id -> Row \cup {NONE}] /\ rights' = rights
        /\ ChangeAt(n)
        /\ vfile'[id] # NONE /\ vfile'[id].name = n /\ vfile'[id].content = k.content
        /\ Ids(n) = {} => (\A i, j \in Ids(n)' : i = j) /\ file_read(n)' = k.content
    BY <1>0, <1>1, <1>2, RowInserted
  <1>7. OneProcess(w) /\ late[w].pc = "idle"
    BY <1>1 DEF FileInv, OneProcess
  <1>8. call' \in [Worker -> Call] /\ call'[w] = c /\ \A x \in Worker \ {w} : call'[x] = call[x]
    BY <1>1, <1>3, <1>5 DEF TypeOK
  <1>9. TypeOK'
    BY <1>0, <1>1, <1>6, <1>8 DEF TypeOK
  <1>10. CallInv(w)'
    <2>1. DirOf(w)' = DirOf(w)
      BY <1>0 DEF DirOf, getVoidNameById
    <2> QED BY <1>0, <1>1, <1>5, <1>6, <1>7, <1>8, <2>1 DEF CallInv, Undisturbed
  <1>11. OneProcess(w)' /\ Present(w)
    BY <1>0, <1>1, <1>7 DEF OneProcess, Present
  <1>12. \A x \in Worker \ {w} : UNCHANGED <<call[x], late[x], alive[x]>>
    BY <1>0, <1>8
  <1>13. n[1] \notin disturbed => (\A i, j \in Ids(n)' : i = j) /\ file_read(n)' \in expected'[n]
    BY <1>0, <1>1, <1>6
  <1> HIDE DEF n
  <1> QED BY <1>0, <1>1, <1>6, <1>9, <1>10, <1>11, <1>12, <1>13, ChangeKeeps

\* The last step of a call, by the script or by the server after its end.
LEMMA CallOver ==
  ASSUME FileInv, NEW w \in Worker, Present(w), NEW n \in Name, n[1] = DirOf(w), UNCHANGED <<names, alive>>,
         \/ call' = [call EXCEPT ![w] = Idle] /\ late' = late /\ alive[w]
         \/ late' = [late EXCEPT ![w] = Idle] /\ call' = call /\ ~alive[w],
         vfile' \in [Id -> Row \cup {NONE}], rights' \in [Id -> Right \cup {NONE}],
         expected' \in [Name -> SUBSET (Content \cup {NONE})],
         ChangeAt(n),
         n[1] \in disturbed => expected'[n] = expected[n],
         n[1] \notin disturbed => \A i, j \in Ids(n)' : i = j,
         n[1] \notin disturbed => file_read(n)' \in expected'[n]
  PROVE  FileInv'
  <1>0. TypeOK /\ OneProcess(w) /\ Idle \in Call /\ Idle.pc = "idle"
    BY MaxRowsAssumption DEF FileInv, Idle, Call
  <1>1. call' \in [Worker -> Call] /\ late' \in [Worker -> Call]
    BY <1>0 DEF TypeOK
  <1>2. TypeOK'
    BY <1>0, <1>1 DEF TypeOK, ChangeAt
  <1>3. \A x \in Worker \ {w} : UNCHANGED <<call[x], late[x], alive[x]>>
    BY <1>0 DEF TypeOK
  <1>4. call'[w].pc = "idle" /\ late'[w].pc = "idle"
    <2>1. CASE alive[w]
      BY <1>0, <2>1 DEF TypeOK, OneProcess
    <2>2. CASE ~alive[w]
      BY <1>0, <2>2 DEF TypeOK, OneProcess
    <2> QED BY <2>1, <2>2
  <1>5. CallInv(w)' /\ OneProcess(w)'
    BY <1>4 DEF CallInv, OneProcess
  <1> QED BY <1>2, <1>3, <1>5, ChangeKeeps

\* Rights rows are no part of what a read of the name returns.
LEMMA RightsChange ==
  ASSUME FileInv, NEW w \in Worker, NEW c \in Call, c.name \in Name, c.id \in Id,
         vfile[c.id] # NONE, vfile[c.id].name = c.name, insertVFileRights(w, c.id),
         UNCHANGED <<names, disturbed>>, \A m \in Name \ {c.name} : expected'[m] = expected[m]
  PROVE  /\ vfile' \in [Id -> Row \cup {NONE}] /\ rights' \in [Id -> Right \cup {NONE}]
         /\ ChangeAt(c.name)
         /\ c.name[1] \notin disturbed => \A i, j \in Ids(c.name)' : i = j
         /\ c.name[1] \notin disturbed => file_read(c.name)' = vfile[c.id].content
  <1>0. TypeOK
    BY DEF FileInv
  <1>1. /\ rights' \in [Id -> Right \cup {NONE}] /\ vfile' = vfile
        /\ \A i \in Id \ {c.id} : rights'[i] = rights[i]
    BY <1>0, RightsInserted
  <1>2. ChangeAt(c.name)
    BY <1>1 DEF ChangeAt
  <1>3. \A n : Ids(n)' = Ids(n) /\ file_read(n)' = file_read(n)
    BY <1>1, ReadNow, ReadNext
  <1>4. c.id \in Ids(c.name)
    BY DEF Ids
  <1>5. ASSUME c.name[1] \notin disturbed
        PROVE  (\A i, j \in Ids(c.name)' : i = j) /\ file_read(c.name)' = vfile[c.id].content
    <2>1. Ids(c.name) = {c.id} /\ \A i, j \in Ids(c.name) : i = j
      BY <1>4, <1>5, OnlyOne
    <2>2. file_read(c.name) = vfile[c.id].content
      BY <2>1, ReadNow, ReadOne
    <2> QED BY <1>3, <2>1, <2>2
  <1> QED BY <1>0, <1>1, <1>2, <1>3, <1>5 DEF TypeOK

LEMMA ContentChange ==
  ASSUME FileInv, NEW w \in Worker, NEW c \in Call, c.name \in Name, c.content \in Content, c.id \in Id,
         vfile[c.id] # NONE, vfile[c.id].name = c.name, UpdateRows(c),
         UNCHANGED <<names, disturbed>>, \A m \in Name \ {c.name} : expected'[m] = expected[m]
  PROVE  /\ vfile' \in [Id -> Row \cup {NONE}] /\ rights' \in [Id -> Right \cup {NONE}]
         /\ ChangeAt(c.name)
         /\ c.name[1] \notin disturbed => \A i, j \in Ids(c.name)' : i = j
         /\ c.name[1] \notin disturbed => file_read(c.name)' = c.content
  <1>0. TypeOK
    BY DEF FileInv
  <1>1. /\ vfile' \in [Id -> Row \cup {NONE}] /\ rights' = rights
        /\ \A id \in Id : vfile[id] # NONE => vfile'[id] # NONE /\ vfile'[id].name = vfile[id].name
        /\ \A id \in Id : vfile'[id] # vfile[id] => vfile'[id] # NONE /\ vfile'[id].name = c.name
        /\ Ids(c.name)' = Ids(c.name)
        /\ \A id \in Id : Ids(c.name) = {id} => file_read(c.name)' = c.content
    BY <1>0, RowsUpdated
  <1>2. ChangeAt(c.name)
    BY <1>1 DEF ChangeAt
  <1>3. c.id \in Ids(c.name)
    BY DEF Ids
  <1>4. ASSUME c.name[1] \notin disturbed
        PROVE  (\A i, j \in Ids(c.name)' : i = j) /\ file_read(c.name)' = c.content
    <2>1. Ids(c.name) = {c.id} /\ \A i, j \in Ids(c.name) : i = j
      BY <1>3, <1>4, OnlyOne
    <2> QED BY <1>1, <2>1
  <1> QED BY <1>0, <1>1, <1>2, <1>4 DEF TypeOK

LEMMA CreationOver ==
  ASSUME FileInv, NEW w \in Worker, InsertRights(w), NEW c, c = call[w]
  PROVE  FileInv'
  <1>0. /\ c.pc = "rights" /\ insertVFileRights(w, c.id) /\ call' = [call EXCEPT ![w] = Idle]
        /\ Expect(c.name, {c.content}) /\ UNCHANGED <<names, alive, late>>
    BY DEF InsertRights, ReturnTrue
  <1>1. /\ TypeOK /\ c \in Call /\ alive[w] /\ c.name \in Name /\ c.content \in Content /\ c.name[1] = DirOf(w)
        /\ c.id \in Id /\ vfile[c.id] # NONE /\ vfile[c.id].name = c.name
        /\ c.name[1] \notin disturbed => vfile[c.id].content = c.content
    BY <1>0, CallNow DEF Undisturbed
  <1>2. /\ expected' \in [Name -> SUBSET (Content \cup {NONE})] /\ disturbed' = disturbed
        /\ \A m \in Name \ {c.name} : expected'[m] = expected[m]
        /\ c.name[1] \in disturbed => expected'[c.name] = expected[c.name]
        /\ c.name[1] \notin disturbed => expected'[c.name] = {c.content}
    BY <1>0, <1>1, ExpectKeeps
  <1>3. /\ vfile' \in [Id -> Row \cup {NONE}] /\ rights' \in [Id -> Right \cup {NONE}]
        /\ ChangeAt(c.name)
        /\ c.name[1] \notin disturbed => \A i, j \in Ids(c.name)' : i = j
        /\ c.name[1] \notin disturbed => file_read(c.name)' = vfile[c.id].content
    <2>1. UNCHANGED <<names, disturbed>> /\ \A m \in Name \ {c.name} : expected'[m] = expected[m]
      BY <1>0, <1>2
    <2>2. c \in Call /\ c.name \in Name /\ c.id \in Id /\ vfile[c.id] # NONE /\ vfile[c.id].name = c.name
      BY <1>1
    <2> QED BY <1>0, <2>1, <2>2, RightsChange
  <1> QED BY <1>0, <1>1, <1>2, <1>3, CallOver DEF Present

LEMMA ChangeOver ==
  ASSUME FileInv, NEW w \in Worker, Update(w), NEW c, c = call[w]
  PROVE  FileInv'
  <1>0. /\ c.pc = "update" /\ UpdateRows(c) /\ call' = [call EXCEPT ![w] = Idle]
        /\ Expect(c.name, {c.content}) /\ UNCHANGED <<names, alive, late>>
    BY DEF Update, ReturnTrue
  <1>1. /\ TypeOK /\ c \in Call /\ alive[w] /\ c.name \in Name /\ c.content \in Content /\ c.name[1] = DirOf(w)
        /\ c.id \in Id /\ vfile[c.id] # NONE /\ vfile[c.id].name = c.name
    BY <1>0, CallNow
  <1>2. /\ expected' \in [Name -> SUBSET (Content \cup {NONE})] /\ disturbed' = disturbed
        /\ \A m \in Name \ {c.name} : expected'[m] = expected[m]
        /\ c.name[1] \in disturbed => expected'[c.name] = expected[c.name]
        /\ c.name[1] \notin disturbed => expected'[c.name] = {c.content}
    BY <1>0, <1>1, ExpectKeeps
  <1>3. /\ vfile' \in [Id -> Row \cup {NONE}] /\ rights' \in [Id -> Right \cup {NONE}]
        /\ ChangeAt(c.name)
        /\ c.name[1] \notin disturbed => \A i, j \in Ids(c.name)' : i = j
        /\ c.name[1] \notin disturbed => file_read(c.name)' = c.content
    BY <1>0, <1>1, <1>2, ContentChange
  <1> QED BY <1>0, <1>1, <1>2, <1>3, CallOver DEF Present

LEMMA ChangeNotCounted ==
  ASSUME FileInv, NEW w \in Worker, UpdateCounts0or2(w), NEW c, c = call[w]
  PROVE  FileInv'
  <1>0. /\ c.pc = "update" /\ UpdateRows(c) /\ call' = [call EXCEPT ![w] = Idle]
        /\ UNCHANGED <<names, alive, late, expected, disturbed>>
    BY DEF UpdateCounts0or2, ReturnFalse, history
  <1>1. /\ TypeOK /\ c \in Call /\ alive[w] /\ c.name \in Name /\ c.content \in Content /\ c.name[1] = DirOf(w)
        /\ c.id \in Id /\ vfile[c.id] # NONE /\ vfile[c.id].name = c.name
        /\ c.name[1] \notin disturbed => c.content \in expected[c.name]
    BY <1>0, CallNow DEF Undisturbed
  <1>3. /\ vfile' \in [Id -> Row \cup {NONE}] /\ rights' \in [Id -> Right \cup {NONE}]
        /\ ChangeAt(c.name)
        /\ c.name[1] \notin disturbed => \A i, j \in Ids(c.name)' : i = j
        /\ c.name[1] \notin disturbed => file_read(c.name)' = c.content
    BY <1>0, <1>1, ContentChange
  <1> QED BY <1>0, <1>1, <1>3, CallOver DEF Present, TypeOK

LEMMA LateOver ==
  ASSUME FileInv, NEW w \in Worker, LateStatement(w), NEW c, c = late[w]
  PROVE  FileInv'
  <1>0. /\ c.pc \in Changing /\ late' = [late EXCEPT ![w] = Idle]
        /\ UNCHANGED <<names, alive, call, expected, disturbed>>
    BY DEF LateStatement, history, Changing
  <1>1. /\ TypeOK /\ c \in Call /\ ~alive[w] /\ c.name \in Name /\ c.content \in Content /\ c.name[1] = DirOf(w)
        /\ c.pc \in {"rights", "update"} => c.id \in Id /\ vfile[c.id] # NONE /\ vfile[c.id].name = c.name
        /\ c.name[1] \notin disturbed => Undisturbed(w, c)
    BY <1>0 DEF FileInv, CallInv, OneProcess, TypeOK, Changing
  <1>2. Present(w) /\ expected' \in [Name -> SUBSET (Content \cup {NONE})]
    BY <1>0, <1>1 DEF Present, Changing, TypeOK
  <1>3. SUFFICES /\ vfile' \in [Id -> Row \cup {NONE}] /\ rights' \in [Id -> Right \cup {NONE}]
                 /\ ChangeAt(c.name)
                 /\ c.name[1] \notin disturbed => \A i, j \in Ids(c.name)' : i = j
                 /\ c.name[1] \notin disturbed => file_read(c.name)' \in expected[c.name]
    BY <1>0, <1>1, <1>2, CallOver
  <1>4. CASE c.pc = "insert" /\ \E id \in Id : InsertRow(c, id)
    <2>1. PICK id \in Id : InsertRow(c, id)
      BY <1>4
    <2> QED BY <1>0, <1>1, <1>4, <2>1, RowInserted DEF Undisturbed, TypeOK
  <1>5. CASE c.pc = "insert" /\ UNCHANGED <<vfile, rights>>
    <2>1. Ids(c.name)' = Ids(c.name) /\ file_read(c.name)' = file_read(c.name)
      BY <1>5, ReadNow, ReadNext
    <2> QED BY <1>0, <1>1, <1>5, <2>1, OnlyOne DEF TypeOK, ChangeAt, FileInv, AcknowledgedIsKept
  <1>6. CASE c.pc = "rights" /\ insertVFileRights(w, c.id)
    BY <1>0, <1>1, <1>6, RightsChange DEF Undisturbed
  <1>7. CASE c.pc = "update" /\ UpdateRows(c)
    BY <1>0, <1>1, <1>7, ContentChange DEF Undisturbed
  <1> QED BY <1>4, <1>5, <1>6, <1>7 DEF LateStatement
-----------------------------------------------------------------------------
LEMMA FilesKept == FileInv /\ [Next]_vars => FileInv'
  <1> SUFFICES ASSUME FileInv, [Next]_vars PROVE FileInv'
    OBVIOUS
  <1>1. CASE UNCHANGED vars
    <2>1. \A n : Ids(n)' = Ids(n) /\ file_read(n)' = file_read(n)
      BY <1>1, ReadNow, ReadNext DEF vars
    <2>2. \A w \in Worker : DirOf(w)' = DirOf(w) /\ (Present(w)' <=> Present(w))
      BY <1>1 DEF vars, DirOf, getVoidNameById, Present
    <2>3. \A w \in Worker : CallInv(w)' /\ OneProcess(w)'
      BY <1>1, <2>1, <2>2 DEF vars, FileInv, CallInv, OneProcess, Undisturbed
    <2>4. TypeOK' /\ Alone'
      BY <1>1, <2>2 DEF vars, FileInv, TypeOK, Alone
    <2> QED BY <1>1, <2>3, <2>4, FilesSame DEF vars, FileInv
  <1>2. CASE Next
    <2>1. PICK w \in Worker :
            \/ BeginScript(w) \/ EndScript(w) \/ KillScript(w) \/ LateStatement(w)
            \/ \E p \in Path, c \in Content : Write(w, p, c)
            \/ insertVFileEntryByName(w)
      BY <1>2 DEF Next
    <2>2. CASE insertVFileEntryByName(w)
      BY <2>2, FileSelected, SelectGivesUp, FileInserted, CreationOver, RightsChecked, CallGivenUp,
         ChangeOver, ChangeNotCounted DEF insertVFileEntryByName
    <2> QED BY <2>1, <2>2, ScriptBegins, ScriptEnds, LateOver, WriteBegins
  <1> QED BY <1>1, <1>2

LEMMA FileInvariance == Spec => []FileInv
  BY FilesInit, FilesKept, PTL DEF Spec

(***************************************************************************)
(* Type correctness.                                                       *)
(***************************************************************************)
THEOREM FilesTyped == Spec => []TypeOK
  <1>1. FileInv => TypeOK
    BY DEF FileInv
  <1> QED BY <1>1, FileInvariance, PTL

(***************************************************************************)
(* No name has two rows in a directory whose scripts never overlapped and  *)
(* whose look-ups never failed, although insertVFileEntryByName looks up   *)
(* and inserts in two statements and vfile has no unique key.              *)
(***************************************************************************)
THEOREM OneRow == Spec => []OneRowPerName
  <1>1. FileInv => OneRowPerName
    BY DEF FileInv
  <1> QED BY <1>1, FileInvariance, PTL

(***************************************************************************)
(* thwonk.file.read returns what the last acknowledged write wrote, or     *)
(* what a later write that failed or was killed was to write.              *)
(***************************************************************************)
THEOREM Acknowledged == Spec => []AcknowledgedIsKept
  <1>1. FileInv => AcknowledgedIsKept
    BY DEF FileInv
  <1> QED BY <1>1, FileInvariance, PTL

(***************************************************************************)
(* The scripts of voids of one name at most change the files of that name. *)
(***************************************************************************)
THEOREM InTheirSpace == Spec => KeptInTheirSpace
  <1>1. ASSUME FileInv, [Next]_vars, NEW id \in Id, vfile'[id] # vfile[id]
        PROVE  \E w \in Worker : DirOf(w) = vfile'[id].name[1] /\ {call[w].pc, late[w].pc} # {"idle"}
    <2>1. PICK w \in Worker :
            \/ LateStatement(w) /\ late[w].pc \in {"insert", "update"}
            \/ InsertFile(w) \/ Update(w) \/ UpdateCounts0or2(w)
      BY <1>1 DEF vars, Next, BeginScript, EndScript, KillScript, LateStatement, Write, insertVFileEntryByName,
         SelectFile, SelectFails, InsertRights, CheckRights, RightsDenied, StatementFails, insertVFileRights
    <2>2. PICK c : /\ c \in {call[w], late[w]} /\ c.pc \in {"insert", "update"}
                   /\ UpdateRows(c) \/ \E i \in Id : InsertRow(c, i)
      BY <1>1, <2>1 DEF LateStatement, InsertFile, Update, UpdateCounts0or2
    <2>3. TypeOK /\ c \in Call /\ c.name \in Name /\ c.content \in Content /\ c.name[1] = DirOf(w)
      BY <1>1, <2>2 DEF FileInv, CallInv, TypeOK
    <2>4. vfile'[id].name = c.name
      <3>1. CASE UpdateRows(c)
        BY <1>1, <2>3, <3>1, RowsUpdated
      <3>2. CASE \E i \in Id : InsertRow(c, i)
        <4>1. PICK i \in Id : vfile' = [vfile EXCEPT ![i] = [name |-> c.name, content |-> c.content]]
          BY <3>2 DEF InsertRow
        <4> QED BY <1>1, <2>3, <4>1 DEF TypeOK
      <3> QED BY <2>2, <3>1, <3>2
    <2> QED BY <2>2, <2>3, <2>4
  <1>2. FileInv /\ [Next]_vars =>
          [\A id \in Id : vfile'[id] # vfile[id] =>
             \E w \in Worker : DirOf(w) = vfile'[id].name[1] /\ {call[w].pc, late[w].pc} # {"idle"}]_vars
    BY <1>1
  <1> QED BY <1>2, FileInvariance, PTL DEF Spec, KeptInTheirSpace

(***************************************************************************)
(* The rights that are looked at before the content of a file is changed   *)
(* are still those of the file when it is changed.                         *)
(***************************************************************************)
THEOREM OwnersOnly == Spec => OwnersChange
  <1>1. ASSUME FileInv, [Next]_vars, NEW id \in Id, vfile[id] # NONE, vfile'[id] # vfile[id],
               vfile[id].name[1] \notin disturbed
        PROVE  \E w \in Worker : /\ rights[id] # NONE /\ rights[id].voidId = VoidOf[w]
                                 /\ <<call[w], late[w]>>' # <<call[w], late[w]>>
    <2>1. PICK w \in Worker : LateStatement(w) \/ InsertFile(w) \/ Update(w) \/ UpdateCounts0or2(w)
      BY <1>1 DEF vars, Next, BeginScript, EndScript, KillScript, Write, insertVFileEntryByName,
         SelectFile, SelectFails, InsertRights, CheckRights, RightsDenied, StatementFails, insertVFileRights
    <2>2. TypeOK
      BY <1>1 DEF FileInv
    <2>3. \A c : ~ \E i \in Id : InsertRow(c, i)
      BY <1>1, <2>2 DEF InsertRow, FreshIds, TypeOK
    <2>4. PICK c : /\ c \in {call[w], late[w]} /\ c.pc = "update" /\ UpdateRows(c)
                   /\ <<call[w], late[w]>>' # <<call[w], late[w]>>
      <3>1. CASE Update(w) \/ UpdateCounts0or2(w)
        <4>1. call[w].pc = "update" /\ UpdateRows(call[w]) /\ call'[w].pc = "idle"
          BY <2>2, <3>1 DEF Update, UpdateCounts0or2, ReturnTrue, ReturnFalse, TypeOK, Idle
        <4> QED BY <4>1
      <3>2. CASE LateStatement(w)
        <4>1. late[w].pc = "update" /\ UpdateRows(late[w]) /\ late'[w].pc = "idle"
          BY <1>1, <2>2, <2>3, <3>2 DEF LateStatement, insertVFileRights, TypeOK, Idle
        <4> QED BY <4>1
      <3> QED BY <2>1, <2>3, <3>1, <3>2 DEF InsertFile
    <2>5. /\ c \in Call /\ c.name \in Name /\ c.content \in Content /\ c.id \in Id
          /\ vfile[c.id] # NONE /\ vfile[c.id].name = c.name
          /\ c.name[1] \notin disturbed => rights[c.id] # NONE /\ rights[c.id].voidId = VoidOf[w]
      BY <1>1, <2>4 DEF FileInv, CallInv, Undisturbed, TypeOK
    <2>6. vfile[id].name = c.name
      <3>1. \A i \in Id : vfile'[i] # vfile[i] => vfile'[i] # NONE /\ vfile'[i].name = c.name
        BY <2>2, <2>4, <2>5, RowsUpdated
      <3>2. \A i \in Id : vfile[i] # NONE => vfile'[i] # NONE /\ vfile'[i].name = vfile[i].name
        BY <2>2, <2>4, <2>5, RowsUpdated
      <3> QED BY <1>1, <3>1, <3>2
    <2>7. id = c.id
      BY <1>1, <2>5, <2>6 DEF FileInv, OneRowPerName
    <2> QED BY <1>1, <2>4, <2>5, <2>6, <2>7
  <1>2. FileInv /\ [Next]_vars =>
          [\A id \in Id :
             vfile[id] # NONE /\ vfile'[id] # vfile[id] /\ vfile[id].name[1] \notin disturbed =>
               \E w \in Worker : /\ rights[id] # NONE /\ rights[id].voidId = VoidOf[w]
                                 /\ <<call[w], late[w]>>' # <<call[w], late[w]>>]_vars
    BY <1>1
  <1> QED BY <1>2, FileInvariance, PTL DEF Spec, OwnersChange
=============================================================================

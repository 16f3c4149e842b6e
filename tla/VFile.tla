-------------------------------- MODULE VFile --------------------------------
(***************************************************************************)
(* The virtual files scripts keep in the database: insertVFileEntryByName  *)
(* and getVFileEntryByName (mngvfile.c), called from thwonk.file.write and *)
(* thwonk.file.read (jsthwonk.c).  A write is a sequence of statements on  *)
(* the tables vfile and vfile_rights with no transaction around it and no  *)
(* unique key below it; the scripts of several workers interleave between  *)
(* the statements, and a worker may be killed after any of them.           *)
(*                                                                         *)
(* A path is <<directory, base>>: the directory of an absolute path is the *)
(* name of a void, a relative path has directory REL.  Nothing makes the   *)
(* names of voids unique (thwonk.sql), so voids may share a directory.     *)
(***************************************************************************)
EXTENDS Naturals, FiniteSets

CONSTANTS
  Void, Dir, Base, Content,
  Namings,       \* the names the voids may have
  Worker,        \* children of rulerunner
  VoidOf,        \* the void each worker runs for
  REL,           \* the directory of a relative path
  NONE,          \* NULL: no such file, no such row
  MaxRows,       \* bound: vfile rows ever inserted
  CreatorReads,  \* what getVoidCreatorUserId may return
  Faults         \* "kill": a worker is killed; "late": the server executes the
                 \* statement of a killed worker later; "select": the look-up of
                 \* the file fails; "stmt": another statement fails

ASSUME VoidAssumption == VoidOf \in [Worker -> Void] /\ Namings \subseteq [Void -> Dir] /\ REL \notin Dir
ASSUME ContentAssumption == NONE \notin Content
ASSUME MaxRowsAssumption == MaxRows \in Nat
\* It reads the row after freeing the result: the id, or whatever is there now.
ASSUME CreatorAssumption == CreatorReads \subseteq {"creator", "garbage"}
ASSUME FaultsAssumption == Faults \subseteq {"kill", "late", "select", "stmt"}

VARIABLES
  names,     \* names[v]: the name of the void
  vfile,     \* vfile[id]: the row of that id, or NONE
  rights,    \* rights[id]: the vfile_rights row of that file, or NONE
  alive,     \* alive[w]: the worker's process runs
  call,      \* call[w]: the write it is in
  late,      \* late[w]: the write whose statement the server still has, w being dead
  expected,  \* history: contents a file may have, given the writes so far
  disturbed  \* history: directories for which a look-up failed, or a worker
             \* began while another one, or its late statement, was there

vars == <<names, vfile, rights, alive, call, late, expected, disturbed>>
history == <<expected, disturbed>>

Id == 1..MaxRows
Name == Dir \X Base                 \* absolute names
Path == (Dir \cup {REL}) \X Base    \* names a script may give
Row == [name : Name, content : Content]
Right == [voidId : Void, userId : {"creator", "garbage"}]

ASSUME NoneAssumption == NONE \notin Row /\ NONE \notin Right /\ NONE \notin Nat

Idle == [pc |-> "idle", name |-> NONE, content |-> NONE, id |-> 0]

Init ==
  /\ names \in Namings
  /\ vfile = [id \in Id |-> NONE]
  /\ rights = [id \in Id |-> NONE]
  /\ alive = [w \in Worker |-> FALSE]
  /\ call = [w \in Worker |-> Idle]
  /\ late = [w \in Worker |-> Idle]
  /\ expected = [n \in Name |-> {NONE}]
  /\ disturbed = {}

getVoidNameById(v) == names[v]
DirOf(w) == getVoidNameById(VoidOf[w])

\* The result row is read after it was freed; a query that failed gives -1.
getVoidCreatorUserId(v) == CreatorReads

getVFileRightsByFileId(id) == rights[id]

Ids(n) == {id \in Id : vfile[id] # NONE /\ vfile[id].name = n}
FreshIds == {id \in Id : vfile[id] = NONE /\ \A i \in 1..(id - 1) : vfile[i] # NONE}

(***************************************************************************)
(* getVFileEntryByName: the id of the file when exactly one row has the    *)
(* name, NULL when there is none and when there are several.               *)
(***************************************************************************)
FileId(n) == IF \E id \in Id : Ids(n) = {id} THEN CHOOSE id \in Id : Ids(n) = {id} ELSE NONE

\* What thwonk.file.read returns for a path, which it looks up as given.
file_read(p) == IF FileId(p) = NONE THEN NONE ELSE vfile[FileId(p)].content

\* A check that lets a script write where it likes.
AnyPath(w, p) == TRUE

\* "If a name begins with /, then it MUST be /THWONK_NAME/path"
Allowed(w, p) == p[1] \in {REL, DirOf(w)}

\* A write that keeps the path as it was given.
NameAsGiven(w, p) == p

\* "otherwise if it doesn't have a slash appended /THWONK_NAME/ to it"
safe_name(w, p) == IF p[1] = REL THEN <<DirOf(w), p[2]>> ELSE p
-----------------------------------------------------------------------------
(***************************************************************************)
(* Scripts begin and end.                                                  *)
(***************************************************************************)
\* From now on anything may be in the files of the directories D.
Disturb(D) ==
  /\ disturbed' = disturbed \cup D
  /\ expected' = [n \in Name |-> IF n[1] \in D THEN Content \cup {NONE} ELSE expected[n]]

Expect(n, contents) ==
  /\ expected' = IF n[1] \in disturbed THEN expected ELSE [expected EXCEPT ![n] = contents]
  /\ UNCHANGED disturbed

Present(w) == alive[w] \/ late[w].pc # "idle"

BeginScript(w) ==
  /\ ~Present(w)
  /\ alive' = [alive EXCEPT ![w] = TRUE]
  /\ Disturb({DirOf(w)} \cap {DirOf(x) : x \in {y \in Worker : Present(y)}})
  /\ UNCHANGED <<names, vfile, rights, call, late>>

EndScript(w) ==
  /\ alive[w]
  /\ call[w].pc = "idle"
  /\ alive' = [alive EXCEPT ![w] = FALSE]
  /\ UNCHANGED <<names, vfile, rights, call, late, history>>

Changing == {"insert", "rights", "update"}

\* Between two statements of a call, or while the server works on one; what
\* was written stays written.
KillScript(w) ==
  /\ "kill" \in Faults
  /\ alive[w]
  /\ alive' = [alive EXCEPT ![w] = FALSE]
  /\ call' = [call EXCEPT ![w] = Idle]
  /\ \E left \in {Idle, call[w]} :
       /\ left # Idle => "late" \in Faults /\ left.pc \in Changing
       /\ late' = [late EXCEPT ![w] = left]
  /\ UNCHANGED <<names, vfile, rights, history>>
-----------------------------------------------------------------------------
(***************************************************************************)
(* The statements that change the tables, for a call c of worker w.        *)
(***************************************************************************)
InsertRow(c, id) ==
  /\ id \in FreshIds
  /\ vfile' = [vfile EXCEPT ![id] = [name |-> c.name, content |-> c.content]]
  /\ UNCHANGED rights

insertVFileRights(w, id) ==
  /\ \E u \in getVoidCreatorUserId(VoidOf[w]) :
       rights' = [rights EXCEPT ![id] = [voidId |-> VoidOf[w], userId |-> u]]
  /\ UNCHANGED vfile

WithContent(c) ==
  [id \in Id |-> IF id \in Ids(c.name) THEN [vfile[id] EXCEPT !.content = c.content] ELSE vfile[id]]

UpdateRows(c) == vfile' = WithContent(c) /\ UNCHANGED rights

\* The server gets to the statement of a worker that is dead, or, the table
\* being full (MaxRows), never does.
LateStatement(w) ==
  LET c == late[w] IN
  /\ \/ c.pc = "insert" /\ \E id \in Id : InsertRow(c, id)
     \/ c.pc = "insert" /\ FreshIds = {} /\ UNCHANGED <<vfile, rights>>
     \/ c.pc = "rights" /\ insertVFileRights(w, c.id)
     \/ c.pc = "update" /\ UpdateRows(c)
  /\ late' = [late EXCEPT ![w] = Idle]
  /\ UNCHANGED <<names, alive, call, history>>
-----------------------------------------------------------------------------
(***************************************************************************)
(* insertVFileEntryByName, one statement a step.                           *)
(***************************************************************************)
Goto(w, pc) == call' = [call EXCEPT ![w].pc = pc]
ReturnTrue(w) ==
  /\ call' = [call EXCEPT ![w] = Idle]
  /\ Expect(call[w].name, {call[w].content})
ReturnFalse(w) == call' = [call EXCEPT ![w] = Idle] /\ UNCHANGED history

\* A path outside the void's own directory is refused before anything is sent.
Write(w, p, c) ==
  /\ alive[w] /\ call[w].pc = "idle"
  /\ Allowed(w, p)
  /\ LET n == safe_name(w, p) IN
       /\ call' = [call EXCEPT ![w] = [pc |-> "select", name |-> n, content |-> c, id |-> 0]]
       /\ Expect(n, expected[n] \cup {c})
  /\ UNCHANGED <<names, vfile, rights, alive, late>>

\* A write that does not look for the file it is asked to change.
SelectSkipped(w) ==
  /\ call[w].pc = "select"
  /\ Goto(w, "insert")
  /\ UNCHANGED <<names, vfile, rights, alive, late, history>>

\* Is there such a file?
SelectFile(w) ==
  /\ call[w].pc = "select"
  /\ IF FileId(call[w].name) = NONE
       THEN Goto(w, "insert")
       ELSE call' = [call EXCEPT ![w].pc = "check", ![w].id = FileId(call[w].name)]
  /\ UNCHANGED <<names, vfile, rights, alive, late, history>>

\* NULL also is the answer of a query that failed: the file seems not to exist.
SelectFails(w) ==
  /\ "select" \in Faults
  /\ call[w].pc = "select"
  /\ Goto(w, "insert")
  /\ Disturb({DirOf(w)})
  /\ UNCHANGED <<names, vfile, rights, alive, late>>

InsertFile(w) ==
  /\ call[w].pc = "insert"
  /\ \E id \in Id :
       /\ InsertRow(call[w], id)
       /\ call' = [call EXCEPT ![w].pc = "rights", ![w].id = id]
  /\ UNCHANGED <<names, alive, late, history>>

InsertRights(w) ==
  /\ call[w].pc = "rights"
  /\ insertVFileRights(w, call[w].id)
  /\ ReturnTrue(w)
  /\ UNCHANGED <<names, alive, late>>

\* Rights that are not looked at: whoever finds the file may change it.
AnyoneMayEdit(w, u) == TRUE

MayEdit(w, u) ==
  getVFileRightsByFileId(call[w].id) = [voidId |-> VoidOf[w], userId |-> u]

CheckRights(w) ==
  /\ call[w].pc = "check"
  /\ \E u \in getVoidCreatorUserId(VoidOf[w]) : MayEdit(w, u)
  /\ Goto(w, "update")
  /\ UNCHANGED <<names, vfile, rights, alive, late, history>>

\* No rights row, or not those of the void and its creator.
RightsDenied(w) ==
  /\ call[w].pc = "check"
  /\ \E u \in getVoidCreatorUserId(VoidOf[w]) : ~MayEdit(w, u)
  /\ ReturnFalse(w)
  /\ UNCHANGED <<names, vfile, rights, alive, late>>

\* An update that answers without having changed the row.
UpdateForgotten(w) ==
  /\ call[w].pc = "update"
  /\ ReturnTrue(w)
  /\ UNCHANGED <<names, vfile, rights, alive, late>>

\* UPDATE ... WHERE name: true is returned iff exactly one row changed.
Update(w) ==
  /\ call[w].pc = "update"
  /\ Cardinality(Ids(call[w].name)) = 1
  /\ UpdateRows(call[w])
  /\ ReturnTrue(w)
  /\ UNCHANGED <<names, alive, late>>

\* The row has this content and this second as its editDate already, or the
\* name has several rows: false is returned, and the content is there.
UpdateCounts0or2(w) ==
  /\ call[w].pc = "update"
  /\ Cardinality(Ids(call[w].name)) # 1 \/ WithContent(call[w]) = vfile
  /\ UpdateRows(call[w])
  /\ ReturnFalse(w)
  /\ UNCHANGED <<names, alive, late>>

StatementFails(w) ==
  /\ "stmt" \in Faults
  /\ call[w].pc \notin {"idle", "select"}
  /\ ReturnFalse(w)
  /\ UNCHANGED <<names, vfile, rights, alive, late>>
-----------------------------------------------------------------------------
insertVFileEntryByName(w) ==
  \/ SelectFile(w)
  \/ SelectFails(w)
  \/ InsertFile(w)
  \/ InsertRights(w)
  \/ CheckRights(w)
  \/ RightsDenied(w)
  \/ Update(w)
  \/ UpdateCounts0or2(w)
  \/ StatementFails(w)

Next == \E w \in Worker :
  \/ BeginScript(w) \/ EndScript(w) \/ KillScript(w) \/ LateStatement(w)
  \/ \E p \in Path, c \in Content : Write(w, p, c)
  \/ insertVFileEntryByName(w)

Spec == Init /\ [][Next]_vars
-----------------------------------------------------------------------------
Call == [pc : {"idle", "select", "insert", "rights", "check", "update"}, name : Name \cup {NONE},
         content : Content \cup {NONE}, id : 0..MaxRows]

TypeOK ==
  /\ names \in Namings
  /\ vfile \in [Id -> Row \cup {NONE}]
  /\ rights \in [Id -> Right \cup {NONE}]
  /\ alive \in [Worker -> BOOLEAN]
  /\ call \in [Worker -> Call] /\ late \in [Worker -> Call]
  /\ expected \in [Name -> SUBSET (Content \cup {NONE})]
  /\ disturbed \subseteq Dir

(***************************************************************************)
(* A file stays readable: no name has two rows, although the look-up and   *)
(* the insert are apart and the table has no unique key, as long as the    *)
(* scripts that write in a directory run one after the other and no        *)
(* look-up fails.  One script at a time is what the queue gives to a void, *)
(* not to voids of the same name.                                          *)
(***************************************************************************)
OneRowPerName ==
  \A i, j \in Id :
    vfile[i] # NONE /\ vfile[j] # NONE /\ vfile[i].name = vfile[j].name =>
      i = j \/ vfile[i].name[1] \in disturbed

(***************************************************************************)
(* What a script was told is written is what a read finds, until the next  *)
(* write of that file, under the same condition; a write that failed, or   *)
(* whose script was killed, is done or not done, now or a little later,    *)
(* and never leaves anything else.                                         *)
(***************************************************************************)
AcknowledgedIsKept == \A n \in Name : file_read(n) \in expected[n]

(***************************************************************************)
(* "keep it in their space": whatever scripts overlap and whatever fails,  *)
(* only a write of a void with that name, going on or left behind by a     *)
(* killed worker, changes the files of a directory.                        *)
(***************************************************************************)
KeptInTheirSpace ==
  [][\A id \in Id : vfile'[id] # vfile[id] =>
       \E w \in Worker : DirOf(w) = vfile'[id].name[1] /\ {call[w].pc, late[w].pc} # {"idle"}]_vars

(***************************************************************************)
(* "does this void ... have rights to the file?": in a directory of two    *)
(* voids of one name, a file is changed by the void it was created for and *)
(* by no other, unless their scripts overlapped or a look-up failed.       *)
(***************************************************************************)
OwnersChange ==
  [][\A id \in Id :
       vfile[id] # NONE /\ vfile'[id] # vfile[id] /\ vfile[id].name[1] \notin disturbed =>
         \E w \in Worker : /\ rights[id] # NONE /\ rights[id].voidId = VoidOf[w]
                           /\ <<call[w], late[w]>>' # <<call[w], late[w]>>]_vars

(***************************************************************************)
(* "You don't have to worry about handling multiple messages arriving at   *)
(* once" (README): a file that can be read stays readable, since nothing   *)
(* deletes files.  Two scripts of one void that create a file at the same  *)
(* time insert two rows, and a name of two rows is read as no file.        *)
(***************************************************************************)
FilesStayReadable ==
  [][\A n \in Name : file_read(n) # NONE => file_read(n)' # NONE]_vars
=============================================================================

---------------------------- MODULE MessageQueue ----------------------------
(***************************************************************************)
(* The message_queue table as msgqueue.c uses it: a row per entry, a       *)
(* queueState per row, and the statements run on it.  Every statement      *)
(* is sent with autocommit on (dbchatter.c never opens a transaction), so  *)
(* each operator here is one atomic reading or writing of the table.       *)
(*                                                                         *)
(* A table is a function q from Entry to RowState.  The rows of one        *)
(* messageType are modelled: no statement of a queue runner looks at rows  *)
(* of another type.                                                        *)
(***************************************************************************)
EXTENDS Naturals, FiniteSets

CONSTANTS
  Entry,      \* ids of message_queue rows, in the order AUTO_INCREMENT gave them
  Void,       \* ids of voids (mailing lists)
  VoidOf,     \* column voidId of each row
  Window,     \* the "limit 8" of the EMAILIN selection
  NULL,       \* the C null pointer
  QueueType   \* the messageType being served: EMAILIN or EMAILOUT

ASSUME EntryAssumption == Entry \subseteq Nat /\ NULL \notin Entry
ASSUME VoidAssumption == VoidOf \in [Entry -> Void]
ASSUME WindowAssumption == Window \in Nat \ {0}
ASSUME QueueTypeAssumption == QueueType \in {"EMAILIN", "EMAILOUT"}

\* ABSENT: the row has not been inserted yet.  Rows are never deleted.
RowState == {"ABSENT", "JUSTIN", "PROCESSING", "DONE"}

RowsIn(q, s) == {e \in Entry : q[e] = s}

BusyVoids(q) == {VoidOf[e] : e \in RowsIn(q, "PROCESSING")}

\* Rows whose void has no row being processed.
Ready(q) == {e \in RowsIn(q, "JUSTIN") : VoidOf[e] \notin BusyVoids(q)}

(***************************************************************************)
(* The inner selection of the EMAILIN query takes up to Window JUSTIN rows *)
(* and has no ORDER BY: the server may return any of them, and returns     *)
(* fewer than Window only when there are no more.                          *)
(***************************************************************************)
Windows(q) ==
  {W \in SUBSET RowsIn(q, "JUSTIN") :
     /\ Cardinality(W) <= Window
     /\ Cardinality(W) < Window => W = RowsIn(q, "JUSTIN")}

\* NULL when a selection is empty, else one of its rows.
OneOf(S) == IF S = {} THEN {NULL} ELSE S

\* EMAILIN: a row of the window whose void is not busy.
NextEmailIn(q) == UNION {OneOf(W \cap Ready(q)) : W \in Windows(q)}

\* EMAILOUT: the row of lowest id; busy voids are not looked at.
NextEmailOut(q) ==
  OneOf({e \in RowsIn(q, "JUSTIN") : \A f \in RowsIn(q, "JUSTIN") : e <= f})

\* A selection that forgets to leave out the voids being processed.
NextIgnoringBusy(q) ==
  IF QueueType = "EMAILIN" THEN OneOf(RowsIn(q, "JUSTIN")) ELSE NextEmailOut(q)

\* What one call may return on table q.
getQueueEntryJustinNotRunning(q) ==
  IF QueueType = "EMAILIN" THEN NextEmailIn(q) ELSE NextEmailOut(q)

\* An update without "AND queueState = %d": it always matches its row.
StateMatchesAny(q, e, from) == q[e] # "ABSENT"

\* The WHERE clause of setQueueEntryState's UPDATE: exactly one row matches.
StateMatches(q, e, from) == q[e] = from

(***************************************************************************)
(* The table after setQueueEntryState(e, to) by a caller whose copy of the *)
(* entry says from.  The call succeeds iff StateMatches.                   *)
(***************************************************************************)
setQueueEntryState(q, e, from, to) ==
  IF StateMatches(q, e, from) THEN [q EXCEPT ![e] = to] ELSE q

insertQueueEntry(q, e) == [q EXCEPT ![e] = "JUSTIN"]
=============================================================================

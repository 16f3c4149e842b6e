----------------------------- MODULE MailingList -----------------------------
(***************************************************************************)
(* What the whole of Thwonk promises to the members of its lists: to each  *)
(* incoming mail what Dispatch promises, and of the letters a rule sends   *)
(* that each is written by a rule that was called for a mail, while it     *)
(* runs or as the last thing it did, and reaches its addressee at most     *)
(* once.  Nothing is said of daemons, queues, rows or processes.           *)
(***************************************************************************)
EXTENDS Dispatch, Naturals

CONSTANTS
  Letter,   \* letters rules may send
  NOBODY    \* the author of a letter that was not written

VARIABLES
  author,   \* of each letter: the mail whose rule wrote it
  belated,  \* mails of whose rule a letter was posted after it had ended
  copies    \* of each letter: how often it was given to its addressee

listVars == <<phase, author, belated, copies>>

ListInit ==
  /\ Init
  /\ author = [o \in Letter |-> NOBODY]
  /\ belated = {}
  /\ copies = [o \in Letter |-> 0]

Write(e, o) ==
  /\ author[o] = NOBODY
  /\ author' = [author EXCEPT ![o] = e]
  /\ UNCHANGED <<phase, copies>>

Post(e, o) == phase[e] = "running" /\ Write(e, o) /\ UNCHANGED belated

\* The last letter of a rule that was ended while it posted it.
PostBelated(e, o) ==
  /\ phase[e] = "finished"
  /\ e \notin belated
  /\ belated' = belated \cup {e}
  /\ Write(e, o)

Deliver(o) ==
  /\ author[o] # NOBODY
  /\ copies[o] = 0
  /\ copies' = [copies EXCEPT ![o] = 1]
  /\ UNCHANGED <<phase, author, belated>>

ListNext ==
  \/ Next /\ UNCHANGED <<author, belated, copies>>
  \/ \E e \in Entry, o \in Letter : Post(e, o) \/ PostBelated(e, o)
  \/ \E o \in Letter : Deliver(o)

ListSafety == ListInit /\ [][ListNext]_listVars
=============================================================================

------------------------------ MODULE MCPosting ------------------------------
(***************************************************************************)
(* Instances of Posting for TLC: the three users thwonk.sql begins with    *)
(* that matter here, a member with two addresses, and one void.            *)
(***************************************************************************)
EXTENDS Posting, TLC

CONSTANTS i1, i2, s1, main, second, adminMail, list, stranger

Users ==
  {[id |-> "admin", username |-> "admin", emailId |-> 1],
   [id |-> "unknown", username |-> UNKNOWN_USER, emailId |-> 1],
   [id |-> "mike", username |-> "mike", emailId |-> 2]}

Filter(id, identifier, status, userId) ==
  [id |-> id, identifier |-> identifier, status |-> status, userId |-> userId]

Tables(adminAddress, statusMain, members, statusVoid, accessRights) ==
  [user |-> Users,
   filter_user |-> {Filter(1, adminAddress, "ACTIVE", "admin"),
                    Filter(2, main, statusMain, "mike"),
                    Filter(3, second, "ACTIVE", "mike")},
   void_membership |-> {[userId |-> u, voidId |-> "v"] : u \in {"admin"} \cup members},
   filter_void |-> {[id |-> 1, identifier |-> list, status |-> statusVoid,
                     accessRights |-> accessRights, voidId |-> "v"]}]

\* A void anybody may send to.
MCOpen == {Tables(adminMail, "ACTIVE", {"mike"}, "ACTIVE", "PUBLICWORLD")}

\* Every right with and without a membership; a blocked address; a void that is
\* not active; admin and mike with one address, as thwonk.sql has them.
MCDirectories ==
  {Tables(adminMail, "ACTIVE", M, "ACTIVE", ar) : M \in SUBSET {"mike"}, ar \in AccessRights}
  \cup {Tables(adminMail, "BLOCKED", {"mike"}, "ACTIVE", "PRIVATETHWONK"),
        Tables(adminMail, "ACTIVE", {"mike"}, "INACTIVE", "PUBLICWORLD"),
        Tables(main, "ACTIVE", {"mike"}, "ACTIVE", "PRIVATETHWONK")}

MCAddress == {main, second, list, stranger}
MCInjector == {i1, i2}
MCScript == {s1}
MCOurs == {list}

Symmetry == Permutations(Injector)
=============================================================================

------------------------------ MODULE Directory ------------------------------
(***************************************************************************)
(* The tables user, filter_user, void_membership and filter_void, and the  *)
(* questions void.c and user.c ask of them.  A directory D is a record of  *)
(* the four tables, each a set of rows; the web frontend writes them, the  *)
(* daemons only read.                                                      *)
(*                                                                         *)
(* A question whose SELECT ends in LIMIT 1 without an order may be         *)
(* answered by any row that fits, so these operators return the set of     *)
(* possible answers; the answer is NULL when no row fits.                  *)
(***************************************************************************)
CONSTANT NULL

\* DBVAL_user_username_UNKNOWN_USER
UNKNOWN_USER == "THWONK_UNKNOWN_USER"

AccessRights == {"PUBLICWORLD", "PUBLICTHWONK", "PRIVATETHWONK"}

LimitOne(S) == IF S = {} THEN {NULL} ELSE S

FiltersNamed(D, address) == {f \in D.filter_user : f.identifier = address}

getVoidFilterByIdentifier(D, address) == LimitOne({v \in D.filter_void : v.identifier = address})

getUserFilterByIdentifier(D, address) == LimitOne(FiltersNamed(D, address))

getUserFilterById(D, id) == LimitOne({f \in D.filter_user : f.id = id})

\* The user whose main address this is; other addresses of a user do not count.
getUserEntryByEmail(D, address) ==
  LimitOne({u \in D.user : \E f \in FiltersNamed(D, address) : f.id = u.emailId})

getUserEntryByUsername(D, name) == LimitOne({u \in D.user : u.username = name})

\* A query that joins the tables without filter_user.userId = void_membership.userId.
AnyMembership(D, v, address) ==
  FiltersNamed(D, address) # {} /\ \E m \in D.void_membership : m.voidId = v.voidId

\* The join of the PRIVATETHWONK query.
IsMember(D, v, address) ==
  \E f \in FiltersNamed(D, address), m \in D.void_membership :
    f.userId = m.userId /\ m.voidId = v.voidId

HasStatus(D, address, status) == \E f \in FiltersNamed(D, address) : f.status = status

checkVoidAllowSubmit(D, v, address) ==
  CASE v.accessRights = "PRIVATETHWONK" -> IsMember(D, v, address)
    [] v.accessRights = "PUBLICTHWONK" -> HasStatus(D, address, "ACTIVE")
    [] v.accessRights = "PUBLICWORLD" -> ~HasStatus(D, address, "BLOCKED")
=============================================================================

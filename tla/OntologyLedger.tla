--------------------------- MODULE OntologyLedger ---------------------------
(***************************************************************************)
(* What the Actions of the ontology promise, and nothing about how: each   *)
(* one that takes effect does so at once, in one change of one row, which  *)
(* is entered in the ledger.  Nothing half done is ever seen, no two       *)
(* changes start from the same version of a row, and a key is used once.   *)
(***************************************************************************)
EXTENDS Naturals, Sequences

CONSTANTS
  Obj,    \* business primary keys
  Fresh,  \* generated rids
  Key,    \* idempotency keys
  None    \* no row, no key, no primary key

VARIABLES
  rows,     \* rows[r]: the row of r, or None
  changes,  \* the changes made, in their order
  keys      \* the idempotency keys used

vars == <<rows, changes, keys>>

Init ==
  /\ rows = [r \in Obj \cup Fresh |-> None]
  /\ changes = << >> /\ keys = {}

Enter(op, r, o, k) ==
  /\ k = None \/ k \notin keys
  /\ changes' = Append(changes, [rid |-> r, pk |-> o, op |-> op, key |-> k])
  /\ keys' = keys \cup ({k} \ {None})

(* The value of a row is the position of the change that wrote it.         *)
Set(r, o, version) ==
  rows' = [rows EXCEPT ![r] = [pk |-> o, version |-> version, val |-> Len(changes) + 1]]

Create(r, o, k) ==
  /\ r \in Fresh \/ r = o
  /\ rows[r] = None
  /\ Set(r, o, 1) /\ Enter("CREATE", r, o, k)

(* An object that is only in Doris is entered as version 1 on the way.     *)
Update(o, k) ==
  /\ \/ rows[o] = None /\ Set(o, o, 2)
     \/ rows[o] # None /\ Set(o, o, rows[o].version + 1)
  /\ Enter("UPDATE", o, o, k)

(* A deletion enters the primary key of the row it saw, if it saw one, and *)
(* takes the row that is there when it is made, if there is one.           *)
Delete(o, k) ==
  /\ \E p \in {o, None} : Enter("DELETE", o, p, k)
  /\ rows' \in {rows, [rows EXCEPT ![o] = None]}

(* Each step enters one change.                                            *)
Next ==
  /\ Len(changes') = Len(changes) + 1
  /\ \E k \in Key \cup {None}, o \in Obj :
       \/ \E r \in Obj \cup Fresh : Create(r, o, k)
       \/ Update(o, k) \/ Delete(o, k)

Spec == Init /\ [][Next]_vars
=============================================================================

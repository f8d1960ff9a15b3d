------------------------ MODULE OntologyProperties ------------------------
(***************************************************************************)
(* What the write path of the ontology and its outbox promise.             *)
(***************************************************************************)
EXTENDS OntologySync

Vals    == 0..MaxChanges
Change  == 1..MaxChanges
RowType == [pk : Obj, version : Nat \ {0}, val : Nat]

RecordType ==
  [rid : Rid, pk : Obj \cup {None}, op : {"CREATE", "UPDATE", "DELETE"},
   key : Key \cup {None}, at : 1..MaxStamp, index : {"PENDING", "COMPLETED", "DLQ"},
   archive : {"PENDING", "COMPLETED"}, retries : 0..(MaxRetries - 1), due : BOOLEAN]

TxType(t) ==
  /\ t.pc \in {"idle", "checked", "hydrate", "built", "snapped", "found", "applied"}
  /\ t.key \in Key \cup {None} /\ t.obj \in Obj \cup {None} /\ t.rid \in Rid \cup {None}
  /\ t.op \in {"none", "CREATE", "UPDATE", "DELETE"}
  /\ t.base \in Nat \cup {None} /\ t.expected \in Nat /\ t.at \in 0..MaxStamp
  /\ DOMAIN t.rows \subseteq Rid
  /\ \A r \in DOMAIN t.rows : t.rows[r] \in RowType \cup {None}

PgOK     == /\ state \in [Rid -> RowType \cup {None}]
            /\ outbox \in Seq(RecordType) /\ Len(outbox) <= MaxChanges
            /\ log \subseteq Key
ExecOK   == exec \in [todo : SUBSET DOMAIN outbox, applied : BOOLEAN, broken : BOOLEAN]
FlushOK  == flush \in [pc : {"idle", "upserts", "deletes", "mark"},
                      batch : SUBSET DOMAIN outbox]

(* Every variable has its type.                                            *)
TypeOK ==
  /\ PgOK /\ ExecOK /\ FlushOK
  /\ \A s \in Session : TxType(tx[s])
  /\ index \in [Obj -> Vals \cup {None}]
  /\ archive \in [Obj -> Seq(Vals)]

(***************************************************************************)
(* Actions                                                                 *)
(***************************************************************************)

(* An idempotency key takes effect at most once, whatever requests with    *)
(* that key run at the same time: the check at the start of execute_action *)
(* is not in the way of two of them, the unique log key is.                *)
KeyAppliedOnce ==
  \A i, j \in DOMAIN outbox :
    outbox[i].key = outbox[j].key /\ outbox[i].key # None => i = j

Changes(r)   == {i \in DOMAIN outbox : outbox[i].rid = r}
Writes(r)    == {i \in Changes(r) : outbox[i].op # "DELETE"}
Deletions(r) == Changes(r) \ Writes(r)
Newest(S)    == CHOOSE i \in S : \A j \in S : j <= i

(* What is committed of a row is in the outbox, and the other way round:   *)
(* the row is the one its newest CREATE or UPDATE wrote, and a row that    *)
(* such a change wrote is gone only if a deletion was committed after it.  *)
(* (A deletion is not held to more: it may record that it took no row and  *)
(* have taken one, or the reverse.)                                        *)
StateFollowsOutbox ==
  \A r \in Rid :
    IF state[r] # None
    THEN /\ Writes(r) # {}
         /\ state[r].val = Newest(Writes(r))
         /\ state[r].pk = outbox[Newest(Writes(r))].pk
    ELSE Writes(r) # {} => \E d \in Deletions(r) : d > Newest(Writes(r))

(* The consumers' order is the order of the commits for the writes of one  *)
(* row: the stamp is taken before the commit, but under the row's lock.    *)
WritesStampedInOrder ==
  \A r \in Rid : \A i, j \in Writes(r) : i < j => outbox[i].at < outbox[j].at

(* A modification that commits over the change of another one has read it: *)
(* as long as the row is not deleted in between (version numbers start     *)
(* over), no update overwrites an update it has not seen.                  *)
UpdatesSeeUpdates ==
  [][\A s \in Session :
       LET row == state[tx[s].rid] IN
       Commit(s) /\ outbox' # outbox /\ tx[s].op = "UPDATE" /\ row # None
         /\ (\A i \in Changes(tx[s].rid) : outbox[i].op # "DELETE")
         /\ outbox[row.val].op = "UPDATE"
       => row.val = tx[s].base]_vars

(* The transactions of the Actions implement the ledger: every commit is   *)
(* one atomic change that goes on from the row as it is, every other step  *)
(* of requests, loops and restarts leaves rows, changes and keys alone.    *)
Entry(rec) == [rid |-> rec.rid, pk |-> rec.pk, op |-> rec.op, key |-> rec.key]

Ledger == INSTANCE OntologyLedger WITH
  rows    <- state,
  changes <- [i \in DOMAIN outbox |-> Entry(outbox[i])],
  keys    <- log

ActsAtomically == Ledger!Spec

(***************************************************************************)
(* Doris                                                                   *)
(***************************************************************************)
Of(o)      == {i \in DOMAIN outbox : outbox[i].pk = o}
Waiting(o) == {i \in Of(o) : outbox[i].index = "PENDING"}
Past(o)    == {i \in Of(o) : outbox[i].index = "COMPLETED"}
Effect(i)  == IF outbox[i].op = "DELETE" THEN None ELSE i

(* The stamps of an object's records may say another order than the        *)
(* commits: two rids with one primary key share no lock, and a deletion    *)
(* that takes no row has none.                                             *)
InStampOrder(o) == \A i, j \in Of(o) : i < j => outbox[i].at < outbox[j].at

(* As long as no INDEX call about an object has failed, and its records    *)
(* are stamped in the order of their commits, Doris takes its changes in   *)
(* that order, crashes, broken sessions and re-executions included: what   *)
(* is applied precedes what waits, and the row is what the newest applied  *)
(* record, or the one under way, makes it.                                 *)
IndexInOrder ==
  \A o \in Obj :
    InStampOrder(o) /\ (\A i \in Of(o) : outbox[i].retries = 0 /\ outbox[i].index # "DLQ") =>
      /\ \A i \in Past(o), j \in Waiting(o) : i < j
      /\ Past(o) # {} =>
           \/ index[o] = Effect(Newest(Past(o)))
           \/ \E j \in Waiting(o) : index[o] = Effect(j)
                 /\ \A i \in Waiting(o) : j <= i

(* Every INDEX record ends COMPLETED or in the DLQ, unless the executor's  *)
(* session is lost for good: as often as it breaks, a restart must follow. *)
IndexSettles ==
  ([]<> ~ exec.broken) =>
    \A i \in Change :
      (i \in DOMAIN outbox) ~> (i \in DOMAIN outbox /\ outbox[i].index # "PENDING")

(***************************************************************************)
(* Iceberg                                                                 *)
(***************************************************************************)

(* Nothing is COMPLETED that has not been merged, whatever fails between   *)
(* the merges and the mark: an object no change deleted, stamped in the    *)
(* order of the commits, is in the archive with its newest change once     *)
(* none of its records waits.                                              *)
ArchiveHoldsNewest ==
  \A o \in Obj :
    Of(o) # {} /\ InStampOrder(o) /\ (\A i \in Of(o) : outbox[i].op # "DELETE"
                                    /\ outbox[i].archive = "COMPLETED")
      => /\ archive[o] # << >>
         /\ archive[o][Len(archive[o])] = Newest(Of(o))
=============================================================================

---------------------------- MODULE OntologySync ----------------------------
(***************************************************************************)
(* The write path of the Gaia ontology and the two consumers of its        *)
(* outbox.  An Action runs in one PostgreSQL transaction that writes the   *)
(* object's row in object_state, the execution log (unique idempotency     *)
(* key) and, for each change, one INDEX and one ARCHIVE outbox record.     *)
(* OutboxExecutor applies the INDEX records to Doris one by one, in the    *)
(* order of created_at; SyncFlushScheduler merges the ARCHIVE records into *)
(* Iceberg in batches.  All of them run in one process, which may crash.   *)
(*                                                                         *)
(* A value of an object is the position in the outbox of the change that   *)
(* wrote it; 0 is the row a backfill loaded into Doris and Iceberg without *)
(* any Action.                                                             *)
(***************************************************************************)
EXTENDS Naturals, Sequences, FiniteSets, SequencesExt

CONSTANTS
  Obj,        \* business primary keys
  Fresh,      \* rids that generate_object_rid may return
  Session,    \* concurrent requests
  Key,        \* idempotency keys the clients choose
  None,
  Batched,    \* the sessions that carry execute_batch_action
  MaxChanges, \* bound: changes committed
  MaxStamp,   \* bound: created_at stamps in use
  Flushing,   \* bound: whether SyncFlushScheduler is looked at
  MaxRetries  \* create_outbox_record: max_retries

ASSUME SyncAssumption ==
  /\ Obj \cap Fresh = {}
  /\ None \notin Obj \cup Fresh \cup Key \cup Nat
  /\ None \notin [pk : Obj, version : Nat, val : Nat]
  /\ Batched \subseteq Session
  /\ MaxChanges \in Nat /\ MaxStamp \in Nat /\ Flushing \in BOOLEAN
  /\ MaxRetries \in Nat \ {0}

VARIABLES
  state,    \* object_state: the committed rows
  outbox,   \* the committed outbox records, in the order of their commits
  log,      \* idempotency keys in the committed execution log
  tx,       \* tx[s]: the Action the request s runs and its open transaction
  index,    \* index[o]: the row of o in the Doris table, or None
  archive,  \* archive[o]: the rows of o in the Iceberg table
  exec,     \* OutboxExecutor: the records fetched, whether the first is applied,
            \* and whether its only session is beyond use
  flush     \* SyncFlushScheduler: the records claimed and its place in the flush

pg      == <<state, outbox, log>>
stores  == <<index, archive>>
workers == <<exec, flush>>
vars    == <<pg, tx, stores, workers>>

Rid == Obj \cup Fresh

(***************************************************************************)
(* Transactions                                                            *)
(***************************************************************************)
NoTx == [pc |-> "idle", key |-> None, obj |-> None, op |-> "none",
         rid |-> None, base |-> None, expected |-> 0, at |-> 0, rows |-> << >>]

Become(s, t)   == tx' = [tx EXCEPT ![s] = t]
Close(s)       == Become(s, NoTx)
At(s, pc)      == tx[s].pc = pc

(* rollback_transaction, or the session is closed with its transaction     *)
(* open.                                                                   *)
Rollback_Fault(s) == Become(s, [NoTx EXCEPT !.rows = tx[s].rows])
Rollback(s)       == Close(s)

(* The rows a transaction has written but not committed: a function on the *)
(* rids it wrote.  Whoever wrote a row holds its lock until it ends.       *)
Wrote(s, r)    == r \in DOMAIN tx[s].rows
LockFree_Fault(s, r) == TRUE
LockFree(s, r)       == \A u \in Session \ {s} : ~ Wrote(u, r)
Put(rows, r, row) == [x \in DOMAIN rows \cup {r} |-> IF x = r THEN row ELSE rows[x]]

(* What get_object_state returns to s: its own writes, then what is        *)
(* committed.                                                              *)
Read(s, r) == IF Wrote(s, r) THEN tx[s].rows[r] ELSE state[r]

Row(o, version, val) == [pk |-> o, version |-> version, val |-> val]
NextChange == Len(outbox) + 1

(* The uuid of a SYSTEM_GENERATED key or of generate_object_rid is new.    *)
InUse == {r \in Rid : \/ state[r] # None
                      \/ \E s \in Session : Wrote(s, r) \/ tx[s].rid = r
                      \/ \E i \in DOMAIN outbox : outbox[i].rid = r}
Unseen(o) == /\ o \notin InUse /\ index[o] = None /\ archive[o] = << >>
             /\ \A s \in Session : tx[s].obj # o
             /\ \A i \in DOMAIN outbox : outbox[i].pk # o

(***************************************************************************)
(* execute_action                                                          *)
(***************************************************************************)
(* Step 2: a request whose key is in the log is answered from it.          *)
Begin(s) ==
  /\ At(s, "idle") /\ NextChange <= MaxChanges
  /\ \E k \in Key \cup {None} :
       /\ k = None \/ k \notin log
       /\ Become(s, [tx[s] EXCEPT !.pc = "checked", !.key = k])
  /\ UNCHANGED <<pg, stores, workers>>

(* Step 7: the mutation of the rule.                                       *)
Built(s, op, o, r, base, expected) ==
  Become(s, [tx[s] EXCEPT !.pc = "built", !.op = op, !.obj = o, !.rid = r,
                          !.base = base, !.expected = expected])

(* _build_create_mutation: the rid is a new one, which is also the primary *)
(* key when the key is SYSTEM_GENERATED.                                   *)
BuildCreate(s, o) ==
  /\ At(s, "checked")
  /\ \E r \in Rid \ InUse :
       /\ r \in Fresh \/ (r = o /\ Unseen(o))
       /\ Built(s, "CREATE", o, r, None, 0)
  /\ UNCHANGED <<pg, stores, workers>>

(* _build_modify_mutation: the row of object_state, else the Doris row,    *)
(* else a creation (upsert) or 404.  The rid is the primary key.           *)
BuildModify(s, o) ==
  /\ At(s, "checked")
  /\ \/ /\ Read(s, o) # None
        /\ Built(s, "UPDATE", o, o, Read(s, o).val, Read(s, o).version)
     \/ /\ Read(s, o) = None /\ index[o] # None
        /\ Become(s, [tx[s] EXCEPT !.pc = "hydrate", !.op = "UPDATE", !.obj = o,
                                   !.rid = o, !.base = index[o], !.expected = 1])
  /\ UNCHANGED <<pg, stores, workers>>

BuildUpsert(s, o) ==
  /\ At(s, "checked")
  /\ Read(s, o) = None /\ index[o] = None
  /\ Built(s, "CREATE", o, o, None, 0)
  /\ UNCHANGED <<pg, stores, workers>>

(* The copy of the Doris row is inserted as version 1, ON CONFLICT DO      *)
(* NOTHING, whose result is not looked at.                                 *)
Hydrate(s) ==
  LET o == tx[s].rid IN
  /\ At(s, "hydrate") /\ LockFree(s, o)
  /\ Become(s, [tx[s] EXCEPT
       !.pc = "built",
       !.rows = IF Read(s, o) = None THEN Put(@, o, Row(o, 1, tx[s].base)) ELSE @])
  /\ UNCHANGED <<pg, stores, workers>>

BuildDelete(s, o) ==
  /\ At(s, "checked")
  /\ Read(s, o) # None \/ index[o] # None
  /\ Built(s, "DELETE", o, o, None, 0)
  /\ UNCHANGED <<pg, stores, workers>>

(* 404, a failed validation, a refused write, a broken connection.  Alone, *)
(* the request ends and its session is closed; in a batch the next item    *)
(* goes on in the same session, with what this one has written.            *)
Refuse(s) ==
  /\ \/ tx[s] # NoTx /\ Rollback(s)
     \/ /\ s \in Batched /\ tx[s].pc \in {"checked", "built"}
        /\ Become(s, [NoTx EXCEPT !.rows = tx[s].rows])
  /\ UNCHANGED <<pg, stores, workers>>

(* upsert_object_state: INSERT ON CONFLICT DO NOTHING, or UPDATE WHERE     *)
(* version = expected.                                                     *)
Matches_Fault(s) ==
  IF tx[s].op = "CREATE" THEN Read(s, tx[s].rid) = None ELSE Read(s, tx[s].rid) # None

Matches(s) ==
  LET cur == Read(s, tx[s].rid) IN
  IF tx[s].op = "CREATE" THEN cur = None
  ELSE cur # None /\ cur.version = tx[s].expected

Written(s) == Row(tx[s].obj, tx[s].expected + 1, NextChange)

(* Step 8.                                                                 *)
Apply(s) ==
  LET r == tx[s].rid IN
  /\ At(s, "built") /\ tx[s].op # "DELETE" /\ LockFree(s, r)
  /\ \/ /\ Matches(s)
        /\ Become(s, [tx[s] EXCEPT !.pc = "applied", !.rows = Put(@, r, Written(s))])
     \/ /\ ~ Matches(s)
        /\ Rollback(s)
  /\ UNCHANGED <<pg, stores, workers>>

(* A deletion looks at the row three times, and holds no lock before the   *)
(* last.  Step 7.5 reads the primary key for the outbox record: there is   *)
(* none of an object that only Doris holds.                                *)
Snapshot(s) ==
  LET row == Read(s, tx[s].rid) IN
  /\ At(s, "built") /\ tx[s].op = "DELETE"
  /\ Become(s, [tx[s] EXCEPT !.pc = "snapped",
                             !.obj = IF row = None THEN None ELSE row.pk])
  /\ UNCHANGED <<pg, stores, workers>>

(* delete_object_state, step 8: the row is selected, and marked in the     *)
(* session if it is there.                                                 *)
SelectRow(s) ==
  /\ At(s, "snapped")
  /\ Become(s, [tx[s] EXCEPT
       !.pc = IF Read(s, tx[s].rid) = None THEN "applied" ELSE "found"])
  /\ UNCHANGED <<pg, stores, workers>>

(* The DELETE goes out with the next statement (step 8.5).  It takes what  *)
(* row the rid has by then: no row is a warning.                           *)
DeleteRow(s) ==
  LET r == tx[s].rid IN
  /\ At(s, "found")
  /\ Read(s, r) # None => LockFree(s, r)
  /\ Become(s, [tx[s] EXCEPT
       !.pc = "applied", !.rows = IF Read(s, r) = None THEN @ ELSE Put(@, r, None)])
  /\ UNCHANGED <<pg, stores, workers>>

(* create_outbox_record, step 9: created_at is the time of the call, which *)
(* comes before the commit.                                                *)
Stamps == {outbox[i].at : i \in DOMAIN outbox} \cup {tx[u].at : u \in Session}

Stamp(s) ==
  /\ At(s, "applied") /\ tx[s].at = 0
  /\ \E n \in 1..MaxStamp :
       /\ n - 1 \in Stamps /\ \A m \in Stamps : m < n
       /\ Become(s, [tx[s] EXCEPT !.at = n])
  /\ UNCHANGED <<pg, stores, workers>>

(* _create_sync_outbox_records: an INDEX and an ARCHIVE record.            *)
Record(s) ==
  [rid |-> tx[s].rid, pk |-> tx[s].obj, op |-> tx[s].op, key |-> tx[s].key,
   at |-> tx[s].at, index |-> "PENDING", archive |-> "PENDING", retries |-> 0, due |-> TRUE]

(* The unique constraint of the execution log.                             *)
Unlogged_Fault(k) == TRUE
Unlogged(k)       == k = None \/ k \notin log

(* Step 10.  The unique idempotency key makes a second commit with the     *)
(* same key fail as a whole.                                               *)
Commit(s) ==
  /\ At(s, "applied") /\ tx[s].at # 0
  /\ \/ /\ Unlogged(tx[s].key) /\ NextChange <= MaxChanges
        /\ state' = [r \in Rid |->
             IF ~ Wrote(s, r) THEN state[r]
             ELSE IF r = tx[s].rid /\ tx[s].op # "DELETE"
                  THEN [tx[s].rows[r] EXCEPT !.val = NextChange]
                  ELSE tx[s].rows[r]]
        /\ outbox' = Append(outbox, Record(s))
        /\ log' = log \cup ({tx[s].key} \ {None})
        /\ Close(s)
     \/ /\ ~ Unlogged(tx[s].key)
        /\ Rollback(s) /\ UNCHANGED pg
  /\ UNCHANGED <<stores, workers>>

(***************************************************************************)
(* OutboxExecutor.  exec.todo: what is left of the records fetched;        *)
(* exec.applied: the effect of the first one has been made; exec.broken:   *)
(* a statement has failed in the one session it has, and nothing ever      *)
(* rolls that session back.                                                *)
(***************************************************************************)
IdleExec == [todo |-> {}, applied |-> FALSE, broken |-> FALSE]

(* fetch_pending_outbox *)
Fetchable == {i \in DOMAIN outbox : outbox[i].index = "PENDING" /\ outbox[i].due}

Fetch ==
  /\ exec.todo = {} /\ ~ exec.broken /\ Fetchable # {}
  /\ exec' = [exec EXCEPT !.todo = Fetchable]
  /\ UNCHANGED <<pg, tx, stores, flush>>

(* The records fetched are handled in the order of created_at.             *)
Created     == [i \in exec.todo |-> outbox[i].at]
First_Fault == CHOOSE i \in exec.todo : \A j \in exec.todo : Created[i] >= Created[j]
First       == CHOOSE i \in exec.todo : \A j \in exec.todo : Created[i] <= Created[j]

(* _sync_index_to_doris; a deletion without a primary key is skipped.      *)
Indexed(i) ==
  LET rec == outbox[i] IN
  [o \in Obj |-> IF rec.pk # o THEN index[o]
                 ELSE IF rec.op = "DELETE" THEN None ELSE i]

Execute ==
  /\ exec.todo # {} /\ ~ exec.applied
  /\ index' = Indexed(First)
  /\ exec' = [exec EXCEPT !.applied = TRUE]
  /\ UNCHANGED <<pg, tx, archive, flush>>

Done == exec' = [exec EXCEPT !.todo = @ \ {First}, !.applied = FALSE]

MarkCompleted ==
  /\ exec.todo # {} /\ exec.applied
  /\ outbox' = [outbox EXCEPT ![First].index = "COMPLETED"]
  /\ Done
  /\ UNCHANGED <<state, log, tx, stores, flush>>

(* _handle_failure, of a call that was made or not.                        *)
GivesUp_Fault(rec) == rec.retries + 1 > MaxRetries
GivesUp(rec)       == rec.retries + 1 >= MaxRetries

Failed_Fault(rec) ==
  IF GivesUp(rec) THEN [rec EXCEPT !.index = "DLQ"] ELSE [rec EXCEPT !.due = FALSE]
Failed(rec) ==
  IF GivesUp(rec) THEN [rec EXCEPT !.index = "DLQ"]
  ELSE [rec EXCEPT !.retries = @ + 1, !.due = FALSE]

HandleFailure ==
  /\ exec.todo # {}
  /\ outbox' = [outbox EXCEPT ![First] = Failed(@)]
  /\ Done
  /\ UNCHANGED <<state, log, tx, stores, flush>>

(* A statement of the executor's own session fails: to fetch, to mark or   *)
(* to handle a failure.  Every later one of it is refused, the handler's   *)
(* among them, and every poll after that.                                  *)
SessionBreaks ==
  /\ ~ exec.broken
  /\ exec' = [IdleExec EXCEPT !.broken = TRUE]
  /\ UNCHANGED <<pg, tx, stores, flush>>

(* next_retry_at passes.                                                   *)
BackoffEnds(i) ==
  /\ outbox[i].index = "PENDING" /\ ~ outbox[i].due
  /\ outbox' = [outbox EXCEPT ![i].due = TRUE]
  /\ UNCHANGED <<state, log, tx, stores, workers>>

(***************************************************************************)
(* SyncFlushScheduler, one object type.                                    *)
(***************************************************************************)
IdleFlush == [pc |-> "idle", batch |-> {}]

(* claim_pending_by_ontology *)
Claim ==
  LET pending == {i \in DOMAIN outbox : outbox[i].archive = "PENDING"} IN
  /\ Flushing /\ flush.pc = "idle" /\ pending # {}
  /\ flush' = [pc |-> "upserts", batch |-> pending]
  /\ UNCHANGED <<pg, tx, stores, exec>>

Rows(o, deletes) ==
  {i \in flush.batch : outbox[i].pk = o /\ (outbox[i].op = "DELETE") = deletes}

(* MERGE is refused when two source rows match one row of the target.      *)
Mergeable(deletes) ==
  \A o \in Obj : archive[o] # << >> => Cardinality(Rows(o, deletes)) <= 1

(* The source rows are in the order of created_at.                         *)
Ascending(S) ==
  CHOOSE q \in SetToSeqs(S) :
    \A i, j \in DOMAIN q : i < j => outbox[q[i]].at < outbox[q[j]].at

(* A matched row is updated; every source row without a match is inserted. *)
Upserted(o) ==
  LET src == Ascending(Rows(o, FALSE)) IN
  IF src = << >> THEN archive[o]
  ELSE IF archive[o] = << >> THEN src
  ELSE [n \in DOMAIN archive[o] |-> src[1]]

MergeUpserts ==
  /\ flush.pc = "upserts" /\ Mergeable(FALSE)
  /\ archive' = [o \in Obj |-> Upserted(o)]
  /\ flush' = [flush EXCEPT !.pc = "deletes"]
  /\ UNCHANGED <<pg, tx, index, exec>>

MergeDeletes ==
  /\ flush.pc = "deletes" /\ Mergeable(TRUE)
  /\ archive' = [o \in Obj |-> IF Rows(o, TRUE) = {} THEN archive[o] ELSE << >>]
  /\ flush' = [flush EXCEPT !.pc = "mark"]
  /\ UNCHANGED <<pg, tx, index, exec>>

(* mark_outbox_batch_completed, once both merges are done.                 *)
Merged_Fault == flush.pc \in {"deletes", "mark"} \/ ~ Mergeable(FALSE)
Merged       == flush.pc = "mark"

MarkBatch ==
  /\ flush.pc # "idle" /\ Merged
  /\ outbox' = [i \in DOMAIN outbox |->
       IF i \in flush.batch THEN [outbox[i] EXCEPT !.archive = "COMPLETED"]
       ELSE outbox[i]]
  /\ flush' = IdleFlush
  /\ UNCHANGED <<state, log, tx, stores, exec>>

(* retry_outbox_batch: the records stay PENDING and are due at once; or    *)
(* the commit fails, and nothing is marked.                                *)
FlushFails ==
  /\ flush.pc # "idle"
  /\ flush' = IdleFlush
  /\ UNCHANGED <<pg, tx, stores, exec>>

(***************************************************************************)
(* The process dies and is started again: open transactions roll back, row *)
(* locks go, the loops start over.                                         *)
(***************************************************************************)
Crash ==
  /\ tx' = [s \in Session |-> NoTx]
  /\ exec' = IdleExec /\ flush' = IdleFlush
  /\ UNCHANGED <<pg, stores>>

(***************************************************************************)
(* Specification                                                           *)
(***************************************************************************)
Init ==
  /\ \E loaded \in SUBSET Obj :
       /\ index = [o \in Obj |-> IF o \in loaded THEN 0 ELSE None]
       /\ archive = [o \in Obj |-> IF o \in loaded THEN <<0>> ELSE << >>]
  /\ state = [r \in Rid |-> None]
  /\ outbox = << >> /\ log = {}
  /\ tx = [s \in Session |-> NoTx]
  /\ exec = IdleExec /\ flush = IdleFlush

ActionStep(s) ==
  \/ Begin(s)
  \/ \E o \in Obj : BuildCreate(s, o) \/ BuildModify(s, o) \/ BuildUpsert(s, o)
                     \/ BuildDelete(s, o)
  \/ Hydrate(s) \/ Refuse(s) \/ Apply(s)
  \/ Snapshot(s) \/ SelectRow(s) \/ DeleteRow(s)
  \/ Stamp(s) \/ Commit(s)

ExecutorStep == Fetch \/ Execute \/ MarkCompleted \/ HandleFailure \/ SessionBreaks
FlushStep    == Claim \/ MergeUpserts \/ MergeDeletes \/ MarkBatch \/ FlushFails

Next ==
  \/ \E s \in Session : ActionStep(s)
  \/ ExecutorStep
  \/ \E i \in DOMAIN outbox : BackoffEnds(i)
  \/ FlushStep
  \/ Crash

Spec == Init /\ [][Next]_vars

(* The executor polls once a second and never stops on an error, and a     *)
(* backoff passes.  A fetch or a call is made and answered, or it fails:   *)
(* crashes and lost sessions do not come each time before that (strong     *)
(* fairness).  Nothing obliges a client to send requests, a call to        *)
(* succeed, or a lost session to be replaced: only a restart does that.    *)
FairSpec ==
  /\ Spec
  /\ SF_vars(Fetch)
  /\ SF_vars(Execute) /\ SF_vars(MarkCompleted \/ HandleFailure)
  /\ \A i \in 1..MaxChanges : WF_vars(i \in DOMAIN outbox /\ BackoffEnds(i))
=============================================================================

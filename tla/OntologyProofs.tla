--------------------------- MODULE OntologyProofs ---------------------------
(***************************************************************************)
(* The write path of the ontology, for any number of objects, requests and *)
(* changes: the types of everything, idempotency, the order in which Doris *)
(* takes the changes, the agreement of rows and outbox, optimistic         *)
(* locking, what a marked change has left in Iceberg, and that committed   *)
(* requests act as the atomic changes of OntologyLedger.                   *)
(***************************************************************************)
EXTENDS OntologyProperties, FiniteSetTheorems, TLAPS

(***************************************************************************)
(* Types                                                                   *)
(***************************************************************************)
Rows0 == UNION {[R -> RowType \cup {None}] : R \in SUBSET Rid}

TxRecord ==
  [pc : {"idle", "checked", "hydrate", "built", "snapped", "found", "applied"},
   key : Key \cup {None}, obj : Obj \cup {None}, op : {"none", "CREATE", "UPDATE", "DELETE"},
   rid : Rid \cup {None}, base : Nat \cup {None}, expected : Nat, at : 0..MaxStamp,
   rows : Rows0]

(* What a transaction has settled at its place.                            *)
Shape(t) ==
  /\ t.pc \in {"hydrate", "built", "snapped", "found", "applied"} =>
       t.rid \in Rid /\ t.op # "none"
  /\ t.pc \in {"snapped", "found"} => t.op = "DELETE"
  /\ t.pc \in {"hydrate", "built"} => t.obj \in Obj
  /\ t.pc = "hydrate" => t.base \in Nat /\ t.op = "UPDATE" /\ t.rid = t.obj
  /\ t.pc = "applied" /\ t.op # "DELETE" =>
       /\ t.obj \in Obj /\ t.rid \in DOMAIN t.rows /\ t.rows[t.rid] \in RowType
       /\ t.rows[t.rid].pk = t.obj /\ t.rows[t.rid].version = t.expected + 1
  /\ t.pc = "applied" /\ t.op = "DELETE" /\ t.rid \in DOMAIN t.rows => t.rows[t.rid] = None

TxOK    == tx \in [Session -> TxRecord] /\ \A s \in Session : Shape(tx[s])
IndexOK == index \in [Obj -> Vals \cup {None}]
TInv    == PgOK /\ TxOK /\ ExecOK /\ FlushOK /\ IndexOK

LEMMA NoneIsNoRow == None \notin RowType /\ None \notin Rid /\ None \notin Nat
BY SyncAssumption DEF RowType, Rid

(* A set of numbers that is not empty has a least one.                     *)
LEMMA LeastNumber ==
  ASSUME NEW S \in SUBSET Nat, S # {}
  PROVE  \E n \in S : \A m \in S : n <= m
<1> DEFINE less == {ss \in Nat \X Nat : ss[1] < ss[2]}
<1>1. IsWellFoundedOn(less, Nat)
  BY NatLessThanWellFounded DEF OpToRel
<1>2. \E n \in S : \A m \in S : <<m, n>> \notin less
  <2> HIDE DEF less
  <2> QED BY <1>1, WFMin
<1>3. PICK n \in S : \A m \in S : <<m, n>> \notin less
  BY <1>2
<1>4. ASSUME NEW m \in S PROVE n <= m
  <2>1. <<m, n>> \in Nat \X Nat /\ <<m, n>>[1] = m /\ <<m, n>>[2] = n
    OBVIOUS
  <2>2. ~ (m < n)
    BY <1>3, <2>1
  <2> QED BY <2>2
<1> QED BY <1>4

(* Bounded sets of numbers are finite and have a greatest element.         *)
LEMMA GreatestNumber ==
  ASSUME NEW N \in Nat, NEW S \in SUBSET (1 .. N)
  PROVE  /\ IsFiniteSet(S) /\ Cardinality(S) \in Nat /\ (Cardinality(S) = 0 <=> S = {})
         /\ S # {} => Newest(S) \in S /\ \A j \in S : j <= Newest(S)
<1>1. IsFiniteSet(1 .. N)
  BY FS_Interval
<1>2. IsFiniteSet(S)
  BY <1>1, FS_Subset
<1>3. Cardinality(S) \in Nat /\ (Cardinality(S) = 0 <=> S = {})
  BY <1>2, FS_CardinalityType, FS_EmptySet
<1>4. ASSUME S # {} PROVE Newest(S) \in S /\ \A j \in S : j <= Newest(S)
  <2> DEFINE back == {N - i : i \in S}
  <2>1. back \in SUBSET Nat /\ back # {}
    <3>1. \A i \in S : i \in 1 .. N /\ N - i \in Nat
      OBVIOUS
    <3> QED BY <1>4, <3>1
  <2>2. PICK n \in back : \A m \in back : n <= m
    <3> HIDE DEF back
    <3> QED BY <2>1, LeastNumber
  <2>3. PICK i \in S : n = N - i
    BY <2>2
  <2>4. ASSUME NEW j \in S PROVE j <= i
    <3>1. N - j \in back
      OBVIOUS
    <3>2. N - i <= N - j
      <4> HIDE DEF back
      <4> QED BY <2>2, <2>3, <3>1
    <3> HIDE DEF back
    <3> QED BY <3>2
  <2> HIDE DEF back
  <2> QED BY <2>3, <2>4 DEF Newest
<1> QED BY <1>2, <1>3, <1>4

(* The executor's next record is one of those it fetched, and the one with *)
(* the first stamp.                                                        *)
LEMMA FirstIsOldest ==
  ASSUME PgOK, ExecOK, exec.todo # {}
  PROVE  /\ First \in exec.todo /\ First \in DOMAIN outbox
         /\ \A j \in exec.todo : outbox[First].at <= outbox[j].at
<1> DEFINE stamps == {outbox[i].at : i \in exec.todo}
<1>1. exec.todo \subseteq DOMAIN outbox /\ \A i \in exec.todo : outbox[i].at \in Nat
  <2>1. exec.todo \subseteq DOMAIN outbox
    BY DEF ExecOK
  <2>2. \A i \in DOMAIN outbox : outbox[i] \in RecordType
    BY DEF PgOK
  <2> QED BY <2>1, <2>2, SyncAssumption DEF RecordType
<1>2. PICK n \in stamps : \A m \in stamps : n <= m
  <2>1. stamps \in SUBSET Nat /\ stamps # {}
    BY <1>1
  <2> HIDE DEF stamps
  <2> QED BY <2>1, LeastNumber
<1>3. \E i \in exec.todo : \A j \in exec.todo : Created[i] <= Created[j]
  BY <1>2 DEF Created
<1>4. First \in exec.todo /\ \A j \in exec.todo : Created[First] <= Created[j]
  BY <1>3 DEF First
<1> HIDE DEF First
<1> QED BY <1>1, <1>4 DEF Created

(* Reading and writing the rows of a transaction.                          *)
LEMMA RowsTyped ==
  ASSUME NEW rows \in Rows0, NEW r \in Rid, NEW row \in RowType \cup {None}
  PROVE  /\ Put(rows, r, row) \in Rows0 /\ DOMAIN Put(rows, r, row) = DOMAIN rows \cup {r}
         /\ Put(rows, r, row)[r] = row
         /\ \A x \in DOMAIN rows \ {r} : Put(rows, r, row)[x] = rows[x]
<1>1. PICK R \in SUBSET Rid : rows \in [R -> RowType \cup {None}]
  BY DEF Rows0
<1>2. Put(rows, r, row) \in [R \cup {r} -> RowType \cup {None}]
  BY <1>1 DEF Put
<1>3. Put(rows, r, row) \in Rows0
  BY <1>2 DEF Rows0
<1> QED BY <1>3 DEF Put

LEMMA RowsRead ==
  ASSUME NEW rows \in Rows0
  PROVE  /\ DOMAIN rows \subseteq Rid
         /\ \A r \in DOMAIN rows : rows[r] \in RowType \cup {None}
BY DEF Rows0

LEMMA EmptyRows == << >> \in Rows0 /\ DOMAIN << >> = {}
<1>1. << >> \in [{} -> RowType \cup {None}]
  OBVIOUS
<1> QED BY <1>1 DEF Rows0

(* What a transaction reads is a row or nothing.                           *)
LEMMA ReadTyped ==
  ASSUME PgOK, TxOK, NEW s \in Session, NEW r \in Rid
  PROVE  Read(s, r) \in RowType \cup {None}
<1>1. tx[s].rows \in Rows0
  BY DEF TxOK, TxRecord
<1> QED BY <1>1, RowsRead DEF Read, Wrote, PgOK

(* A session that is over is well typed.                                   *)
LEMMA NoTxTyped == NoTx \in TxRecord /\ Shape(NoTx) /\ NoTx.pc = "idle" /\ NoTx.rows = << >>
<1> DEFINE none == << >>
<1>1. none \in Rows0 /\ 0 \in 0..MaxStamp
  BY EmptyRows, SyncAssumption
<1>2. NoTx = [pc |-> "idle", key |-> None, obj |-> None, op |-> "none", rid |-> None,
              base |-> None, expected |-> 0, at |-> 0, rows |-> none]
  BY DEF NoTx
<1>3. NoTx.rows = none
  BY <1>2
<1> HIDE DEF none
<1>4. NoTx \in TxRecord
  BY <1>1, <1>2 DEF TxRecord
<1>5. NoTx.pc = "idle" /\ Shape(NoTx)
  BY <1>2 DEF Shape
<1> QED BY <1>3, <1>4, <1>5 DEF none

(* A transaction put into a well-typed state.                              *)
LEMMA BecomeTyped ==
  ASSUME TxOK, NEW s \in Session, NEW t \in TxRecord, Shape(t), Become(s, t)
  PROVE  /\ TxOK' /\ tx'[s] = t /\ \A u \in Session \ {s} : tx'[u] = tx[u]
BY DEF TxOK, Become

LEMMA CloseTyped ==
  ASSUME TxOK, NEW s \in Session, Close(s)
  PROVE  /\ TxOK' /\ tx'[s] = NoTx /\ \A u \in Session \ {s} : tx'[u] = tx[u]
BY NoTxTyped, BecomeTyped DEF Close

(* What a step leaves alone stays well typed.                              *)
LEMMA TypesKept ==
  ASSUME TInv
  PROVE  /\ UNCHANGED pg => PgOK'
         /\ UNCHANGED tx => TxOK'
         /\ UNCHANGED <<outbox, workers>> => ExecOK' /\ FlushOK'
         /\ UNCHANGED stores => IndexOK'
BY DEF TInv, PgOK, TxOK, ExecOK, FlushOK, IndexOK, pg, workers, stores

(* Steps 2 and 7 of execute_action.                                        *)
LEMMA BeginTyped == ASSUME TxOK, NEW s \in Session, Begin(s) PROVE TxOK'
<1>1. PICK k \in Key \cup {None} : Become(s, [tx[s] EXCEPT !.pc = "checked", !.key = k])
  BY DEF Begin
<1>2. [tx[s] EXCEPT !.pc = "checked", !.key = k] \in TxRecord
  BY DEF TxOK, TxRecord
<1>3. Shape([tx[s] EXCEPT !.pc = "checked", !.key = k])
  BY DEF TxOK, TxRecord, Shape
<1> QED BY <1>1, <1>2, <1>3, BecomeTyped

LEMMA BuiltTyped ==
  ASSUME TxOK, NEW s \in Session, NEW op \in {"CREATE", "UPDATE", "DELETE"},
         NEW o \in Obj, NEW r \in Rid, NEW base \in Nat \cup {None}, NEW expected \in Nat,
         Built(s, op, o, r, base, expected)
  PROVE  /\ TxOK'
         /\ tx'[s] = [tx[s] EXCEPT !.pc = "built", !.op = op, !.obj = o, !.rid = r,
                                   !.base = base, !.expected = expected]
         /\ \A u \in Session \ {s} : tx'[u] = tx[u]
<1> DEFINE t == [tx[s] EXCEPT !.pc = "built", !.op = op, !.obj = o, !.rid = r,
                             !.base = base, !.expected = expected]
<1>1. t \in TxRecord /\ Shape(t)
  <2>1. t \in TxRecord
    BY DEF TxOK, TxRecord
  <2>2. t.pc = "built" /\ t.rid = r /\ t.obj = o /\ t.op = op
    BY DEF TxOK, TxRecord
  <2> HIDE DEF t
  <2>3. Shape(t)
    BY <2>2 DEF Shape
  <2> QED BY <2>1, <2>3
<1>2. Become(s, t)
  BY DEF Built
<1> HIDE DEF t
<1>3. TxOK' /\ tx'[s] = t /\ \A u \in Session \ {s} : tx'[u] = tx[u]
  BY <1>1, <1>2, BecomeTyped
<1> QED BY <1>3 DEF t

(* What each way to build a mutation chooses.                              *)
LEMMA BuildTyped ==
  ASSUME TInv, NEW s \in Session, NEW o \in Obj,
         BuildCreate(s, o) \/ BuildModify(s, o) \/ BuildUpsert(s, o) \/ BuildDelete(s, o)
  PROVE  TxOK'
<1>0. TxOK /\ o \in Rid /\ index[o] \in Nat \cup {None} /\ Read(s, o) \in RowType \cup {None}
  BY ReadTyped DEF TInv, IndexOK, Vals, Rid
<1>1. CASE BuildCreate(s, o)
  BY <1>0, <1>1, BuiltTyped DEF BuildCreate
<1>2. CASE BuildModify(s, o)
  <2>1. CASE Read(s, o) # None /\ Built(s, "UPDATE", o, o, Read(s, o).val, Read(s, o).version)
    <3>1. Read(s, o).val \in Nat /\ Read(s, o).version \in Nat
      BY <1>0, <2>1 DEF RowType
    <3> QED BY <1>0, <2>1, <3>1, BuiltTyped
  <2>2. CASE /\ index[o] # None
             /\ Become(s, [tx[s] EXCEPT !.pc = "hydrate", !.op = "UPDATE", !.obj = o,
                                         !.rid = o, !.base = index[o], !.expected = 1])
    <3> DEFINE t == [tx[s] EXCEPT !.pc = "hydrate", !.op = "UPDATE", !.obj = o,
                                  !.rid = o, !.base = index[o], !.expected = 1]
    <3>1. t \in TxRecord /\ Shape(t)
      <4>1. t \in TxRecord
        BY <1>0, <2>2 DEF TxOK, TxRecord
      <4>2. /\ t.pc = "hydrate" /\ t.rid = o /\ t.obj = o /\ t.op = "UPDATE"
            /\ t.base \in Nat
        BY <1>0, <2>2, SyncAssumption DEF TxOK, TxRecord
      <4> HIDE DEF t
      <4>3. Shape(t)
        BY <1>0, <4>2 DEF Shape
      <4> QED BY <4>1, <4>3
    <3> HIDE DEF t
    <3>2. Become(s, t)
      BY <2>2 DEF t
    <3> QED BY <1>0, <3>1, <3>2, BecomeTyped
  <2> QED BY <1>2, <2>1, <2>2 DEF BuildModify
<1>3. CASE BuildUpsert(s, o)
  BY <1>0, <1>3, BuiltTyped DEF BuildUpsert
<1>4. CASE BuildDelete(s, o)
  BY <1>0, <1>4, BuiltTyped DEF BuildDelete
<1> QED BY <1>1, <1>2, <1>3, <1>4

(* The copy of the Doris row: what Hydrate leaves in the transaction.      *)
Hydrated(s) ==
  IF Read(s, tx[s].rid) = None
  THEN Put(tx[s].rows, tx[s].rid, Row(tx[s].rid, 1, tx[s].base))
  ELSE tx[s].rows

LEMMA HydrateTyped ==
  ASSUME TInv, NEW s \in Session, Hydrate(s)
  PROVE  /\ TxOK' /\ \A u \in Session \ {s} : tx'[u] = tx[u]
         /\ tx'[s] = [tx[s] EXCEPT !.pc = "built", !.rows = Hydrated(s)]
<1> DEFINE t == [tx[s] EXCEPT !.pc = "built", !.rows = Hydrated(s)]
<1>1. /\ TxOK /\ tx[s] \in TxRecord /\ tx[s].rid \in Obj /\ tx[s].obj \in Obj
      /\ tx[s].op = "UPDATE" /\ tx[s].base \in Nat /\ tx[s].rows \in Rows0
  BY DEF TInv, TxOK, TxRecord, Shape, Hydrate, At
<1>2. Hydrated(s) \in Rows0
  <2>1. Row(tx[s].rid, 1, tx[s].base) \in RowType
    BY <1>1 DEF Row, RowType
  <2> QED BY <1>1, <2>1, RowsTyped DEF Hydrated, Rid
<1>3. Become(s, t)
  BY DEF Hydrate, Hydrated
<1>4. t \in TxRecord /\ Shape(t)
  <2> HIDE DEF Hydrated
  <2> QED BY <1>1, <1>2 DEF TxRecord, Shape, Rid
<1> HIDE DEF t
<1>5. TxOK' /\ tx'[s] = t /\ \A u \in Session \ {s} : tx'[u] = tx[u]
  BY <1>1, <1>3, <1>4, BecomeTyped
<1> QED BY <1>5 DEF t

(* A request that ends, or a batch item that is given up.                  *)
LEMMA RefuseTyped ==
  ASSUME TxOK, NEW s \in Session, Refuse(s)
  PROVE  /\ TxOK' /\ \A u \in Session \ {s} : tx'[u] = tx[u]
         /\ \/ tx'[s] = NoTx
            \/ s \in Batched /\ tx'[s] = [NoTx EXCEPT !.rows = tx[s].rows]
<1>1. CASE Rollback(s)
  BY <1>1, CloseTyped DEF Rollback
<1>2. CASE s \in Batched /\ Become(s, [NoTx EXCEPT !.rows = tx[s].rows])
  <2> DEFINE t == [NoTx EXCEPT !.rows = tx[s].rows]
  <2>1. t \in TxRecord /\ Shape(t)
    <3>1. tx[s].rows \in Rows0
      BY DEF TxOK, TxRecord
    <3>2. t \in TxRecord /\ t.pc = "idle"
      BY <3>1, NoTxTyped DEF TxRecord
    <3> QED BY <3>2 DEF Shape
  <2>2. Become(s, t)
    BY <1>2
  <2> HIDE DEF t
  <2>3. TxOK' /\ tx'[s] = t /\ \A u \in Session \ {s} : tx'[u] = tx[u]
    BY <2>1, <2>2, BecomeTyped
  <2> QED BY <1>2, <2>3 DEF t
<1> QED BY <1>1, <1>2 DEF Refuse

(* What Apply leaves in the transaction: nothing, or the new row.          *)
AppliedWrite(s) == [tx[s] EXCEPT !.pc = "applied", !.rows = Put(@, tx[s].rid, Written(s))]

LEMMA ApplyTyped ==
  ASSUME TInv, NEW s \in Session, Apply(s)
  PROVE  /\ TxOK' /\ \A u \in Session \ {s} : tx'[u] = tx[u]
         /\ tx'[s] = NoTx \/ (Matches(s) /\ tx'[s] = AppliedWrite(s))
<1>1. /\ TxOK /\ tx[s] \in TxRecord /\ tx[s].rid \in Rid /\ tx[s].obj \in Obj
      /\ tx[s].op \in {"CREATE", "UPDATE"} /\ tx[s].rows \in Rows0
      /\ tx[s].pc = "built" /\ tx[s].expected \in Nat
  BY DEF TInv, TxOK, TxRecord, Shape, Apply, At
<1>2. CASE Matches(s) /\ Become(s, AppliedWrite(s))
  <2>1. /\ Written(s) \in RowType /\ Written(s).pk = tx[s].obj
        /\ Written(s).version = tx[s].expected + 1
    BY <1>1, <1>2 DEF Written, Row, RowType, NextChange, TInv, PgOK
  <2> DEFINE new == Put(tx[s].rows, tx[s].rid, Written(s))
             t == [tx[s] EXCEPT !.pc = "applied", !.rows = new]
  <2>2. new \in Rows0 /\ tx[s].rid \in DOMAIN new /\ new[tx[s].rid] = Written(s)
    <3>1. new \in Rows0
      BY <1>1, <2>1, RowsTyped
    <3>2. tx[s].rid \in DOMAIN new /\ new[tx[s].rid] = Written(s)
      BY DEF Put
    <3> QED BY <3>1, <3>2
  <2>3. t \in TxRecord /\ Shape(t)
    <3> HIDE DEF new
    <3> QED BY <1>1, <1>2, <2>1, <2>2 DEF TxRecord, Shape
  <2>4. AppliedWrite(s) = t
    BY DEF AppliedWrite
  <2> HIDE DEF t
  <2>5. TxOK' /\ tx'[s] = t /\ \A u \in Session \ {s} : tx'[u] = tx[u]
    BY <1>1, <1>2, <2>3, <2>4, BecomeTyped
  <2> QED BY <1>2, <2>4, <2>5
<1>3. CASE Rollback(s)
  BY <1>1, <1>3, CloseTyped DEF Rollback
<1> QED BY <1>2, <1>3 DEF Apply, AppliedWrite

(* The three looks of a deletion, and the stamp: what they change of the   *)
(* transaction.                                                            *)
Snapped(s) ==
  [tx[s] EXCEPT !.pc = "snapped",
     !.obj = IF Read(s, tx[s].rid) = None THEN None ELSE Read(s, tx[s].rid).pk]
Selected(s) ==
  [tx[s] EXCEPT !.pc = IF Read(s, tx[s].rid) = None THEN "applied" ELSE "found"]
Deleted(s) ==
  [tx[s] EXCEPT !.pc = "applied",
     !.rows = IF Read(s, tx[s].rid) = None THEN @ ELSE Put(@, tx[s].rid, None)]

LEMMA SnapshotTyped ==
  ASSUME TInv, NEW s \in Session, Snapshot(s)
  PROVE  TxOK' /\ tx'[s] = Snapped(s) /\ \A u \in Session \ {s} : tx'[u] = tx[u]
<1>1. /\ TxOK /\ tx[s] \in TxRecord /\ tx[s].rid \in Rid /\ tx[s].op = "DELETE"
      /\ Read(s, tx[s].rid) \in RowType \cup {None}
  BY ReadTyped DEF TInv, TxOK, TxRecord, Shape, Snapshot, At
<1> DEFINE obj == IF Read(s, tx[s].rid) = None THEN None ELSE Read(s, tx[s].rid).pk
           t == [tx[s] EXCEPT !.pc = "snapped", !.obj = obj]
<1>2. obj \in Obj \cup {None}
  BY <1>1 DEF RowType
<1>3. t \in TxRecord /\ Shape(t)
  <2> HIDE DEF obj
  <2> QED BY <1>1, <1>2 DEF TxRecord, Shape
<1>4. Become(s, t)
  BY DEF Snapshot
<1>5. Snapped(s) = t
  BY DEF Snapped
<1> HIDE DEF t
<1> QED BY <1>1, <1>3, <1>4, <1>5, BecomeTyped

LEMMA SelectRowTyped ==
  ASSUME TInv, NEW s \in Session, SelectRow(s)
  PROVE  TxOK' /\ tx'[s] = Selected(s) /\ \A u \in Session \ {s} : tx'[u] = tx[u]
<1>1. /\ TxOK /\ tx[s] \in TxRecord /\ tx[s].rid \in Rid /\ tx[s].op = "DELETE"
  BY DEF TInv, TxOK, TxRecord, Shape, SelectRow, At
<1> DEFINE pc == IF Read(s, tx[s].rid) = None THEN "applied" ELSE "found"
           t == [tx[s] EXCEPT !.pc = pc]
<1>2. pc \in {"applied", "found"}
  OBVIOUS
<1>3. pc = "applied" /\ tx[s].rid \in DOMAIN tx[s].rows => tx[s].rows[tx[s].rid] = None
  BY DEF Read, Wrote
<1>4. t \in TxRecord /\ Shape(t)
  <2> HIDE DEF pc
  <2> QED BY <1>1, <1>2, <1>3 DEF TxRecord, Shape
<1>5. Become(s, t)
  BY DEF SelectRow
<1>6. Selected(s) = t
  BY DEF Selected
<1> HIDE DEF t
<1> QED BY <1>1, <1>4, <1>5, <1>6, BecomeTyped

LEMMA DeleteRowTyped ==
  ASSUME TInv, NEW s \in Session, DeleteRow(s)
  PROVE  TxOK' /\ tx'[s] = Deleted(s) /\ \A u \in Session \ {s} : tx'[u] = tx[u]
<1>1. /\ TxOK /\ tx[s] \in TxRecord /\ tx[s].rid \in Rid /\ tx[s].op = "DELETE"
      /\ tx[s].rows \in Rows0
  BY DEF TInv, TxOK, TxRecord, Shape, DeleteRow, At
<1>0. /\ Put(tx[s].rows, tx[s].rid, None) \in Rows0
      /\ Put(tx[s].rows, tx[s].rid, None)[tx[s].rid] = None
  <2>1. None \in RowType \cup {None}
    OBVIOUS
  <2>2. ASSUME NEW rows \in Rows0, NEW r \in Rid
        PROVE  Put(rows, r, None) \in Rows0 /\ Put(rows, r, None)[r] = None
    BY <2>1, RowsTyped, Zenon
  <2> QED BY <1>1, <2>2, Zenon
<1> DEFINE new == IF Read(s, tx[s].rid) = None THEN tx[s].rows
                  ELSE Put(tx[s].rows, tx[s].rid, None)
           t == [tx[s] EXCEPT !.pc = "applied", !.rows = new]
<1>2. new \in Rows0 /\ (tx[s].rid \in DOMAIN new => new[tx[s].rid] = None)
  <2>1. CASE Read(s, tx[s].rid) = None
    BY <1>1, <2>1 DEF Read, Wrote
  <2>2. CASE Read(s, tx[s].rid) # None
    <3>1. new = Put(tx[s].rows, tx[s].rid, None)
      BY <2>2
    <3> QED BY <1>0, <3>1
  <2> QED BY <2>1, <2>2
<1>3. t \in TxRecord /\ Shape(t)
  <2> HIDE DEF new
  <2> QED BY <1>1, <1>2 DEF TxRecord, Shape
<1>4. Become(s, t)
  BY DEF DeleteRow
<1>5. Deleted(s) = t
  BY DEF Deleted
<1> HIDE DEF t
<1> QED BY <1>1, <1>3, <1>4, <1>5, BecomeTyped

LEMMA SnapshotFields ==
  ASSUME TInv, NEW s \in Session, Snapshot(s)
  PROVE  /\ tx[s].pc = "built" /\ tx[s].op = "DELETE" /\ tx'[s].pc = "snapped"
         /\ tx'[s].op = "DELETE" /\ tx'[s].rid = tx[s].rid /\ tx'[s].rows = tx[s].rows
         /\ tx'[s].at = tx[s].at
         /\ tx'[s].obj = IF Read(s, tx[s].rid) = None THEN None ELSE Read(s, tx[s].rid).pk
<1> DEFINE obj == IF Read(s, tx[s].rid) = None THEN None ELSE Read(s, tx[s].rid).pk
<1>1. tx[s].pc = "built" /\ tx[s].op = "DELETE" /\ tx[s] \in TxRecord
  BY DEF Snapshot, At, TInv, TxOK
<1>2. tx'[s] = [tx[s] EXCEPT !.pc = "snapped", !.obj = obj]
  BY SnapshotTyped DEF Snapped
<1> HIDE DEF obj
<1>3. /\ tx'[s].pc = "snapped" /\ tx'[s].op = tx[s].op /\ tx'[s].rid = tx[s].rid
      /\ tx'[s].rows = tx[s].rows /\ tx'[s].at = tx[s].at /\ tx'[s].obj = obj
  BY <1>1, <1>2 DEF TxRecord
<1> QED BY <1>1, <1>3 DEF obj

LEMMA SelectRowFields ==
  ASSUME TInv, NEW s \in Session, SelectRow(s)
  PROVE  /\ tx[s].pc = "snapped" /\ tx[s].op = "DELETE"
         /\ tx'[s].pc \in {"found", "applied"}
         /\ tx'[s].op = "DELETE" /\ tx'[s].rid = tx[s].rid /\ tx'[s].rows = tx[s].rows
         /\ tx'[s].at = tx[s].at /\ tx'[s].obj = tx[s].obj
<1> DEFINE pc == IF Read(s, tx[s].rid) = None THEN "applied" ELSE "found"
<1>1. tx[s].pc = "snapped" /\ tx[s].op = "DELETE" /\ tx[s] \in TxRecord
  BY DEF SelectRow, At, TInv, TxOK, Shape
<1>2. tx'[s] = [tx[s] EXCEPT !.pc = pc]
  BY SelectRowTyped DEF Selected
<1>3. pc \in {"found", "applied"}
  OBVIOUS
<1> HIDE DEF pc
<1> QED BY <1>1, <1>2, <1>3 DEF TxRecord

LEMMA DeleteRowFields ==
  ASSUME TInv, NEW s \in Session, DeleteRow(s)
  PROVE  /\ tx[s].pc = "found" /\ tx[s].op = "DELETE" /\ tx'[s].pc = "applied"
         /\ tx'[s].op = "DELETE" /\ tx'[s].rid = tx[s].rid
         /\ tx'[s].at = tx[s].at /\ tx'[s].obj = tx[s].obj
         /\ tx'[s].rows = IF Read(s, tx[s].rid) = None THEN tx[s].rows
                          ELSE Put(tx[s].rows, tx[s].rid, None)
<1> DEFINE rows == IF Read(s, tx[s].rid) = None THEN tx[s].rows
                   ELSE Put(tx[s].rows, tx[s].rid, None)
<1>1. tx[s].pc = "found" /\ tx[s].op = "DELETE" /\ tx[s] \in TxRecord
  BY DEF DeleteRow, At, TInv, TxOK, Shape
<1>2. tx'[s] = [tx[s] EXCEPT !.pc = "applied", !.rows = rows]
  BY DeleteRowTyped DEF Deleted
<1> HIDE DEF rows
<1>3. /\ tx'[s].pc = "applied" /\ tx'[s].op = tx[s].op /\ tx'[s].rid = tx[s].rid
      /\ tx'[s].at = tx[s].at /\ tx'[s].obj = tx[s].obj /\ tx'[s].rows = rows
  BY <1>1, <1>2 DEF TxRecord
<1> QED BY <1>1, <1>3 DEF rows

LEMMA StampTyped ==
  ASSUME TInv, NEW s \in Session, Stamp(s)
  PROVE  /\ TxOK' /\ \A u \in Session \ {s} : tx'[u] = tx[u]
         /\ \E n \in 1..MaxStamp :
              (\A m \in Stamps : m < n) /\ tx'[s] = [tx[s] EXCEPT !.at = n]
<1>1. PICK n \in 1..MaxStamp :
        (\A m \in Stamps : m < n) /\ Become(s, [tx[s] EXCEPT !.at = n])
  BY DEF Stamp
<1> DEFINE t == [tx[s] EXCEPT !.at = n]
<1>2. TxOK /\ tx[s] \in TxRecord /\ Shape(tx[s]) /\ n \in 0..MaxStamp
  BY SyncAssumption DEF TInv, TxOK
<1>3. t \in TxRecord /\ Shape(t)
  BY <1>2 DEF TxRecord, Shape
<1>4. Become(s, t)
  BY <1>1
<1>5. TxOK' /\ tx'[s] = t /\ \A u \in Session \ {s} : tx'[u] = tx[u]
  <2> HIDE DEF t
  <2> QED BY <1>2, <1>3, <1>4, BecomeTyped
<1> QED BY <1>1, <1>5

(* The two ways a commit ends.                                             *)
Committed(s) ==
  /\ Unlogged(tx[s].key) /\ NextChange <= MaxChanges
  /\ state' = [r \in Rid |->
       IF ~ Wrote(s, r) THEN state[r]
       ELSE IF r = tx[s].rid /\ tx[s].op # "DELETE"
            THEN [tx[s].rows[r] EXCEPT !.val = NextChange]
            ELSE tx[s].rows[r]]
  /\ outbox' = Append(outbox, Record(s))
  /\ log' = log \cup ({tx[s].key} \ {None})

LEMMA CommitTyped ==
  ASSUME TInv, NEW s \in Session, Commit(s)
  PROVE  /\ PgOK' /\ TxOK' /\ ExecOK' /\ FlushOK'
         /\ tx'[s] = NoTx /\ \A u \in Session \ {s} : tx'[u] = tx[u]
         /\ Committed(s) \/ UNCHANGED pg
<1>1. /\ TxOK /\ PgOK /\ tx[s] \in TxRecord /\ tx[s].rid \in Rid /\ tx[s].rows \in Rows0
      /\ tx[s].op \in {"CREATE", "UPDATE", "DELETE"} /\ tx[s].pc = "applied" /\ Shape(tx[s])
      /\ tx[s].key \in Key \cup {None} /\ tx[s].obj \in Obj \cup {None}
      /\ tx[s].at \in 1..MaxStamp
  BY SyncAssumption DEF TInv, TxOK, TxRecord, Shape, Commit, At
<1>2. TxOK' /\ tx'[s] = NoTx /\ \A u \in Session \ {s} : tx'[u] = tx[u]
  BY <1>1, CloseTyped DEF Commit, Rollback
<1>3. CASE Committed(s)
  <2>1. Record(s) \in RecordType
    BY <1>1, SyncAssumption DEF Record, RecordType
  <2>2. outbox' \in Seq(RecordType) /\ Len(outbox') <= MaxChanges
    <3> HIDE DEF Record
    <3> QED BY <1>1, <1>3, <2>1 DEF Committed, PgOK, NextChange
  <2>3. DOMAIN outbox \subseteq DOMAIN outbox'
    <3> HIDE DEF Record
    <3> QED BY <1>1, <1>3, <2>1 DEF Committed, PgOK
  <2>4. ASSUME NEW r \in Rid PROVE state'[r] \in RowType \cup {None}
    <3>1. CASE Wrote(s, r) /\ r = tx[s].rid /\ tx[s].op # "DELETE"
      <4>1. tx[s].rows[r] \in RowType /\ NextChange \in Nat
        BY <1>1, <3>1 DEF Shape, NextChange, PgOK
      <4>2. [tx[s].rows[r] EXCEPT !.val = NextChange] \in RowType
        BY <4>1 DEF RowType
      <4> QED BY <1>3, <3>1, <4>2 DEF Committed
    <3>2. CASE Wrote(s, r) /\ ~ (r = tx[s].rid /\ tx[s].op # "DELETE")
      BY <1>1, <1>3, <3>2, RowsRead DEF Committed, Wrote
    <3>3. CASE ~ Wrote(s, r)
      BY <1>1, <1>3, <3>3 DEF Committed, PgOK
    <3> QED BY <3>1, <3>2, <3>3
  <2>5. state' \in [Rid -> RowType \cup {None}]
    <3>1. \E f : state' = [r \in Rid |-> f[r]]
      <4> DEFINE f == [r \in Rid |->
                   IF ~ Wrote(s, r) THEN state[r]
                   ELSE IF r = tx[s].rid /\ tx[s].op # "DELETE"
                        THEN [tx[s].rows[r] EXCEPT !.val = NextChange]
                        ELSE tx[s].rows[r]]
      <4>1. state' = f
        BY <1>3 DEF Committed
      <4>2. f = [r \in Rid |-> f[r]]
        OBVIOUS
      <4> QED BY <4>1, <4>2
    <3> QED BY <2>4, <3>1
  <2>6. log' \subseteq Key
    BY <1>1, <1>3 DEF Committed, PgOK
  <2>7. PgOK'
    BY <2>2, <2>5, <2>6 DEF PgOK
  <2>8. ExecOK' /\ FlushOK'
    BY <2>3 DEF Commit, TInv, ExecOK, FlushOK, workers
  <2> QED BY <1>2, <1>3, <2>7, <2>8
<1>4. CASE UNCHANGED pg
  BY <1>2, <1>4, TypesKept DEF Commit, pg, workers
<1> QED BY <1>3, <1>4 DEF Commit, Committed

(* Records keep who they are about: the executor and the flush change only *)
(* their statuses.                                                         *)
Same(i) == /\ outbox'[i].rid = outbox[i].rid /\ outbox'[i].pk = outbox[i].pk
           /\ outbox'[i].op = outbox[i].op /\ outbox'[i].key = outbox[i].key
           /\ outbox'[i].at = outbox[i].at

Relabelled ==
  /\ outbox' \in Seq(RecordType) /\ DOMAIN outbox' = DOMAIN outbox
  /\ Len(outbox') = Len(outbox)
  /\ \A i \in DOMAIN outbox : Same(i)

LEMMA OneRelabelled ==
  ASSUME PgOK, NEW i \in DOMAIN outbox, NEW rec \in RecordType,
         rec.rid = outbox[i].rid, rec.pk = outbox[i].pk, rec.op = outbox[i].op,
         rec.key = outbox[i].key, rec.at = outbox[i].at,
         outbox' = [outbox EXCEPT ![i] = rec]
  PROVE  /\ Relabelled /\ outbox'[i] = rec
         /\ \A j \in DOMAIN outbox \ {i} : outbox'[j] = outbox[j]
<1>1. outbox \in Seq(RecordType)
  BY DEF PgOK
<1>2. outbox' \in Seq(RecordType) /\ Len(outbox') = Len(outbox)
  BY <1>1
<1> QED BY <1>1, <1>2 DEF Relabelled, Same

LEMMA MarkCompletedRelabels ==
  ASSUME TInv, MarkCompleted
  PROVE  /\ Relabelled /\ First \in DOMAIN outbox /\ First \in exec.todo
         /\ outbox'[First] = [outbox[First] EXCEPT !.index = "COMPLETED"]
         /\ \A j \in DOMAIN outbox \ {First} : outbox'[j] = outbox[j]
<1>1. First \in exec.todo /\ First \in DOMAIN outbox /\ outbox[First] \in RecordType
  BY FirstIsOldest DEF TInv, PgOK, MarkCompleted
<1> DEFINE rec == [outbox[First] EXCEPT !.index = "COMPLETED"]
<1>2. rec \in RecordType /\ rec.rid = outbox[First].rid /\ rec.pk = outbox[First].pk
      /\ rec.op = outbox[First].op /\ rec.key = outbox[First].key
      /\ rec.at = outbox[First].at
  <2> HIDE DEF First
  <2> QED BY <1>1 DEF RecordType
<1>3. outbox' = [outbox EXCEPT ![First] = rec]
  BY DEF MarkCompleted
<1> HIDE DEF rec
<1>4. /\ Relabelled /\ outbox'[First] = rec
      /\ \A j \in DOMAIN outbox \ {First} : outbox'[j] = outbox[j]
  BY <1>1, <1>2, <1>3, OneRelabelled DEF TInv
<1> QED BY <1>1, <1>4 DEF rec

LEMMA FailedTyped ==
  ASSUME NEW rec \in RecordType
  PROVE  /\ Failed(rec) \in RecordType
         /\ Failed(rec).rid = rec.rid /\ Failed(rec).pk = rec.pk
         /\ Failed(rec).op = rec.op /\ Failed(rec).key = rec.key
         /\ Failed(rec).at = rec.at
<1>1. CASE GivesUp(rec)
  BY <1>1 DEF RecordType, Failed
<1>2. CASE ~ GivesUp(rec)
  <2>1. rec.retries + 1 \in 0 .. (MaxRetries - 1)
    BY <1>2, SyncAssumption DEF GivesUp, RecordType
  <2> QED BY <1>2, <2>1 DEF RecordType, Failed
<1> QED BY <1>1, <1>2

LEMMA HandleFailureRelabels ==
  ASSUME TInv, HandleFailure
  PROVE  /\ Relabelled /\ First \in DOMAIN outbox /\ First \in exec.todo
         /\ outbox'[First] = Failed(outbox[First])
         /\ \A j \in DOMAIN outbox \ {First} : outbox'[j] = outbox[j]
<1>1. First \in exec.todo /\ First \in DOMAIN outbox /\ outbox[First] \in RecordType
  BY FirstIsOldest DEF TInv, PgOK, HandleFailure
<1> DEFINE rec == Failed(outbox[First])
<1>2. rec \in RecordType /\ rec.rid = outbox[First].rid /\ rec.pk = outbox[First].pk
      /\ rec.op = outbox[First].op /\ rec.key = outbox[First].key
      /\ rec.at = outbox[First].at
  <2> HIDE DEF First
  <2> QED BY <1>1, FailedTyped
<1>3. outbox' = [outbox EXCEPT ![First] = rec]
  BY DEF HandleFailure
<1> HIDE DEF rec
<1>4. /\ Relabelled /\ outbox'[First] = rec
      /\ \A j \in DOMAIN outbox \ {First} : outbox'[j] = outbox[j]
  BY <1>1, <1>2, <1>3, OneRelabelled DEF TInv
<1> QED BY <1>1, <1>4 DEF rec

LEMMA BackoffRelabels ==
  ASSUME TInv, NEW i \in DOMAIN outbox, BackoffEnds(i)
  PROVE  /\ Relabelled
         /\ outbox'[i] = [outbox[i] EXCEPT !.due = TRUE]
         /\ \A j \in DOMAIN outbox \ {i} : outbox'[j] = outbox[j]
<1>1. outbox[i] \in RecordType
  BY DEF TInv, PgOK
<1> DEFINE rec == [outbox[i] EXCEPT !.due = TRUE]
<1>2. rec \in RecordType /\ rec.rid = outbox[i].rid /\ rec.pk = outbox[i].pk
      /\ rec.op = outbox[i].op /\ rec.key = outbox[i].key /\ rec.at = outbox[i].at
  BY <1>1 DEF RecordType
<1>3. outbox' = [outbox EXCEPT ![i] = rec]
  BY DEF BackoffEnds
<1> HIDE DEF rec
<1>4. /\ Relabelled /\ outbox'[i] = rec
      /\ \A j \in DOMAIN outbox \ {i} : outbox'[j] = outbox[j]
  BY <1>2, <1>3, OneRelabelled DEF TInv
<1> QED BY <1>4 DEF rec

(* The mark of a batch leaves the INDEX side of every record alone.        *)
LEMMA MarkBatchRelabels ==
  ASSUME TInv, MarkBatch
  PROVE  /\ Relabelled
         /\ \A i \in DOMAIN outbox :
              /\ outbox'[i].index = outbox[i].index
              /\ outbox'[i].retries = outbox[i].retries /\ outbox'[i].due = outbox[i].due
<1>1. outbox \in Seq(RecordType)
  BY DEF TInv, PgOK
<1>2. ASSUME NEW i \in DOMAIN outbox
      PROVE  /\ outbox'[i] \in RecordType /\ Same(i) /\ outbox'[i].index = outbox[i].index
             /\ outbox'[i].retries = outbox[i].retries /\ outbox'[i].due = outbox[i].due
  <2>1. outbox[i] \in RecordType
    BY <1>1
  <2>2. CASE i \in flush.batch
    <3>1. outbox'[i] = [outbox[i] EXCEPT !.archive = "COMPLETED"]
      BY <2>2 DEF MarkBatch
    <3> QED BY <2>1, <3>1 DEF RecordType, Same
  <2>3. CASE i \notin flush.batch
    <3>1. outbox'[i] = outbox[i]
      BY <2>3 DEF MarkBatch
    <3> QED BY <2>1, <3>1 DEF Same
  <2> QED BY <2>2, <2>3
<1>3. outbox' = [i \in 1 .. Len(outbox) |-> outbox'[i]] /\ DOMAIN outbox = 1 .. Len(outbox)
  <2>1. DOMAIN outbox = 1 .. Len(outbox)
    BY <1>1
  <2>2. \E f : outbox' = [i \in DOMAIN outbox |-> f[i]]
    <3> DEFINE f == [i \in DOMAIN outbox |->
                 IF i \in flush.batch THEN [outbox[i] EXCEPT !.archive = "COMPLETED"]
                 ELSE outbox[i]]
    <3>1. outbox' = f
      BY DEF MarkBatch
    <3>2. f = [i \in DOMAIN outbox |-> f[i]]
      OBVIOUS
    <3> QED BY <3>1, <3>2
  <2> QED BY <2>1, <2>2
<1>4. outbox' \in Seq(RecordType) /\ Len(outbox') = Len(outbox)
  <2>1. Len(outbox) \in Nat
    BY <1>1
  <2>2. outbox' \in [1 .. Len(outbox) -> RecordType]
    BY <1>2, <1>3
  <2> QED BY <2>1, <2>2
<1> QED BY <1>2, <1>3, <1>4 DEF Relabelled

LEMMA RelabelledKeepsTypes ==
  ASSUME TInv, Relabelled, UNCHANGED <<state, log>>
  PROVE  PgOK' /\ (UNCHANGED exec => ExecOK') /\ (UNCHANGED flush => FlushOK')
BY DEF TInv, PgOK, ExecOK, FlushOK, Relabelled

(* The executor's steps.                                                   *)
LEMMA ExecuteTyped ==
  ASSUME TInv, Execute
  PROVE  IndexOK' /\ ExecOK' /\ index' = Indexed(First)
<1>1. /\ First \in DOMAIN outbox /\ index \in [Obj -> Vals \cup {None}]
      /\ outbox \in Seq(RecordType) /\ Len(outbox) <= MaxChanges
  BY FirstIsOldest DEF TInv, PgOK, IndexOK, Execute
<1>2. First \in Vals
  <2> HIDE DEF First
  <2> QED BY <1>1, SyncAssumption DEF Vals
<1>3. Indexed(First) \in [Obj -> Vals \cup {None}]
  <2> HIDE DEF First
  <2> QED BY <1>1, <1>2 DEF Indexed
<1>4. IndexOK'
  BY <1>3 DEF IndexOK, Execute
<1>5. ExecOK'
  BY DEF Execute, ExecOK, TInv, pg
<1> QED BY <1>4, <1>5 DEF Execute

LEMMA DoneTyped ==
  ASSUME TInv, Relabelled, First \in exec.todo, Done
  PROVE  ExecOK'
<1> HIDE DEF First
<1>1. /\ exec \in [todo : SUBSET DOMAIN outbox, applied : BOOLEAN, broken : BOOLEAN]
      /\ DOMAIN outbox' = DOMAIN outbox
  BY DEF TInv, ExecOK, Relabelled
<1>2. exec' \in [todo : SUBSET DOMAIN outbox, applied : BOOLEAN, broken : BOOLEAN]
  BY <1>1 DEF Done
<1> QED BY <1>1, <1>2 DEF ExecOK

LEMMA InitTyped == Init => TInv
<1> SUFFICES ASSUME Init PROVE TInv
  OBVIOUS
<1>1. PgOK
  BY SyncAssumption DEF Init, PgOK
<1>2. TxOK
  BY NoTxTyped DEF Init, TxOK
<1>3. ExecOK /\ FlushOK
  BY DEF Init, ExecOK, FlushOK, IdleExec, IdleFlush
<1>4. IndexOK
  BY SyncAssumption DEF Init, IndexOK, Vals
<1> QED BY <1>1, <1>2, <1>3, <1>4 DEF TInv

(* A step of a request that does not commit touches its transaction only.  *)
LEMMA RequestTyped ==
  ASSUME TInv, NEW s \in Session, ActionStep(s), ~ Commit(s)
  PROVE  TInv' /\ UNCHANGED <<pg, stores, workers>>
<1>1. TxOK' /\ UNCHANGED <<pg, stores, workers>>
  <2>1. CASE Begin(s)
    BY <2>1, BeginTyped DEF TInv, Begin
  <2>2. CASE \E o \in Obj : BuildCreate(s, o) \/ BuildModify(s, o) \/ BuildUpsert(s, o)
                            \/ BuildDelete(s, o)
    BY <2>2, BuildTyped DEF BuildCreate, BuildModify, BuildUpsert, BuildDelete
  <2>3. CASE Hydrate(s)
    BY <2>3, HydrateTyped DEF Hydrate
  <2>4. CASE Refuse(s)
    BY <2>4, RefuseTyped DEF TInv, Refuse
  <2>5. CASE Apply(s)
    BY <2>5, ApplyTyped DEF Apply
  <2>6. CASE Snapshot(s)
    BY <2>6, SnapshotTyped DEF Snapshot
  <2>7. CASE SelectRow(s)
    BY <2>7, SelectRowTyped DEF SelectRow
  <2>8. CASE DeleteRow(s)
    BY <2>8, DeleteRowTyped DEF DeleteRow
  <2>9. CASE Stamp(s)
    BY <2>9, StampTyped DEF Stamp
  <2> QED BY <2>1, <2>2, <2>3, <2>4, <2>5, <2>6, <2>7, <2>8, <2>9 DEF ActionStep
<1> QED BY <1>1, TypesKept DEF TInv, pg, stores, workers

(* The background loops leave transactions, rows and log alone, and who    *)
(* each record is about.                                                   *)
LoopStep == ExecutorStep \/ (\E i \in DOMAIN outbox : BackoffEnds(i)) \/ FlushStep

LEMMA LoopTyped ==
  ASSUME TInv, LoopStep
  PROVE  TInv' /\ UNCHANGED <<state, log, tx>> /\ Relabelled
<1>0. UNCHANGED outbox => Relabelled
  BY DEF TInv, PgOK, Relabelled, Same
<1>1. CASE Fetch
  <2>1. ExecOK'
    BY <1>1 DEF TInv, Fetch, ExecOK, Fetchable, pg
  <2> QED BY <1>0, <1>1, <2>1, TypesKept DEF Fetch, TInv, pg, stores, FlushOK
<1>2. CASE Execute
  BY <1>0, <1>2, ExecuteTyped, TypesKept DEF Execute, TInv, pg, FlushOK
<1>3. CASE MarkCompleted
  <2>1. Relabelled /\ First \in exec.todo /\ Done /\ UNCHANGED <<state, log, tx, stores, flush>>
    BY <1>3, MarkCompletedRelabels DEF MarkCompleted
  <2> QED BY <2>1, DoneTyped, RelabelledKeepsTypes, TypesKept DEF TInv
<1>4. CASE HandleFailure
  <2>1. Relabelled /\ First \in exec.todo /\ Done /\ UNCHANGED <<state, log, tx, stores, flush>>
    BY <1>4, HandleFailureRelabels DEF HandleFailure
  <2> QED BY <2>1, DoneTyped, RelabelledKeepsTypes, TypesKept DEF TInv
<1>5. ASSUME NEW i \in DOMAIN outbox, BackoffEnds(i)
      PROVE  TInv' /\ UNCHANGED <<state, log, tx>> /\ Relabelled
  <2>1. Relabelled /\ UNCHANGED <<state, log, tx, stores, exec, flush>>
    BY <1>5, BackoffRelabels DEF BackoffEnds, workers
  <2> QED BY <2>1, RelabelledKeepsTypes, TypesKept DEF TInv
<1>6. CASE Claim
  <2>1. FlushOK'
    BY <1>6 DEF Claim, FlushOK, pg
  <2> QED BY <1>0, <1>6, <2>1, TypesKept DEF Claim, TInv, pg, stores, ExecOK
<1>7. CASE MergeUpserts
  <2>1. FlushOK' /\ IndexOK' /\ ExecOK'
    BY <1>7 DEF MergeUpserts, FlushOK, IndexOK, ExecOK, TInv, pg
  <2> QED BY <1>0, <1>7, <2>1, TypesKept DEF MergeUpserts, TInv, pg
<1>8. CASE MergeDeletes
  <2>1. FlushOK' /\ IndexOK' /\ ExecOK'
    BY <1>8 DEF MergeDeletes, FlushOK, IndexOK, ExecOK, TInv, pg
  <2> QED BY <1>0, <1>8, <2>1, TypesKept DEF MergeDeletes, TInv, pg
<1>9. CASE MarkBatch
  <2>1. Relabelled /\ UNCHANGED <<state, log, tx, stores, exec>>
    BY <1>9, MarkBatchRelabels DEF MarkBatch
  <2>2. FlushOK'
    BY <1>9 DEF MarkBatch, FlushOK, IdleFlush
  <2> QED BY <2>1, <2>2, RelabelledKeepsTypes, TypesKept DEF TInv
<1>10. CASE FlushFails
  <2>1. FlushOK'
    BY <1>10 DEF FlushFails, FlushOK, IdleFlush
  <2> QED BY <1>0, <1>10, <2>1, TypesKept DEF FlushFails, TInv, pg, stores, ExecOK
<1>11. CASE SessionBreaks
  <2>1. ExecOK'
    BY <1>11 DEF SessionBreaks, ExecOK, IdleExec
  <2> QED BY <1>0, <1>11, <2>1, TypesKept DEF SessionBreaks, TInv, pg, stores, FlushOK
<1> QED BY <1>1, <1>2, <1>3, <1>4, <1>5, <1>6, <1>7, <1>8, <1>9, <1>10, <1>11
        DEF LoopStep, ExecutorStep, FlushStep

LEMMA CrashTyped == ASSUME TInv, Crash PROVE TInv' /\ UNCHANGED <<pg, stores>>
<1>1. TxOK'
  BY NoTxTyped DEF Crash, TxOK
<1>2. ExecOK' /\ FlushOK'
  BY DEF Crash, ExecOK, FlushOK, IdleExec, IdleFlush
<1> QED BY <1>1, <1>2, TypesKept DEF Crash, TInv

LEMMA NextTyped == TInv /\ [Next]_vars => TInv'
<1> SUFFICES ASSUME TInv, [Next]_vars PROVE TInv'
  OBVIOUS
<1>1. ASSUME NEW s \in Session, ActionStep(s) PROVE TInv'
  <2>1. CASE Commit(s)
    BY <2>1, CommitTyped, TypesKept DEF TInv, Commit
  <2> QED BY <1>1, <2>1, RequestTyped
<1>2. CASE LoopStep
  BY <1>2, LoopTyped
<1>3. CASE Crash
  BY <1>3, CrashTyped
<1>4. CASE UNCHANGED vars
  BY <1>4, TypesKept DEF vars, workers, pg, TInv
<1> QED BY <1>1, <1>2, <1>3, <1>4 DEF Next, LoopStep

LEMMA TypesHold == Spec => []TInv
BY InitTyped, NextTyped, PTL DEF Spec

(***************************************************************************)
(* Idempotency                                                             *)
(***************************************************************************)

(* Every key a change carries is in the execution log.                     *)
LogKnows == \A i \in DOMAIN outbox : outbox[i].key # None => outbox[i].key \in log

LEMMA KeysInit == Init => LogKnows /\ KeyAppliedOnce
BY DEF Init, LogKnows, KeyAppliedOnce

LEMMA KeysNext ==
  ASSUME TInv, LogKnows, KeyAppliedOnce, [Next]_vars
  PROVE  LogKnows' /\ KeyAppliedOnce'
<1>0. UNCHANGED pg => LogKnows' /\ KeyAppliedOnce'
  BY DEF pg, LogKnows, KeyAppliedOnce
<1>1. ASSUME NEW s \in Session, Commit(s) PROVE LogKnows' /\ KeyAppliedOnce'
  <2>1. CASE Committed(s)
    <3>1. /\ outbox' = Append(outbox, Record(s)) /\ log' = log \cup ({tx[s].key} \ {None})
          /\ Record(s).key = tx[s].key /\ outbox \in Seq(RecordType)
          /\ tx[s].key = None \/ tx[s].key \notin log
      BY <2>1 DEF Committed, Unlogged, Record, TInv, PgOK
    <3> DEFINE n == Len(outbox) + 1
    <3>2. /\ DOMAIN outbox' = DOMAIN outbox \cup {n} /\ outbox'[n] = Record(s)
          /\ n \notin DOMAIN outbox
          /\ \A i \in DOMAIN outbox : outbox'[i] = outbox[i]
      <4> HIDE DEF Record
      <4> QED BY <3>1
    <3>3. LogKnows'
      BY <3>1, <3>2 DEF LogKnows
    <3>4. KeyAppliedOnce'
      <4> HIDE DEF n
      <4> QED BY <3>1, <3>2 DEF LogKnows, KeyAppliedOnce
    <3> QED BY <3>3, <3>4
  <2> QED BY <1>0, <1>1, <2>1, CommitTyped
<1>2. ASSUME NEW s \in Session, ActionStep(s), ~ Commit(s) PROVE LogKnows' /\ KeyAppliedOnce'
  BY <1>0, <1>2, RequestTyped
<1>3. CASE LoopStep
  BY <1>3, LoopTyped DEF Relabelled, Same, LogKnows, KeyAppliedOnce
<1>4. CASE Crash
  BY <1>0, <1>4, CrashTyped
<1>5. CASE UNCHANGED vars
  BY <1>0, <1>5 DEF vars
<1> QED BY <1>1, <1>2, <1>3, <1>4, <1>5 DEF Next, LoopStep

(* However many requests carry a key and however they interleave, crash or *)
(* are repeated, its change is committed at most once: execute_action's    *)
(* unique idempotency key, for any number of requests and of keys.         *)
THEOREM KeysApplyOnce == Spec => []KeyAppliedOnce
<1>1. TInv /\ LogKnows /\ KeyAppliedOnce /\ TInv' /\ [Next]_vars
      => LogKnows' /\ KeyAppliedOnce'
  BY KeysNext
<1> QED BY KeysInit, TypesHold, <1>1, PTL DEF Spec

(***************************************************************************)
(* The order of the INDEX records                                          *)
(***************************************************************************)
Calm(o) == /\ InStampOrder(o)
           /\ \A i \in Of(o) : outbox[i].retries = 0 /\ outbox[i].index # "DLQ"

(* The executor holds records that wait, and one is under way only when it *)
(* holds some.  A record that is not due has failed before.                *)
TodoWaits == /\ \A i \in exec.todo : outbox[i].index = "PENDING"
             /\ exec.applied => exec.todo # {}
Retried   == \A i \in DOMAIN outbox : ~ outbox[i].due => outbox[i].retries # 0

(* It holds the oldest of those that wait.                                 *)
Prefix(o)  == \A i \in exec.todo \cap Of(o), j \in Waiting(o) : j < i => j \in exec.todo
UnderWay(o) == exec.applied /\ First \in Of(o) => index[o] = Effect(First)
Ordered(o) == \A i \in Past(o), j \in Waiting(o) : i < j
RowIsLast(o) ==
  Past(o) # {} =>
    \/ index[o] = Effect(Newest(Past(o)))
    \/ \E j \in Waiting(o) : index[o] = Effect(j) /\ \A i \in Waiting(o) : j <= i

InOrder(o) == Calm(o) => Prefix(o) /\ UnderWay(o) /\ Ordered(o) /\ RowIsLast(o)

OrderInv == TodoWaits /\ Retried /\ \A o \in Obj : InOrder(o)

LEMMA OrderImplies == OrderInv => IndexInOrder
BY DEF OrderInv, InOrder, IndexInOrder, Ordered, RowIsLast, Calm

LEMMA OrderInit == Init => OrderInv
BY DEF Init, OrderInv, TodoWaits, Retried, InOrder, Prefix, UnderWay, Ordered, RowIsLast,
       Past, Waiting, Of, IdleExec

(* What the INDEX side of the outbox shows of an object.                   *)
SameView ==
  /\ DOMAIN outbox' = DOMAIN outbox
  /\ \A i \in DOMAIN outbox :
       /\ outbox'[i].pk = outbox[i].pk /\ outbox'[i].op = outbox[i].op
       /\ outbox'[i].index = outbox[i].index /\ outbox'[i].retries = outbox[i].retries
       /\ outbox'[i].at = outbox[i].at

LEMMA ViewKept ==
  ASSUME SameView, NEW o
  PROVE  /\ Of(o)' = Of(o) /\ Waiting(o)' = Waiting(o) /\ Past(o)' = Past(o)
         /\ Calm(o)' <=> Calm(o)
         /\ \A i : i \in DOMAIN outbox => Effect(i)' = Effect(i)
<1>1. Of(o)' = Of(o)
  BY DEF SameView, Of
<1>2. Of(o) \subseteq DOMAIN outbox
  BY DEF Of
<1>3. Waiting(o)' = Waiting(o) /\ Past(o)' = Past(o)
  BY <1>1, <1>2 DEF SameView, Waiting, Past
<1>4. Calm(o)' <=> Calm(o)
  BY <1>1, <1>2 DEF SameView, Calm, InStampOrder
<1>5. \A i : i \in DOMAIN outbox => Effect(i)' = Effect(i)
  BY DEF SameView, Effect
<1> QED BY <1>1, <1>3, <1>4, <1>5

(* The newest of a set of records is one of them.                          *)
LEMMA NewestIsNewest ==
  ASSUME PgOK, NEW S \in SUBSET DOMAIN outbox, S # {}
  PROVE  Newest(S) \in S /\ \A j \in S : j <= Newest(S)
<1>1. Len(outbox) \in Nat /\ S \in SUBSET (1 .. Len(outbox))
  BY DEF PgOK
<1> QED BY <1>1, GreatestNumber

(* The next record stays the next while the executor holds the same ones.  *)
LEMMA FirstKept ==
  ASSUME exec'.todo = exec.todo, \A i \in exec.todo : outbox'[i].at = outbox[i].at
  PROVE  First' = First
<1>1. Created' = Created
  BY DEF Created
<1> QED BY <1>1 DEF First

(* Steps that leave the INDEX side as it is: requests, flushes, backoffs.  *)
LEMMA OrderKept ==
  ASSUME TInv, OrderInv, SameView, Retried', UNCHANGED index,
         exec' = exec \/ (exec'.todo = {} /\ exec'.applied = FALSE)
  PROVE  OrderInv'
<1>1. TodoWaits'
  BY DEF OrderInv, TodoWaits, SameView, TInv, ExecOK
<1>2. ASSUME NEW o \in Obj, Calm(o)'
      PROVE  Prefix(o)' /\ UnderWay(o)' /\ Ordered(o)' /\ RowIsLast(o)'
  <2>1. Prefix(o) /\ UnderWay(o) /\ Ordered(o) /\ RowIsLast(o)
    BY <1>2, ViewKept DEF OrderInv, InOrder
  <2>2. Of(o) \subseteq DOMAIN outbox /\ Past(o) \subseteq Of(o) /\ Waiting(o) \subseteq Of(o)
    BY DEF Of, Past, Waiting
  <2>3. /\ Of(o)' = Of(o) /\ Waiting(o)' = Waiting(o) /\ Past(o)' = Past(o)
        /\ \A i : i \in DOMAIN outbox => Effect(i)' = Effect(i)
    BY ViewKept
  <2>4. Prefix(o)' /\ Ordered(o)'
    BY <2>1, <2>3 DEF Prefix, Ordered
  <2>5. UnderWay(o)'
    <3>1. CASE exec' = exec
      <4>1. First' = First
        <5>1. exec.todo \subseteq DOMAIN outbox
          BY DEF TInv, ExecOK
        <5> QED BY <3>1, <5>1, FirstKept DEF SameView
      <4> HIDE DEF First
      <4> QED BY <2>1, <2>2, <2>3, <3>1, <4>1 DEF UnderWay
    <3>2. CASE exec'.todo = {} /\ exec'.applied = FALSE
      BY <3>2 DEF UnderWay
    <3> QED BY <3>1, <3>2
  <2>6. RowIsLast(o)'
    <3>1. Past(o) # {} => Newest(Past(o)) \in DOMAIN outbox
      <4>1. PgOK /\ Past(o) \in SUBSET DOMAIN outbox
        BY <2>2 DEF TInv
      <4> HIDE DEF Newest
      <4> QED BY <2>2, <4>1, NewestIsNewest
    <3>2. Newest(Past(o))' = Newest(Past(o))
      BY <2>3 DEF Newest
    <3> HIDE DEF Newest
    <3> QED BY <2>1, <2>2, <2>3, <3>1, <3>2 DEF RowIsLast
  <2> QED BY <2>4, <2>5, <2>6
<1> QED BY <1>1, <1>2 DEF OrderInv, InOrder

(* A commit puts a record that waits behind the others.                    *)
LEMMA OrderCommit ==
  ASSUME TInv, OrderInv, NEW s \in Session, Commit(s), Committed(s)
  PROVE  OrderInv'
<1> DEFINE n == Len(outbox) + 1
<1>1. /\ outbox \in Seq(RecordType) /\ outbox' = Append(outbox, Record(s))
      /\ UNCHANGED <<exec, index>> /\ PgOK /\ exec.todo \subseteq DOMAIN outbox
  BY DEF TInv, PgOK, ExecOK, Committed, Commit, stores, workers
<1>2. /\ Record(s).index = "PENDING" /\ Record(s).retries = 0 /\ Record(s).due = TRUE
  BY DEF Record
<1>3. /\ DOMAIN outbox' = DOMAIN outbox \cup {n} /\ outbox'[n] = Record(s)
      /\ n \notin DOMAIN outbox /\ \A i \in DOMAIN outbox : i < n /\ i \in Nat
      /\ n \in Nat
      /\ \A i \in DOMAIN outbox : outbox'[i] = outbox[i]
  <2> HIDE DEF Record
  <2> QED BY <1>1
<1> HIDE DEF n
<1>4. TodoWaits' /\ Retried'
  <2> HIDE DEF Record
  <2> QED BY <1>1, <1>2, <1>3 DEF OrderInv, TodoWaits, Retried
<1>5. ASSUME NEW o \in Obj, Calm(o)'
      PROVE  Prefix(o)' /\ UnderWay(o)' /\ Ordered(o)' /\ RowIsLast(o)'
  <2> HIDE DEF Record
  <2>1. /\ Of(o) \subseteq Of(o)' /\ Of(o)' \subseteq Of(o) \cup {n}
        /\ Of(o)' \cap DOMAIN outbox = Of(o) /\ Of(o) \subseteq DOMAIN outbox
    BY <1>3 DEF Of
  <2>2. Past(o)' = Past(o) /\ Past(o) \subseteq DOMAIN outbox
    BY <1>2, <1>3, <2>1 DEF Past
  <2>3. /\ Waiting(o) \subseteq Waiting(o)' /\ Waiting(o)' \subseteq Waiting(o) \cup {n}
        /\ Waiting(o) \subseteq DOMAIN outbox
    BY <1>3, <2>1 DEF Waiting
  <2>4. Prefix(o) /\ UnderWay(o) /\ Ordered(o) /\ RowIsLast(o)
    <3>1. Calm(o)
      BY <1>3, <1>5, <2>1 DEF Calm, InStampOrder
    <3> QED BY <3>1 DEF OrderInv, InOrder
  <2>5. \A i : i \in DOMAIN outbox => Effect(i)' = Effect(i)
    BY <1>3 DEF Effect
  <2>6. Prefix(o)'
    <3> SUFFICES ASSUME NEW i \in exec.todo \cap Of(o)', NEW j \in Waiting(o)', j < i
                 PROVE  j \in exec.todo
      BY <1>1 DEF Prefix
    <3>1. i \in Of(o) /\ i \in DOMAIN outbox
      BY <1>1, <2>1
    <3>2. j # n
      BY <1>3, <3>1
    <3> QED BY <2>3, <2>4, <3>1, <3>2 DEF Prefix
  <2>7. UnderWay(o)'
    <3>1. First' = First
      BY <1>1, <1>3, FirstKept
    <3>2. exec.applied => First \in DOMAIN outbox
      BY <1>1, FirstIsOldest DEF OrderInv, TodoWaits, TInv
    <3> HIDE DEF First
    <3> QED BY <1>1, <2>1, <2>4, <2>5, <3>1, <3>2 DEF UnderWay
  <2>8. Ordered(o)'
    <3> SUFFICES ASSUME NEW i \in Past(o), NEW j \in Waiting(o)' PROVE i < j
      BY <2>2 DEF Ordered
    <3>1. CASE j = n
      BY <1>3, <2>2, <3>1
    <3>2. CASE j # n
      BY <2>3, <2>4, <3>2 DEF Ordered
    <3> QED BY <3>1, <3>2
  <2>9. RowIsLast(o)'
    <3> SUFFICES ASSUME Past(o) # {}
                 PROVE  \/ index[o] = Effect(Newest(Past(o)))'
                        \/ \E j \in Waiting(o)' : index[o] = Effect(j)'
                                                  /\ \A i \in Waiting(o)' : j <= i
      BY <1>1, <2>2 DEF RowIsLast
    <3>1. Newest(Past(o)) \in DOMAIN outbox
      <4>1. Past(o) \in SUBSET DOMAIN outbox
        BY <2>2
      <4> HIDE DEF Newest
      <4> QED BY <1>1, <2>2, <4>1, NewestIsNewest
    <3>2. Newest(Past(o))' = Newest(Past(o))
      BY <2>2 DEF Newest
    <3> HIDE DEF Newest
    <3>3. CASE index[o] = Effect(Newest(Past(o)))
      <4>1. \A i : i = Newest(Past(o)) => Effect(i)' = Effect(i)
        BY <2>5, <3>1
      <4> QED BY <3>2, <3>3, <4>1
    <3>4. ASSUME NEW j \in Waiting(o), index[o] = Effect(j), \A i \in Waiting(o) : j <= i
          PROVE  /\ j \in Waiting(o)' /\ index[o] = Effect(j)'
                 /\ \A i \in Waiting(o)' : j <= i
      BY <1>3, <2>3, <2>5, <3>4
    <3> QED BY <2>4, <3>3, <3>4 DEF RowIsLast
  <2> QED BY <2>6, <2>7, <2>8, <2>9
<1> QED BY <1>4, <1>5 DEF OrderInv, InOrder

LEMMA OrderFetch == ASSUME TInv, OrderInv, Fetch PROVE OrderInv'
<1>1. /\ UNCHANGED <<outbox, index>> /\ exec'.todo = Fetchable /\ exec'.applied = FALSE
      /\ exec.todo = {}
  BY DEF Fetch, pg, stores, TInv, ExecOK, OrderInv, TodoWaits
<1>2. TodoWaits' /\ Retried'
  BY <1>1 DEF OrderInv, TodoWaits, Retried, Fetchable
<1>3. ASSUME NEW o \in Obj, Calm(o)'
      PROVE  Prefix(o)' /\ UnderWay(o)' /\ Ordered(o)' /\ RowIsLast(o)'
  <2>1. /\ Of(o)' = Of(o) /\ Waiting(o)' = Waiting(o) /\ Past(o)' = Past(o)
        /\ Calm(o) /\ \A i : Effect(i)' = Effect(i)
    BY <1>1, <1>3 DEF Of, Waiting, Past, Calm, InStampOrder, Effect
  <2>2. Prefix(o) /\ UnderWay(o) /\ Ordered(o) /\ RowIsLast(o)
    BY <2>1 DEF OrderInv, InOrder
  <2>3. Waiting(o) \subseteq Fetchable
    BY <2>1 DEF Waiting, Of, Calm, OrderInv, Retried, Fetchable
  <2>4. Prefix(o)'
    BY <1>1, <2>1, <2>3 DEF Prefix
  <2>5. UnderWay(o)' /\ Ordered(o)'
    BY <1>1, <2>1, <2>2 DEF UnderWay, Ordered
  <2>6. RowIsLast(o)'
    <3>1. Newest(Past(o))' = Newest(Past(o))
      BY <2>1 DEF Newest
    <3> HIDE DEF Newest
    <3> QED BY <1>1, <2>1, <2>2, <3>1 DEF RowIsLast
  <2> QED BY <2>4, <2>5, <2>6
<1> QED BY <1>2, <1>3 DEF OrderInv, InOrder

(* Every stamp in use is a number, and among Stamps.                       *)
LEMMA StampsUsed ==
  ASSUME TInv
  PROVE  /\ \A i \in DOMAIN outbox : outbox[i].at \in Nat \ {0} /\ outbox[i].at \in Stamps
         /\ \A u \in Session : tx[u].at \in Nat /\ tx[u].at \in Stamps
<1>1. \A i \in DOMAIN outbox : outbox[i] \in RecordType
  BY DEF TInv, PgOK
<1>2. \A u \in Session : tx[u] \in TxRecord
  BY DEF TInv, TxOK
<1> QED BY <1>1, <1>2, SyncAssumption DEF RecordType, TxRecord, Stamps

(* The first of the records held is the oldest of its object that waits.   *)
LEMMA FirstWaits ==
  ASSUME TInv, OrderInv, NEW o \in Obj, exec.todo # {}, First \in Of(o), Prefix(o),
         InStampOrder(o)
  PROVE  First \in Waiting(o) /\ \A i \in Waiting(o) : First <= i
<1>1. First \in exec.todo /\ \A j \in exec.todo : outbox[First].at <= outbox[j].at
  BY FirstIsOldest DEF TInv
<1>2. /\ Waiting(o) \subseteq Of(o) /\ Of(o) \subseteq Nat
      /\ \A i \in Of(o) : outbox[i].at \in Nat
  <2>1. \A i \in DOMAIN outbox : outbox[i].at \in Nat
    BY StampsUsed
  <2>2. DOMAIN outbox \subseteq Nat
    BY DEF TInv, PgOK
  <2> QED BY <2>1, <2>2 DEF Waiting, Of
<1> HIDE DEF First
<1>3. First \in Waiting(o)
  BY <1>1 DEF OrderInv, TodoWaits, Waiting
<1>4. ASSUME NEW i \in Waiting(o), i < First PROVE FALSE
  <2>1. i \in exec.todo
    BY <1>1, <1>4 DEF Prefix
  <2>2. outbox[First].at <= outbox[i].at /\ outbox[i].at < outbox[First].at
    BY <1>1, <1>2, <1>4, <2>1 DEF InStampOrder
  <2>3. outbox[First].at \in Nat /\ outbox[i].at \in Nat
    BY <1>2
  <2> QED BY <2>2, <2>3
<1>5. First \in Nat
  BY <1>2
<1> QED BY <1>2, <1>3, <1>4, <1>5

LEMMA OrderExecute == ASSUME TInv, OrderInv, Execute PROVE OrderInv'
<1>1. /\ UNCHANGED outbox /\ exec'.todo = exec.todo /\ exec'.applied = TRUE
      /\ exec.todo # {} /\ index' = Indexed(First) /\ ExecOK /\ PgOK
  BY DEF Execute, pg, TInv, ExecOK
<1>2. TodoWaits' /\ Retried'
  BY <1>1 DEF OrderInv, TodoWaits, Retried
<1>3. First' = First
  BY <1>1, FirstKept
<1>4. ASSUME NEW o \in Obj, Calm(o)'
      PROVE  Prefix(o)' /\ UnderWay(o)' /\ Ordered(o)' /\ RowIsLast(o)'
  <2>1. /\ Of(o)' = Of(o) /\ Waiting(o)' = Waiting(o) /\ Past(o)' = Past(o)
        /\ Calm(o) /\ \A i : Effect(i)' = Effect(i)
    BY <1>1, <1>4 DEF Of, Waiting, Past, Calm, InStampOrder, Effect
  <2>2. Prefix(o) /\ Ordered(o) /\ RowIsLast(o)
    BY <2>1 DEF OrderInv, InOrder
  <2>3. Prefix(o)' /\ Ordered(o)'
    BY <1>1, <2>1, <2>2 DEF Prefix, Ordered
  <2>4. CASE First \in Of(o)
    <3>1. index'[o] = Effect(First)
      <4>1. outbox[First].pk = o
        BY <2>4 DEF Of
      <4> HIDE DEF First
      <4> QED BY <1>1, <4>1 DEF Indexed, Effect
    <3>2. UnderWay(o)'
      <4> HIDE DEF First
      <4> QED BY <1>3, <2>1, <3>1 DEF UnderWay
    <3>3. First \in Waiting(o) /\ \A i \in Waiting(o) : First <= i
      BY <1>1, <2>1, <2>2, <2>4, FirstWaits DEF Calm
    <3>4. RowIsLast(o)'
      <4> HIDE DEF First
      <4> QED BY <2>1, <3>1, <3>3 DEF RowIsLast
    <3> QED BY <2>3, <3>2, <3>4
  <2>5. CASE First \notin Of(o)
    <3>1. First \in DOMAIN outbox
      BY <1>1, FirstIsOldest
    <3>2. index'[o] = index[o]
      <4> HIDE DEF First
      <4> QED BY <1>1, <2>5, <3>1 DEF Indexed, Of
    <3>3. UnderWay(o)'
      <4> HIDE DEF First
      <4> QED BY <1>3, <2>1, <2>5 DEF UnderWay
    <3>4. RowIsLast(o)'
      <4>1. Newest(Past(o))' = Newest(Past(o))
        BY <2>1 DEF Newest
      <4> HIDE DEF Newest
      <4> QED BY <2>1, <2>2, <3>2, <4>1 DEF RowIsLast
    <3> QED BY <2>3, <3>3, <3>4
  <2> QED BY <2>4, <2>5
<1> QED BY <1>2, <1>4 DEF OrderInv, InOrder

LEMMA OrderMark == ASSUME TInv, OrderInv, MarkCompleted PROVE OrderInv'
<1>1. /\ UNCHANGED index /\ exec'.todo = exec.todo \ {First} /\ exec'.applied = FALSE
      /\ exec.todo # {} /\ exec.applied /\ ExecOK /\ PgOK
  BY DEF MarkCompleted, Done, TInv, stores
<1>2. /\ Relabelled /\ First \in DOMAIN outbox /\ First \in exec.todo
      /\ outbox'[First].index = "COMPLETED" /\ outbox'[First].retries = outbox[First].retries
      /\ outbox'[First].due = outbox[First].due
      /\ \A j \in DOMAIN outbox \ {First} : outbox'[j] = outbox[j]
  <2>1. outbox[First] \in RecordType
    BY MarkCompletedRelabels DEF TInv, PgOK
  <2> QED BY <2>1, MarkCompletedRelabels DEF RecordType
<1>3. exec.todo \subseteq DOMAIN outbox /\ DOMAIN outbox' = DOMAIN outbox
  BY <1>1, <1>2 DEF ExecOK, Relabelled
<1> HIDE DEF First
<1>4. TodoWaits' /\ Retried'
  BY <1>1, <1>2, <1>3 DEF OrderInv, TodoWaits, Retried
<1>5. ASSUME NEW o \in Obj, Calm(o)'
      PROVE  Prefix(o)' /\ UnderWay(o)' /\ Ordered(o)' /\ RowIsLast(o)'
  <2>1. Of(o)' = Of(o) /\ Of(o) \subseteq DOMAIN outbox
    BY <1>2, <1>3 DEF Of, Relabelled, Same
  <2>2. Waiting(o)' = Waiting(o) \ {First} /\ Waiting(o) \subseteq Of(o)
    BY <1>2, <2>1 DEF Waiting
  <2>3. /\ Past(o)' = Past(o) \cup (IF First \in Of(o) THEN {First} ELSE {})
        /\ Past(o) \subseteq Of(o)
    BY <1>2, <2>1 DEF Past
  <2>4. Calm(o)
    <3>1. outbox[First].index # "DLQ"
      BY <1>2 DEF OrderInv, TodoWaits
    <3>2. \A i \in DOMAIN outbox : outbox'[i].at = outbox[i].at
      BY <1>2 DEF Relabelled, Same
    <3> QED BY <1>2, <1>5, <2>1, <3>1, <3>2 DEF Calm, InStampOrder
  <2>5. Prefix(o) /\ UnderWay(o) /\ Ordered(o) /\ RowIsLast(o)
    BY <2>4 DEF OrderInv, InOrder
  <2>6. \A i : i \in DOMAIN outbox => Effect(i)' = Effect(i)
    BY <1>2, <1>3 DEF Effect, Relabelled, Same
  <2>7. Prefix(o)' /\ UnderWay(o)'
    BY <1>1, <2>1, <2>2, <2>5 DEF Prefix, UnderWay
  <2>8. CASE First \in Of(o)
    <3>1. First \in Waiting(o) /\ \A i \in Waiting(o) : First <= i
      BY <1>1, <2>4, <2>5, <2>8, FirstWaits DEF Calm
    <3>2. Of(o) \subseteq Nat
      BY <2>1 DEF TInv, PgOK
    <3>3. Ordered(o)'
      <4> SUFFICES ASSUME NEW i \in Past(o) \cup {First}, NEW j \in Waiting(o), j # First
                   PROVE  i < j
        BY <2>2, <2>3, <2>8 DEF Ordered
      <4>1. CASE i = First
        BY <2>2, <3>1, <3>2, <4>1
      <4>2. CASE i # First
        BY <2>5, <4>2 DEF Ordered
      <4> QED BY <4>1, <4>2
    <3>4. index'[o] = IF outbox'[First].op = "DELETE" THEN None ELSE First
      BY <1>1, <1>2, <2>5, <2>8 DEF UnderWay, Effect, Relabelled, Same
    <3>5. \A p : p = Past(o)' => Newest(p) = First
      <4> SUFFICES Newest(Past(o) \cup {First}) = First
        BY <2>3, <2>8
      <4>1. ASSUME NEW i \in Past(o) \cup {First} PROVE i <= First
        BY <2>3, <2>5, <3>1, <3>2, <2>8 DEF Ordered
      <4>2. ASSUME NEW m \in Past(o) \cup {First}, \A i \in Past(o) \cup {First} : i <= m
            PROVE  m = First
        BY <2>3, <2>8, <3>2, <4>1, <4>2
      <4> QED BY <4>1, <4>2 DEF Newest
    <3>6. Newest(Past(o))' = First
      <4>1. Newest(Past(o))' = Newest(Past(o)')
        BY DEF Newest
      <4> QED BY <3>5, <4>1
    <3>7. RowIsLast(o)'
      <4> HIDE DEF Newest
      <4> QED BY <3>4, <3>6 DEF RowIsLast, Effect
    <3> QED BY <2>7, <3>3, <3>7
  <2>9. CASE First \notin Of(o)
    <3>1. Waiting(o)' = Waiting(o) /\ Past(o)' = Past(o)
      BY <2>2, <2>3, <2>9
    <3>2. Ordered(o)'
      BY <2>5, <3>1 DEF Ordered
    <3>3. Newest(Past(o))' = Newest(Past(o))
      BY <3>1 DEF Newest
    <3>4. Past(o) # {} => Newest(Past(o)) \in DOMAIN outbox
      <4>1. Past(o) \in SUBSET DOMAIN outbox
        BY <2>1, <2>3
      <4> HIDE DEF Newest
      <4> QED BY <1>1, <2>1, <2>3, <4>1, NewestIsNewest
    <3>5. RowIsLast(o)'
      <4> HIDE DEF Newest
      <4> QED BY <1>1, <2>1, <2>2, <2>5, <2>6, <3>1, <3>3, <3>4 DEF RowIsLast
    <3> QED BY <2>7, <3>2, <3>5
  <2> QED BY <2>8, <2>9
<1> QED BY <1>4, <1>5 DEF OrderInv, InOrder

(* A failed call ends what is promised of its object, and of no other.     *)
LEMMA OrderFailure == ASSUME TInv, OrderInv, HandleFailure PROVE OrderInv'
<1>1. /\ UNCHANGED index /\ exec'.todo = exec.todo \ {First} /\ exec'.applied = FALSE
      /\ exec.todo # {} /\ ExecOK /\ PgOK
  BY DEF HandleFailure, Done, TInv, stores
<1>2. /\ Relabelled /\ First \in DOMAIN outbox /\ First \in exec.todo
      /\ outbox'[First].index = "DLQ" \/ outbox'[First].retries # 0
      /\ ~ outbox'[First].due => outbox'[First].retries # 0
      /\ \A j \in DOMAIN outbox \ {First} : outbox'[j] = outbox[j]
  <2>1. outbox[First] \in RecordType /\ outbox'[First] = Failed(outbox[First])
    BY HandleFailureRelabels DEF TInv, PgOK
  <2>2. ~ outbox[First].due => outbox[First].retries # 0
    BY HandleFailureRelabels DEF OrderInv, Retried
  <2>3. Relabelled /\ First \in DOMAIN outbox /\ First \in exec.todo
        /\ \A j \in DOMAIN outbox \ {First} : outbox'[j] = outbox[j]
    BY HandleFailureRelabels
  <2> HIDE DEF First
  <2>4. CASE GivesUp(outbox[First])
    BY <2>1, <2>2, <2>3, <2>4 DEF Failed, RecordType
  <2>5. CASE ~ GivesUp(outbox[First])
    <3>1. outbox'[First].retries = outbox[First].retries + 1 /\ outbox[First].retries \in Nat
      BY <2>1, <2>5 DEF Failed, RecordType
    <3> QED BY <2>3, <3>1
  <2> QED BY <2>4, <2>5
<1>3. exec.todo \subseteq DOMAIN outbox /\ DOMAIN outbox' = DOMAIN outbox
  BY <1>1, <1>2 DEF ExecOK, Relabelled
<1> HIDE DEF First
<1>4. TodoWaits' /\ Retried'
  BY <1>1, <1>2, <1>3 DEF OrderInv, TodoWaits, Retried
<1>5. ASSUME NEW o \in Obj, Calm(o)'
      PROVE  Prefix(o)' /\ UnderWay(o)' /\ Ordered(o)' /\ RowIsLast(o)'
  <2>1. Of(o)' = Of(o) /\ Of(o) \subseteq DOMAIN outbox
    BY <1>2, <1>3 DEF Of, Relabelled, Same
  <2>2. First \notin Of(o)
    BY <1>2, <1>5, <2>1 DEF Calm
  <2>3. Waiting(o)' = Waiting(o) /\ Waiting(o) \subseteq Of(o)
    BY <1>2, <2>1, <2>2 DEF Waiting
  <2>4. Past(o)' = Past(o) /\ Past(o) \subseteq Of(o)
    BY <1>2, <2>1, <2>2 DEF Past
  <2>5. Prefix(o) /\ UnderWay(o) /\ Ordered(o) /\ RowIsLast(o)
    <3>1. Calm(o)
      BY <1>2, <1>5, <2>1, <2>2 DEF Calm, InStampOrder
    <3> QED BY <3>1 DEF OrderInv, InOrder
  <2>6. \A i : i \in DOMAIN outbox => Effect(i)' = Effect(i)
    BY <1>2, <1>3 DEF Effect, Relabelled, Same
  <2>7. Prefix(o)' /\ UnderWay(o)' /\ Ordered(o)'
    BY <1>1, <2>1, <2>2, <2>3, <2>4, <2>5 DEF Prefix, UnderWay, Ordered
  <2>8. Newest(Past(o))' = Newest(Past(o))
    BY <2>4 DEF Newest
  <2>9. Past(o) # {} => Newest(Past(o)) \in DOMAIN outbox
    <3>1. Past(o) \in SUBSET DOMAIN outbox
      BY <2>1, <2>4
    <3> HIDE DEF Newest
    <3> QED BY <1>1, <2>1, <2>4, <3>1, NewestIsNewest
  <2>10. RowIsLast(o)'
    <3> HIDE DEF Newest
    <3> QED BY <1>1, <2>1, <2>3, <2>4, <2>5, <2>6, <2>8, <2>9 DEF RowIsLast
  <2> QED BY <2>7, <2>10
<1> QED BY <1>4, <1>5 DEF OrderInv, InOrder

LEMMA OrderNext == ASSUME TInv, OrderInv, [Next]_vars PROVE OrderInv'
<1>0. ASSUME UNCHANGED <<outbox, index>>,
             exec' = exec \/ (exec'.todo = {} /\ exec'.applied = FALSE)
      PROVE  OrderInv'
  <2>1. SameView /\ Retried'
    BY <1>0 DEF SameView, OrderInv, Retried
  <2> QED BY <1>0, <2>1, OrderKept
<1>1. ASSUME NEW s \in Session, Commit(s) PROVE OrderInv'
  <2>1. CASE Committed(s)
    BY <1>1, <2>1, OrderCommit
  <2>2. CASE UNCHANGED pg
    BY <1>0, <1>1, <2>2 DEF Commit, pg, stores, workers
  <2> QED BY <1>1, <2>1, <2>2, CommitTyped
<1>2. ASSUME NEW s \in Session, ActionStep(s), ~ Commit(s) PROVE OrderInv'
  BY <1>0, <1>2, RequestTyped DEF pg, stores, workers
<1>3. CASE ExecutorStep
  <2>1. CASE SessionBreaks
    BY <1>0, <2>1 DEF SessionBreaks, IdleExec, pg, stores
  <2> QED BY <1>3, <2>1, OrderFetch, OrderExecute, OrderMark, OrderFailure DEF ExecutorStep
<1>4. ASSUME NEW i \in DOMAIN outbox, BackoffEnds(i) PROVE OrderInv'
  <2>1. UNCHANGED <<index, exec>>
    BY <1>4 DEF BackoffEnds, stores, workers
  <2>2. /\ Relabelled /\ outbox'[i].due = TRUE /\ outbox'[i].index = outbox[i].index
        /\ outbox'[i].retries = outbox[i].retries
        /\ \A j \in DOMAIN outbox \ {i} : outbox'[j] = outbox[j]
    <3>1. outbox[i] \in RecordType
      BY <1>4 DEF TInv, PgOK
    <3> QED BY <1>4, <3>1, BackoffRelabels DEF RecordType
  <2>3. SameView /\ Retried'
    BY <2>2 DEF SameView, Relabelled, Same, OrderInv, Retried
  <2> QED BY <2>1, <2>3, OrderKept
<1>5. CASE Claim \/ MergeUpserts \/ MergeDeletes \/ FlushFails
  BY <1>0, <1>5 DEF Claim, MergeUpserts, MergeDeletes, FlushFails, pg, stores
<1>6. CASE MarkBatch
  <2>1. UNCHANGED <<index, exec>>
    BY <1>6 DEF MarkBatch, stores
  <2>2. SameView /\ Retried'
    BY <1>6, MarkBatchRelabels DEF SameView, Relabelled, Same, OrderInv, Retried
  <2> QED BY <2>1, <2>2, OrderKept
<1>7. CASE Crash
  BY <1>0, <1>7 DEF Crash, IdleExec, pg, stores
<1>8. CASE UNCHANGED vars
  BY <1>0, <1>8 DEF vars, pg, stores, workers
<1> QED BY <1>1, <1>2, <1>3, <1>4, <1>5, <1>6, <1>7, <1>8 DEF Next, FlushStep

(* The executor gives Doris the changes of an object that are stamped in   *)
(* the order of their commits in that order, whatever crashes and broken   *)
(* sessions come between a call and its mark, for any number of objects,   *)
(* requests and changes.                                                   *)
THEOREM DorisFollowsCommits == Spec => []IndexInOrder
<1>1. TInv /\ OrderInv /\ [Next]_vars => OrderInv'
  BY OrderNext
<1> QED BY OrderInit, TypesHold, <1>1, OrderImplies, PTL DEF Spec

(***************************************************************************)
(* Rows and outbox.  From here on every request carries one Action: the    *)
(* items of a batch share a transaction and what refused ones leave in it. *)
(***************************************************************************)

(* What an open transaction holds, and how it stands to what is committed. *)
Holds(s) ==
  LET t == tx[s] IN
  /\ t.pc \in {"idle", "checked", "hydrate", "snapped", "found"} => DOMAIN t.rows = {}
  /\ t.pc \in {"built", "applied"} => DOMAIN t.rows \subseteq {t.rid}
  /\ t.pc = "built" /\ t.op = "DELETE" => DOMAIN t.rows = {}

HoldInv == \A s \in Session : Holds(s)

LEMMA HoldInit == Init => HoldInv
BY EmptyRows DEF Init, HoldInv, Holds, NoTx

LEMMA HoldStep ==
  ASSUME Batched = {}, TInv, HoldInv, NEW s \in Session, ActionStep(s), ~ Commit(s)
  PROVE  HoldInv'
<1>0. /\ Holds(s) /\ tx \in [Session -> TxRecord] /\ tx[s] \in TxRecord /\ Shape(tx[s])
  BY DEF HoldInv, TInv, TxOK
<1>1. /\ \A u \in Session \ {s} : tx'[u] = tx[u]
      /\ Holds(s)'
  <2>1. CASE Begin(s)
    <3>1. PICK k : Become(s, [tx[s] EXCEPT !.pc = "checked", !.key = k])
      BY <2>1 DEF Begin
    <3>2. tx'[s] = [tx[s] EXCEPT !.pc = "checked", !.key = k]
      BY <1>0, <3>1 DEF Become
    <3>3. tx[s].pc = "idle"
      BY <2>1 DEF Begin, At
    <3> QED BY <1>0, <3>1, <3>2, <3>3 DEF Holds, TxRecord, Become
  <2>2. ASSUME NEW o \in Obj, NEW r, NEW op, NEW base, NEW expected,
               Built(s, op, o, r, base, expected), tx[s].pc = "checked"
        PROVE  (\A u \in Session \ {s} : tx'[u] = tx[u]) /\ Holds(s)'
    <3>1. tx'[s] = [tx[s] EXCEPT !.pc = "built", !.op = op, !.obj = o, !.rid = r,
                                 !.base = base, !.expected = expected]
      BY <1>0, <2>2 DEF Built, Become
    <3>2. tx'[s].pc = "built" /\ tx'[s].rows = tx[s].rows
      BY <1>0, <3>1 DEF TxRecord
    <3> QED BY <1>0, <2>2, <3>2 DEF Holds, Built, Become
  <2>3. ASSUME NEW o \in Obj, BuildModify(s, o)
        PROVE  (\A u \in Session \ {s} : tx'[u] = tx[u]) /\ Holds(s)'
    <3>1. CASE Built(s, "UPDATE", o, o, Read(s, o).val, Read(s, o).version)
      BY <2>2, <2>3, <3>1 DEF BuildModify, At
    <3>2. CASE Become(s, [tx[s] EXCEPT !.pc = "hydrate", !.op = "UPDATE", !.obj = o,
                                       !.rid = o, !.base = index[o], !.expected = 1])
      <4>1. tx'[s].pc = "hydrate" /\ tx'[s].rows = tx[s].rows
        BY <1>0, <3>2 DEF Become, TxRecord
      <4> QED BY <1>0, <2>3, <3>2, <4>1 DEF Holds, BuildModify, At, Become
    <3> QED BY <2>3, <3>1, <3>2 DEF BuildModify
  <2>4. ASSUME NEW o \in Obj, BuildCreate(s, o) \/ BuildUpsert(s, o) \/ BuildDelete(s, o)
        PROVE  (\A u \in Session \ {s} : tx'[u] = tx[u]) /\ Holds(s)'
    BY <2>2, <2>4 DEF BuildCreate, BuildUpsert, BuildDelete, At
  <2>5. CASE Hydrate(s)
    <3>1. tx'[s] = [tx[s] EXCEPT !.pc = "built", !.rows = Hydrated(s)]
      BY <2>5, HydrateTyped
    <3>2. /\ tx'[s].pc = "built" /\ tx'[s].rows = Hydrated(s) /\ tx'[s].rid = tx[s].rid
          /\ tx'[s].op = tx[s].op
      BY <1>0, <3>1 DEF TxRecord
    <3>3. DOMAIN tx[s].rows = {} /\ tx[s].op = "UPDATE"
      BY <1>0, <2>5 DEF Hydrate, At, Holds, Shape
    <3>4. DOMAIN Hydrated(s) \subseteq {tx[s].rid}
      BY <3>3 DEF Hydrated, Put
    <3>5. Holds(s)'
      <4> HIDE DEF Hydrated
      <4> QED BY <3>2, <3>3, <3>4 DEF Holds
    <3> QED BY <2>5, <3>5, HydrateTyped
  <2>6. CASE Refuse(s)
    <3>1. tx'[s] = NoTx /\ \A u \in Session \ {s} : tx'[u] = tx[u]
      BY <2>6, RefuseTyped DEF TInv
    <3> QED BY <3>1, EmptyRows DEF Holds, NoTx
  <2>7. CASE Apply(s)
    <3>0. tx[s].pc = "built" /\ DOMAIN tx[s].rows \subseteq {tx[s].rid}
      BY <1>0, <2>7 DEF Apply, At, Holds
    <3>1. CASE tx'[s] = NoTx
      BY <2>7, <3>1, ApplyTyped, EmptyRows DEF Holds, NoTx
    <3>2. CASE tx'[s] = AppliedWrite(s)
      <4>1. /\ tx'[s].pc = "applied" /\ tx'[s].rid = tx[s].rid
            /\ tx'[s].rows = Put(tx[s].rows, tx[s].rid, Written(s))
        BY <1>0, <3>2 DEF AppliedWrite, TxRecord
      <4>2. DOMAIN tx'[s].rows \subseteq {tx[s].rid}
        BY <3>0, <4>1 DEF Put
      <4>3. Holds(s)'
        BY <3>2, <4>1, <4>2 DEF Holds
      <4> QED BY <2>7, <4>3, ApplyTyped
    <3> QED BY <2>7, <3>1, <3>2, ApplyTyped
  <2>8. CASE Snapshot(s)
    <3>1. DOMAIN tx[s].rows = {}
      BY <1>0, <2>8 DEF Snapshot, At, Holds
    <3>2. tx'[s].pc = "snapped" /\ tx'[s].rows = tx[s].rows
      BY <2>8, SnapshotFields
    <3> QED BY <2>8, <3>1, <3>2, SnapshotTyped DEF Holds
  <2>9. CASE SelectRow(s)
    <3>1. DOMAIN tx[s].rows = {}
      BY <1>0, <2>9 DEF SelectRow, At, Holds
    <3>2. tx'[s].pc \in {"found", "applied"} /\ tx'[s].rows = tx[s].rows
      BY <2>9, SelectRowFields
    <3> QED BY <2>9, <3>1, <3>2, SelectRowTyped DEF Holds
  <2>10. CASE DeleteRow(s)
    <3>1. DOMAIN tx[s].rows = {}
      BY <1>0, <2>10 DEF DeleteRow, At, Holds
    <3>2. /\ tx'[s].pc = "applied" /\ tx'[s].rid = tx[s].rid
          /\ tx'[s].rows = IF Read(s, tx[s].rid) = None THEN tx[s].rows
                           ELSE Put(tx[s].rows, tx[s].rid, None)
      BY <2>10, DeleteRowFields
    <3>3. DOMAIN tx'[s].rows \subseteq {tx[s].rid}
      BY <3>1, <3>2 DEF Put
    <3> QED BY <2>10, <3>2, <3>3, DeleteRowTyped DEF Holds
  <2>11. CASE Stamp(s)
    <3>1. PICK n \in 1..MaxStamp : tx'[s] = [tx[s] EXCEPT !.at = n]
      BY <2>11, StampTyped
    <3>2. /\ tx'[s].pc = tx[s].pc /\ tx'[s].rows = tx[s].rows
          /\ tx'[s].rid = tx[s].rid /\ tx'[s].op = tx[s].op
      BY <1>0, <3>1 DEF TxRecord
    <3> QED BY <1>0, <2>11, <3>2, StampTyped DEF Holds
  <2> QED BY <2>1, <2>3, <2>4, <2>5, <2>6, <2>7, <2>8, <2>9, <2>10, <2>11 DEF ActionStep
<1> QED BY <1>1 DEF HoldInv, Holds

LEMMA HoldNext == ASSUME Batched = {}, TInv, HoldInv, [Next]_vars PROVE HoldInv'
<1>0. ASSUME tx' = tx PROVE HoldInv'
  BY <1>0 DEF HoldInv, Holds
<1>1. ASSUME NEW s \in Session, Commit(s) PROVE HoldInv'
  BY <1>1, CommitTyped, EmptyRows DEF HoldInv, Holds, NoTx
<1>2. CASE Crash
  BY <1>2, EmptyRows DEF Crash, HoldInv, Holds, NoTx
<1> QED BY <1>0, <1>1, <1>2, HoldStep, LoopTyped DEF Next, LoopStep, vars

(* What a commit makes of the rows and of the changes of each rid.         *)
LEMMA CommitView ==
  ASSUME TInv, HoldInv, NEW s \in Session, Commit(s), Committed(s)
  PROVE  LET r == tx[s].rid
             n == Len(outbox) + 1
         IN /\ r \in Rid /\ tx[s].pc = "applied" /\ n \in Nat
            /\ \A i \in DOMAIN outbox : i < n /\ i \in Nat
            /\ DOMAIN outbox' = DOMAIN outbox \cup {n}
            /\ \A i \in DOMAIN outbox : outbox'[i] = outbox[i]
            /\ outbox'[n].op = tx[s].op /\ outbox'[n].pk = tx[s].obj
            /\ \A x \in Rid \ {r} : state'[x] = state[x] /\ Changes(x)' = Changes(x)
            /\ \A x : x = r => Changes(x)' = Changes(x) \cup {n}
            /\ tx[s].op \in {"CREATE", "UPDATE"} =>
                 /\ state'[r] \in RowType /\ state'[r].val = n /\ state'[r].pk = tx[s].obj
                 /\ state'[r].version = tx[s].expected + 1 /\ Wrote(s, r)
            /\ tx[s].op = "DELETE" =>
                 state'[r] = IF Wrote(s, r) THEN None ELSE state[r]
            /\ tx[s].op \in {"CREATE", "UPDATE", "DELETE"}
<1> DEFINE r == tx[s].rid
           n == Len(outbox) + 1
<1>1. /\ TxOK /\ PgOK /\ tx[s] \in TxRecord /\ r \in Rid /\ tx[s].rows \in Rows0
      /\ tx[s].op \in {"CREATE", "UPDATE", "DELETE"} /\ tx[s].pc = "applied" /\ Shape(tx[s])
      /\ Holds(s)
  BY DEF TInv, TxOK, TxRecord, Shape, Commit, At, HoldInv
<1>2. /\ outbox \in Seq(RecordType) /\ outbox' = Append(outbox, Record(s))
      /\ Record(s).op = tx[s].op /\ Record(s).pk = tx[s].obj /\ Record(s).rid = r
  BY <1>1 DEF Committed, PgOK, Record
<1>3. /\ DOMAIN outbox' = DOMAIN outbox \cup {n} /\ outbox'[n] = Record(s) /\ n \in Nat
      /\ n \notin DOMAIN outbox /\ \A i \in DOMAIN outbox : i < n /\ i \in Nat
      /\ \A i \in DOMAIN outbox : outbox'[i] = outbox[i]
  <2> HIDE DEF Record
  <2> QED BY <1>2
<1>4. ASSUME NEW x \in Rid \ {r} PROVE state'[x] = state[x] /\ Changes(x)' = Changes(x)
  <2>1. ~ Wrote(s, x)
    BY <1>1 DEF Holds, Wrote
  <2>2. state'[x] = state[x]
    BY <2>1 DEF Committed
  <2>3. Changes(x)' = Changes(x)
    <3> HIDE DEF n, Record
    <3> QED BY <1>2, <1>3 DEF Changes
  <2> QED BY <2>2, <2>3
<1>5. \A x : x = r => Changes(x)' = Changes(x) \cup {n}
  <2> HIDE DEF n, Record
  <2> QED BY <1>2, <1>3 DEF Changes
<1>6. CASE tx[s].op # "DELETE"
  <2>1. /\ tx[s].obj \in Obj /\ r \in DOMAIN tx[s].rows /\ tx[s].rows[r] \in RowType
        /\ tx[s].rows[r].pk = tx[s].obj /\ tx[s].rows[r].version = tx[s].expected + 1
    BY <1>1, <1>6 DEF Shape
  <2>2. state'[r] = [tx[s].rows[r] EXCEPT !.val = n]
    BY <1>1, <1>6, <2>1 DEF Committed, Wrote, NextChange
  <2>3. /\ state'[r] \in RowType /\ state'[r].val = n /\ state'[r].pk = tx[s].obj
        /\ state'[r].version = tx[s].expected + 1
    <3> HIDE DEF n
    <3> QED BY <1>3, <2>1, <2>2 DEF RowType
  <2>4. Wrote(s, r)
    BY <2>1 DEF Wrote
  <2> HIDE DEF n
  <2> QED BY <1>1, <1>2, <1>3, <1>4, <1>5, <1>6, <2>3, <2>4
<1>7. CASE tx[s].op = "DELETE"
  <2>1. state'[r] = IF Wrote(s, r) THEN None ELSE state[r]
    BY <1>1, <1>7 DEF Committed, Wrote, Shape
  <2> HIDE DEF n
  <2> QED BY <1>1, <1>2, <1>3, <1>4, <1>5, <1>7, <2>1
<1> QED BY <1>6, <1>7

(* What StateFollowsOutbox says of one rid.                                *)
Story(r) ==
  IF state[r] # None
  THEN /\ Writes(r) # {}
       /\ state[r].val = Newest(Writes(r))
       /\ state[r].pk = outbox[Newest(Writes(r))].pk
  ELSE Writes(r) # {} => \E d \in Deletions(r) : d > Newest(Writes(r))

LEMMA StoryInit == Init => StateFollowsOutbox
BY DEF Init, StateFollowsOutbox, Writes, Changes

(* The newest write of a rid is one of its changes.                        *)
LEMMA NewestWrite ==
  ASSUME TInv, NEW x
  PROVE  /\ Writes(x) \subseteq Changes(x) /\ Changes(x) \subseteq DOMAIN outbox
         /\ Writes(x) # {} => Newest(Writes(x)) \in Writes(x)
<1>1. PgOK /\ Writes(x) \subseteq Changes(x) /\ Changes(x) \subseteq DOMAIN outbox
  BY DEF TInv, Writes, Changes
<1>2. Writes(x) \in SUBSET DOMAIN outbox
  BY <1>1
<1> HIDE DEF Newest
<1> QED BY <1>1, <1>2, NewestIsNewest

LEMMA StoryCommit ==
  ASSUME TInv, HoldInv, StateFollowsOutbox, NEW s \in Session, Commit(s), Committed(s)
  PROVE  StateFollowsOutbox'
<1> DEFINE r == tx[s].rid
           n == Len(outbox) + 1
<1>0. /\ r \in Rid /\ n \in Nat
      /\ \A i \in DOMAIN outbox : i < n /\ i \in Nat
      /\ DOMAIN outbox' = DOMAIN outbox \cup {n}
      /\ \A i \in DOMAIN outbox : outbox'[i] = outbox[i]
      /\ outbox'[n].op = tx[s].op /\ outbox'[n].pk = tx[s].obj
      /\ \A x \in Rid \ {r} : state'[x] = state[x] /\ Changes(x)' = Changes(x)
      /\ \A x : x = r => Changes(x)' = Changes(x) \cup {n}
      /\ tx[s].op \in {"CREATE", "UPDATE"} =>
           /\ state'[r] \in RowType /\ state'[r].val = n /\ state'[r].pk = tx[s].obj
      /\ tx[s].op = "DELETE" => state'[r] = None \/ state'[r] = state[r]
      /\ tx[s].op \in {"CREATE", "UPDATE", "DELETE"}
  BY CommitView
<1> HIDE DEF r, n
<1> SUFFICES ASSUME NEW x \in Rid PROVE Story(x)'
  BY DEF StateFollowsOutbox, Story
<1>1. Story(x)
  BY DEF StateFollowsOutbox, Story
<1>2. /\ Writes(x) \subseteq Changes(x) /\ Changes(x) \subseteq DOMAIN outbox
      /\ Writes(x) # {} => Newest(Writes(x)) \in Writes(x)
  BY NewestWrite
<1>3. ASSUME Writes(x)' = Writes(x), Deletions(x) \subseteq Deletions(x)',
             state'[x] = state[x]
      PROVE  Story(x)'
  <2>1. Newest(Writes(x))' = Newest(Writes(x))
    BY <1>3 DEF Newest
  <2> HIDE DEF Newest
  <2> QED BY <1>0, <1>1, <1>2, <1>3, <2>1 DEF Story
<1>4. CASE x # r
  <2>1. Writes(x)' = Writes(x) /\ Deletions(x)' = Deletions(x)
    BY <1>0, <1>2, <1>4 DEF Writes, Deletions
  <2> QED BY <1>0, <1>3, <1>4, <2>1
<1>5. CASE x = r /\ tx[s].op = "DELETE"
  <2>1. /\ Writes(x)' = Writes(x) /\ n \in Deletions(x)'
        /\ Deletions(x) \subseteq Deletions(x)'
    BY <1>0, <1>2, <1>5 DEF Writes, Deletions
  <2>2. CASE state'[x] = None
    <3>1. Newest(Writes(x))' = Newest(Writes(x))
      BY <2>1 DEF Newest
    <3>2. Writes(x) # {} => n > Newest(Writes(x))
      <4> HIDE DEF Newest
      <4> QED BY <1>0, <1>2
    <3> HIDE DEF Newest
    <3> QED BY <2>1, <2>2, <3>1, <3>2 DEF Story
  <2>3. CASE state'[x] = state[x]
    BY <1>3, <2>1, <2>3
  <2> QED BY <1>0, <1>5, <2>2, <2>3
<1>6. CASE x = r /\ tx[s].op # "DELETE"
  <2>1. Writes(x)' = Writes(x) \cup {n}
    BY <1>0, <1>2, <1>6 DEF Writes
  <2>2. Newest(Writes(x) \cup {n}) = n
    <3>1. ASSUME NEW i \in Writes(x) \cup {n} PROVE i <= n /\ i \in Nat
      BY <1>0, <1>2
    <3>2. ASSUME NEW m \in Writes(x) \cup {n}, \A i \in Writes(x) \cup {n} : i <= m
          PROVE  m = n
      BY <1>0, <3>1, <3>2
    <3> QED BY <3>1, <3>2 DEF Newest
  <2>3. Newest(Writes(x))' = n
    <3>1. \A p : p = Writes(x)' => Newest(p) = n
      BY <2>1, <2>2
    <3>2. Newest(Writes(x))' = Newest(Writes(x)')
      BY DEF Newest
    <3> QED BY <3>1, <3>2
  <2> HIDE DEF Newest
  <2> QED BY <1>0, <1>6, <2>1, <2>3, NoneIsNoRow DEF Story
<1> QED BY <1>4, <1>5, <1>6

LEMMA StoryKept ==
  ASSUME TInv, StateFollowsOutbox, Relabelled, UNCHANGED state
  PROVE  StateFollowsOutbox'
<1> SUFFICES ASSUME NEW x \in Rid PROVE Story(x)'
  BY DEF StateFollowsOutbox, Story
<1>1. /\ Story(x) /\ Writes(x) \subseteq Changes(x) /\ Changes(x) \subseteq DOMAIN outbox
      /\ Writes(x) # {} => Newest(Writes(x)) \in Writes(x)
  BY NewestWrite DEF StateFollowsOutbox, Story
<1>2. Changes(x)' = Changes(x)
  BY DEF Relabelled, Same, Changes
<1>3. Writes(x)' = Writes(x) /\ Deletions(x)' = Deletions(x)
  BY <1>1, <1>2 DEF Relabelled, Same, Writes, Deletions
<1>4. Newest(Writes(x))' = Newest(Writes(x))
  BY <1>3 DEF Newest
<1> HIDE DEF Newest
<1> QED BY <1>1, <1>3, <1>4 DEF Story, Relabelled, Same

LEMMA StoryNext ==
  ASSUME TInv, HoldInv, StateFollowsOutbox, [Next]_vars
  PROVE  StateFollowsOutbox'
<1>0. ASSUME UNCHANGED pg PROVE StateFollowsOutbox'
  <2>1. Relabelled /\ UNCHANGED state
    BY <1>0 DEF pg, TInv, PgOK, Relabelled, Same
  <2> QED BY <2>1, StoryKept
<1>1. ASSUME NEW s \in Session, Commit(s) PROVE StateFollowsOutbox'
  BY <1>0, <1>1, StoryCommit, CommitTyped
<1>2. ASSUME NEW s \in Session, ActionStep(s), ~ Commit(s) PROVE StateFollowsOutbox'
  BY <1>0, <1>2, RequestTyped
<1>3. CASE LoopStep
  BY <1>3, LoopTyped, StoryKept
<1>4. CASE Crash
  BY <1>0, <1>4, CrashTyped
<1>5. CASE UNCHANGED vars
  BY <1>0, <1>5 DEF vars
<1> QED BY <1>1, <1>2, <1>3, <1>4, <1>5 DEF Next, LoopStep

LEMMA HoldsHold == ASSUME Batched = {} PROVE Spec => []HoldInv
<1>1. TInv /\ HoldInv /\ [Next]_vars => HoldInv'
  BY HoldNext
<1> QED BY HoldInit, TypesHold, <1>1, PTL DEF Spec

(* When every request carries one Action, object_state and the outbox      *)
(* agree after every commit, refusal, crash and retry: a row is the one    *)
(* its newest recorded write made, and none is gone without a deletion     *)
(* recorded after that write.                                              *)
THEOREM RowsFollowOutbox == ASSUME Batched = {} PROVE Spec => []StateFollowsOutbox
<1>1. TInv /\ HoldInv /\ StateFollowsOutbox /\ [Next]_vars => StateFollowsOutbox'
  BY StoryNext
<1> QED BY StoryInit, TypesHold, HoldsHold, <1>1, PTL DEF Spec

(***************************************************************************)
(* Optimistic locking.  The lock on a row, its version and the value read  *)
(* together keep an update from passing over one it has not seen.          *)
(***************************************************************************)
Locks == \A s, u \in Session, r \in Rid : Wrote(s, r) /\ Wrote(u, r) => s = u

(* How an open transaction stands to the row it is about.                  *)
Stands(s) ==
  LET t == tx[s]
      row == state[tx[s].rid]
  IN /\ t.pc = "built" /\ Wrote(s, t.rid) => row = None
     /\ t.pc = "applied" /\ t.op = "CREATE" => row = None
     /\ t.pc = "applied" /\ t.op = "UPDATE" /\ row # None => row.version = t.expected

(* What a modification has read: the row, or an older one.                 *)
NoDelete(r) == \A i \in Changes(r) : outbox[i].op # "DELETE"
HasRead(s) ==
  LET t == tx[s]
      row == state[tx[s].rid]
  IN t.pc \in {"hydrate", "built", "applied"} /\ t.op = "UPDATE" =>
       /\ t.expected >= 1
       /\ NoDelete(t.rid) =>
            IF row = None THEN t.expected = 1
            ELSE /\ row.version >= t.expected
                 /\ row.version = t.expected /\ outbox[row.val].op = "UPDATE"
                      => row.val = t.base

(* The version of an updated row is not that of a created one.             *)
Updated(r) == state[r] # None /\ outbox[state[r].val].op = "UPDATE" => state[r].version >= 2

LockInv == /\ Locks
           /\ \A s \in Session : Stands(s) /\ HasRead(s)
           /\ \A r \in Rid : Updated(r)

LEMMA LockInit == Init => LockInv
BY EmptyRows DEF Init, LockInv, Locks, Wrote, Stands, HasRead, Updated, NoTx

(* A step of one request: what it must see to for itself.                  *)
LEMMA LockMine ==
  ASSUME LockInv, UNCHANGED pg, NEW s \in Session,
         \A u \in Session \ {s} : tx'[u] = tx[u],
         Stands(s)', HasRead(s)',
         \A r \in DOMAIN tx'[s].rows : Wrote(s, r) \/ LockFree(s, r)
  PROVE  LockInv'
<1>1. Locks'
  <2> SUFFICES ASSUME NEW a \in Session, NEW b \in Session, NEW r \in Rid,
                      r \in DOMAIN tx'[a].rows, r \in DOMAIN tx'[b].rows
               PROVE  a = b
    BY DEF Locks, Wrote
  <2>1. CASE a # s /\ b # s
    BY <2>1 DEF LockInv, Locks, Wrote
  <2>2. CASE a = s /\ b # s
    BY <2>2 DEF LockInv, Locks, Wrote, LockFree
  <2>3. CASE a # s /\ b = s
    BY <2>3 DEF LockInv, Locks, Wrote, LockFree
  <2> QED BY <2>1, <2>2, <2>3
<1>2. ASSUME NEW u \in Session \ {s} PROVE Stands(u)' /\ HasRead(u)'
  <2>1. Stands(u)'
    BY DEF LockInv, Stands, Wrote, pg
  <2>2. HasRead(u)'
    BY DEF LockInv, HasRead, NoDelete, Changes, pg
  <2> QED BY <2>1, <2>2
<1>3. ASSUME NEW r \in Rid PROVE Updated(r)'
  BY DEF LockInv, Updated, pg
<1> QED BY <1>1, <1>2, <1>3 DEF LockInv

(* What HasRead says does not change while the request keeps its mutation. *)
LEMMA ReadKept ==
  ASSUME UNCHANGED pg, NEW s \in Session, HasRead(s),
         tx[s].pc \in {"hydrate", "built", "applied"},
         tx'[s].rid = tx[s].rid, tx'[s].op = tx[s].op, tx'[s].base = tx[s].base,
         tx'[s].expected = tx[s].expected
  PROVE  HasRead(s)'
BY DEF HasRead, NoDelete, Changes, pg

LEMMA LockRequest ==
  ASSUME Batched = {}, TInv, HoldInv, LockInv, NEW s \in Session, ActionStep(s), ~ Commit(s)
  PROVE  LockInv'
<1>0. /\ Holds(s) /\ tx \in [Session -> TxRecord] /\ tx[s] \in TxRecord /\ Shape(tx[s])
      /\ Stands(s) /\ HasRead(s) /\ UNCHANGED pg
      /\ state \in [Rid -> RowType \cup {None}]
  BY RequestTyped DEF HoldInv, LockInv, TInv, TxOK, PgOK
<1>1. CASE Begin(s)
  <2>1. PICK k : Become(s, [tx[s] EXCEPT !.pc = "checked", !.key = k])
    BY <1>1 DEF Begin
  <2>2. /\ tx'[s].pc = "checked" /\ tx'[s].rows = tx[s].rows
        /\ \A u \in Session \ {s} : tx'[u] = tx[u]
    BY <1>0, <2>1 DEF Become, TxRecord
  <2>3. Stands(s)' /\ HasRead(s)'
    BY <2>2 DEF Stands, HasRead
  <2> QED BY <1>0, <2>2, <2>3, LockMine DEF Wrote
<1>2. ASSUME NEW o \in Obj, NEW r, NEW op \in {"CREATE", "DELETE"}, NEW base, NEW expected,
             Built(s, op, o, r, base, expected), tx[s].pc = "checked"
      PROVE  LockInv'
  <2>1. /\ tx'[s].pc = "built" /\ tx'[s].rows = tx[s].rows /\ tx'[s].op = op
        /\ \A u \in Session \ {s} : tx'[u] = tx[u]
    BY <1>0, <1>2 DEF Built, Become, TxRecord
  <2>2. DOMAIN tx[s].rows = {}
    BY <1>0, <1>2 DEF Holds
  <2>3. Stands(s)' /\ HasRead(s)'
    BY <2>1, <2>2 DEF Stands, HasRead, Wrote
  <2> QED BY <1>0, <2>1, <2>2, <2>3, LockMine
<1>3. ASSUME NEW o \in Obj, BuildCreate(s, o) \/ BuildUpsert(s, o) \/ BuildDelete(s, o)
      PROVE  LockInv'
  BY <1>2, <1>3 DEF BuildCreate, BuildUpsert, BuildDelete, At
<1>4. ASSUME NEW o \in Obj, BuildModify(s, o) PROVE LockInv'
  <2>1. DOMAIN tx[s].rows = {} /\ o \in Rid /\ Read(s, o) = state[o]
    BY <1>0, <1>4 DEF BuildModify, At, Holds, Read, Wrote, Rid
  <2>2. CASE Read(s, o) # None /\ Built(s, "UPDATE", o, o, Read(s, o).val, Read(s, o).version)
    <3>1. /\ tx'[s].pc = "built" /\ tx'[s].rows = tx[s].rows /\ tx'[s].op = "UPDATE"
          /\ tx'[s].rid = o /\ tx'[s].base = state[o].val
          /\ tx'[s].expected = state[o].version
          /\ \A u \in Session \ {s} : tx'[u] = tx[u]
      BY <1>0, <2>1, <2>2 DEF Built, Become, TxRecord
    <3>2. state'[o] = state[o] /\ state[o] # None /\ state[o].version \in Nat \ {0}
      BY <1>0, <2>1, <2>2 DEF RowType, pg
    <3>3. Stands(s)'
      BY <2>1, <3>1 DEF Stands, Wrote
    <3>4. HasRead(s)'
      BY <3>1, <3>2 DEF HasRead
    <3> QED BY <1>0, <2>1, <3>1, <3>3, <3>4, LockMine
  <2>3. CASE /\ Read(s, o) = None
             /\ Become(s, [tx[s] EXCEPT !.pc = "hydrate", !.op = "UPDATE", !.obj = o,
                                         !.rid = o, !.base = index[o], !.expected = 1])
    <3>1. /\ tx'[s].pc = "hydrate" /\ tx'[s].rows = tx[s].rows
          /\ tx'[s].rid = o /\ tx'[s].expected = 1
          /\ \A u \in Session \ {s} : tx'[u] = tx[u]
      BY <1>0, <2>3 DEF Become, TxRecord
    <3>2. state'[o] = None
      BY <1>0, <2>1, <2>3 DEF pg
    <3>3. Stands(s)' /\ HasRead(s)'
      BY <3>1, <3>2 DEF Stands, HasRead
    <3> QED BY <1>0, <2>1, <3>1, <3>3, LockMine
  <2> QED BY <1>4, <2>2, <2>3 DEF BuildModify
<1>5. CASE Hydrate(s)
  <2>1. /\ tx'[s] = [tx[s] EXCEPT !.pc = "built", !.rows = Hydrated(s)]
        /\ \A u \in Session \ {s} : tx'[u] = tx[u]
    BY <1>5, HydrateTyped
  <2>2. /\ tx'[s].pc = "built" /\ tx'[s].rows = Hydrated(s) /\ tx'[s].rid = tx[s].rid
        /\ tx'[s].op = tx[s].op /\ tx'[s].base = tx[s].base
        /\ tx'[s].expected = tx[s].expected
    BY <1>0, <2>1 DEF TxRecord
  <2>3. /\ DOMAIN tx[s].rows = {} /\ Read(s, tx[s].rid) = state[tx[s].rid]
        /\ tx[s].pc = "hydrate" /\ LockFree(s, tx[s].rid)
    BY <1>0, <1>5 DEF Hydrate, At, Holds, Read, Wrote
  <2>4. /\ DOMAIN Hydrated(s) \subseteq {tx[s].rid}
        /\ state[tx[s].rid] # None => DOMAIN Hydrated(s) = {}
    BY <2>3 DEF Hydrated, Put
  <2>5. HasRead(s)'
    BY <1>0, <2>2, <2>3, ReadKept
  <2>6. Stands(s)'
    <3> HIDE DEF Hydrated
    <3> QED BY <1>0, <2>2, <2>4 DEF Stands, Wrote, pg
  <2> HIDE DEF Hydrated
  <2> QED BY <1>0, <2>1, <2>2, <2>3, <2>4, <2>5, <2>6, LockMine
<1>6. CASE Refuse(s)
  <2>1. tx'[s] = NoTx /\ \A u \in Session \ {s} : tx'[u] = tx[u]
    BY <1>6, RefuseTyped DEF TInv
  <2>2. Stands(s)' /\ HasRead(s)' /\ DOMAIN tx'[s].rows = {}
    BY <2>1, EmptyRows DEF Stands, HasRead, NoTx
  <2> QED BY <1>0, <2>1, <2>2, LockMine
<1>7. CASE Apply(s)
  <2>0. /\ tx[s].pc = "built" /\ DOMAIN tx[s].rows \subseteq {tx[s].rid}
        /\ LockFree(s, tx[s].rid) /\ \A u \in Session \ {s} : tx'[u] = tx[u]
        /\ state'[tx[s].rid] = state[tx[s].rid]
    BY <1>0, <1>7, ApplyTyped DEF Apply, At, Holds, pg
  <2>1. CASE tx'[s] = NoTx
    <3>1. Stands(s)' /\ HasRead(s)' /\ DOMAIN tx'[s].rows = {}
      BY <2>1, EmptyRows DEF Stands, HasRead, NoTx
    <3> QED BY <1>0, <2>0, <3>1, LockMine
  <2>2. CASE Matches(s) /\ tx'[s] = AppliedWrite(s)
    <3>1. /\ tx'[s].pc = "applied" /\ tx'[s].op = tx[s].op /\ tx'[s].rid = tx[s].rid
          /\ tx'[s].base = tx[s].base /\ tx'[s].expected = tx[s].expected
          /\ tx'[s].rows = Put(tx[s].rows, tx[s].rid, Written(s))
      BY <1>0, <2>2 DEF AppliedWrite, TxRecord
    <3>2. DOMAIN tx'[s].rows \subseteq {tx[s].rid}
      BY <2>0, <3>1 DEF Put
    <3>3. HasRead(s)'
      BY <1>0, <2>0, <3>1, ReadKept
    <3>4. /\ tx[s].op = "CREATE" => state[tx[s].rid] = None
          /\ tx[s].op = "UPDATE" /\ state[tx[s].rid] # None
               => state[tx[s].rid].version = tx[s].expected
      BY <1>0, <2>0, <2>2 DEF Stands, Matches, Read
    <3>5. Stands(s)'
      BY <2>0, <3>1, <3>4 DEF Stands
    <3> QED BY <1>0, <2>0, <3>2, <3>3, <3>5, LockMine
  <2> QED BY <1>7, <2>1, <2>2, ApplyTyped
<1>8. ASSUME tx[s].op = "DELETE", tx'[s].op = "DELETE",
             \A u \in Session \ {s} : tx'[u] = tx[u],
             tx'[s].pc \in {"snapped", "found", "applied"},
             \A r \in DOMAIN tx'[s].rows : Wrote(s, r) \/ LockFree(s, r)
      PROVE  LockInv'
  <2>1. Stands(s)' /\ HasRead(s)'
    BY <1>8 DEF Stands, HasRead
  <2> QED BY <1>0, <1>8, <2>1, LockMine
<1>9. CASE Snapshot(s)
  <2>1. /\ tx'[s].pc = "snapped" /\ tx'[s].rows = tx[s].rows
        /\ tx[s].op = "DELETE" /\ tx'[s].op = "DELETE"
    BY <1>9, SnapshotFields
  <2> QED BY <1>8, <1>9, <2>1, SnapshotTyped DEF Wrote
<1>10. CASE SelectRow(s)
  <2>1. /\ tx'[s].pc \in {"found", "applied"} /\ tx'[s].rows = tx[s].rows
        /\ tx[s].op = "DELETE" /\ tx'[s].op = "DELETE"
    BY <1>10, SelectRowFields
  <2> QED BY <1>8, <1>10, <2>1, SelectRowTyped DEF Wrote
<1>11. CASE DeleteRow(s)
  <2>1. /\ tx'[s].pc = "applied" /\ tx[s].op = "DELETE" /\ tx'[s].op = "DELETE"
        /\ tx'[s].rows = IF Read(s, tx[s].rid) = None THEN tx[s].rows
                         ELSE Put(tx[s].rows, tx[s].rid, None)
    BY <1>11, DeleteRowFields
  <2>2. ASSUME NEW r \in DOMAIN tx'[s].rows PROVE Wrote(s, r) \/ LockFree(s, r)
    BY <1>11, <2>1 DEF DeleteRow, Wrote, Put
  <2> QED BY <1>8, <1>11, <2>1, <2>2, DeleteRowTyped
<1>12. CASE Stamp(s)
  <2>1. PICK n \in 1..MaxStamp : tx'[s] = [tx[s] EXCEPT !.at = n]
    BY <1>12, StampTyped
  <2>2. /\ tx'[s].pc = tx[s].pc /\ tx'[s].rows = tx[s].rows /\ tx'[s].rid = tx[s].rid
        /\ tx'[s].op = tx[s].op /\ tx'[s].base = tx[s].base
        /\ tx'[s].expected = tx[s].expected /\ tx[s].pc = "applied"
    BY <1>0, <1>12, <2>1 DEF TxRecord, Stamp, At
  <2>3. Stands(s)' /\ HasRead(s)'
    BY <1>0, <2>2, ReadKept DEF Stands, Wrote, pg
  <2> QED BY <1>0, <1>12, <2>2, <2>3, LockMine, StampTyped DEF Wrote
<1> QED BY <1>1, <1>3, <1>4, <1>5, <1>6, <1>7, <1>9, <1>10, <1>11, <1>12 DEF ActionStep

LEMMA ValueInOutbox ==
  ASSUME TInv, StateFollowsOutbox, NEW r \in Rid, state[r] # None
  PROVE  state[r].val \in DOMAIN outbox
<1>1. Writes(r) # {} /\ state[r].val = Newest(Writes(r))
  BY DEF StateFollowsOutbox
<1> HIDE DEF Newest
<1> QED BY <1>1, NewestWrite

LEMMA LockCommit ==
  ASSUME TInv, HoldInv, StateFollowsOutbox, LockInv, NEW s \in Session, Commit(s), Committed(s)
  PROVE  LockInv'
<1> DEFINE r == tx[s].rid
           n == Len(outbox) + 1
<1>0. /\ r \in Rid /\ tx[s].pc = "applied" /\ n \in Nat
      /\ DOMAIN outbox' = DOMAIN outbox \cup {n}
      /\ \A i \in DOMAIN outbox : outbox'[i] = outbox[i]
      /\ outbox'[n].op = tx[s].op
      /\ \A x \in Rid \ {r} : state'[x] = state[x] /\ Changes(x)' = Changes(x)
      /\ \A x : x = r => Changes(x)' = Changes(x) \cup {n}
      /\ tx[s].op \in {"CREATE", "UPDATE"} =>
           /\ state'[r] \in RowType /\ state'[r].val = n
           /\ state'[r].version = tx[s].expected + 1 /\ Wrote(s, r)
      /\ tx[s].op = "DELETE" => state'[r] = IF Wrote(s, r) THEN None ELSE state[r]
      /\ tx[s].op \in {"CREATE", "UPDATE", "DELETE"}
  BY CommitView
<1>1. /\ tx'[s] = NoTx /\ \A u \in Session \ {s} : tx'[u] = tx[u]
      /\ tx[s].expected \in Nat /\ Shape(tx[s]) /\ Stands(s) /\ HasRead(s) /\ Locks
      /\ state \in [Rid -> RowType \cup {None}]
  BY CommitTyped DEF TInv, TxOK, TxRecord, LockInv, PgOK
<1>2. state'[r] # state[r] => Wrote(s, r)
  BY <1>0
<1>3. None \notin RowType
  BY NoneIsNoRow
<1> HIDE DEF r, n
<1>4. Locks'
  BY <1>1, EmptyRows DEF Locks, Wrote, NoTx
<1>5. Stands(s)' /\ HasRead(s)'
  BY <1>1, EmptyRows DEF Stands, HasRead, Wrote, NoTx
<1>6. ASSUME NEW x \in Rid PROVE Updated(x)'
  <2>1. CASE state'[x] = state[x]
    BY <1>0, <2>1, ValueInOutbox DEF LockInv, Updated
  <2>2. CASE state'[x] # state[x]
    <3>1. x = r
      BY <1>0, <2>2
    <3>2. CASE tx[s].op = "UPDATE"
      <4>1. tx[s].expected >= 1
        BY <1>0, <1>1, <3>2 DEF HasRead
      <4> QED BY <1>0, <1>1, <3>1, <3>2, <4>1 DEF Updated
    <3>3. CASE tx[s].op # "UPDATE"
      BY <1>0, <2>2, <3>1, <3>3 DEF Updated
    <3> QED BY <3>2, <3>3
  <2> QED BY <2>1, <2>2
<1>7. ASSUME NEW u \in Session \ {s}, tx[u].pc \in {"hydrate", "built", "applied"}
      PROVE  Stands(u)' /\ HasRead(u)'
  <2> DEFINE q == tx[u].rid
  <2>1. /\ q \in Rid /\ tx'[u] = tx[u] /\ Stands(u) /\ HasRead(u) /\ Shape(tx[u])
        /\ tx[u].expected \in Nat
    BY <1>1, <1>7 DEF TInv, TxOK, TxRecord, Shape, LockInv
  <2>2. Changes(q) \subseteq DOMAIN outbox
    BY DEF Changes
  <2>3. CASE state'[q] = state[q]
    <3>1. Stands(u)'
      BY <2>1, <2>3 DEF Stands, Wrote
    <3>2. \A x : x = q => (NoDelete(x)' => NoDelete(x))
      <4>1. \A x : x = q => Changes(x) \subseteq Changes(x)'
        BY <1>0, <2>1
      <4> HIDE DEF q
      <4> QED BY <1>0, <2>2, <4>1 DEF NoDelete
    <3>3. state[q] # None => state[q].val \in DOMAIN outbox
      BY <2>1, ValueInOutbox
    <3>4. state[q] # None => outbox'[state[q].val] = outbox[state[q].val]
      BY <1>0, <3>3
    <3>5. HasRead(u)'
      BY <2>1, <2>3, <3>2, <3>4 DEF HasRead
    <3> QED BY <3>1, <3>5
  <2>4. CASE state'[q] # state[q]
    <3>1. q = r /\ Wrote(s, r)
      BY <1>0, <1>2, <2>1, <2>4
    <3>2. ~ Wrote(u, r)
      BY <1>0, <1>1, <3>1 DEF Locks
    <3>3. Stands(u)'
      BY <2>1, <3>1, <3>2 DEF Stands, Wrote, Shape
    <3>4. ASSUME tx[u].op = "UPDATE" PROVE tx[u].expected >= 1
      BY <1>7, <2>1, <3>4 DEF HasRead
    <3>5. ASSUME tx[u].op = "UPDATE", \E x : x = q /\ NoDelete(x)'
          PROVE  /\ state'[q] # None
                 /\ \/ state'[q].version > tx[u].expected
                    \/ /\ state'[q].version >= tx[u].expected
                       /\ outbox'[state'[q].val].op # "UPDATE"
      <4>1. \E x : x = r /\ Changes(x)' = Changes(x) \cup {n} /\ NoDelete(x)'
        BY <1>0, <3>1, <3>5
      <4>2. tx[s].op # "DELETE"
        BY <1>0, <4>1 DEF NoDelete
      <4>3. NoDelete(r)
        BY <1>0, <2>2, <3>1, <4>1 DEF NoDelete
      <4>4. /\ state'[r] \in RowType /\ state'[r].val = n
            /\ state'[r].version = tx[s].expected + 1
        BY <1>0, <4>2
      <4>5. /\ state'[q] = state'[r] /\ state'[q] # None /\ state'[q].val = n
            /\ state'[q].version = tx[s].expected + 1 /\ outbox'[n].op = tx[s].op
        BY <1>0, <1>3, <3>1, <4>4
      <4> HIDE DEF q
      <4>6. CASE state[r] = None
        <5>1. tx[u].expected = 1
          BY <1>7, <2>1, <3>1, <3>5, <4>3, <4>6 DEF HasRead, q
        <5>2. CASE tx[s].op = "CREATE"
          BY <1>1, <4>5, <5>1, <5>2
        <5>3. CASE tx[s].op = "UPDATE"
          <6>1. tx[s].expected >= 1
            BY <1>0, <1>1, <5>3 DEF HasRead
          <6> QED BY <1>1, <4>5, <5>1, <6>1
        <5> QED BY <1>0, <4>2, <5>2, <5>3
      <4>7. CASE state[r] # None
        <5>1. tx[s].op = "UPDATE" /\ state[r].version = tx[s].expected
          BY <1>0, <1>1, <4>2, <4>7 DEF Stands, r
        <5>2. state[r].version >= tx[u].expected
          BY <1>7, <2>1, <3>1, <3>5, <4>3, <4>7 DEF HasRead, q
        <5> QED BY <1>1, <2>1, <4>5, <5>1, <5>2
      <4> QED BY <4>6, <4>7
    <3>6. HasRead(u)'
      <4>1. CASE state'[q] = None \/ state'[q] \in RowType
        <5>1. state'[q] # None => state'[q].version \in Nat
          BY <4>1 DEF RowType
        <5> QED BY <2>1, <3>4, <3>5, <5>1 DEF HasRead
      <4> QED BY <1>0, <2>1, <3>1, <4>1
    <3> QED BY <3>3, <3>6
  <2> QED BY <2>3, <2>4
<1>8. ASSUME NEW u \in Session \ {s}, tx[u].pc \notin {"hydrate", "built", "applied"}
      PROVE  Stands(u)' /\ HasRead(u)'
  BY <1>1, <1>8 DEF Stands, HasRead
<1> QED BY <1>4, <1>5, <1>6, <1>7, <1>8 DEF LockInv

LEMMA LockLoop ==
  ASSUME TInv, StateFollowsOutbox, LockInv, Relabelled, UNCHANGED <<state, tx>>
  PROVE  LockInv'
<1>1. ASSUME NEW r \in Rid, state[r] # None
      PROVE  outbox'[state[r].val].op = outbox[state[r].val].op
  BY <1>1, ValueInOutbox DEF Relabelled, Same
<1>2. ASSUME NEW r PROVE NoDelete(r)' <=> NoDelete(r)
  BY DEF NoDelete, Changes, Relabelled, Same
<1>3. Locks' /\ \A r \in Rid : Updated(r)'
  BY <1>1 DEF LockInv, Locks, Wrote, Updated
<1>4. ASSUME NEW s \in Session PROVE Stands(s)' /\ HasRead(s)'
  <2>1. Stands(s) /\ HasRead(s) /\ Shape(tx[s])
    BY DEF LockInv, TInv, TxOK
  <2>2. Stands(s)'
    BY <2>1 DEF Stands, Wrote
  <2>3. \A x : x = tx[s].rid => (NoDelete(x)' <=> NoDelete(x))
    BY <1>2
  <2>4. CASE tx[s].pc \in {"hydrate", "built", "applied"}
    <3>1. tx[s].rid \in Rid
      BY <2>1, <2>4 DEF Shape
    <3> QED BY <1>1, <2>1, <2>2, <2>3, <3>1 DEF HasRead
  <2>5. CASE tx[s].pc \notin {"hydrate", "built", "applied"}
    BY <2>2, <2>5 DEF HasRead
  <2> QED BY <2>4, <2>5
<1> QED BY <1>3, <1>4 DEF LockInv

LEMMA LockNext ==
  ASSUME Batched = {}, TInv, HoldInv, StateFollowsOutbox, LockInv, [Next]_vars
  PROVE  LockInv'
<1>0. ASSUME UNCHANGED <<pg, tx>> PROVE LockInv'
  <2>1. Relabelled /\ UNCHANGED <<state, tx>>
    BY <1>0 DEF pg, TInv, PgOK, Relabelled, Same
  <2> QED BY <2>1, LockLoop
<1>1. ASSUME NEW s \in Session, Commit(s) PROVE LockInv'
  <2>1. CASE Committed(s)
    BY <1>1, <2>1, LockCommit
  <2>2. CASE UNCHANGED pg
    <3>1. tx'[s] = NoTx /\ \A u \in Session \ {s} : tx'[u] = tx[u]
      BY <1>1, CommitTyped
    <3>2. Stands(s)' /\ HasRead(s)' /\ DOMAIN tx'[s].rows = {}
      BY <3>1, EmptyRows DEF Stands, HasRead, NoTx
    <3> QED BY <2>2, <3>1, <3>2, LockMine
  <2> QED BY <1>1, <2>1, <2>2, CommitTyped
<1>2. CASE LoopStep
  BY <1>2, LoopTyped, LockLoop
<1>3. CASE Crash
  <2>1. \A s \in Session : tx'[s] = NoTx
    BY <1>3 DEF Crash
  <2>2. Locks' /\ \A s \in Session : Stands(s)' /\ HasRead(s)'
    BY <2>1, EmptyRows DEF Locks, Wrote, Stands, HasRead, NoTx
  <2>3. \A r \in Rid : Updated(r)'
    BY <1>3 DEF Crash, pg, LockInv, Updated
  <2> QED BY <2>2, <2>3 DEF LockInv
<1>4. CASE UNCHANGED vars
  BY <1>0, <1>4 DEF vars
<1> QED BY <1>1, <1>2, <1>3, <1>4, LockRequest DEF Next, LoopStep

LEMMA CommitSeesUpdates ==
  ASSUME TInv, LockInv, NEW s \in Session, Commit(s), tx[s].op = "UPDATE",
         state[tx[s].rid] # None, NoDelete(tx[s].rid),
         outbox[state[tx[s].rid].val].op = "UPDATE"
  PROVE  state[tx[s].rid].val = tx[s].base
<1>1. tx[s].pc = "applied" /\ Stands(s) /\ HasRead(s)
  BY DEF Commit, At, LockInv
<1> QED BY <1>1 DEF Stands, HasRead

LEMMA LocksHold == ASSUME Batched = {} PROVE Spec => []LockInv
<1>1. TInv /\ HoldInv /\ StateFollowsOutbox /\ LockInv /\ [Next]_vars => LockInv'
  BY LockNext
<1> QED BY LockInit, TypesHold, HoldsHold, RowsFollowOutbox, <1>1, PTL DEF Spec

(* No update is lost to another one that it has not read, as long as the   *)
(* row is not deleted in between: upsert_object_state's version, the row   *)
(* lock and hydration together, for any number of requests and objects.    *)
THEOREM UpdatesReadUpdates == ASSUME Batched = {} PROVE Spec => UpdatesSeeUpdates
<1>1. TInv /\ LockInv =>
        [\A s \in Session :
           LET row == state[tx[s].rid] IN
           Commit(s) /\ outbox' # outbox /\ tx[s].op = "UPDATE" /\ row # None
             /\ (\A i \in Changes(tx[s].rid) : outbox[i].op # "DELETE")
             /\ outbox[row.val].op = "UPDATE"
           => row.val = tx[s].base]_vars
  BY CommitSeesUpdates DEF NoDelete
<1> QED BY LocksHold, TypesHold, <1>1, PTL DEF UpdatesSeeUpdates

(***************************************************************************)
(* The stamps: no two records, committed or in an open transaction, share  *)
(* one, and the writes of a row are stamped in the order of their commits. *)
(***************************************************************************)
StampInv ==
  /\ \A i, j \in DOMAIN outbox : outbox[i].at = outbox[j].at => i = j
  /\ \A s \in Session : tx[s].at # 0 =>
       tx[s].pc = "applied" /\ \A i \in DOMAIN outbox : outbox[i].at # tx[s].at
  /\ \A s, u \in Session : tx[s].at # 0 /\ tx[s].at = tx[u].at => s = u

(* An open write is stamped later than the committed ones of its row.      *)
Latest(s) ==
  tx[s].at # 0 /\ tx[s].op # "DELETE" =>
    \A i \in Writes(tx[s].rid) : outbox[i].at < tx[s].at

LEMMA StampInit == Init => StampInv /\ WritesStampedInOrder /\ \A s \in Session : Latest(s)
BY DEF Init, StampInv, WritesStampedInOrder, Latest, Writes, Changes, NoTx

(* Only a request that is about to commit has a stamp.                     *)
LEMMA Unstamped ==
  ASSUME TInv, StampInv, NEW s \in Session, ActionStep(s), ~ Commit(s), ~ Stamp(s)
  PROVE  tx'[s].at = 0 /\ \A u \in Session \ {s} : tx'[u] = tx[u]
<1>0. tx \in [Session -> TxRecord] /\ tx[s] \in TxRecord /\ TxOK
  BY DEF TInv, TxOK
<1>1. tx[s].pc # "applied" => tx[s].at = 0
  BY DEF StampInv
<1>2. CASE Begin(s)
  <2>1. PICK k : Become(s, [tx[s] EXCEPT !.pc = "checked", !.key = k])
    BY <1>2 DEF Begin
  <2>2. tx'[s].at = tx[s].at /\ \A u \in Session \ {s} : tx'[u] = tx[u]
    BY <1>0, <2>1 DEF Become, TxRecord
  <2> QED BY <1>1, <1>2, <2>2 DEF Begin, At
<1>3. ASSUME NEW o, NEW r, NEW op, NEW base, NEW expected,
             Built(s, op, o, r, base, expected), tx[s].pc = "checked"
      PROVE  tx'[s].at = 0 /\ \A u \in Session \ {s} : tx'[u] = tx[u]
  <2>1. tx'[s].at = tx[s].at /\ \A u \in Session \ {s} : tx'[u] = tx[u]
    BY <1>0, <1>3 DEF Built, Become, TxRecord
  <2> QED BY <1>1, <1>3, <2>1
<1>4. ASSUME NEW o \in Obj, BuildCreate(s, o) \/ BuildUpsert(s, o) \/ BuildDelete(s, o)
      PROVE  tx'[s].at = 0 /\ \A u \in Session \ {s} : tx'[u] = tx[u]
  BY <1>3, <1>4 DEF BuildCreate, BuildUpsert, BuildDelete, At
<1>5. ASSUME NEW o \in Obj, BuildModify(s, o)
      PROVE  tx'[s].at = 0 /\ \A u \in Session \ {s} : tx'[u] = tx[u]
  <2>1. CASE Built(s, "UPDATE", o, o, Read(s, o).val, Read(s, o).version)
    BY <1>3, <1>5, <2>1 DEF BuildModify, At
  <2>2. CASE Become(s, [tx[s] EXCEPT !.pc = "hydrate", !.op = "UPDATE", !.obj = o,
                                     !.rid = o, !.base = index[o], !.expected = 1])
    <3>1. tx'[s].at = tx[s].at /\ \A u \in Session \ {s} : tx'[u] = tx[u]
      BY <1>0, <2>2 DEF Become, TxRecord
    <3> QED BY <1>1, <1>5, <3>1 DEF BuildModify, At
  <2> QED BY <1>5, <2>1, <2>2 DEF BuildModify
<1>6. CASE Hydrate(s)
  <2>1. tx'[s].at = tx[s].at /\ tx[s].pc = "hydrate"
    BY <1>0, <1>6, HydrateTyped DEF TxRecord, Hydrate, At
  <2> QED BY <1>1, <1>6, <2>1, HydrateTyped
<1>7. CASE Refuse(s)
  <2>1. NoTx.at = 0 /\ [NoTx EXCEPT !.rows = tx[s].rows].at = 0
    BY NoTxTyped DEF NoTx, TxRecord
  <2> QED BY <1>0, <1>7, <2>1, RefuseTyped
<1>8. CASE Apply(s)
  <2>1. tx[s].pc = "built"
    BY <1>8 DEF Apply, At
  <2>2. tx'[s] = AppliedWrite(s) => tx'[s].at = tx[s].at
    BY <1>0 DEF AppliedWrite, TxRecord
  <2>3. tx'[s] = NoTx => tx'[s].at = 0
    BY DEF NoTx
  <2> QED BY <1>1, <1>8, <2>1, <2>2, <2>3, ApplyTyped
<1>9. CASE Snapshot(s)
  <2>1. tx'[s].at = tx[s].at /\ tx[s].pc = "built"
    BY <1>9, SnapshotFields
  <2> QED BY <1>1, <1>9, <2>1, SnapshotTyped
<1>10. CASE SelectRow(s)
  <2>1. tx'[s].at = tx[s].at /\ tx[s].pc = "snapped"
    BY <1>10, SelectRowFields
  <2> QED BY <1>1, <1>10, <2>1, SelectRowTyped
<1>11. CASE DeleteRow(s)
  <2>1. tx'[s].at = tx[s].at /\ tx[s].pc = "found"
    BY <1>11, DeleteRowFields
  <2> QED BY <1>1, <1>11, <2>1, DeleteRowTyped
<1> QED BY <1>2, <1>4, <1>5, <1>6, <1>7, <1>8, <1>9, <1>10, <1>11 DEF ActionStep

LEMMA StampRequest ==
  ASSUME TInv, StampInv, NEW s \in Session, ActionStep(s), ~ Commit(s)
  PROVE  StampInv'
<1>0. outbox' = outbox
  BY RequestTyped DEF pg
<1>1. CASE Stamp(s)
  <2>1. PICK n \in 1..MaxStamp :
          (\A m \in Stamps : m < n) /\ tx'[s] = [tx[s] EXCEPT !.at = n]
    BY <1>1, StampTyped
  <2>2. tx'[s].at = n /\ tx'[s].pc = "applied"
    BY <1>1, <2>1 DEF TInv, TxOK, TxRecord, Stamp, At
  <2>3. /\ \A i \in DOMAIN outbox : outbox[i].at # n
        /\ \A u \in Session : tx[u].at # n
    BY <2>1, StampsUsed, SyncAssumption
  <2>4. \A u \in Session \ {s} : tx'[u] = tx[u]
    BY <1>1, StampTyped
  <2> QED BY <1>0, <2>2, <2>3, <2>4 DEF StampInv
<1>2. CASE ~ Stamp(s)
  BY <1>0, <1>2, Unstamped DEF StampInv
<1> QED BY <1>1, <1>2

(* What a commit puts in the outbox, and takes from its session.           *)
LEMMA StampCommitted ==
  ASSUME TInv, NEW s \in Session, Commit(s), Committed(s),
         NEW n \in Nat, n = Len(outbox) + 1
  PROVE  /\ DOMAIN outbox' = DOMAIN outbox \cup {n} /\ n \notin DOMAIN outbox
         /\ \A i \in DOMAIN outbox : outbox'[i] = outbox[i] /\ i < n /\ i \in Nat
         /\ outbox'[n].at = tx[s].at /\ outbox'[n].rid = tx[s].rid
         /\ outbox'[n].op = tx[s].op /\ tx[s].at # 0 /\ tx[s].pc = "applied"
         /\ tx'[s].at = 0 /\ \A u \in Session \ {s} : tx'[u] = tx[u]
<1>1. outbox \in Seq(RecordType) /\ outbox' = Append(outbox, Record(s))
  BY DEF TInv, PgOK, Committed
<1>2. /\ Record(s).at = tx[s].at /\ Record(s).rid = tx[s].rid /\ Record(s).op = tx[s].op
      /\ tx[s].at # 0 /\ tx[s].pc = "applied"
  BY DEF Record, Commit, At
<1>3. tx'[s] = NoTx /\ \A u \in Session \ {s} : tx'[u] = tx[u]
  BY CommitTyped
<1>4. NoTx.at = 0
  BY DEF NoTx
<1>5. /\ DOMAIN outbox' = DOMAIN outbox \cup {n} /\ n \notin DOMAIN outbox
      /\ \A i \in DOMAIN outbox : outbox'[i] = outbox[i] /\ i < n /\ i \in Nat
      /\ outbox'[n] = Record(s)
  <2> DEFINE record == Record(s)
  <2>1. outbox' = Append(outbox, record)
    BY <1>1
  <2> HIDE DEF record
  <2>2. /\ DOMAIN outbox = 1..Len(outbox) /\ DOMAIN outbox' = 1..n /\ Len(outbox) \in Nat
        /\ outbox'[n] = record /\ \A i \in 1..Len(outbox) : outbox'[i] = outbox[i]
    BY <1>1, <2>1
  <2> QED BY <2>2 DEF record
<1> QED BY <1>2, <1>3, <1>4, <1>5

LEMMA StampNext == ASSUME TInv, StampInv, [Next]_vars PROVE StampInv'
<1>1. ASSUME NEW s \in Session, Commit(s) PROVE StampInv'
  <2>1. CASE Committed(s)
    <3>0. PICK n \in Nat : n = Len(outbox) + 1
      BY DEF TInv, PgOK
    <3>1. /\ DOMAIN outbox' = DOMAIN outbox \cup {n} /\ n \notin DOMAIN outbox
          /\ \A i \in DOMAIN outbox : outbox'[i] = outbox[i]
          /\ outbox'[n].at = tx[s].at /\ tx[s].at # 0 /\ tx'[s].at = 0
          /\ \A u \in Session \ {s} : tx'[u] = tx[u]
      BY <1>1, <2>1, <3>0, StampCommitted
    <3> QED BY <3>1 DEF StampInv
  <2>2. CASE UNCHANGED pg
    <3>1. tx'[s].at = 0 /\ \A u \in Session \ {s} : tx'[u] = tx[u]
      BY <1>1, CommitTyped DEF NoTx
    <3> QED BY <2>2, <3>1 DEF StampInv, pg
  <2> QED BY <1>1, <2>1, <2>2, CommitTyped
<1>2. ASSUME NEW s \in Session, ActionStep(s), ~ Commit(s) PROVE StampInv'
  BY <1>2, StampRequest
<1>3. CASE LoopStep
  BY <1>3, LoopTyped DEF StampInv, Relabelled, Same
<1>4. CASE Crash
  BY <1>4 DEF Crash, NoTx, StampInv, pg
<1>5. CASE UNCHANGED vars
  BY <1>5 DEF vars, pg, StampInv
<1> QED BY <1>1, <1>2, <1>3, <1>4, <1>5 DEF Next, LoopStep

LEMMA StampsHold == Spec => []StampInv
<1>1. TInv /\ StampInv /\ [Next]_vars => StampInv'
  BY StampNext
<1> QED BY StampInit, TypesHold, <1>1, PTL DEF Spec

Stamped == WritesStampedInOrder /\ \A s \in Session : Latest(s)

LEMMA StampedNext ==
  ASSUME TInv, StampInv, Locks, Stamped, [Next]_vars
  PROVE  Stamped'
<1>1. ASSUME NEW s \in Session, Commit(s), Committed(s) PROVE Stamped'
  <2>0. PICK n \in Nat : n = Len(outbox) + 1
    BY DEF TInv, PgOK
  <2> DEFINE r == tx[s].rid
  <2>1. /\ DOMAIN outbox' = DOMAIN outbox \cup {n} /\ n \notin DOMAIN outbox
        /\ \A i \in DOMAIN outbox : outbox'[i] = outbox[i] /\ i < n /\ i \in Nat
        /\ outbox'[n].at = tx[s].at /\ outbox'[n].rid = r /\ outbox'[n].op = tx[s].op
        /\ tx[s].at # 0 /\ tx[s].pc = "applied" /\ tx'[s].at = 0
        /\ \A u \in Session \ {s} : tx'[u] = tx[u]
    BY <1>1, <2>0, StampCommitted
  <2>2. n \in Nat /\ r \in Rid /\ \A x : Writes(x) \subseteq DOMAIN outbox
    BY <1>1 DEF TInv, PgOK, TxOK, Shape, Commit, At, Writes, Changes
  <2> HIDE DEF r
  <2>3. \A x : Writes(x)' = Writes(x)
               \cup (IF x = r /\ tx[s].op # "DELETE" THEN {n} ELSE {})
    BY <2>1 DEF Writes, Changes
  <2>4. tx[s].op # "DELETE" => \A i \in Writes(r) : outbox[i].at < tx[s].at
    BY <2>1 DEF Stamped, Latest, r
  <2>5. ASSUME NEW x \in Rid, NEW i \in Writes(x)', NEW j \in Writes(x)', i < j
        PROVE  outbox'[i].at < outbox'[j].at
    <3>1. CASE i \in Writes(x) /\ j \in Writes(x)
      BY <2>1, <2>2, <2>5, <3>1 DEF Stamped, WritesStampedInOrder
    <3>2. CASE i = n
      BY <2>1, <2>2, <2>3, <2>5, <3>2
    <3>3. CASE i \in Writes(x) /\ j = n /\ j \notin Writes(x)
      BY <2>1, <2>2, <2>3, <2>4, <3>3
    <3> QED BY <2>1, <2>2, <2>3, <3>1, <3>2, <3>3
  <2>6. ASSUME NEW u \in Session PROVE Latest(u)'
    <3> SUFFICES ASSUME u # s, tx[u].at # 0, tx[u].op # "DELETE",
                        NEW i, \E x : x = tx[u].rid /\ i \in Writes(x)'
                 PROVE  outbox'[i].at < tx[u].at
      BY <2>1 DEF Latest
    <3>1. CASE i \in DOMAIN outbox
      <4>1. i \in Writes(tx[u].rid)
        BY <2>1, <2>3, <3>1
      <4> QED BY <2>1, <3>1, <4>1 DEF Stamped, Latest
    <3>2. CASE i \notin DOMAIN outbox
      <4>1. tx[u].rid = r /\ tx[s].op # "DELETE"
        BY <2>2, <2>3, <3>2
      <4>2. tx[u].pc = "applied" /\ Shape(tx[u]) /\ Shape(tx[s])
        BY DEF StampInv, TInv, TxOK
      <4>3. Wrote(u, r) /\ Wrote(s, r)
        BY <2>1, <4>1, <4>2 DEF Shape, Wrote, r
      <4> QED BY <2>2, <4>3 DEF Locks
    <3> QED BY <3>1, <3>2
  <2> QED BY <2>5, <2>6 DEF Stamped, WritesStampedInOrder
<1>2. ASSUME Relabelled, \A u \in Session : tx'[u].at = 0 \/ tx'[u] = tx[u] PROVE Stamped'
  <2>1. \A x : Writes(x)' = Writes(x) /\ Writes(x) \subseteq DOMAIN outbox
    BY <1>2 DEF Relabelled, Same, Writes, Changes
  <2>2. WritesStampedInOrder'
    BY <1>2, <2>1 DEF Stamped, WritesStampedInOrder, Relabelled, Same
  <2>3. ASSUME NEW u \in Session PROVE Latest(u)'
    <3>1. CASE tx'[u].at = 0
      BY <3>1 DEF Latest
    <3>2. CASE tx'[u] = tx[u]
      BY <1>2, <2>1, <3>2 DEF Stamped, Latest, Relabelled, Same
    <3> QED BY <1>2, <3>1, <3>2
  <2> QED BY <2>2, <2>3 DEF Stamped
<1>3. outbox' = outbox => Relabelled
  BY DEF TInv, PgOK, Relabelled, Same
<1>4. ASSUME NEW s \in Session, Commit(s), ~ Committed(s) PROVE Stamped'
  BY <1>2, <1>3, <1>4, CommitTyped DEF pg, NoTx
<1>5. ASSUME NEW s \in Session, ActionStep(s), ~ Commit(s), ~ Stamp(s) PROVE Stamped'
  BY <1>2, <1>3, <1>5, RequestTyped, Unstamped DEF pg
<1>6. ASSUME NEW s \in Session, Stamp(s) PROVE Stamped'
  <2>1. PICK n \in 1..MaxStamp :
          (\A m \in Stamps : m < n) /\ tx'[s] = [tx[s] EXCEPT !.at = n]
    BY <1>6, StampTyped
  <2>2. tx'[s].at = n
    BY <2>1 DEF TInv, TxOK, TxRecord
  <2>3. \A u \in Session \ {s} : tx'[u] = tx[u]
    BY <1>6, StampTyped
  <2>4. outbox' = outbox /\ \A x : Writes(x)' = Writes(x) /\ Writes(x) \subseteq DOMAIN outbox
    BY <1>6 DEF Stamp, pg, Writes, Changes
  <2>5. WritesStampedInOrder'
    BY <2>4 DEF Stamped, WritesStampedInOrder
  <2>6. Latest(s)'
    BY <2>1, <2>2, <2>4, StampsUsed DEF Latest
  <2>7. ASSUME NEW u \in Session \ {s} PROVE Latest(u)'
    BY <2>3, <2>4 DEF Stamped, Latest
  <2> QED BY <2>5, <2>6, <2>7 DEF Stamped
<1>7. CASE LoopStep
  BY <1>2, <1>7, LoopTyped
<1>8. CASE Crash
  BY <1>2, <1>3, <1>8 DEF Crash, NoTx, pg
<1>9. CASE UNCHANGED vars
  BY <1>2, <1>3, <1>9 DEF vars, pg
<1> QED BY <1>1, <1>4, <1>5, <1>6, <1>7, <1>8, <1>9 DEF Next, LoopStep

(* The consumers' order, created_at, is the order of the commits for the   *)
(* CREATEs and UPDATEs of one row, for any number of concurrent requests:  *)
(* each is stamped while its transaction holds the row.                    *)
THEOREM StampsFollowCommits == ASSUME Batched = {} PROVE Spec => []WritesStampedInOrder
<1>1. Init => Stamped
  BY StampInit DEF Stamped
<1>2. TInv /\ StampInv /\ LockInv /\ Stamped /\ [Next]_vars => Stamped'
  BY StampedNext DEF LockInv
<1>3. Stamped => WritesStampedInOrder
  BY DEF Stamped
<1> QED BY TypesHold, StampsHold, LocksHold, <1>1, <1>2, <1>3, PTL DEF Spec

(***************************************************************************)
(* Iceberg: what a merge writes                                            *)
(***************************************************************************)
Rising(q) == \A i, j \in DOMAIN q : i < j => q[i] < q[j]

(* Such a set can be put in order: a smallest one that could not would     *)
(* still have no order without its greatest element.                       *)
LEMMA CanBeSorted ==
  ASSUME NEW N \in Nat, NEW S \in SUBSET (1 .. N)
  PROVE  \E q \in [1 .. Cardinality(S) -> S] : Rising(q)
<1> DEFINE Sorted(T) == \E q \in [1 .. Cardinality(T) -> T] : Rising(q)
           bad == {n \in Nat : \E T \in SUBSET (1 .. N) : Cardinality(T) = n /\ ~ Sorted(T)}
<1>1. SUFFICES ASSUME ~ Sorted(S) PROVE FALSE
  OBVIOUS
<1>2. Cardinality(S) \in bad
  BY <1>1, GreatestNumber
<1>3. PICK n \in bad : \A m \in bad : n <= m
  <2>1. bad \in SUBSET Nat /\ bad # {}
    BY <1>2
  <2> HIDE DEF bad
  <2> QED BY <2>1, LeastNumber
<1>4. PICK T \in SUBSET (1 .. N) : Cardinality(T) = n /\ ~ Sorted(T)
  BY <1>3
<1>5. n \in Nat /\ IsFiniteSet(T) /\ (n = 0 <=> T = {})
  BY <1>4, GreatestNumber
<1>6. CASE n = 0
  <2>1. << >> \in [1 .. n -> T] /\ Rising(<< >>)
    BY <1>6 DEF Rising
  <2> QED BY <1>4, <2>1
<1>7. CASE n # 0
  <2> DEFINE top == Newest(T)
             U == T \ {top}
  <2>1. top \in T /\ (\A j \in T : j <= top) /\ n - 1 \in Nat /\ \A j \in T : j \in Nat
    <3>1. T # {} /\ n - 1 \in Nat
      BY <1>5, <1>7
    <3>2. top \in T /\ \A j \in T : j <= top
      <4> HIDE DEF top
      <4> QED BY <1>4, <3>1, GreatestNumber DEF top
    <3>3. \A j \in T : j \in 1 .. N
      BY <1>4
    <3> QED BY <3>1, <3>2, <3>3
  <2> HIDE DEF top
  <2>2. U \in SUBSET (1 .. N) /\ Cardinality(U) = n - 1
    BY <1>4, <1>5, <2>1, FS_RemoveElement
  <2>3. n - 1 \notin bad
    <3> HIDE DEF bad
    <3> QED BY <1>3, <1>5
  <2>4. Sorted(U)
    BY <2>1, <2>2, <2>3
  <2>5. PICK q \in [1 .. n - 1 -> U] : Rising(q)
    BY <2>2, <2>4
  <2> DEFINE r == [i \in 1 .. n |-> IF i = n THEN top ELSE q[i]]
  <2>6. r \in [1 .. n -> T]
    BY <1>5, <2>1
  <2>7. ASSUME NEW i \in 1 .. n, NEW j \in 1 .. n, i < j PROVE r[i] < r[j]
    <3>1. i \in 1 .. n - 1 /\ r[i] = q[i] /\ q[i] \in U
      BY <1>5, <2>7
    <3>2. CASE j = n
      <4>1. q[i] \in Nat /\ q[i] # top /\ q[i] <= top /\ top \in Nat
        <5>1. q[i] \in T /\ q[i] # top
          BY <3>1
        <5> QED BY <2>1, <5>1
      <4> QED BY <3>1, <3>2, <4>1
    <3>3. CASE j # n
      <4>1. j \in 1 .. n - 1 /\ r[j] = q[j]
        BY <1>5, <3>3
      <4> QED BY <2>5, <2>7, <3>1, <4>1 DEF Rising
    <3> QED BY <3>2, <3>3
  <2>8. DOMAIN r = 1 .. n
    OBVIOUS
  <2> HIDE DEF r
  <2>9. Rising(r)
    BY <2>7, <2>8 DEF Rising
  <2> QED BY <1>4, <2>6, <2>9
<1> QED BY <1>6, <1>7

(* A set of records, whose stamps are all different, can be put in their   *)
(* order.                                                                  *)
LEMMA CanBeStamped ==
  ASSUME TInv, StampInv, NEW S \in SUBSET DOMAIN outbox
  PROVE  \E p \in SetToSeqs(S) :
           \A i, j \in DOMAIN p : i < j => outbox[p[i]].at < outbox[p[j]].at
<1> DEFINE stamps == {outbox[i].at : i \in S}
           f == [i \in S |-> outbox[i].at]
           c == Cardinality(S)
<1>0. /\ S \in SUBSET (1 .. Len(outbox)) /\ Len(outbox) \in Nat
      /\ \A i \in S : outbox[i].at \in 1 .. MaxStamp
      /\ \A i, j \in S : outbox[i].at = outbox[j].at => i = j
  <2>1. \A i \in DOMAIN outbox : outbox[i] \in RecordType
    BY DEF TInv, PgOK
  <2>2. S \in SUBSET (1 .. Len(outbox)) /\ Len(outbox) \in Nat
    BY DEF TInv, PgOK
  <2> QED BY <2>1, <2>2 DEF RecordType, StampInv
<1>1. c \in Nat /\ IsFiniteSet(S)
  <2> HIDE DEF c
  <2> QED BY <1>0, GreatestNumber DEF c
<1>2. f \in Bijection(S, stamps)
  BY <1>0 DEF Bijection, Injection, Surjection, IsInjective
<1>3. Cardinality(stamps) = c
  <2> HIDE DEF f, stamps
  <2> QED BY <1>1, <1>2, FS_Bijection DEF ExistsBijection
<1>4. PICK q \in [1 .. c -> stamps] : Rising(q)
  <2>1. stamps \in SUBSET (1 .. MaxStamp) /\ MaxStamp \in Nat
    BY <1>0, SyncAssumption
  <2> HIDE DEF stamps
  <2>2. \E q \in [1 .. Cardinality(stamps) -> stamps] : Rising(q)
    BY <2>1, CanBeSorted
  <2> QED BY <1>3, <2>2
<1> DEFINE p == [k \in 1 .. c |-> CHOOSE i \in S : outbox[i].at = q[k]]
<1>5. ASSUME NEW k \in 1 .. c PROVE p[k] \in S /\ outbox[p[k]].at = q[k]
  <2>1. \E i \in S : outbox[i].at = q[k]
    BY <1>4
  <2> QED BY <2>1
<1>6. p \in [1 .. c -> S] /\ DOMAIN p = 1 .. c
  BY <1>5
<1> HIDE DEF p
<1>7. \A i, j \in 1 .. c : i < j => outbox[p[i]].at < outbox[p[j]].at
  BY <1>4, <1>5 DEF Rising
<1>8. ASSUME NEW i \in 1 .. c, NEW j \in 1 .. c, p[i] = p[j] PROVE i = j
  <2>1. i \in Nat /\ j \in Nat /\ q[i] = q[j]
    BY <1>1, <1>5, <1>8
  <2>2. q[i] \in 1 .. MaxStamp
    BY <1>0, <1>5
  <2>3. ~ (i < j) /\ ~ (j < i)
    BY <1>4, <2>1, <2>2 DEF Rising
  <2> QED BY <2>1, <2>3
<1>9. p \in SetToSeqs(S)
  BY <1>6, <1>8 DEF SetToSeqs
<1> QED BY <1>6, <1>7, <1>9

(* The source rows of a merge: all of them, and the last is the newest one *)
(* if they are stamped in the order of their commits.                      *)
LEMMA AscendingLists ==
  ASSUME TInv, StampInv, NEW S \in SUBSET DOMAIN outbox
  PROVE  /\ Ascending(S) \in Seq(S) /\ Len(Ascending(S)) = Cardinality(S)
         /\ S # {} => Len(Ascending(S)) # 0
         /\ S # {} /\ (\A i, j \in S : i < j => outbox[i].at < outbox[j].at)
              => Ascending(S)[Len(Ascending(S))] = Newest(S)
<1> DEFINE c == Cardinality(S)
           a == Ascending(S)
<1>0. S \in SUBSET (1 .. Len(outbox)) /\ Len(outbox) \in Nat
  BY DEF TInv, PgOK
<1>1. c \in Nat /\ IsFiniteSet(S) /\ (c = 0 <=> S = {})
  BY <1>0, GreatestNumber
<1>2. a \in SetToSeqs(S) /\ \A i, j \in DOMAIN a : i < j => outbox[a[i]].at < outbox[a[j]].at
  BY CanBeStamped DEF Ascending
<1>3. a \in [1 .. c -> S] /\ \A i, j \in 1 .. c : i # j => a[i] # a[j]
  BY <1>2 DEF SetToSeqs
<1> HIDE DEF a
<1>4. a \in Seq(S) /\ Len(a) = c
  BY <1>1, <1>3
<1>5. ASSUME S # {}, \A i, j \in S : i < j => outbox[i].at < outbox[j].at
      PROVE  a[c] = Newest(S)
  <2>1. Newest(S) \in S /\ (\A j \in S : j <= Newest(S)) /\ c \in 1 .. c
    <3>1. c \in 1 .. c
      <4> HIDE DEF c
      <4>1. c \in Nat /\ c # 0
        BY <1>1, <1>5
      <4> QED BY <4>1
    <3> QED BY <1>0, <1>5, <3>1, GreatestNumber
  <2>2. a \in Injection(1 .. c, S)
    BY <1>3 DEF Injection, IsInjective
  <2>3. Cardinality(1 .. c) = c
    BY <1>1, FS_Interval
  <2>4. a \in Surjection(1 .. c, S)
    <3> HIDE DEF c
    <3>1. Cardinality(1 .. c) = Cardinality(S)
      BY <2>3 DEF c
    <3> QED BY <1>1, <2>2, <3>1, FS_Injection
  <2>5. PICK k \in 1 .. c : a[k] = Newest(S)
    BY <2>1, <2>4 DEF Surjection
  <2>6. /\ a[c] \in S /\ a[c] \in Nat /\ a[k] \in Nat /\ a[c] <= a[k]
        /\ outbox[a[c]].at \in Nat /\ outbox[a[k]].at \in Nat
    <3>1. \A j \in S : j \in Nat /\ outbox[j].at \in Nat
      <4>1. \A j \in S : j \in 1 .. Len(outbox)
        BY <1>0
      <4> QED BY <1>0, <4>1, StampsUsed
    <3> HIDE DEF c
    <3> QED BY <1>3, <2>1, <2>5, <3>1
  <2>7. k < c => outbox[a[k]].at < outbox[a[c]].at
    <3>1. DOMAIN a = 1 .. c
      BY <1>3
    <3> HIDE DEF c
    <3> QED BY <1>2, <2>1, <3>1
  <2>8. ~ (a[c] < a[k])
    <3> SUFFICES ASSUME a[c] < a[k] PROVE FALSE
      OBVIOUS
    <3>1. outbox[a[c]].at < outbox[a[k]].at
      BY <1>5, <2>1, <2>5, <2>6
    <3>2. k = c \/ k < c
      <4> HIDE DEF c
      <4> QED BY <1>1
    <3> QED BY <2>6, <2>7, <3>1, <3>2
  <2> QED BY <2>5, <2>6, <2>8
<1> QED BY <1>1, <1>4, <1>5 DEF a

(* The rows of an object in the batch that a merge takes.                  *)
ArchiveOK  == archive \in [Obj -> Seq(Vals)]
BatchOf(o) == {i \in flush.batch : outbox[i].pk = o}
LastRow(o) == archive[o][Len(archive[o])]
Steady(o)   == InStampOrder(o) /\ \A i \in Of(o) : outbox[i].op # "DELETE"

LEMMA BatchInOutbox ==
  ASSUME PgOK, FlushOK, NEW o
  PROVE  /\ flush.batch \subseteq DOMAIN outbox /\ DOMAIN outbox = 1 .. Len(outbox)
         /\ Len(outbox) \in Nat /\ 1 .. Len(outbox) \subseteq Vals
         /\ Rows(o, FALSE) \in SUBSET (1 .. Len(outbox))
         /\ BatchOf(o) \subseteq Of(o)
         /\ Steady(o) => Rows(o, TRUE) = {} /\ Rows(o, FALSE) = BatchOf(o)
<1>1. /\ flush.batch \subseteq DOMAIN outbox /\ DOMAIN outbox = 1 .. Len(outbox)
      /\ Len(outbox) \in Nat /\ 1 .. Len(outbox) \subseteq Vals
  BY SyncAssumption DEF PgOK, FlushOK, Vals
<1>2. Rows(o, FALSE) \in SUBSET (1 .. Len(outbox))
  BY <1>1 DEF Rows
<1>3. BatchOf(o) \subseteq Of(o)
  BY <1>1 DEF BatchOf, Of
<1>4. Steady(o) => Rows(o, TRUE) = {} /\ Rows(o, FALSE) = BatchOf(o)
  BY <1>1 DEF Steady, Rows, BatchOf, Of
<1> QED BY <1>1, <1>2, <1>3, <1>4

(* What a merge makes of an object: what it was, when the batch has none   *)
(* of its rows; else rows of which the last is the newest of the batch.    *)
LEMMA UpsertedRows ==
  ASSUME TInv, StampInv, ArchiveOK, Mergeable(FALSE), NEW o \in Obj
  PROVE  /\ Upserted(o) \in Seq(Vals)
         /\ Rows(o, FALSE) = {} => Upserted(o) = archive[o]
         /\ Rows(o, FALSE) # {} => Upserted(o) # << >>
         /\ Rows(o, FALSE) # {} /\ InStampOrder(o) =>
              Upserted(o)[Len(Upserted(o))] = Newest(Rows(o, FALSE))
<1> DEFINE S == Rows(o, FALSE)
           src == Ascending(S)
           old == archive[o]
<1>1. /\ S \in SUBSET (1 .. Len(outbox)) /\ Len(outbox) \in Nat /\ S \subseteq Vals
      /\ old \in Seq(Vals) /\ DOMAIN outbox = 1 .. Len(outbox) /\ S \subseteq Of(o)
  <2>1. S \subseteq Of(o)
    BY BatchInOutbox DEF TInv, Rows, Of
  <2> QED BY <2>1, BatchInOutbox DEF TInv, ArchiveOK
<1>2. /\ src \in Seq(S) /\ Len(src) = Cardinality(S)
      /\ S # {} => Len(src) # 0
      /\ S # {} /\ InStampOrder(o) => src[Len(src)] = Newest(S)
      /\ Cardinality(S) = 0 <=> S = {}
  <2>1. InStampOrder(o) => \A i, j \in S : i < j => outbox[i].at < outbox[j].at
    BY <1>1 DEF InStampOrder
  <2>2. S \in SUBSET DOMAIN outbox
    BY <1>1
  <2> HIDE DEF S
  <2> QED BY <1>1, <2>1, <2>2, AscendingLists, GreatestNumber
<1>3. old # << >> => Cardinality(S) <= 1
  BY DEF Mergeable
<1>4. Upserted(o) = IF src = << >> THEN old ELSE IF old = << >> THEN src
                    ELSE [n \in DOMAIN old |-> src[1]]
  BY DEF Upserted
<1> HIDE DEF S, src, old
<1>5. src = << >> <=> S = {}
  BY <1>2
<1>9. src \in Seq(Vals)
  <2>1. src \in [1 .. Len(src) -> S] /\ Len(src) \in Nat
    BY <1>2
  <2>2. src \in [1 .. Len(src) -> Vals]
    BY <1>1, <2>1
  <2> QED BY <2>1, <2>2
<1>6. CASE S = {}
  BY <1>1, <1>4, <1>5, <1>6 DEF old, S
<1>7. CASE S # {} /\ old = << >>
  <2>1. Upserted(o) = src
    BY <1>4, <1>5, <1>7
  <2> QED BY <1>2, <1>5, <1>7, <1>9, <2>1 DEF S
<1>8. CASE S # {} /\ old # << >>
  <2>1. Upserted(o) = [n \in DOMAIN old |-> src[1]]
    BY <1>4, <1>5, <1>8
  <2>2. Len(src) = 1 /\ (InStampOrder(o) => src[1] = Newest(S)) /\ src[1] \in Vals
    <3>1. Len(src) = 1
      BY <1>2, <1>3, <1>8
    <3>2. InStampOrder(o) => src[1] = Newest(S)
      BY <1>2, <1>8, <3>1
    <3>3. src[1] \in Vals
      BY <1>9, <3>1
    <3> QED BY <3>1, <3>2, <3>3
  <2>3. DOMAIN old = 1 .. Len(old) /\ Len(old) \in Nat /\ Len(old) # 0
    BY <1>1, <1>8
  <2>4. Upserted(o) \in [1 .. Len(old) -> Vals]
    BY <2>1, <2>2, <2>3
  <2>5. Upserted(o) \in Seq(Vals) /\ Len(Upserted(o)) = Len(old)
    BY <2>3, <2>4
  <2>6. InStampOrder(o) => Upserted(o)[Len(old)] = Newest(S)
    BY <2>1, <2>2, <2>3
  <2> QED BY <1>8, <2>3, <2>5, <2>6 DEF S
<1> QED BY <1>6, <1>7, <1>8

LEMMA ArchiveInit == Init => ArchiveOK
<1> SUFFICES ASSUME Init PROVE ArchiveOK
  OBVIOUS
<1>1. 0 \in Vals
  BY SyncAssumption DEF Vals
<1>2. << 0 >> \in Seq(Vals) /\ << >> \in Seq(Vals)
  BY <1>1
<1> QED BY <1>2 DEF Init, ArchiveOK

LEMMA ArchiveNext == ASSUME TInv, StampInv, ArchiveOK, [Next]_vars PROVE ArchiveOK'
<1>1. ASSUME UNCHANGED archive PROVE ArchiveOK'
  BY <1>1 DEF ArchiveOK
<1>2. CASE MergeUpserts
  <2>1. \A o \in Obj : Upserted(o) \in Seq(Vals)
    BY <1>2, UpsertedRows DEF TInv, MergeUpserts
  <2>2. archive' = [o \in Obj |-> Upserted(o)]
    BY <1>2 DEF MergeUpserts
  <2> HIDE DEF Upserted
  <2> QED BY <2>1, <2>2 DEF ArchiveOK
<1>3. CASE MergeDeletes
  <2>1. << >> \in Seq(Vals)
    OBVIOUS
  <2>2. archive' = [o \in Obj |-> IF Rows(o, TRUE) = {} THEN archive[o] ELSE << >>]
    BY <1>3 DEF MergeDeletes
  <2> HIDE DEF Rows
  <2> QED BY <2>1, <2>2 DEF ArchiveOK
<1>4. ASSUME NEW s \in Session, ActionStep(s) PROVE ArchiveOK'
  <2>1. UNCHANGED stores
    BY <1>4, RequestTyped DEF Commit
  <2> QED BY <1>1, <2>1 DEF stores
<1>5. CASE ExecutorStep
  BY <1>1, <1>5 DEF ExecutorStep, Fetch, Execute, MarkCompleted, HandleFailure,
                    SessionBreaks, stores
<1>6. CASE \E i \in DOMAIN outbox : BackoffEnds(i)
  BY <1>1, <1>6 DEF BackoffEnds, stores
<1>7. CASE Claim \/ MarkBatch \/ FlushFails \/ Crash \/ UNCHANGED vars
  BY <1>1, <1>7 DEF Claim, MarkBatch, FlushFails, Crash, vars, stores
<1> QED BY <1>2, <1>3, <1>4, <1>5, <1>6, <1>7 DEF Next, FlushStep

LEMMA ArchiveTyped == Spec => []ArchiveOK
<1>1. TInv /\ StampInv /\ ArchiveOK /\ [Next]_vars => ArchiveOK'
  BY ArchiveNext
<1> QED BY ArchiveInit, TypesHold, StampsHold, <1>1, PTL DEF Spec

(* Every variable has its type, whatever the requests, the loops and       *)
(* crashes do: in particular a merge leaves a sequence of values in        *)
(* Iceberg, and the outbox never outgrows its bound.                       *)
THEOREM TypesHoldEverywhere == Spec => []TypeOK
<1>1. TInv /\ ArchiveOK => TypeOK
  <2> SUFFICES ASSUME TInv, ArchiveOK PROVE TypeOK
    OBVIOUS
  <2>1. ASSUME NEW s \in Session PROVE TxType(tx[s])
    <3>1. tx[s] \in TxRecord /\ tx[s].rows \in Rows0
      BY DEF TInv, TxOK, TxRecord
    <3> QED BY <3>1, RowsRead DEF TxRecord, TxType
  <2> QED BY <2>1 DEF TInv, IndexOK, ArchiveOK, TypeOK
<1> QED BY ArchiveTyped, TypesHold, <1>1, PTL

(***************************************************************************)
(* Iceberg: nothing is marked that is not merged                           *)
(***************************************************************************)
Marked(o)   == {i \in Of(o) : outbox[i].archive = "COMPLETED"}
Unmarked(o) == {i \in Of(o) : outbox[i].archive = "PENDING"}

(* A batch is made of the oldest records that wait, and records are marked *)
(* oldest first.                                                           *)
FlushOrder ==
  /\ \A i \in flush.batch : outbox[i].archive = "PENDING"
  /\ \A i \in flush.batch, j \in DOMAIN outbox \ flush.batch :
       outbox[j].archive = "PENDING" => i < j
  /\ \A i, j \in DOMAIN outbox :
       outbox[i].archive = "COMPLETED" /\ outbox[j].archive = "PENDING" => i < j

(* Iceberg ends with the newest change that is marked, or with one that is *)
(* merged and not marked yet; past the upserts, with the batch's newest.   *)
MarkedStored(o) ==
  Marked(o) # {} => /\ archive[o] # << >>
                    /\ LastRow(o) = Newest(Marked(o)) \/ LastRow(o) \in Unmarked(o)
BatchStored(o) ==
  flush.pc \in {"deletes", "mark"} /\ BatchOf(o) # {} =>
    archive[o] # << >> /\ LastRow(o) = Newest(BatchOf(o))

FlushInv ==
  FlushOrder /\ \A o \in Obj : Steady(o) => MarkedStored(o) /\ BatchStored(o)

LEMMA FlushImplies == TInv /\ FlushInv => ArchiveHoldsNewest
<1> SUFFICES ASSUME FlushInv, NEW o \in Obj, Of(o) # {}, InStampOrder(o),
                    \A i \in Of(o) : outbox[i].op # "DELETE" /\ outbox[i].archive = "COMPLETED"
             PROVE  archive[o] # << >> /\ archive[o][Len(archive[o])] = Newest(Of(o))
  BY DEF ArchiveHoldsNewest
<1>1. Marked(o) = Of(o) /\ Unmarked(o) = {} /\ Steady(o)
  BY DEF Marked, Unmarked, Steady
<1> QED BY <1>1 DEF FlushInv, MarkedStored, LastRow

LEMMA FlushInit == Init => FlushInv
BY DEF Init, FlushInv, FlushOrder, MarkedStored, BatchStored, Marked, Of, IdleFlush

(* Steps that touch neither Iceberg nor the ARCHIVE side of the outbox,    *)
(* among them a flush that is given up.                                    *)
SameArchiveSide ==
  /\ DOMAIN outbox' = DOMAIN outbox /\ UNCHANGED archive
  /\ flush' = flush \/ flush' = IdleFlush
  /\ \A i \in DOMAIN outbox :
       /\ outbox'[i].pk = outbox[i].pk /\ outbox'[i].op = outbox[i].op
       /\ outbox'[i].archive = outbox[i].archive /\ outbox'[i].at = outbox[i].at

LEMMA FlushKept == ASSUME TInv, FlushInv, SameArchiveSide PROVE FlushInv'
<1>1. flush.batch \subseteq DOMAIN outbox /\ flush'.batch \subseteq flush.batch
  BY DEF TInv, FlushOK, SameArchiveSide, IdleFlush
<1>2. FlushOrder'
  <2>1. CASE flush' = flush
    BY <1>1, <2>1 DEF FlushInv, FlushOrder, SameArchiveSide
  <2>2. CASE flush' = IdleFlush
    BY <2>2 DEF FlushInv, FlushOrder, SameArchiveSide, IdleFlush
  <2> QED BY <2>1, <2>2 DEF SameArchiveSide
<1>3. ASSUME NEW o \in Obj, Steady(o)' PROVE MarkedStored(o)' /\ BatchStored(o)'
  <2>1. Of(o)' = Of(o) /\ Of(o) \subseteq DOMAIN outbox
    BY DEF Of, SameArchiveSide
  <2>2. Marked(o)' = Marked(o) /\ Unmarked(o)' = Unmarked(o)
    BY <2>1 DEF Marked, Unmarked, SameArchiveSide
  <2>3. MarkedStored(o) /\ BatchStored(o)
    <3>1. Steady(o)
      BY <1>3, <2>1 DEF Steady, InStampOrder, SameArchiveSide
    <3> QED BY <3>1 DEF FlushInv
  <2>4. Newest(Marked(o))' = Newest(Marked(o)) /\ LastRow(o)' = LastRow(o)
    BY <2>2 DEF Newest, LastRow, SameArchiveSide
  <2>5. MarkedStored(o)'
    BY <2>2, <2>3, <2>4 DEF MarkedStored, SameArchiveSide
  <2>6. BatchStored(o)'
    <3>1. CASE flush' = flush
      <4>1. BatchOf(o)' = BatchOf(o)
        BY <1>1, <3>1 DEF BatchOf, SameArchiveSide
      <4>2. Newest(BatchOf(o))' = Newest(BatchOf(o))
        BY <4>1 DEF Newest
      <4> QED BY <2>3, <2>4, <3>1, <4>1, <4>2 DEF BatchStored, SameArchiveSide
    <3>2. CASE flush' = IdleFlush
      BY <3>2 DEF BatchStored, IdleFlush
    <3> QED BY <3>1, <3>2 DEF SameArchiveSide
  <2> QED BY <2>5, <2>6
<1> QED BY <1>2, <1>3 DEF FlushInv

(* A change that is committed while a batch is under way is newer than all *)
(* of it, and waits.                                                       *)
LEMMA FlushCommit ==
  ASSUME TInv, FlushInv, NEW s \in Session, Commit(s), Committed(s)
  PROVE  FlushInv'
<1> DEFINE n == Len(outbox) + 1
<1>1. /\ outbox \in Seq(RecordType) /\ outbox' = Append(outbox, Record(s))
      /\ UNCHANGED <<flush, archive>> /\ flush.batch \subseteq DOMAIN outbox
  BY DEF TInv, PgOK, FlushOK, Committed, Commit, stores, workers
<1>2. Record(s).archive = "PENDING"
  BY DEF Record
<1>3. /\ DOMAIN outbox' = DOMAIN outbox \cup {n} /\ outbox'[n] = Record(s)
      /\ n \notin DOMAIN outbox /\ \A i \in DOMAIN outbox : i < n /\ i \in Nat
      /\ n \in Nat
      /\ \A i \in DOMAIN outbox : outbox'[i] = outbox[i]
  <2> HIDE DEF Record
  <2> QED BY <1>1
<1> HIDE DEF n
<1>4. FlushOrder'
  <2> HIDE DEF Record
  <2> QED BY <1>1, <1>2, <1>3 DEF FlushInv, FlushOrder
<1>5. ASSUME NEW o \in Obj, Steady(o)' PROVE MarkedStored(o)' /\ BatchStored(o)'
  <2> HIDE DEF Record
  <2>1. /\ Of(o) \subseteq Of(o)' /\ Of(o)' \subseteq Of(o) \cup {n}
        /\ Of(o) \subseteq DOMAIN outbox
    BY <1>3 DEF Of
  <2>2. Marked(o)' = Marked(o) /\ Unmarked(o) \subseteq Unmarked(o)'
    BY <1>2, <1>3, <2>1 DEF Marked, Unmarked
  <2>3. BatchOf(o)' = BatchOf(o)
    BY <1>1, <1>3 DEF BatchOf
  <2>4. MarkedStored(o) /\ BatchStored(o)
    <3>1. Steady(o)
      BY <1>3, <1>5, <2>1 DEF Steady, InStampOrder
    <3> QED BY <3>1 DEF FlushInv
  <2>5. /\ Newest(Marked(o))' = Newest(Marked(o)) /\ Newest(BatchOf(o))' = Newest(BatchOf(o))
        /\ LastRow(o)' = LastRow(o)
    BY <1>1, <2>2, <2>3 DEF Newest, LastRow
  <2> QED BY <1>1, <2>2, <2>3, <2>4, <2>5 DEF MarkedStored, BatchStored
<1> QED BY <1>4, <1>5 DEF FlushInv

LEMMA FlushClaim == ASSUME TInv, FlushInv, Claim PROVE FlushInv'
<1>1. /\ UNCHANGED <<outbox, archive>> /\ flush'.pc = "upserts"
      /\ flush'.batch = {i \in DOMAIN outbox : outbox[i].archive = "PENDING"}
  BY DEF Claim, pg, stores
<1>2. FlushOrder'
  BY <1>1 DEF FlushInv, FlushOrder
<1>3. ASSUME NEW o \in Obj, Steady(o)' PROVE MarkedStored(o)' /\ BatchStored(o)'
  <2>1. MarkedStored(o)'
    <3>1. /\ Of(o)' = Of(o) /\ Marked(o)' = Marked(o) /\ Unmarked(o)' = Unmarked(o)
          /\ LastRow(o)' = LastRow(o) /\ Steady(o)
      BY <1>1, <1>3 DEF Of, Marked, Unmarked, LastRow, Steady, InStampOrder
    <3>2. MarkedStored(o) /\ Newest(Marked(o))' = Newest(Marked(o))
      BY <3>1 DEF FlushInv, Newest
    <3> QED BY <1>1, <3>1, <3>2 DEF MarkedStored
  <2>2. BatchStored(o)'
    BY <1>1 DEF BatchStored
  <2> QED BY <2>1, <2>2
<1> QED BY <1>2, <1>3 DEF FlushInv

LEMMA FlushUpserts ==
  ASSUME TInv, StampInv, ArchiveOK, FlushInv, MergeUpserts
  PROVE  FlushInv'
<1>1. /\ UNCHANGED outbox /\ flush'.pc = "deletes" /\ flush'.batch = flush.batch
      /\ archive' = [o \in Obj |-> Upserted(o)] /\ Mergeable(FALSE)
      /\ PgOK /\ FlushOK
  BY DEF MergeUpserts, pg, TInv, FlushOK
<1>2. FlushOrder'
  BY <1>1 DEF FlushInv, FlushOrder
<1>3. ASSUME NEW o \in Obj, Steady(o)' PROVE MarkedStored(o)' /\ BatchStored(o)'
  <2>1. /\ Of(o)' = Of(o) /\ Marked(o)' = Marked(o) /\ Unmarked(o)' = Unmarked(o)
        /\ BatchOf(o)' = BatchOf(o) /\ Steady(o)
    BY <1>1, <1>3 DEF Of, Marked, Unmarked, BatchOf, Steady, InStampOrder
  <2>2. Rows(o, FALSE) = BatchOf(o) /\ BatchOf(o) \in SUBSET DOMAIN outbox
    BY <1>1, <2>1, BatchInOutbox
  <2>3. archive'[o] = Upserted(o)
    BY <1>1
  <2>4. /\ BatchOf(o) = {} => archive'[o] = archive[o]
        /\ BatchOf(o) # {} => archive'[o] # << >> /\ LastRow(o)' = Newest(BatchOf(o))
    <3> HIDE DEF Upserted, Newest, Rows
    <3>1. /\ BatchOf(o) = {} => Upserted(o) = archive[o]
          /\ BatchOf(o) # {} => /\ Upserted(o) # << >>
                                /\ Upserted(o)[Len(Upserted(o))] = Newest(BatchOf(o))
      BY <1>1, <2>1, <2>2, UpsertedRows DEF Steady
    <3> QED BY <2>3, <3>1 DEF LastRow
  <2>5. BatchOf(o) # {} => Newest(BatchOf(o)) \in Unmarked(o)
    <3>1. BatchOf(o) # {} => Newest(BatchOf(o)) \in BatchOf(o)
      <4> HIDE DEF Newest, BatchOf
      <4> QED BY <1>1, <2>2, NewestIsNewest
    <3>2. BatchOf(o) \subseteq Unmarked(o)
      BY <1>1, <2>2 DEF BatchOf, Unmarked, Of, FlushInv, FlushOrder
    <3> QED BY <3>1, <3>2
  <2>6. /\ Newest(Marked(o))' = Newest(Marked(o)) /\ Newest(BatchOf(o))' = Newest(BatchOf(o))
    BY <2>1 DEF Newest
  <2>7. MarkedStored(o)'
    <3>1. MarkedStored(o)
      BY <2>1 DEF FlushInv
    <3>2. CASE BatchOf(o) = {}
      BY <2>1, <2>4, <2>6, <3>1, <3>2 DEF MarkedStored, LastRow
    <3>3. CASE BatchOf(o) # {}
      BY <2>1, <2>4, <2>5, <3>3 DEF MarkedStored
    <3> QED BY <3>2, <3>3
  <2>8. BatchStored(o)'
    BY <2>1, <2>4, <2>6 DEF BatchStored
  <2> QED BY <2>7, <2>8
<1> QED BY <1>2, <1>3 DEF FlushInv

LEMMA FlushDeletes == ASSUME TInv, ArchiveOK, FlushInv, MergeDeletes PROVE FlushInv'
<1>1. /\ UNCHANGED outbox /\ flush.pc = "deletes" /\ flush'.batch = flush.batch
      /\ archive' = [o \in Obj |-> IF Rows(o, TRUE) = {} THEN archive[o] ELSE << >>]
      /\ PgOK /\ FlushOK
  BY DEF MergeDeletes, pg, TInv, FlushOK
<1>2. FlushOrder'
  BY <1>1 DEF FlushInv, FlushOrder
<1>3. ASSUME NEW o \in Obj, Steady(o)' PROVE MarkedStored(o)' /\ BatchStored(o)'
  <2>1. /\ Of(o)' = Of(o) /\ Marked(o)' = Marked(o) /\ Unmarked(o)' = Unmarked(o)
        /\ BatchOf(o)' = BatchOf(o) /\ Steady(o)
    BY <1>1, <1>3 DEF Of, Marked, Unmarked, BatchOf, Steady, InStampOrder
  <2>2. archive'[o] = archive[o]
    BY <1>1, <2>1, BatchInOutbox
  <2>3. /\ Newest(Marked(o))' = Newest(Marked(o)) /\ Newest(BatchOf(o))' = Newest(BatchOf(o))
        /\ LastRow(o)' = LastRow(o)
    BY <2>1, <2>2 DEF Newest, LastRow
  <2>4. MarkedStored(o) /\ BatchStored(o)
    BY <2>1 DEF FlushInv
  <2> QED BY <1>1, <2>1, <2>2, <2>3, <2>4 DEF MarkedStored, BatchStored
<1> QED BY <1>2, <1>3 DEF FlushInv

(* The newest of two sets, one of which is newer than the other.           *)
LEMMA NewestOfBoth ==
  ASSUME NEW N \in Nat, NEW S \in SUBSET (1 .. N), NEW T \in SUBSET (1 .. N), T # {},
         \A i \in S, j \in T : i < j
  PROVE  Newest(S \cup T) = Newest(T)
<1> DEFINE p == Newest(S \cup T)
           q == Newest(T)
<1>1. q \in T /\ \A j \in T : j <= q
  BY GreatestNumber
<1>2. p \in S \cup T /\ \A j \in S \cup T : j <= p
  <2>1. S \cup T \in SUBSET (1 .. N) /\ S \cup T # {}
    OBVIOUS
  <2> QED BY <2>1, GreatestNumber
<1>3. \A j \in S \cup T : j \in Nat
  <2>1. \A j \in S \cup T : j \in 1 .. N
    OBVIOUS
  <2> QED BY <2>1
<1> HIDE DEF p, q
<1>4. p \in Nat /\ q \in Nat /\ q <= p
  BY <1>1, <1>2, <1>3
<1>5. p \in T
  <2>1. ASSUME p \in S PROVE FALSE
    <3>1. p < q
      BY <1>1, <2>1
    <3> QED BY <1>4, <3>1
  <2> QED BY <1>2, <2>1
<1>6. p <= q
  BY <1>1, <1>5
<1> QED BY <1>4, <1>6 DEF p, q

(* The mark, made after both merges.                                       *)
LEMMA FlushMark == ASSUME TInv, FlushInv, MarkBatch PROVE FlushInv'
<1>1. /\ UNCHANGED archive /\ flush.pc = "mark" /\ flush' = IdleFlush /\ PgOK /\ FlushOK
      /\ flush.batch \subseteq DOMAIN outbox /\ DOMAIN outbox = 1 .. Len(outbox)
      /\ Len(outbox) \in Nat
  BY DEF MarkBatch, Merged, stores, TInv, PgOK, FlushOK
<1>2. /\ DOMAIN outbox' = DOMAIN outbox
      /\ \A i \in DOMAIN outbox : /\ outbox'[i].pk = outbox[i].pk
                                  /\ outbox'[i].op = outbox[i].op
                                  /\ outbox'[i].at = outbox[i].at
  BY MarkBatchRelabels DEF Relabelled, Same
<1>3. /\ \A i \in flush.batch : outbox'[i].archive = "COMPLETED"
      /\ \A i \in DOMAIN outbox \ flush.batch : outbox'[i] = outbox[i]
  <2>1. \A i \in DOMAIN outbox : outbox[i] \in RecordType
    BY <1>1 DEF PgOK
  <2> QED BY <1>1, <2>1 DEF MarkBatch, RecordType
<1>4. FlushOrder'
  BY <1>1, <1>2, <1>3 DEF FlushInv, FlushOrder, IdleFlush
<1>5. ASSUME NEW o \in Obj, Steady(o)' PROVE MarkedStored(o)'
  <2>1. /\ Of(o)' = Of(o) /\ Of(o) \subseteq DOMAIN outbox
        /\ BatchOf(o) = Of(o) \cap flush.batch
    BY <1>1, <1>2 DEF Of, BatchOf
  <2>2. Steady(o)
    BY <1>2, <1>5, <2>1 DEF Steady, InStampOrder
  <2>3. MarkedStored(o) /\ BatchStored(o)
    BY <2>2 DEF FlushInv
  <2>4. /\ Marked(o)' = Marked(o) \cup BatchOf(o)
        /\ Unmarked(o)' = Unmarked(o) \ BatchOf(o)
    BY <1>1, <1>3, <2>1 DEF Marked, Unmarked
  <2>5. LastRow(o)' = LastRow(o) /\ archive'[o] = archive[o]
    BY <1>1 DEF LastRow
  <2>6. CASE BatchOf(o) = {}
    <3>1. Marked(o)' = Marked(o) /\ Unmarked(o)' = Unmarked(o)
      BY <2>4, <2>6
    <3>2. Newest(Marked(o))' = Newest(Marked(o))
      BY <3>1 DEF Newest
    <3> QED BY <2>3, <2>5, <3>1, <3>2 DEF MarkedStored
  <2>7. CASE BatchOf(o) # {}
    <3>1. Newest(Marked(o) \cup BatchOf(o)) = Newest(BatchOf(o))
      <4>1. \A i \in Marked(o), j \in BatchOf(o) : i < j
        BY <2>1 DEF Marked, FlushInv, FlushOrder
      <4>2. Marked(o) \in SUBSET (1 .. Len(outbox)) /\ BatchOf(o) \in SUBSET (1 .. Len(outbox))
        BY <1>1, <2>1 DEF Marked
      <4>3. Len(outbox) \in Nat
        BY <1>1
      <4> HIDE DEF Newest, BatchOf, Marked
      <4> QED BY <2>7, <4>1, <4>2, <4>3, NewestOfBoth
    <3>2. Newest(Marked(o))' = Newest(Marked(o) \cup BatchOf(o))
      BY <2>4 DEF Newest
    <3>3. LastRow(o) = Newest(BatchOf(o)) /\ archive[o] # << >>
      BY <1>1, <2>3, <2>7 DEF BatchStored
    <3> QED BY <2>5, <3>1, <3>2, <3>3 DEF MarkedStored
  <2> QED BY <2>6, <2>7
<1>6. \A o \in Obj : BatchStored(o)'
  BY <1>1 DEF BatchStored, IdleFlush
<1> QED BY <1>4, <1>5, <1>6 DEF FlushInv

LEMMA FlushNext ==
  ASSUME TInv, StampInv, ArchiveOK, FlushInv, [Next]_vars
  PROVE  FlushInv'
<1>1. ASSUME UNCHANGED <<outbox, archive>>, flush' = flush \/ flush' = IdleFlush
      PROVE  FlushInv'
  BY <1>1, FlushKept DEF SameArchiveSide
<1>2. ASSUME NEW s \in Session, ActionStep(s) PROVE FlushInv'
  <2>1. CASE Committed(s) /\ Commit(s)
    BY <2>1, FlushCommit
  <2>2. CASE UNCHANGED <<pg, stores, workers>>
    BY <1>1, <2>2 DEF pg, stores, workers
  <2> QED BY <1>2, <2>1, <2>2, RequestTyped, CommitTyped DEF Commit
<1>3. CASE MarkCompleted
  <2>1. outbox[First] \in RecordType
    BY <1>3, MarkCompletedRelabels DEF TInv, PgOK
  <2>2. Relabelled /\ UNCHANGED <<archive, flush>>
        /\ outbox'[First] = [outbox[First] EXCEPT !.index = "COMPLETED"]
        /\ \A j \in DOMAIN outbox \ {First} : outbox'[j] = outbox[j]
    BY <1>3, MarkCompletedRelabels DEF MarkCompleted, stores
  <2> HIDE DEF First
  <2>3. outbox'[First].archive = outbox[First].archive
    BY <2>1, <2>2 DEF RecordType
  <2> QED BY <2>2, <2>3, FlushKept DEF SameArchiveSide, Relabelled, Same
<1>4. CASE HandleFailure
  <2>1. outbox[First] \in RecordType
    BY <1>4, HandleFailureRelabels DEF TInv, PgOK
  <2>2. Relabelled /\ UNCHANGED <<archive, flush>>
        /\ outbox'[First] = Failed(outbox[First])
        /\ \A j \in DOMAIN outbox \ {First} : outbox'[j] = outbox[j]
    BY <1>4, HandleFailureRelabels DEF HandleFailure, stores
  <2> HIDE DEF First
  <2>3. outbox'[First].archive = outbox[First].archive
    BY <2>1, <2>2 DEF RecordType, Failed
  <2> QED BY <2>2, <2>3, FlushKept DEF SameArchiveSide, Relabelled, Same
<1>5. ASSUME NEW i \in DOMAIN outbox, BackoffEnds(i) PROVE FlushInv'
  <2>1. Relabelled /\ UNCHANGED <<archive, flush>>
        /\ outbox'[i] = [outbox[i] EXCEPT !.due = TRUE]
        /\ \A j \in DOMAIN outbox \ {i} : outbox'[j] = outbox[j]
    BY <1>5, BackoffRelabels DEF BackoffEnds, stores, workers
  <2>2. outbox[i] \in RecordType
    BY DEF TInv, PgOK
  <2>3. outbox'[i].archive = outbox[i].archive
    BY <2>1, <2>2 DEF RecordType
  <2> QED BY <2>1, <2>3, FlushKept DEF SameArchiveSide, Relabelled, Same
<1>6. CASE Fetch \/ Execute \/ SessionBreaks \/ FlushFails \/ Crash \/ UNCHANGED vars
  BY <1>1, <1>6 DEF Fetch, Execute, SessionBreaks, FlushFails, Crash, vars, pg, stores, workers
<1> QED BY <1>2, <1>3, <1>4, <1>5, <1>6, FlushClaim, FlushUpserts, FlushDeletes, FlushMark
        DEF Next, ExecutorStep, FlushStep

(* No record is marked COMPLETED whose change Iceberg does not hold, for   *)
(* any number of objects, requests and batches, whatever fails or crashes  *)
(* between the merges of SyncFlushScheduler and its mark (objects without  *)
(* deletions, stamped in the order of the commits).                        *)
THEOREM MarkedIsMerged == Spec => []ArchiveHoldsNewest
<1>1. TInv /\ StampInv /\ ArchiveOK /\ FlushInv /\ [Next]_vars => FlushInv'
  BY FlushNext
<1> QED BY FlushInit, TypesHold, StampsHold, ArchiveTyped, FlushImplies, <1>1, PTL DEF Spec

(***************************************************************************)
(* The ledger                                                              *)
(***************************************************************************)

(* What an open transaction has settled about the change it will enter.    *)
Settled(s) ==
  LET t   == tx[s]
      row == state[tx[s].rid]
  IN /\ t.pc \in {"hydrate", "built", "snapped", "found", "applied"} =>
          /\ t.op = "CREATE" => t.expected = 0 /\ (t.rid \in Fresh \/ t.rid = t.obj)
          /\ t.op = "UPDATE" => t.rid = t.obj
          /\ t.op \in {"UPDATE", "DELETE"} => t.rid \in Obj
     /\ t.pc = "built" /\ Wrote(s, t.rid) =>
          t.op = "UPDATE" /\ t.rows[t.rid] # None /\ t.rows[t.rid].version = 1
     /\ t.pc = "applied" /\ t.op = "UPDATE" /\ row = None => t.expected = 1
     /\ t.pc \in {"snapped", "found", "applied"} /\ t.op = "DELETE" => t.obj \in {None, t.rid}

(* The rid of a row that carries a primary key as its rid is that key.     *)
Keyed(r) == state[r] # None => state[r].pk = r

LedgerInv == (\A s \in Session : Settled(s)) /\ \A r \in Obj : Keyed(r)

LEMMA LedgerInit == Init => LedgerInv
BY EmptyRows DEF Init, LedgerInv, Settled, Keyed, Wrote, NoTx, Rid

(* A transaction that is over, or has only begun, has settled nothing.     *)
LEMMA NothingSettled ==
  ASSUME NEW s \in Session, tx'[s].pc \in {"idle", "checked"}
  PROVE  Settled(s)'
BY DEF Settled

LEMMA SettledBuild ==
  ASSUME Batched = {}, TInv, HoldInv, NEW s \in Session, NEW o \in Obj,
         BuildCreate(s, o) \/ BuildModify(s, o) \/ BuildUpsert(s, o) \/ BuildDelete(s, o)
  PROVE  Settled(s)'
<1>0. /\ tx \in [Session -> TxRecord] /\ tx[s] \in TxRecord /\ DOMAIN tx[s].rows = {}
      /\ o \in Rid
  BY DEF TInv, TxOK, HoldInv, Holds, BuildCreate, BuildModify, BuildUpsert, BuildDelete, At,
         Rid
<1>1. ASSUME NEW op, NEW r, NEW base, NEW expected, Built(s, op, o, r, base, expected)
      PROVE  /\ tx'[s].pc = "built" /\ tx'[s].op = op /\ tx'[s].obj = o /\ tx'[s].rid = r
             /\ tx'[s].expected = expected /\ DOMAIN tx'[s].rows = {}
  BY <1>0, <1>1 DEF Built, Become, TxRecord
<1>2. CASE \/ \E r \in Rid : (r \in Fresh \/ r = o) /\ Built(s, "CREATE", o, r, None, 0)
           \/ Built(s, "DELETE", o, o, None, 0)
           \/ \E base, expected : Built(s, "UPDATE", o, o, base, expected)
  BY <1>1, <1>2 DEF Settled, Wrote
<1>3. CASE Become(s, [tx[s] EXCEPT !.pc = "hydrate", !.op = "UPDATE", !.obj = o,
                                   !.rid = o, !.base = index[o], !.expected = 1])
  <2>1. /\ tx'[s].pc = "hydrate" /\ tx'[s].op = "UPDATE" /\ tx'[s].obj = o
        /\ tx'[s].rid = o
    BY <1>0, <1>3 DEF Become, TxRecord
  <2> QED BY <2>1 DEF Settled
<1>4. CASE BuildCreate(s, o)
  BY <1>2, <1>4 DEF BuildCreate
<1>5. CASE BuildModify(s, o)
  BY <1>2, <1>3, <1>5 DEF BuildModify
<1>6. CASE BuildUpsert(s, o)
  BY <1>0, <1>2, <1>6 DEF BuildUpsert
<1>7. CASE BuildDelete(s, o)
  BY <1>2, <1>7 DEF BuildDelete
<1> QED BY <1>4, <1>5, <1>6, <1>7

LEMMA SettledRequest ==
  ASSUME Batched = {}, TInv, HoldInv, LockInv, LedgerInv, NEW s \in Session,
         ActionStep(s), ~ Commit(s)
  PROVE  Settled(s)'
<1>0. /\ tx \in [Session -> TxRecord] /\ tx[s] \in TxRecord /\ Settled(s) /\ Holds(s)
      /\ Shape(tx[s]) /\ Stands(s) /\ state' = state
  BY RequestTyped DEF TInv, TxOK, LedgerInv, HoldInv, LockInv, pg
<1>1. CASE Begin(s)
  <2>1. tx'[s].pc = "checked"
    BY <1>0, <1>1 DEF Begin, Become, TxRecord
  <2> QED BY <2>1, NothingSettled
<1>2. CASE Refuse(s)
  <2>1. tx'[s] = NoTx
    BY <1>2, RefuseTyped DEF TInv
  <2> QED BY <2>1, NothingSettled, NoTxTyped
<1>3. CASE Hydrate(s)
  <2>1. /\ tx'[s].pc = "built" /\ tx'[s].rows = Hydrated(s) /\ tx'[s].rid = tx[s].rid
        /\ tx'[s].op = tx[s].op /\ tx'[s].obj = tx[s].obj /\ tx[s].pc = "hydrate"
        /\ tx[s].op = "UPDATE" /\ tx[s].base \in Nat /\ tx[s].rid \in Obj
        /\ DOMAIN tx[s].rows = {}
    <3>1. tx[s].pc = "hydrate"
      BY <1>3 DEF Hydrate, At
    <3>2. tx[s].op = "UPDATE" /\ tx[s].base \in Nat /\ tx[s].rid \in Obj
      BY <1>0, <3>1 DEF Shape
    <3>3. DOMAIN tx[s].rows = {}
      BY <1>0, <3>1 DEF Holds
    <3>4. tx'[s] = [tx[s] EXCEPT !.pc = "built", !.rows = Hydrated(s)]
      BY <1>3, HydrateTyped
    <3> HIDE DEF Hydrated
    <3>5. /\ tx'[s].pc = "built" /\ tx'[s].rows = Hydrated(s) /\ tx'[s].rid = tx[s].rid
          /\ tx'[s].op = tx[s].op /\ tx'[s].obj = tx[s].obj
      BY <1>0, <3>4 DEF TxRecord
    <3> QED BY <3>1, <3>2, <3>3, <3>5
  <2>2. tx[s].rid \in DOMAIN Hydrated(s) =>
          /\ Hydrated(s)[tx[s].rid] # None
          /\ Hydrated(s)[tx[s].rid].version = 1
    <3>1. Row(tx[s].rid, 1, tx[s].base) \in RowType /\ Row(tx[s].rid, 1, tx[s].base).version = 1
      BY <2>1 DEF Row, RowType
    <3> QED BY <2>1, <3>1, NoneIsNoRow DEF Hydrated, Put
  <2> HIDE DEF Hydrated
  <2> QED BY <1>0, <2>1, <2>2 DEF Settled, Wrote
<1>4. CASE Apply(s)
  <2>1. /\ tx[s].pc = "built" /\ tx[s].rid \in Rid /\ tx[s].op # "none"
    BY <1>0, <1>4 DEF Apply, At, Shape
  <2>2. CASE tx'[s] = NoTx
    BY <2>2, NothingSettled, NoTxTyped
  <2>3. CASE Matches(s) /\ tx'[s] = AppliedWrite(s)
    <3>1. /\ tx'[s].pc = "applied" /\ tx'[s].op = tx[s].op /\ tx'[s].rid = tx[s].rid
          /\ tx'[s].obj = tx[s].obj /\ tx'[s].expected = tx[s].expected
      BY <1>0, <2>3 DEF AppliedWrite, TxRecord
    <3>2. tx[s].op = "UPDATE" /\ state[tx[s].rid] = None => tx[s].expected = 1
      BY <1>0, <2>1, <2>3 DEF Settled, Matches, Read
    <3>3. tx[s].op # "DELETE"
      BY <1>4 DEF Apply
    <3> QED BY <1>0, <2>1, <2>3, <3>1, <3>2, <3>3 DEF Settled
  <2> QED BY <1>4, <2>2, <2>3, ApplyTyped
<1>5. ASSUME NEW o \in Obj,
             BuildCreate(s, o) \/ BuildModify(s, o) \/ BuildUpsert(s, o) \/ BuildDelete(s, o)
      PROVE  Settled(s)'
  BY <1>5, SettledBuild
<1>6. CASE Snapshot(s)
  <2>1. /\ tx'[s].pc = "snapped" /\ tx'[s].op = "DELETE" /\ tx'[s].rid = tx[s].rid
        /\ tx'[s].obj = IF Read(s, tx[s].rid) = None THEN None ELSE Read(s, tx[s].rid).pk
        /\ tx[s].pc = "built" /\ tx[s].op = "DELETE"
    BY <1>6, SnapshotFields
  <2>2. Read(s, tx[s].rid) = state[tx[s].rid] /\ tx[s].rid \in Obj
    BY <1>0, <2>1 DEF Holds, Read, Wrote, Settled
  <2>3. Keyed(tx[s].rid)
    BY <2>2 DEF LedgerInv
  <2> QED BY <2>1, <2>2, <2>3 DEF Settled, Keyed
<1>7. CASE SelectRow(s)
  <2>1. /\ tx'[s].pc \in {"found", "applied"} /\ tx'[s].op = "DELETE"
        /\ tx'[s].rid = tx[s].rid /\ tx'[s].obj = tx[s].obj
        /\ tx[s].pc = "snapped" /\ tx[s].op = "DELETE"
    BY <1>7, SelectRowFields
  <2> QED BY <1>0, <2>1 DEF Settled
<1>8. CASE DeleteRow(s)
  <2>1. /\ tx'[s].pc = "applied" /\ tx'[s].op = "DELETE"
        /\ tx'[s].rid = tx[s].rid /\ tx'[s].obj = tx[s].obj
        /\ tx[s].pc = "found" /\ tx[s].op = "DELETE"
    BY <1>8, DeleteRowFields
  <2> QED BY <1>0, <2>1 DEF Settled
<1>9. CASE Stamp(s)
  <2>1. PICK n \in 1..MaxStamp : tx'[s] = [tx[s] EXCEPT !.at = n]
    BY <1>9, StampTyped
  <2>2. /\ tx'[s].pc = tx[s].pc /\ tx'[s].rows = tx[s].rows /\ tx'[s].rid = tx[s].rid
        /\ tx'[s].op = tx[s].op /\ tx'[s].obj = tx[s].obj
        /\ tx'[s].expected = tx[s].expected
    BY <1>0, <2>1 DEF TxRecord
  <2> QED BY <1>0, <2>2 DEF Settled, Wrote
<1> QED BY <1>1, <1>2, <1>3, <1>4, <1>5, <1>6, <1>7, <1>8, <1>9 DEF ActionStep

(* The others keep what they settled: their rows are locked.               *)
LEMMA SettledCommit ==
  ASSUME TInv, HoldInv, LockInv, LedgerInv, NEW s \in Session, Commit(s), Committed(s)
  PROVE  LedgerInv'
<1>1. /\ tx'[s] = NoTx /\ \A u \in Session \ {s} : tx'[u] = tx[u]
  BY CommitTyped
<1>2. /\ \A x \in Rid \ {tx[s].rid} : state'[x] = state[x]
      /\ state'[tx[s].rid] # state[tx[s].rid] => Wrote(s, tx[s].rid)
      /\ tx[s].op \in {"CREATE", "UPDATE"} => state'[tx[s].rid].pk = tx[s].obj
      /\ tx[s].op = "DELETE" => state'[tx[s].rid] \in {None, state[tx[s].rid]}
      /\ tx[s].op \in {"CREATE", "UPDATE", "DELETE"} /\ tx[s].pc = "applied"
  BY CommitView
<1>3. ASSUME NEW u \in Session \ {s} PROVE Settled(u)'
  <2>1. Settled(u) /\ tx'[u] = tx[u] /\ Shape(tx[u])
    BY <1>1 DEF LedgerInv, TInv, TxOK
  <2>2. CASE tx[u].pc = "applied" /\ tx[u].op # "DELETE"
    <3>1. Wrote(u, tx[u].rid) /\ tx[u].rid \in Rid
      BY <2>1, <2>2 DEF Shape, Wrote
    <3>2. ~ (Wrote(s, tx[u].rid))
      BY <3>1 DEF LockInv, Locks
    <3>3. state'[tx[u].rid] = state[tx[u].rid]
      <4>1. CASE tx[u].rid = tx[s].rid
        BY <1>2, <3>2, <4>1
      <4>2. CASE tx[u].rid # tx[s].rid
        BY <1>2, <3>1, <4>2
      <4> QED BY <4>1, <4>2
    <3> QED BY <2>1, <2>2, <3>3 DEF Settled, Wrote
  <2>3. CASE ~ (tx[u].pc = "applied" /\ tx[u].op # "DELETE")
    BY <2>1, <2>3 DEF Settled, Wrote
  <2> QED BY <2>2, <2>3
<1>4. ASSUME NEW r \in Obj PROVE Keyed(r)'
  <2>1. Settled(s) /\ Keyed(r) /\ r \in Rid /\ r \notin Fresh
    BY SyncAssumption DEF LedgerInv, Rid
  <2>2. CASE r # tx[s].rid
    BY <1>2, <2>1, <2>2 DEF Keyed
  <2>3. CASE r = tx[s].rid /\ tx[s].op = "DELETE"
    BY <1>2, <2>1, <2>3 DEF Keyed
  <2>4. CASE r = tx[s].rid /\ tx[s].op # "DELETE"
    BY <1>2, <2>1, <2>4 DEF Keyed, Settled
  <2> QED BY <2>2, <2>3, <2>4
<1>5. Settled(s)'
  BY <1>1, NothingSettled, NoTxTyped
<1> QED BY <1>3, <1>4, <1>5 DEF LedgerInv

(* A request's step is about its own transaction.                          *)
LEMMA RequestFrame ==
  ASSUME TInv, NEW s \in Session, ActionStep(s)
  PROVE  \A u \in Session \ {s} : tx'[u] = tx[u]
<1>1. ASSUME NEW t, Become(s, t) PROVE \A u \in Session \ {s} : tx'[u] = tx[u]
  BY <1>1 DEF Become, TInv, TxOK
<1>2. CASE Begin(s)
  BY <1>1, <1>2 DEF Begin
<1>3. ASSUME NEW o \in Obj,
             BuildCreate(s, o) \/ BuildModify(s, o) \/ BuildUpsert(s, o) \/ BuildDelete(s, o)
      PROVE  \A u \in Session \ {s} : tx'[u] = tx[u]
  BY <1>1, <1>3 DEF BuildCreate, BuildModify, BuildUpsert, BuildDelete, Built
<1>4. CASE Hydrate(s)
  BY <1>4, HydrateTyped
<1>5. CASE Refuse(s)
  BY <1>5, RefuseTyped DEF TInv
<1>6. CASE Apply(s)
  BY <1>6, ApplyTyped
<1>7. CASE Snapshot(s) \/ SelectRow(s) \/ DeleteRow(s)
  BY <1>7, SnapshotTyped, SelectRowTyped, DeleteRowTyped
<1>8. CASE Stamp(s) \/ Commit(s)
  BY <1>8, StampTyped, CommitTyped
<1> QED BY <1>2, <1>3, <1>4, <1>5, <1>6, <1>7, <1>8 DEF ActionStep

LEMMA LedgerNext ==
  ASSUME Batched = {}, TInv, HoldInv, LockInv, LedgerInv, [Next]_vars
  PROVE  LedgerInv'
<1>0. ASSUME UNCHANGED <<state, tx>> PROVE LedgerInv'
  BY <1>0 DEF LedgerInv, Settled, Keyed, Wrote
<1>1. ASSUME NEW s \in Session, ActionStep(s) PROVE LedgerInv'
  <2>1. CASE ~ Commit(s)
    <3>1. \A u \in Session \ {s} : tx'[u] = tx[u]
      BY <1>1, <2>1, RequestFrame
    <3>2. state' = state
      BY <1>1, <2>1, RequestTyped DEF pg
    <3>3. \A u \in Session \ {s} : Settled(u)'
      BY <3>1, <3>2 DEF LedgerInv, Settled, Wrote
    <3>4. \A r \in Obj : Keyed(r)'
      BY <3>2 DEF LedgerInv, Keyed
    <3> QED BY <1>1, <2>1, <3>3, <3>4, SettledRequest DEF LedgerInv
  <2>2. CASE Commit(s) /\ Committed(s)
    BY <2>2, SettledCommit
  <2>3. CASE Commit(s) /\ UNCHANGED pg
    <3>1. tx'[s] = NoTx /\ (\A u \in Session \ {s} : tx'[u] = tx[u]) /\ state' = state
      BY <2>3, CommitTyped DEF pg
    <3>2. \A u \in Session \ {s} : Settled(u)'
      BY <3>1 DEF LedgerInv, Settled, Wrote
    <3>3. \A r \in Obj : Keyed(r)'
      BY <3>1 DEF LedgerInv, Keyed
    <3> QED BY <3>1, <3>2, <3>3, NothingSettled, NoTxTyped DEF LedgerInv
  <2> QED BY <2>1, <2>2, <2>3, CommitTyped
<1>2. CASE LoopStep
  BY <1>0, <1>2, LoopTyped
<1>3. CASE Crash
  <2>1. \A s \in Session : tx'[s] = NoTx
    BY <1>3 DEF Crash
  <2>2. \A r \in Obj : Keyed(r)'
    BY <1>3 DEF Crash, pg, LedgerInv, Keyed
  <2> QED BY <2>1, <2>2, NothingSettled, NoTxTyped DEF LedgerInv
<1>4. CASE UNCHANGED vars
  BY <1>0, <1>4 DEF vars, pg
<1> QED BY <1>1, <1>2, <1>3, <1>4 DEF Next, LoopStep

LEMMA LedgerHolds == ASSUME Batched = {} PROVE Spec => []LedgerInv
<1>1. TInv /\ HoldInv /\ LockInv /\ LedgerInv /\ [Next]_vars => LedgerInv'
  BY LedgerNext
<1> QED BY LedgerInit, TypesHold, HoldsHold, LocksHold, <1>1, PTL DEF Spec

(* The ledger that the outbox records make.                                *)
Entries == [i \in DOMAIN outbox |-> Entry(outbox[i])]

LEMMA EntriesAppended ==
  ASSUME TInv, NEW s \in Session, Commit(s), Committed(s)
  PROVE  /\ Entries \in Seq({Entry(rec) : rec \in RecordType}) /\ Len(Entries) = Len(outbox)
         /\ Entries' = Append(Entries, Entry(Record(s)))
         /\ Len(Entries') = Len(Entries) + 1
<1> DEFINE E == {Entry(rec) : rec \in RecordType}
           n == Len(outbox) + 1
<1>1. /\ outbox \in Seq(RecordType) /\ outbox' = Append(outbox, Record(s))
      /\ outbox' \in Seq(RecordType)
  BY CommitTyped DEF TInv, PgOK, Committed
<1>2. /\ DOMAIN outbox' = 1 .. n /\ outbox'[n] = Record(s) /\ n \in Nat
      /\ DOMAIN outbox = 1 .. Len(outbox) /\ Len(outbox) \in Nat
      /\ \A i \in DOMAIN outbox : outbox'[i] = outbox[i]
  <2> HIDE DEF Record
  <2> QED BY <1>1
<1>3. Entries \in [1 .. Len(outbox) -> E]
  <2>1. \A i \in DOMAIN outbox : outbox[i] \in RecordType
    BY <1>1
  <2>2. \A i \in DOMAIN outbox : Entry(outbox[i]) \in E
    BY <2>1
  <2> HIDE DEF E
  <2> QED BY <1>2, <2>2 DEF Entries
<1> HIDE DEF E
<1>4. Entries \in Seq(E) /\ Len(Entries) = Len(outbox)
  BY <1>2, <1>3
<1>5. \A i \in 1 .. Len(outbox) : Entries[i] = Entry(outbox[i])
  BY <1>2 DEF Entries
<1>6. Entries' = [i \in 1 .. n |-> Entry(outbox'[i])]
  BY <1>2 DEF Entries
<1>7. Entries' = Append(Entries, Entry(Record(s)))
  <2> HIDE DEF Record, Entry, Entries
  <2> DEFINE new == Entry(Record(s))
             all == Append(Entries, new)
  <2>0. new \in E
    <3>1. Record(s) \in RecordType
      BY <1>1, <1>2
    <3> QED BY <3>1 DEF E
  <2> HIDE DEF new
  <2>1. all = [i \in 1 .. n |-> IF i = n THEN new ELSE Entries[i]]
    <3>1. /\ all \in Seq(E) /\ Len(all) = n /\ all[n] = new
          /\ \A i \in 1 .. Len(outbox) : all[i] = Entries[i]
      BY <1>2, <1>4, <2>0
    <3> HIDE DEF all
    <3>2. all = [i \in 1 .. n |-> all[i]]
      BY <3>1
    <3>3. \A i \in 1 .. n : all[i] = IF i = n THEN new ELSE Entries[i]
      <4>1. \A i \in 1 .. n : i = n \/ i \in 1 .. Len(outbox)
        BY <1>2
      <4> QED BY <3>1, <4>1
    <3> QED BY <3>2, <3>3
  <2>2. \A i \in 1 .. n : Entry(outbox'[i]) = IF i = n THEN new ELSE Entries[i]
    <3>1. \A i \in 1 .. n : i = n \/ i \in 1 .. Len(outbox)
      BY <1>2
    <3> QED BY <1>2, <1>5, <3>1 DEF new
  <2> QED BY <1>6, <2>1, <2>2 DEF new
<1>8. Len(Entries') = Len(Entries) + 1
  <2> HIDE DEF Record, Entry, Entries
  <2> QED BY <1>4, <1>6, <1>2
<1> QED BY <1>4, <1>7, <1>8 DEF E

(* Relabelled records are the same entries.                                *)
LEMMA EntriesKept == ASSUME Relabelled PROVE Entries' = Entries
BY DEF Relabelled, Same, Entries, Entry

(* A commit enters one change.                                             *)
LEMMA CommitEnters ==
  ASSUME TInv, HoldInv, LockInv, LedgerInv, NEW s \in Session, Commit(s), Committed(s)
  PROVE  Ledger!Next
<1> DEFINE r == tx[s].rid
           o == tx[s].obj
           k == tx[s].key
           n == Len(outbox) + 1
<1>1. /\ r \in Rid /\ tx[s].pc = "applied" /\ n \in Nat
      /\ \A x \in Rid \ {r} : state'[x] = state[x]
      /\ tx[s].op \in {"CREATE", "UPDATE"} =>
           /\ state'[r] \in RowType /\ state'[r].val = n /\ state'[r].pk = o
           /\ state'[r].version = tx[s].expected + 1
      /\ tx[s].op = "DELETE" => state'[r] \in {None, state[r]}
      /\ tx[s].op \in {"CREATE", "UPDATE", "DELETE"}
  BY CommitView
<1>2. /\ Settled(s) /\ Stands(s) /\ Shape(tx[s]) /\ k \in Key \cup {None}
      /\ tx[s].expected \in Nat
  BY DEF LedgerInv, LockInv, TInv, TxOK, TxRecord
<1>3. /\ state \in [Rid -> RowType \cup {None}] /\ state' \in [Rid -> RowType \cup {None}]
  BY CommitTyped DEF TInv, PgOK
<1>4. /\ k = None \/ k \notin log
      /\ log' = log \cup ({k} \ {None})
  BY DEF Committed, Unlogged
<1>5. /\ Entries' = Append(Entries, [rid |-> r, pk |-> o, op |-> tx[s].op, key |-> k])
      /\ Len(Entries) = Len(outbox) /\ Len(Entries') = Len(Entries) + 1
  <2>1. Entry(Record(s)) = [rid |-> r, pk |-> o, op |-> tx[s].op, key |-> k]
    BY DEF Entry, Record
  <2> QED BY <2>1, EntriesAppended
<1>6. Ledger!Enter(tx[s].op, r, o, k)
  BY <1>4, <1>5 DEF Ledger!Enter, Entries
<1>7. CASE tx[s].op = "CREATE"
  <2>1. state[r] = None /\ o \in Obj /\ (r \in Fresh \/ r = o) /\ state'[r].version = 1
    BY <1>1, <1>2, <1>7 DEF Stands, Settled, Shape
  <2>2. state'[r] = [pk |-> o, version |-> 1, val |-> n]
    BY <1>1, <1>7, <2>1 DEF RowType
  <2>3. state' = [state EXCEPT ![r] = [pk |-> o, version |-> 1, val |-> n]]
    <3> HIDE DEF n
    <3> QED BY <1>1, <1>3, <2>2
  <2>4. Ledger!Create(r, o, k)
    BY <1>5, <1>6, <1>7, <2>1, <2>3 DEF Ledger!Create, Ledger!Set, Entries
  <2> QED BY <1>1, <1>2, <1>5, <2>1, <2>4 DEF Ledger!Next, Entries, Rid
<1>8. CASE tx[s].op = "UPDATE"
  <2>1. /\ r = o /\ o \in Obj
        /\ state[o] = None => state'[o].version = 2
        /\ state[o] # None => state'[o].version = state[o].version + 1
    BY <1>1, <1>2, <1>8 DEF Stands, Settled, Shape
  <2>2. state'[o] = [pk |-> o, version |-> state'[o].version, val |-> n]
    BY <1>1, <1>8, <2>1 DEF RowType
  <2>3. state' = [state EXCEPT ![o] = [pk |-> o, version |-> state'[o].version, val |-> n]]
    <3> HIDE DEF n
    <3> QED BY <1>1, <1>3, <2>1, <2>2
  <2>4. Ledger!Update(o, k)
    BY <1>5, <1>6, <1>8, <2>1, <2>3 DEF Ledger!Update, Ledger!Set, Entries
  <2> QED BY <1>2, <1>5, <2>1, <2>4 DEF Ledger!Next, Entries
<1>9. CASE tx[s].op = "DELETE"
  <2>1. r \in Obj /\ o \in {r, None}
    BY <1>1, <1>2, <1>9 DEF Settled
  <2>2. state' = state \/ state' = [state EXCEPT ![r] = None]
    <3>1. CASE state'[r] = state[r]
      BY <1>1, <1>3, <3>1
    <3>2. CASE state'[r] = None
      BY <1>1, <1>3, <3>2
    <3> QED BY <1>1, <1>9, <3>1, <3>2
  <2>3. Ledger!Delete(r, k)
    BY <1>6, <1>9, <2>1, <2>2 DEF Ledger!Delete
  <2> QED BY <1>2, <1>5, <2>1, <2>3 DEF Ledger!Next, Entries
<1> QED BY <1>1, <1>7, <1>8, <1>9

(* Every step is a step of the ledger or leaves it alone.                  *)
LEMMA NextKeepsLedger ==
  ASSUME TInv, HoldInv, LockInv, LedgerInv, [Next]_vars
  PROVE  [Ledger!Next]_Ledger!vars
<1>1. ASSUME UNCHANGED pg PROVE UNCHANGED Ledger!vars
  BY <1>1 DEF pg, Ledger!vars
<1>2. ASSUME NEW s \in Session, ActionStep(s) PROVE [Ledger!Next]_Ledger!vars
  <2>1. CASE Commit(s) /\ Committed(s)
    BY <2>1, CommitEnters
  <2>2. CASE ~ Commit(s) \/ UNCHANGED pg
    BY <1>1, <1>2, <2>2, RequestTyped
  <2> QED BY <2>1, <2>2, CommitTyped
<1>3. CASE LoopStep
  <2>1. UNCHANGED <<state, log>> /\ Entries' = Entries
    BY <1>3, LoopTyped, EntriesKept
  <2> QED BY <2>1 DEF Ledger!vars, Entries
<1>4. CASE Crash \/ UNCHANGED vars
  BY <1>1, <1>4 DEF Crash, vars
<1> QED BY <1>2, <1>3, <1>4 DEF Next, LoopStep

(* The transactions of execute_action, its optimistic versions, hydration, *)
(* row locks and unique key, implement the ledger: what is committed is a  *)
(* sequence of whole changes, each going on from the row as it was then.   *)
THEOREM ImplementsLedger == ASSUME Batched = {} PROVE Spec => ActsAtomically
<1>1. Init => Ledger!Init
  <2> SUFFICES ASSUME Init PROVE Ledger!Init
    OBVIOUS
  <2>1. Entries = << >>
    BY DEF Init, Entries
  <2> QED BY <2>1 DEF Init, Ledger!Init, Entries, Rid
<1>2. TInv /\ HoldInv /\ LockInv /\ LedgerInv /\ [Next]_vars => [Ledger!Next]_Ledger!vars
  BY NextKeepsLedger
<1> QED BY TypesHold, HoldsHold, LocksHold, LedgerHolds, <1>1, <1>2, PTL
        DEF Spec, ActsAtomically, Ledger!Spec
=============================================================================

-------------------------- MODULE FillLedgerProofs --------------------------
(***************************************************************************)
(* For every set of identities, bodies and bounds: the fill ledger's       *)
(* cursor never runs ahead of its rows nor past a contradiction, the       *)
(* ledger always reopens, and it implements LedgerContract.                *)
(***************************************************************************)
EXTENDS FillLedger, TLAPS

\* One row per identity, as the tables' primary keys have it.
UniqueIdentity == Contract!UniqueIds(db.recs)

\* The open transaction: its rows extend the committed ones with records
\* no younger than its watermark, and rows and remaining work together cover
\* the history up to the cursor the transaction will commit.
TxnInv ==
  proc = "ingesting" =>
    /\ txn.cursor \in 0..Len(hist) /\ txn.asOf \in Time
    /\ db.recs \subseteq txn.rows
    /\ Contract!UniqueIds(txn.rows)
    /\ \A r \in txn.todo \cup (txn.rows \ db.recs) : r.at <= txn.asOf
    /\ Positions(0, txn.cursor) \subseteq txn.rows \cup txn.todo

\* What is committed: a cursor into the history and consistent metadata.
DbInv ==
  /\ db.cursor = None \/ db.cursor \in 0..Len(hist)
  /\ MetadataValid(db)
  /\ file = "absent" => proc = "down"
  /\ file # "ready" => db = EmptyDb
  /\ proc = "creating" => file = "version0"
  /\ proc \in {"open", "ingesting"} => file = "ready"

LedgerInv ==
  /\ TypeOK
  /\ DbInv
  /\ TxnInv
  /\ UniqueIdentity
  /\ CursorCovers
  /\ ReopenAccepts

-----------------------------------------------------------------------------

\* Positions only ever picks records of the history.
LEMMA PositionsType ==
  ASSUME hist \in Seq(Record), NEW first, NEW last
  PROVE  Positions(first, last) \subseteq Record
BY DEF Positions

\* Appending to the history leaves every position already in it alone.
LEMMA PositionsStable ==
  ASSUME hist \in Seq(Record), NEW r \in Record, hist' = Append(hist, r),
         NEW first \in Int, NEW last \in Int, last <= Len(hist)
  PROVE  Positions(first, last)' = Positions(first, last)
<1>1. /\ DOMAIN hist' = 1..(Len(hist) + 1) /\ DOMAIN hist = 1..Len(hist)
      /\ \A i \in DOMAIN hist : hist'[i] = hist[i]
      /\ Len(hist) \in Nat
  OBVIOUS
<1>2. {j \in DOMAIN hist' : first < j /\ j <= last}
        = {j \in DOMAIN hist : first < j /\ j <= last}
  BY <1>1
<1>3. QED
  BY <1>1, <1>2 DEF Positions

\* What was covered up to the old cursor and the batch from it cover the
\* history up to the batch's end.
LEMMA PositionsJoin ==
  ASSUME NEW a \in Int, NEW b \in Int, NEW c \in Int, a <= b, hist \in Seq(Record)
  PROVE  Positions(0, c) \subseteq Positions(0, b) \cup Positions(a, c)
<1>1. SUFFICES ASSUME NEW i \in DOMAIN hist, 0 < i, i <= c
               PROVE  hist[i] \in Positions(0, b) \cup Positions(a, c)
  BY DEF Positions
<1>2. CASE i <= b
  BY <1>1, <1>2 DEF Positions
<1>3. CASE ~(i <= b)
  <2>1. i \in Int /\ a < i
    BY <1>3
  <2>2. QED
    BY <1>1, <2>1 DEF Positions
<1>4. QED
  BY <1>2, <1>3

LEMMA InitInv == Init => LedgerInv
<1> SUFFICES ASSUME Init PROVE LedgerInv
  OBVIOUS
<1>1. hist \in Seq(Record) /\ DOMAIN hist = {}
  BY DEF Init
<1>2. TypeOK
  BY <1>1 DEF Init, TypeOK, Database, EmptyDb, Transaction, NoTxn, None
<1>3. DbInv /\ TxnInv /\ UniqueIdentity /\ ReopenAccepts
  BY DEF Init, DbInv, TxnInv, UniqueIdentity, Contract!UniqueIds, ReopenAccepts, EmptyDb,
         MetadataValid
<1>4. CursorCovers
  BY <1>1 DEF CursorCovers, Positions
<1>5. QED
  BY <1>2, <1>3, <1>4 DEF LedgerInv

-----------------------------------------------------------------------------

\* A step that leaves the ledger, the transaction and the history alone.
LEMMA StutterInv == LedgerInv /\ UNCHANGED vars => LedgerInv'
BY DEF LedgerInv, vars, TypeOK, DbInv, TxnInv, UniqueIdentity, CursorCovers,
       ReopenAccepts, MetadataValid, Positions, Contract!UniqueIds

LEMMA OpeningInv ==
  LedgerInv /\ (OpenNew \/ CreateSchema \/ OpenExisting) => LedgerInv'
<1> SUFFICES ASSUME LedgerInv, OpenNew \/ CreateSchema \/ OpenExisting
             PROVE  LedgerInv'
  OBVIOUS
<1> USE DEF LedgerInv
<1>1. txn' = txn /\ hist' = hist /\ db' = db
  BY DEF OpenNew, CreateSchema, OpenExisting, DbInv
<1>2. TypeOK'
  BY <1>1 DEF TypeOK, OpenNew, CreateSchema, OpenExisting
<1>3. DbInv' /\ ReopenAccepts'
  <2>1. CASE OpenNew
    BY <2>1, <1>1 DEF DbInv, ReopenAccepts, MetadataValid, OpenNew
  <2>2. CASE CreateSchema
    BY <2>2, <1>1 DEF DbInv, ReopenAccepts, MetadataValid, CreateSchema
  <2>3. CASE OpenExisting
    BY <2>3, <1>1 DEF DbInv, ReopenAccepts, MetadataValid, OpenExisting, TypeOK
  <2>4. QED
    BY <2>1, <2>2, <2>3
<1>4. proc' # "ingesting"
  BY DEF OpenNew, CreateSchema, OpenExisting
<1>5. TxnInv' /\ UniqueIdentity' /\ CursorCovers'
  BY <1>1, <1>4 DEF TxnInv, UniqueIdentity, Contract!UniqueIds, CursorCovers, Positions
<1>6. QED
  BY <1>2, <1>3, <1>5

LEMMA BeginIngestInv ==
  ASSUME LedgerInv, NEW replayFrom \in 0..Len(hist), NEW upTo \in 0..Len(hist),
         NEW asOf \in Time, BeginIngest(replayFrom, upTo, asOf)
  PROVE  LedgerInv'
<1> USE DEF LedgerInv
<1>1. /\ file' = file /\ db' = db /\ hist' = hist /\ proc = "open" /\ proc' = "ingesting"
      /\ txn' = [todo |-> Positions(replayFrom, upTo), rows |-> db.recs,
                 cursor |-> upTo, asOf |-> asOf]
  BY DEF BeginIngest, Batch
<1>2. TypeOK'
  <2>1. hist \in Seq(Record) /\ db \in Database /\ Len(hist) \in Nat /\ Time \subseteq Int
    BY DEF TypeOK, Time
  <2>2. Positions(replayFrom, upTo) \subseteq Record
    BY <2>1, PositionsType
  <2>3. QED
    BY <1>1, <2>1, <2>2 DEF TypeOK, Database, Transaction
<1>3. DbInv' /\ UniqueIdentity' /\ CursorCovers' /\ ReopenAccepts'
  BY <1>1 DEF DbInv, UniqueIdentity, Contract!UniqueIds, CursorCovers, ReopenAccepts,
              MetadataValid, Positions
<1>4. Positions(0, upTo) \subseteq db.recs \cup Positions(replayFrom, upTo)
  <2>1. replayFrom <= Start(db.cursor) /\ hist \in Seq(Record)
        /\ Start(db.cursor) \in Int /\ Len(hist) \in Nat
    BY DEF BeginIngest, TypeOK, Database, Start
  <2>2. Positions(0, Start(db.cursor)) \subseteq db.recs
    <3>1. CASE db.cursor = None
      BY <3>1, <2>1 DEF Start, Positions
    <3>2. CASE db.cursor # None
      BY <3>2 DEF Start, CursorCovers
    <3>3. QED
      BY <3>1, <3>2
  <2>3. Positions(0, upTo)
           \subseteq Positions(0, Start(db.cursor)) \cup Positions(replayFrom, upTo)
    BY <2>1, PositionsJoin
  <2>4. QED
    BY <2>2, <2>3
<1>5. TxnInv'
  <2>1. \A r \in Positions(replayFrom, upTo) : r.at <= asOf
    BY DEF BeginIngest, ValidBatch, Batch
  <2>2. Positions(0, upTo)' = Positions(0, upTo)
    BY <1>1 DEF Positions
  <2>3. Contract!UniqueIds(txn.rows)'
    BY <1>1 DEF UniqueIdentity, Contract!UniqueIds
  <2>4. QED
    BY <1>1, <1>4, <2>1, <2>2, <2>3 DEF TxnInv
<1>6. QED
  BY <1>2, <1>3, <1>5

\* Without a conflict, INSERT OR IGNORE leaves exactly the old rows and the record.
LEMMA InsertedIsUnion ==
  ASSUME NEW rows, NEW r \in Record, NoConflict(rows, r)
  PROVE  Inserted(rows, r) = rows \cup {r}
BY DEF NoConflict, Inserted

LEMMA InsertRowInv ==
  ASSUME LedgerInv, NEW r \in txn.todo, InsertRow(r)
  PROVE  LedgerInv'
<1> USE DEF LedgerInv
<1>1. /\ UNCHANGED <<file, db, proc, hist>> /\ proc = "ingesting"
      /\ txn' = [todo |-> txn.todo \ {r}, rows |-> txn.rows \cup {r},
                 cursor |-> txn.cursor, asOf |-> txn.asOf]
  <2>1. r \in Record /\ NoConflict(txn.rows, r)
    BY DEF InsertRow, TypeOK, Transaction
  <2>2. QED
    BY <2>1, InsertedIsUnion DEF InsertRow
<1>2. /\ txn'.todo = txn.todo \ {r} /\ txn'.rows = txn.rows \cup {r}
      /\ txn'.cursor = txn.cursor /\ txn'.asOf = txn.asOf
  BY <1>1
<1>3. TypeOK'
  BY <1>1 DEF TypeOK, Transaction
<1>4. DbInv' /\ UniqueIdentity' /\ CursorCovers' /\ ReopenAccepts'
  BY <1>1 DEF DbInv, UniqueIdentity, Contract!UniqueIds, CursorCovers, ReopenAccepts,
              MetadataValid, Positions
<1>5. Contract!UniqueIds(txn.rows)'
  <2>1. Contract!UniqueIds(txn.rows) /\ NoConflict(txn.rows, r)
    BY <1>1 DEF TxnInv, InsertRow
  <2>2. QED
    BY <1>2, <2>1 DEF Contract!UniqueIds, NoConflict
<1>6. TxnInv'
  <2>1. Positions(0, txn.cursor)' = Positions(0, txn.cursor)
    BY <1>1, <1>2 DEF Positions
  <2>2. QED
    BY <1>1, <1>2, <1>5, <2>1 DEF TxnInv
<1>7. QED
  BY <1>3, <1>4, <1>6

LEMMA CommitTxnInv == LedgerInv /\ CommitTxn => LedgerInv'
<1> SUFFICES ASSUME LedgerInv, CommitTxn PROVE LedgerInv'
  OBVIOUS
<1> USE DEF LedgerInv
<1>1. /\ db' = [recs |-> txn.rows, cursor |-> txn.cursor, asOf |-> txn.asOf,
                gen |-> db.gen + 1]
      /\ proc = "ingesting" /\ proc' = "open" /\ txn' = NoTxn /\ txn.todo = {}
      /\ UNCHANGED <<file, hist>>
  BY DEF CommitTxn
<1>2. TypeOK'
  BY <1>1 DEF TypeOK, Transaction, NoTxn, Database, None
<1>3. DbInv'
  <2>1. file = "ready"
    BY <1>1 DEF DbInv
  <2>2. QED
    BY <1>1, <2>1 DEF DbInv, TxnInv, MetadataValid, None, TypeOK, Database, Time
<1>4. UniqueIdentity' /\ ReopenAccepts' /\ TxnInv'
  BY <1>1 DEF UniqueIdentity, Contract!UniqueIds, ReopenAccepts, TxnInv
<1>5. CursorCovers'
  BY <1>1 DEF CursorCovers, TxnInv, Positions
<1>6. QED
  BY <1>2, <1>3, <1>4, <1>5

LEMMA EndInv == LedgerInv /\ (Rollback \/ Crash) => LedgerInv'
<1> SUFFICES ASSUME LedgerInv, Rollback \/ Crash PROVE LedgerInv'
  OBVIOUS
<1> USE DEF LedgerInv
<1>1. /\ UNCHANGED <<file, db, hist>> /\ txn' = NoTxn
      /\ proc' = "down" \/ (proc = "ingesting" /\ proc' = "open")
  BY DEF Rollback, Crash
<1>2. TypeOK'
  BY <1>1 DEF TypeOK, Transaction, NoTxn, None
<1>3. DbInv' /\ UniqueIdentity' /\ ReopenAccepts' /\ TxnInv' /\ CursorCovers'
  BY <1>1 DEF DbInv, UniqueIdentity, Contract!UniqueIds, ReopenAccepts, TxnInv,
              CursorCovers, MetadataValid, Positions
<1>4. QED
  BY <1>2, <1>3

LEMMA VenueEmitInv ==
  ASSUME LedgerInv, NEW r \in Record, VenueEmit(r)
  PROVE  LedgerInv'
<1> USE DEF LedgerInv
<1>1. /\ UNCHANGED <<file, db, proc, txn>> /\ hist' = Append(hist, r)
      /\ hist \in Seq(Record) /\ Len(hist) \in Nat /\ Len(hist') = Len(hist) + 1
  BY DEF VenueEmit, TypeOK
<1>2. TypeOK'
  BY <1>1 DEF TypeOK
<1>3. DbInv' /\ UniqueIdentity' /\ ReopenAccepts'
  BY <1>1 DEF DbInv, UniqueIdentity, Contract!UniqueIds, ReopenAccepts, MetadataValid
<1>4. CursorCovers'
  <2>1. db.cursor \in Int /\ db.cursor <= Len(hist)
    BY <1>1 DEF DbInv, None
  <2>2. Positions(0, db.cursor)' = Positions(0, db.cursor)
    BY <1>1, <2>1, PositionsStable
  <2>3. QED
    BY <1>1, <2>2 DEF CursorCovers
<1>5. TxnInv'
  <2>1. CASE proc # "ingesting"
    BY <1>1, <2>1 DEF TxnInv
  <2>2. CASE proc = "ingesting"
    <3>1. txn.cursor \in Int /\ txn.cursor <= Len(hist)
      BY <1>1, <2>2 DEF TxnInv
    <3>2. Positions(0, txn.cursor)' = Positions(0, txn.cursor)
      BY <1>1, <3>1, PositionsStable
    <3>3. QED
      BY <1>1, <2>2, <3>2 DEF TxnInv, Contract!UniqueIds
  <2>3. QED
    BY <2>1, <2>2
<1>6. QED
  BY <1>2, <1>3, <1>4, <1>5

LEMMA NextInv == LedgerInv /\ [Next]_vars => LedgerInv'
<1> SUFFICES ASSUME LedgerInv, [Next]_vars PROVE LedgerInv'
  OBVIOUS
<1>1. CASE UNCHANGED vars
  BY <1>1, StutterInv
<1>2. CASE OpenNew \/ CreateSchema \/ OpenExisting
  BY <1>2, OpeningInv
<1>3. CASE \E replayFrom, upTo \in 0..Len(hist), asOf \in Time :
              BeginIngest(replayFrom, upTo, asOf)
  BY <1>3, BeginIngestInv
<1>4. CASE \E r \in txn.todo : InsertRow(r)
  BY <1>4, InsertRowInv
<1>5. CASE CommitTxn
  BY <1>5, CommitTxnInv
<1>6. CASE Rollback \/ Crash
  BY <1>6, EndInv
<1>7. CASE \E r \in Record : VenueEmit(r)
  BY <1>7, VenueEmitInv
<1>8. QED
  BY <1>1, <1>2, <1>3, <1>4, <1>5, <1>6, <1>7 DEF Next

\* LedgerInv holds in every reachable state of the ledger.
THEOREM LedgerInvariant == Spec => []LedgerInv
BY InitInv, NextInv, PTL DEF Spec

\* The ledger's file, rows, metadata and transaction stay well typed.
THEOREM TypeCorrect == Spec => []TypeOK
<1>1. LedgerInv => TypeOK
  BY DEF LedgerInv
<1>2. QED
  BY <1>1, LedgerInvariant, PTL

\* A contradicting record holds the cursor up in front of it, however often it
\* and its predecessor are replayed (src/src/risk/ledger.py, _insert_fill and
\* _insert_cash_event).
THEOREM ContradictionStopsHolds == Spec => []ContradictionStops
<1>1. LedgerInv => ContradictionStops
  <2>1. SUFFICES ASSUME LedgerInv, NEW i \in DOMAIN hist, NEW j \in DOMAIN hist,
                        i <= db.cursor, j <= db.cursor, hist[i].id = hist[j].id
                 PROVE  hist[i] = hist[j]
    BY DEF ContradictionStops
  <2>2. i \in Nat \ {0} /\ j \in Nat \ {0}
    BY <2>1 DEF LedgerInv, TypeOK
  <2>3. hist[i] \in db.recs /\ hist[j] \in db.recs
    BY <2>1, <2>2 DEF LedgerInv, CursorCovers, Positions
  <2>4. QED
    BY <2>1, <2>3 DEF LedgerInv, UniqueIdentity, Contract!UniqueIds
<1>2. QED
  BY <1>1, LedgerInvariant, PTL

\* No record before the committed cursor is missing (ingest_batch).
THEOREM CursorCoversHolds == Spec => []CursorCovers
<1>1. LedgerInv => CursorCovers
  BY DEF LedgerInv
<1>2. QED
  BY <1>1, LedgerInvariant, PTL

\* A ledger whose creation was not interrupted always opens again.
THEOREM ReopenAcceptsHolds == Spec => []ReopenAccepts
<1>1. LedgerInv => ReopenAccepts
  BY DEF LedgerInv
<1>2. QED
  BY <1>1, LedgerInvariant, PTL

-----------------------------------------------------------------------------

\* One step of the ledger is one commit of the contract or invisible to it.
LEMMA StepImplements ==
  LedgerInv /\ LedgerInv' /\ [Next]_vars =>
    [Contract!Commit]_[recs |-> db.recs, asOf |-> db.asOf, gen |-> db.gen]
<1> SUFFICES ASSUME LedgerInv, LedgerInv', [Next]_vars
             PROVE  [Contract!Commit]_[recs |-> db.recs, asOf |-> db.asOf, gen |-> db.gen]
  OBVIOUS
<1>1. CASE CommitTxn
  <2>1. /\ db'.recs = txn.rows /\ db'.asOf = txn.asOf /\ db'.gen = db.gen + 1
        /\ proc = "ingesting" /\ txn.asOf >= db.asOf
    BY <1>1 DEF CommitTxn
  <2>2. /\ db.recs \subseteq txn.rows
        /\ \A r \in txn.rows \ db.recs : r.at <= txn.asOf
    BY <2>1 DEF LedgerInv, TxnInv
  <2>3. Contract!UniqueIds(db'.recs)
    BY DEF LedgerInv, UniqueIdentity, Contract!UniqueIds
  <2>4. QED
    BY <2>1, <2>2, <2>3 DEF Contract!Commit, Contract!UniqueIds
<1>2. CASE CreateSchema
  BY <1>2 DEF CreateSchema, LedgerInv, DbInv
<1>3. CASE db' = db
  BY <1>3
<1>4. QED
  BY <1>1, <1>2, <1>3 DEF Next, vars, OpenNew, OpenExisting, BeginIngest, InsertRow,
                          Rollback, Crash, VenueEmit

\* The transactional ledger implements the atomic one of LedgerContract.
THEOREM LedgerImplementsContract == Spec => ImplementsContract
<1>1. Init => Contract!Init
  BY DEF Init, Contract!Init, EmptyDb, None, Contract!None
<1>2. QED
  BY <1>1, StepImplements, LedgerInvariant, PTL
     DEF Spec, ImplementsContract, Contract!Spec
=============================================================================

----------------------------- MODULE FillLedger -----------------------------
(***************************************************************************)
(* The SQLite fill ledger of one account (src/src/risk/ledger.py): opening *)
(* and creating the file, and ingest_batch as the transaction it is, one   *)
(* row at a time, with a crash or a database error possible between any    *)
(* two rows.                                                               *)
(*                                                                         *)
(* The venue is external.  "hist" is its history in the order in which     *)
(* records became visible; a cursor is a position in it.  Records may show *)
(* up late (an old instant at a new position), be replayed, or contradict  *)
(* an earlier record with the same identity, and a batch may carry a       *)
(* watermark that is too old.                                              *)
(***************************************************************************)
EXTENDS Integers, Sequences

CONSTANTS FillIds,      \* primary keys of table fills
          CashIds,      \* primary keys of table cash_events
          Bodies,       \* all other columns of a row
          MaxTime,      \* bound: instants are 0..MaxTime
          MaxHist,      \* bound: records the venue emits
          MaxGen        \* bound: committed batches

ASSUME BoundsAssumption == MaxTime \in Nat /\ MaxHist \in Nat /\ MaxGen \in Nat

VARIABLES file,     \* the database file: absent, version 0, or schema version 1
          db,       \* what is committed: rows and the metadata table
          proc,     \* what the process that owns the ledger is doing
          txn,      \* the open transaction
          hist      \* external: the venue's history

vars == <<file, db, proc, txn, hist>>

None == -1
Ids == FillIds \cup CashIds
Time == 0..MaxTime
Record == [id : Ids, at : Time, body : Bodies]
Fills(recs) == {r \in recs : r.id \in FillIds}

Database == [recs : SUBSET Record, cursor : Int, asOf : Int, gen : Nat]
EmptyDb == [recs |-> {}, cursor |-> None, asOf |-> None, gen |-> 0]

Transaction == [todo : SUBSET Record, rows : SUBSET Record,
                cursor : Int, asOf : Int]
NoTxn == [todo |-> {}, rows |-> {}, cursor |-> None, asOf |-> None]

Positions(first, last) == {hist[i] : i \in {j \in DOMAIN hist : first < j /\ j <= last}}

TypeOK ==
  /\ file \in {"absent", "version0", "ready"}
  /\ db \in Database
  /\ proc \in {"down", "creating", "open", "ingesting", "refused"}
  /\ txn \in Transaction
  /\ hist \in Seq(Record)

Init ==
  /\ file = "absent"
  /\ db = EmptyDb
  /\ proc = "down"
  /\ txn = NoTxn
  /\ hist = << >>

----------------------------------------------------------------------------
(* Opening *)

\* FillLedger.__init__ on a path that does not exist: connecting creates the
\* file, whose user_version stays 0 until the schema transaction commits.
OpenNew ==
  /\ proc = "down" /\ file = "absent"
  /\ file' = "version0" /\ proc' = "creating"
  /\ UNCHANGED <<db, txn, hist>>

CreateSchema ==
  /\ proc = "creating"
  /\ file' = "ready" /\ proc' = "open" /\ db' = EmptyDb
  /\ UNCHANGED <<txn, hist>>

\* Mutant of MetadataValid: a committed generation must have rows.
RowsExpected(d) ==
  IF d.gen = 0 THEN d.recs = {} /\ d.cursor = None /\ d.asOf = None
               ELSE d.recs # {} /\ d.cursor # None /\ d.asOf # None

\* Generation zero means nothing was ever ingested; later generations have a
\* cursor and a watermark.
MetadataValid(d) ==
  IF d.gen = 0 THEN d.recs = {} /\ d.cursor = None /\ d.asOf = None
               ELSE d.cursor # None /\ d.asOf # None

\* An existing file is validated, never created: version 0 is refused.
OpenExisting ==
  /\ proc = "down" /\ file # "absent"
  /\ proc' = IF file = "ready" /\ MetadataValid(db) THEN "open" ELSE "refused"
  /\ UNCHANGED <<file, db, txn, hist>>

----------------------------------------------------------------------------
(* One batch *)

\* The position after which the venue is asked to continue.
Start(cursor) == IF cursor = None THEN 0 ELSE cursor

\* A batch the adapter may return for the committed cursor: everything from
\* the cursor up to a later position, possibly with a replayed stretch before it.
Batch(replayFrom, upTo) == Positions(replayFrom, upTo)

\* _validate_batch: no record may be younger than the batch's watermark.
ValidBatch(recs, asOf) == \A r \in recs : r.at <= asOf

\* ingest_batch up to the start of its transaction.  A batch that does not
\* validate changes nothing.
BeginIngest(replayFrom, upTo, asOf) ==
  /\ proc = "open" /\ db.gen < MaxGen
  /\ replayFrom <= Start(db.cursor) /\ Start(db.cursor) <= upTo /\ upTo <= Len(hist)
  /\ ValidBatch(Batch(replayFrom, upTo), asOf)
  /\ MetadataValid(db)
  /\ proc' = "ingesting"
  /\ txn' = [todo |-> Batch(replayFrom, upTo), rows |-> db.recs,
             cursor |-> upTo, asOf |-> asOf]
  /\ UNCHANGED <<file, db, hist>>

\* INSERT OR IGNORE into a table whose primary key is the identity: a record
\* whose key is taken changes nothing, whatever its other columns say.
Inserted(rows, r) == IF \E s \in rows : s.id = r.id THEN rows ELSE rows \cup {r}

\* Mutant of NoConflict: the stored row is compared by its instant only.
SameInstant(rows, r) == \A s \in rows : s.id = r.id => s.at = r.at

\* An ignored record must equal the row that has its key, or the batch raises
\* LedgerIdentityConflictError.
NoConflict(rows, r) == \A s \in rows : s.id = r.id => s = r

\* _insert_fill and _insert_cash_event: INSERT OR IGNORE, then compare; the
\* conflict is a Rollback.  Every fill of the batch goes in before the first
\* cash event.
InsertRow(r) ==
  /\ proc = "ingesting" /\ r \in txn.todo
  /\ r.id \in FillIds \/ Fills(txn.todo) = {}
  /\ NoConflict(txn.rows, r)
  /\ txn' = [todo |-> txn.todo \ {r}, rows |-> Inserted(txn.rows, r),
             cursor |-> txn.cursor, asOf |-> txn.asOf]
  /\ UNCHANGED <<file, db, proc, hist>>

\* Mutant of CommitTxn: the watermark is stored without looking at the old one.
CommitAnyWatermark ==
  /\ proc = "ingesting" /\ txn.todo = {}
  /\ db' = [recs |-> txn.rows, cursor |-> txn.cursor, asOf |-> txn.asOf,
            gen |-> db.gen + 1]
  /\ proc' = "open" /\ txn' = NoTxn
  /\ UNCHANGED <<file, hist>>

\* The end of the transaction: the watermark may not regress; cursor,
\* watermark and generation become durable together with the rows.
CommitTxn ==
  /\ proc = "ingesting" /\ txn.todo = {}
  /\ txn.asOf >= db.asOf
  /\ db' = [recs |-> txn.rows, cursor |-> txn.cursor, asOf |-> txn.asOf,
            gen |-> db.gen + 1]
  /\ proc' = "open" /\ txn' = NoTxn
  /\ UNCHANGED <<file, hist>>

\* Mutant of Rollback: undoes a generation that was never committed.
RollbackGeneration ==
  /\ proc = "ingesting"
  /\ proc' = "open" /\ txn' = NoTxn
  /\ db' = [db EXCEPT !.gen = @ - 1]
  /\ UNCHANGED <<file, hist>>

\* Mutant of Rollback: the cursor is stored outside the transaction.
RollbackRowsOnly ==
  /\ proc = "ingesting"
  /\ proc' = "open" /\ txn' = NoTxn
  /\ db' = [db EXCEPT !.cursor = txn.cursor]
  /\ UNCHANGED <<file, hist>>

\* An identity conflict, a regressed watermark or any database error leaves
\* the "with connection" block through an exception, which rolls back.
Rollback ==
  /\ proc = "ingesting"
  /\ proc' = "open" /\ txn' = NoTxn
  /\ UNCHANGED <<file, db, hist>>

----------------------------------------------------------------------------
(* The environment *)

\* The process dies; SQLite discards the open transaction.
Crash ==
  /\ proc # "down"
  /\ proc' = "down" /\ txn' = NoTxn
  /\ UNCHANGED <<file, db, hist>>

VenueEmit(r) ==
  /\ Len(hist) < MaxHist
  /\ hist' = Append(hist, r)
  /\ UNCHANGED <<file, db, proc, txn>>

Next ==
  \/ OpenNew \/ CreateSchema \/ OpenExisting
  \/ \E replayFrom, upTo \in 0..Len(hist), asOf \in Time :
        BeginIngest(replayFrom, upTo, asOf)
  \/ \E r \in txn.todo : InsertRow(r)
  \/ CommitTxn \/ Rollback \/ Crash
  \/ \E r \in Record : VenueEmit(r)

Spec == Init /\ [][Next]_vars

----------------------------------------------------------------------------
(* Properties *)

\* The cursor never passes a contradiction: two records of one identity behind it
\* are the same record, so that a replay is a no-op and a correction, which the
\* table would silently ignore, holds the ledger up until an operator has looked
\* at it (_insert_fill, _insert_cash_event).
ContradictionStops ==
  \A i, j \in DOMAIN hist :
    i <= db.cursor /\ j <= db.cursor /\ hist[i].id = hist[j].id => hist[i] = hist[j]

\* The cursor never runs ahead of the rows: every record the venue made
\* visible before the committed cursor is in the ledger, so asking for what
\* comes after the cursor leaves no gap (ingest_batch, one transaction).
CursorCovers == Positions(0, db.cursor) \subseteq db.recs

\* Everything ingest_batch can write passes the metadata validation of the
\* next start: only a file whose creation was interrupted is refused.
ReopenAccepts == proc = "refused" => file = "version0"

\* The row-by-row transaction implements the atomic ledger of the contract:
\* no partial batch, one generation per batch, a watermark that never regresses.
Contract == INSTANCE LedgerContract
              WITH db <- [recs |-> db.recs, asOf |-> db.asOf, gen |-> db.gen]
ImplementsContract == Contract!Spec
=============================================================================

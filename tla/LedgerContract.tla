--------------------------- MODULE LedgerContract ---------------------------
(***************************************************************************)
(* What a fill ledger promises to the rest of the aggregator: a set of     *)
(* records with unique identities that only grows, whose generation counts *)
(* the committed batches and whose watermark never goes back.  A batch is  *)
(* visible as a whole or not at all.  FillLedger implements this contract  *)
(* row by row; RiskAggregator and RiskGroup rely on it and commit a batch  *)
(* in one step.                                                            *)
(***************************************************************************)
EXTENDS Integers

VARIABLE db     \* [recs, asOf, gen]; a record has an id, an instant "at" and a body

None == -1

\* fills and cash_events have primary keys: two rows with one key are one row.
UniqueIds(recs) == \A r, s \in recs : r.id = s.id => r = s

Init == db = [recs |-> {}, asOf |-> None, gen |-> 0]

\* One successful ingest_batch.
Commit ==
  /\ db'.gen = db.gen + 1
  /\ db'.asOf >= db.asOf
  /\ db.recs \subseteq db'.recs
  /\ \A r \in db'.recs \ db.recs : r.at <= db'.asOf
  /\ UniqueIds(db'.recs)

Spec == Init /\ [][Commit]_db
=============================================================================

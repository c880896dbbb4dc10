--------------------------- MODULE RiskAggregator ---------------------------
(***************************************************************************)
(* One risk-group aggregator (src/src/risk): start-up and recovery, the    *)
(* reconciliation cycle, the checkpoint and the published state file, for  *)
(* a process that may die between any two steps and whose venue, registry, *)
(* ledger and disk may fail.  A venue adapter is configured: RiskGroup has *)
(* the null client, and the strategies of the group.                       *)
(*                                                                         *)
(* Amounts are sets.  A trade stays at the venue as an open position until *)
(* the instant closedAt gives it, when it becomes one record of the fill   *)
(* ledger.  "realized" is the set of records a daily sum adds up and       *)
(* "unrealized" the set of positions an observation reports, so a trade in *)
(* both is counted twice and a trade in neither is forgotten.  A batch is  *)
(* one step of the ledger, as FillLedger shows it to be (LedgerContract).  *)
(***************************************************************************)
EXTENDS Integers, FiniteSets

CONSTANTS Trades,         \* positions of the group; each closes at most once
          Losing,         \* those that lose one unit; the others gain one
          Snapshots,      \* account snapshots the venue may report
          DayLength,      \* instants per UTC day
          HealthWindow,   \* health_window_s
          CutMaxSkew,     \* accounting_cut_max_skew_s
          SoftLoss,       \* loss at which soft_cap is raised
          HardLoss,       \* loss at which hard_cap is raised
          FailThreshold,  \* fail_closed_after_consecutive_failures
          MaxTime,        \* bound: the last instant
          MaxGen,         \* bound: cycles start only below this generation
          MaxFaults       \* bound: failures, crashes and stops

None == -1
Time == 0..MaxTime
OptTime == Time \cup {None}
Day(t) == t \div DayLength

ASSUME ConfigAssumption ==
  /\ Losing \subseteq Trades
  /\ \A s \in Snapshots : s.equity \in Nat \ {0} /\ s.stressed \in BOOLEAN
  /\ DayLength \in Nat \ {0} /\ MaxTime \in Nat /\ MaxGen \in Nat /\ MaxFaults \in Nat
  /\ HealthWindow \in Nat /\ CutMaxSkew \in Nat
  /\ SoftLoss \in Nat \ {0} /\ HardLoss \in Nat /\ SoftLoss <= HardLoss
  /\ FailThreshold \in Nat \ {0}

VARIABLES
  \* the world
  now,          \* the wall clock
  closedAt,     \* external: the instant at which each trade was closed, or None
  faults,       \* failures so far
  \* durable files
  ledgerFile,   \* absent, version0 (creation interrupted) or ready
  db,           \* what the ledger has committed
  ckpt,         \* the checkpoint file
  pub,          \* the published state file
  \* memory of the process (AggregatorState)
  pc,           \* the next step of the process
  then,         \* where the process goes after it has published
  acct,         \* accounting: amounts, baselines and cap flags
  prov,         \* provenance: when and from what the amounts were observed
  gen,          \* checkpoint_ledger_generation
  saveAllowed, failClosed, failures,
  cyc           \* locals of the cycle: its start and what the venue reported

world == <<now, closedAt, faults>>
files == <<ledgerFile, db, ckpt, pub>>
memory == <<acct, prov, gen, saveAllowed, failClosed, failures>>
vars == <<world, files, memory, pc, then, cyc>>

Absent == [equity |-> None, stressed |-> FALSE]

Accounting ==
  [day : Int, realized : SUBSET Trades, pending : SUBSET Trades,
   unrealized : SUBSET Trades, snap : Snapshots \cup {Absent}, sod : Int, hwm : Int,
   soft : BOOLEAN, hard : BOOLEAN, margin : BOOLEAN]
Provenance ==
  [lastSuccess : OptTime, posAsOf : OptTime, ledgerAsOf : OptTime, verified : BOOLEAN]
Committed == [recs : SUBSET Trades, asOf : OptTime, gen : Nat]
Checkpoint ==
  [present : BOOLEAN, legacy : BOOLEAN, acct : Accounting, prov : Provenance,
   gen : Int, failClosed : BOOLEAN, failures : Nat]
Publication ==
  [acct : Accounting, prov : Provenance, failClosed : BOOLEAN, failures : Nat,
   healthy : BOOLEAN, at : OptTime]
Cycle ==
  [start : OptTime, checked : OptTime, snap : Snapshots \cup {Absent},
   posAsOf : OptTime, cut : OptTime, asOf : OptTime]

NoAccounting ==
  [day |-> None, realized |-> {}, pending |-> {}, unrealized |-> {}, snap |-> Absent,
   sod |-> None, hwm |-> None, soft |-> FALSE, hard |-> FALSE, margin |-> FALSE]
NoProvenance ==
  [lastSuccess |-> None, posAsOf |-> None, ledgerAsOf |-> None, verified |-> FALSE]
NoCycle ==
  [start |-> None, checked |-> None, snap |-> Absent, posAsOf |-> None,
   cut |-> None, asOf |-> None]
NoCheckpoint ==
  [present |-> FALSE, legacy |-> FALSE, acct |-> NoAccounting, prov |-> NoProvenance,
   gen |-> None, failClosed |-> FALSE, failures |-> 0]
FailClosedState(t) ==
  [acct |-> NoAccounting, prov |-> NoProvenance, failClosed |-> TRUE, failures |-> 0,
   healthy |-> FALSE, at |-> t]

TypeOK ==
  /\ now \in Time /\ closedAt \in [Trades -> OptTime] /\ faults \in 0..MaxFaults
  /\ ledgerFile \in {"absent", "version0", "ready"}
  /\ db \in Committed /\ ckpt \in Checkpoint /\ pub \in Publication
  /\ pc \in {"down", "load_new", "load_old", "loop", "fetch", "ingest", "apply",
             "save", "publish", "stopped", "refused"}
  /\ then \in {"loop", "stopped", "refused"}
  /\ acct \in Accounting /\ prov \in Provenance /\ gen \in Int
  /\ saveAllowed \in BOOLEAN /\ failClosed \in BOOLEAN /\ failures \in Nat
  /\ cyc \in Cycle

\* A fresh AggregatorState.
BlankMemory ==
  /\ acct' = NoAccounting /\ prov' = NoProvenance /\ gen' = None
  /\ saveAllowed' = TRUE /\ failClosed' = FALSE /\ failures' = 0
  /\ cyc' = NoCycle

\* Besides an empty directory, a checkpoint written by the previous schema,
\* of which baselines and cap flags are read; no ledger goes with it.
LegacyCheckpoint(equity, capped) ==
  [present |-> TRUE, legacy |-> TRUE,
   acct |-> [day |-> 0, realized |-> {}, pending |-> {}, unrealized |-> {},
             snap |-> Absent, sod |-> equity, hwm |-> equity,
             soft |-> capped, hard |-> capped, margin |-> FALSE],
   prov |-> NoProvenance, gen |-> None, failClosed |-> FALSE, failures |-> 0]

Init ==
  /\ now = 0 /\ closedAt = [t \in Trades |-> None] /\ faults = 0
  /\ ledgerFile = "absent"
  /\ db = [recs |-> {}, asOf |-> None, gen |-> 0]
  /\ \/ ckpt = NoCheckpoint
     \/ \E s \in Snapshots, capped \in BOOLEAN : ckpt = LegacyCheckpoint(s.equity, capped)
  /\ pub = FailClosedState(None)
  /\ pc = "down" /\ then = "loop"
  /\ acct = NoAccounting /\ prov = NoProvenance /\ gen = None
  /\ saveAllowed = TRUE /\ failClosed = FALSE /\ failures = 0
  /\ cyc = NoCycle

Fault == faults < MaxFaults /\ faults' = faults + 1
NoFault == UNCHANGED faults

----------------------------------------------------------------------------
(* Accounting *)

Smaller(a, b) == IF a <= b THEN a ELSE b
Larger(a, b) == IF a <= b THEN b ELSE a

Closed(t, through) == closedAt[t] # None /\ closedAt[t] <= through
ClosedBy(through) == {t \in Trades : Closed(t, through)}
OpenAt(instant) == Trades \ ClosedBy(instant)

\* realized_pnl_for_day: the day's records, up to an optional cut.
OnDay(recs, day) == {t \in recs : Day(closedAt[t]) = day}
RealizedOn(recs, day, through) == OnDay(recs, day) \cap ClosedBy(through)

Net(trades) == Cardinality(trades \cap Losing) - Cardinality(trades \ Losing)

\* determine_signals: no snapshot, no signal.
Exceeds(loss, snap, realized, unrealized) ==
  snap # Absent /\ Net(realized) + Net(unrealized) >= loss
Stressed(snap) == snap # Absent /\ snap.stressed
SignalsAgree(a) ==
  /\ a.soft = Exceeds(SoftLoss, a.snap, a.realized, a.unrealized)
  /\ a.hard = Exceeds(HardLoss, a.snap, a.realized, a.unrealized)
  /\ a.margin = Stressed(a.snap)

----------------------------------------------------------------------------
(* Start-up *)

Exited == pc \in {"down", "stopped", "refused"}

\* Constructing FillLedger with the writer lock held.  A file left without a
\* schema is refused; a missing one is created.
OpenLedger ==
  /\ Exited
  /\ IF ledgerFile = "version0"
       THEN /\ pc' = "publish" /\ then' = "refused"
            /\ failClosed' = TRUE
            /\ UNCHANGED <<acct, prov, gen, saveAllowed, failures, cyc, ledgerFile>>
       ELSE /\ pc' = IF ledgerFile = "ready" THEN "load_old" ELSE "load_new"
            /\ ledgerFile' = "ready"
            /\ UNCHANGED <<then, memory, cyc>>
  /\ UNCHANGED <<world, db, ckpt, pub>>

\* The process dies while it creates the ledger's schema.
OpenInterrupted ==
  /\ Exited /\ ledgerFile = "absent" /\ Fault
  /\ ledgerFile' = "version0" /\ pc' = "down"
  /\ UNCHANGED <<now, closedAt, db, ckpt, pub, memory, then, cyc>>

Bound(c) == c.gen = db.gen

\* The amounts are the ones the ledger, as it is now, yields for the recorded
\* day and cut.
Recomputes(a, p) ==
  /\ p.ledgerAsOf = db.asOf
  /\ a.day # None =>
       LET realized == RealizedOn(db.recs, a.day, Smaller(p.posAsOf, p.ledgerAsOf)) IN
       /\ p.posAsOf # None /\ p.ledgerAsOf # None
       /\ a.realized = realized
       /\ a.pending = OnDay(db.recs, a.day) \ realized

\* Mutant of CheckpointConsistent: another ledger generation is an error.
BoundConsistent(c) == SignalsAgree(c.acct) /\ Bound(c) /\ Recomputes(c.acct, c.prov)

\* The checks of load_checkpoint that relate a version 3 checkpoint to the
\* configuration and to the ledger.
CheckpointConsistent(c) ==
  /\ SignalsAgree(c.acct)
  /\ c.prov.verified => c.acct.sod # None /\ c.acct.hwm # None
  /\ c.acct.day = None =>
       /\ Bound(c) /\ db.gen = 0
       /\ c.acct.realized = {} /\ c.acct.pending = {} /\ c.acct.unrealized = {}
       /\ ~c.acct.soft /\ ~c.acct.hard /\ ~c.acct.margin
  /\ Bound(c) => Recomputes(c.acct, c.prov)

\* Mutants of RestoredAccounting: the amounts of another generation are
\* dropped; cap flags expire with their day.
AccountingIfBound == IF Bound(ckpt) THEN ckpt.acct ELSE NoAccounting
CapsExpireAtMidnight ==
  IF ckpt.acct.day = Day(now) THEN ckpt.acct ELSE [ckpt.acct EXCEPT !.hard = FALSE]

RestoredAccounting == ckpt.acct
RestoredProvenance ==
  [lastSuccess |-> ckpt.prov.lastSuccess, posAsOf |-> ckpt.prov.posAsOf,
   ledgerAsOf |-> ckpt.prov.ledgerAsOf, verified |-> ckpt.prov.verified /\ Bound(ckpt)]

\* load_checkpoint returns True and replaces the whole state.  A checkpoint of
\* another ledger generation, or of a previous schema, is loaded fail-closed.
RestoreCheckpoint ==
  /\ pc \in {"load_new", "load_old"} /\ ckpt.present
  /\ \/ /\ ckpt.legacy
        /\ prov' = NoProvenance /\ gen' = None
        /\ saveAllowed' = FALSE /\ failClosed' = TRUE
     \/ /\ ~ckpt.legacy /\ CheckpointConsistent(ckpt)
        /\ gen' = ckpt.gen
        /\ prov' = RestoredProvenance
        /\ saveAllowed' = Bound(ckpt)
        /\ failClosed' = (ckpt.failClosed \/ ~Bound(ckpt))
  /\ acct' = RestoredAccounting /\ failures' = ckpt.failures
  /\ pc' = "loop"
  /\ UNCHANGED <<world, files, then, cyc>>

\* Nothing exists yet: the first start runs with a fresh state.
StartFresh ==
  /\ pc = "load_new" /\ ~ckpt.present
  /\ pc' = "loop"
  /\ UNCHANGED <<world, files, memory, then, cyc>>

\* The ledger or the checkpoint exists and the checkpoint is missing, not
\* consistent, or (a failure) not readable: the process refuses to start.
RefuseRecovery ==
  /\ pc \in {"load_new", "load_old"}
  /\ \/ /\ ~ckpt.present /\ pc = "load_old" /\ NoFault
     \/ /\ ckpt.present /\ ~ckpt.legacy /\ ~CheckpointConsistent(ckpt) /\ NoFault
     \/ /\ ckpt.present /\ Fault
  /\ failClosed' = TRUE
  /\ pc' = "publish" /\ then' = "refused"
  /\ UNCHANGED <<now, closedAt, files, acct, prov, gen, saveAllowed, failures, cyc>>

----------------------------------------------------------------------------
(* One cycle *)

\* Mutant of RecordFailure: counts the attempts that are left.
AttemptsLeft(forced) ==
  /\ failures' = failures - 1
  /\ failClosed' = (failClosed \/ forced \/ failures - 1 <= 0)

\* _record_reconciliation_failure
RecordFailure(forced) ==
  /\ failures' = failures + 1
  /\ failClosed' = (failClosed \/ forced \/ failures + 1 >= FailThreshold)

\* _invalidate_cached_enforcement_provenance: amounts stay, authority goes.
Invalidate ==
  /\ prov' = NoProvenance /\ saveAllowed' = FALSE /\ failClosed' = TRUE

\* Every way out of a cycle saves, then publishes.
Finish(next) == pc' = "save" /\ then' = next

RegistryFails ==
  /\ pc = "loop" /\ Fault
  /\ RecordFailure(FALSE) /\ Finish("loop")
  /\ UNCHANGED <<now, closedAt, files, acct, prov, gen, saveAllowed, cyc>>

\* The stop event is seen at the top of the loop.
Shutdown ==
  /\ pc = "loop" /\ Fault
  /\ failClosed' = TRUE /\ Finish("stopped")
  /\ UNCHANGED <<now, closedAt, files, acct, prov, gen, saveAllowed, failures, cyc>>

StartCycle ==
  /\ pc = "loop" /\ db.gen < MaxGen
  /\ pc' = "fetch" /\ cyc' = [NoCycle EXCEPT !.start = now]
  /\ UNCHANGED <<world, files, memory, then>>

\* Mutant of ValidCycle: positions may be newer than the ledger's watermark.
UnorderedCycle(posAsOf, cut, asOf) ==
  /\ posAsOf # None /\ asOf # None
  /\ now - posAsOf <= HealthWindow /\ now - asOf <= HealthWindow
  /\ cut # None => cut <= posAsOf /\ cut = asOf

\* _validate_venue_cycle: everything is recent by the clock read after the last
\* venue call; positions are not newer than the ledger's watermark unless the
\* venue certifies them as of exactly that watermark; the two are close.
Fresh(instant) == instant # None /\ now - instant <= HealthWindow

PositionCut(posAsOf, cut) == IF cut = None THEN posAsOf ELSE cut

ValidCycle(posAsOf, cut, asOf) ==
  /\ Fresh(posAsOf) /\ Fresh(asOf) /\ (cut # None => Fresh(cut))
  /\ IF cut = None THEN posAsOf <= asOf ELSE cut <= posAsOf /\ cut = asOf
  /\ asOf - PositionCut(posAsOf, cut) <= CutMaxSkew
  /\ PositionCut(posAsOf, cut) - asOf <= CutMaxSkew

\* The ledger's own check: the watermark may not regress.
Advances(asOf) == asOf >= db.asOf

\* The four venue calls.  Each reports the past: positions as of posAsOf, or
\* as of an explicit cut before that, and all records up to the watermark asOf.
\* An answer that cannot be used when it is given is a failure of the venue.
Fetch(snap, posAsOf, cut, asOf) ==
  /\ pc = "fetch"
  /\ IF ValidCycle(posAsOf, cut, asOf) /\ Advances(asOf) THEN NoFault ELSE Fault
  /\ pc' = "ingest"
  /\ cyc' = [start |-> cyc.start, checked |-> None, snap |-> snap,
             posAsOf |-> posAsOf, cut |-> cut, asOf |-> asOf]
  /\ UNCHANGED <<now, closedAt, files, memory, then>>

\* A venue call raises (not forced), or reading the cursor does (forced).
FetchFails ==
  /\ pc = "fetch" /\ Fault
  /\ \E forced \in BOOLEAN : RecordFailure(forced)
  /\ Finish("loop") /\ cyc' = NoCycle
  /\ UNCHANGED <<now, closedAt, files, acct, prov, gen, saveAllowed>>

Validated == ValidCycle(cyc.posAsOf, cyc.cut, cyc.asOf)

\* ReconciliationValidationError: the observations are unusable by now, or
\* something else in them is invalid.  The ledger has not been touched.
RejectObservation ==
  /\ pc = "ingest" /\ ((~Validated /\ NoFault) \/ Fault)
  /\ RecordFailure(TRUE) /\ Finish("loop") /\ cyc' = NoCycle
  /\ UNCHANGED <<now, closedAt, files, acct, prov, gen, saveAllowed>>

\* ingest_batch commits.
Ingest ==
  /\ pc = "ingest" /\ Validated /\ Advances(cyc.asOf)
  /\ db' = [recs |-> db.recs \cup ClosedBy(cyc.asOf), asOf |-> cyc.asOf,
            gen |-> db.gen + 1]
  /\ pc' = "apply" /\ cyc' = [cyc EXCEPT !.checked = now]
  /\ UNCHANGED <<world, ledgerFile, ckpt, pub, memory, then>>

\* ingest_batch rolls back: a regressed watermark, an identity conflict, a
\* database error.
IngestFails ==
  /\ pc = "ingest" /\ Validated /\ ((~Advances(cyc.asOf) /\ NoFault) \/ Fault)
  /\ failures' = failures + 1 /\ Invalidate /\ Finish("loop") /\ cyc' = NoCycle
  /\ UNCHANGED <<now, closedAt, files, acct, gen>>

\* Mutant of EnforcementCut: realized amounts up to the ledger's watermark.
LedgerCut == cyc.asOf

EnforcementCut == Smaller(PositionCut(cyc.posAsOf, cyc.cut), cyc.asOf)

\* The first reconciliation of a UTC day fixes its start-of-day equity.
StartOfDay ==
  IF acct.day # Day(cyc.start) \/ acct.sod = None THEN cyc.snap.equity ELSE acct.sod

\* Mutant of HighWaterMark: starts anew every day.
DailyHighWaterMark ==
  IF acct.day # Day(cyc.start) THEN cyc.snap.equity ELSE Larger(acct.hwm, cyc.snap.equity)

HighWaterMark == Larger(acct.hwm, cyc.snap.equity)

\* _apply_successful_reconciliation on a staged copy, then the copy is taken.
NewAccounting ==
  LET day == Day(cyc.start)
      realized == RealizedOn(db.recs, day, EnforcementCut)
      unrealized == OpenAt(PositionCut(cyc.posAsOf, cyc.cut)) IN
  [day |-> day, realized |-> realized,
   pending |-> OnDay(db.recs, day) \ realized,
   unrealized |-> unrealized, snap |-> cyc.snap,
   sod |-> StartOfDay, hwm |-> HighWaterMark,
   soft |-> Exceeds(SoftLoss, cyc.snap, realized, unrealized),
   hard |-> Exceeds(HardLoss, cyc.snap, realized, unrealized),
   margin |-> Stressed(cyc.snap)]

Apply ==
  /\ pc = "apply"
  /\ acct' = NewAccounting
  /\ prov' = [lastSuccess |-> cyc.checked, posAsOf |-> cyc.posAsOf,
              ledgerAsOf |-> db.asOf, verified |-> TRUE]
  /\ gen' = db.gen /\ saveAllowed' = TRUE /\ failClosed' = FALSE /\ failures' = 0
  /\ Finish("loop") /\ cyc' = NoCycle
  /\ UNCHANGED <<world, files>>

\* Reading the ledger back or staging the new state raises after the commit.
ApplyFails ==
  /\ pc = "apply" /\ Fault
  /\ failures' = failures + 1 /\ Invalidate /\ Finish("loop") /\ cyc' = NoCycle
  /\ UNCHANGED <<now, closedAt, files, acct, gen>>

----------------------------------------------------------------------------
(* Checkpoint and publication *)

\* The state belongs to the ledger's generation, or nothing was ever
\* reconciled and the ledger is empty.
BindingHolds == gen = db.gen \/ (gen = None /\ prov.lastSuccess = None /\ db.gen = 0)

Save ==
  /\ pc = "save" /\ saveAllowed /\ BindingHolds
  /\ ckpt' = [present |-> TRUE, legacy |-> FALSE, acct |-> acct, prov |-> prov,
              gen |-> db.gen, failClosed |-> failClosed, failures |-> failures]
  /\ pc' = "publish"
  /\ UNCHANGED <<world, ledgerFile, db, pub, memory, then, cyc>>

\* Mutant of SaveFails: a failed save is only logged.
SaveFailureIgnored ==
  /\ pc = "save"
  /\ \/ ~(saveAllowed /\ BindingHolds) /\ NoFault
     \/ Fault
  /\ pc' = "publish"
  /\ UNCHANGED <<now, closedAt, files, memory, then, cyc>>

\* The save is skipped, or the disk or the ledger fails.
SaveFails ==
  /\ pc = "save"
  /\ \/ ~(saveAllowed /\ BindingHolds) /\ NoFault
     \/ Fault
  /\ Invalidate
  /\ pc' = "publish"
  /\ UNCHANGED <<now, closedAt, files, acct, gen, failures, then, cyc>>

Healthy ==
  /\ ~failClosed /\ acct.snap # Absent /\ prov.verified
  /\ Fresh(prov.lastSuccess) /\ Fresh(prov.posAsOf) /\ Fresh(prov.ledgerAsOf)

Publish ==
  /\ pc = "publish"
  /\ pub' = [acct |-> acct, prov |-> prov, failClosed |-> failClosed,
             failures |-> failures, healthy |-> Healthy, at |-> now]
  /\ pc' = then /\ then' = "loop"
  /\ IF then = "loop" THEN UNCHANGED <<memory, cyc>> ELSE BlankMemory
  /\ UNCHANGED <<world, ledgerFile, db, ckpt>>

\* A start that fails before it takes the writer lock, possibly while another
\* process runs, replaces the state file by a fail-closed one.
StartupFails ==
  /\ Fault
  /\ pub' = FailClosedState(now)
  /\ UNCHANGED <<now, closedAt, ledgerFile, db, ckpt, memory, pc, then, cyc>>

Crash ==
  /\ ~Exited /\ Fault
  /\ pc' = "down" /\ then' = "loop" /\ BlankMemory
  /\ UNCHANGED <<now, closedAt, files>>

\* Time passes; the trades in "closing" close at the new instant.
Tick(closing) ==
  /\ now < MaxTime
  /\ now' = now + 1
  /\ closedAt' = [t \in Trades |-> IF t \in closing THEN now + 1 ELSE closedAt[t]]
  /\ UNCHANGED <<faults, files, memory, pc, then, cyc>>

----------------------------------------------------------------------------

Step ==
  \/ OpenLedger \/ RestoreCheckpoint \/ StartFresh \/ RefuseRecovery
  \/ StartCycle
  \/ \E snap \in Snapshots, posAsOf, asOf \in 0..now, cut \in (0..now) \cup {None} :
        Fetch(snap, posAsOf, cut, asOf)
  \/ RejectObservation \/ Ingest \/ IngestFails \/ Apply \/ Save \/ SaveFails \/ Publish

Failure ==
  \/ OpenInterrupted \/ RegistryFails \/ Shutdown \/ FetchFails \/ ApplyFails
  \/ StartupFails \/ Crash

Next ==
  \/ Step \/ Failure
  \/ \E closing \in SUBSET OpenAt(now) : Tick(closing)

Spec == Init /\ [][Next]_vars

\* The process runs: poll loop, and a supervisor that restarts it.
FairSpec == Spec /\ WF_vars(Step)

----------------------------------------------------------------------------
(* Properties *)

\* A restart never forgets what a trusted publication was based on: while the
\* state file says healthy, the checkpoint holds a high-water mark at least as
\* high and, for the same day, the same start-of-day equity (the loop saves
\* before it publishes, aggregator.py _run_forever_locked).
RestartNeverForgets ==
  pub.healthy =>
    /\ ckpt.present /\ ckpt.acct.hwm >= pub.acct.hwm
    /\ ckpt.acct.day = pub.acct.day => ckpt.acct.sod = pub.acct.sod

\* Every checkpoint the aggregator itself wrote after a reconciliation passes
\* load_checkpoint in every later state of the ledger, also when the process
\* died between the ledger commit and the next save.
OwnCheckpointLoads ==
  ckpt.present /\ ~ckpt.legacy /\ ckpt.acct.day # None =>
    ckpt.gen <= db.gen /\ CheckpointConsistent(ckpt)

\* A healthy publication counts every trade once: what was closed on its day
\* up to the cut as realized, what was open at the cut as unrealized, whatever
\* cut the venue used and however the ledger was assembled.
CountedOnce ==
  pub.healthy =>
    LET cut == Smaller(pub.prov.posAsOf, pub.prov.ledgerAsOf) IN
    /\ pub.acct.unrealized = OpenAt(cut)
    /\ pub.acct.realized = RealizedOn(Trades, pub.acct.day, cut)

\* What is published as healthy is exactly what a restart would load, bound to
\* the ledger's latest generation (save_checkpoint, then publish_state).
HealthyIsDurable ==
  [][pub' # pub /\ pub'.healthy =>
       /\ ckpt.present /\ Bound(ckpt) /\ ~ckpt.failClosed
       /\ ckpt.acct = pub'.acct /\ ckpt.prov = pub'.prov]_vars

\* Across crashes, restarts and failures the checkpoint's high-water mark never
\* drops and its start-of-day equity is fixed once the day has one.
BaselinesMonotone ==
  [][ckpt.present =>
       /\ ckpt'.present /\ ckpt'.acct.hwm >= ckpt.acct.hwm
       /\ ckpt'.acct.day = ckpt.acct.day /\ ckpt.acct.sod # None =>
            ckpt'.acct.sod = ckpt.acct.sod]_vars

\* A hard cap outlives restarts, registry failures and midnight: the durable
\* one is withdrawn only together with a newer ledger generation, that is by a
\* complete reconciliation, and no publication that is not fail-closed differs
\* from the durable one.
HardCapWithdrawn ==
  [][/\ ckpt.present /\ ckpt.acct.hard /\ ~ckpt'.acct.hard => ckpt'.gen > ckpt.gen
     /\ pub' # pub /\ ~pub'.failClosed => pub'.acct.hard = ckpt.acct.hard]_vars

\* Once nothing fails any more and a checkpoint with a baseline exists, the
\* aggregator leaves fail-closed by itself: through restart, recovery and a
\* complete reconciliation, without anyone repairing a file.
Recovers ==
  (/\ faults = MaxFaults /\ db.gen < MaxGen
   /\ ckpt.present /\ ckpt.acct.day # None /\ ledgerFile # "version0")
    ~> (~failClosed /\ prov.lastSuccess # None)
=============================================================================

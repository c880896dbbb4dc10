------------------------ MODULE RiskAggregatorProofs ------------------------
(***************************************************************************)
(* For every set of trades, account snapshots, thresholds and bounds: the  *)
(* aggregator's own checkpoints always load again, its baselines survive   *)
(* crashes and restarts, and what it publishes as healthy is durable.      *)
(***************************************************************************)
EXTENDS RiskAggregator, TLAPS

-----------------------------------------------------------------------------
(* Arithmetic of days *)

LEMMA DayNat == ASSUME NEW t \in Time PROVE Day(t) \in Nat
BY ConfigAssumption DEF Day, Time

LEMMA DayMonotone ==
  ASSUME NEW a \in Time, NEW b \in Time, a <= b
  PROVE  Day(a) <= Day(b)
BY ConfigAssumption DEF Day, Time

LEMMA TimeType ==
  Time \subseteq Int /\ Time \subseteq OptTime /\ None \in OptTime /\ OptTime \subseteq Int
BY ConfigAssumption DEF Time, OptTime, None

-----------------------------------------------------------------------------
(* Type correctness *)

LEMMA BlankTypes ==
  NoAccounting \in Accounting /\ NoProvenance \in Provenance /\ NoCycle \in Cycle
BY TimeType DEF NoAccounting, NoProvenance, NoCycle, Accounting, Provenance, Cycle, None

LEMMA BlankMemoryType ==
  BlankMemory =>
    /\ acct' \in Accounting /\ prov' \in Provenance /\ gen' \in Int
    /\ saveAllowed' \in BOOLEAN /\ failClosed' \in BOOLEAN /\ failures' \in Nat
    /\ cyc' \in Cycle
<1> SUFFICES ASSUME BlankMemory
             PROVE  /\ acct' \in Accounting /\ prov' \in Provenance /\ gen' \in Int
                    /\ saveAllowed' \in BOOLEAN /\ failClosed' \in BOOLEAN
                    /\ failures' \in Nat /\ cyc' \in Cycle
  OBVIOUS
<1>1. acct' \in Accounting /\ prov' \in Provenance /\ cyc' \in Cycle
  BY BlankTypes DEF BlankMemory
<1>2. saveAllowed' \in BOOLEAN /\ failClosed' \in BOOLEAN
  BY Zenon DEF BlankMemory
<1>3. gen' \in Int /\ failures' \in Nat
  BY DEF BlankMemory, None
<1>4. QED
  BY <1>1, <1>2, <1>3

LEMMA InitType == Init => TypeOK
<1> SUFFICES ASSUME Init PROVE TypeOK
  OBVIOUS
<1> USE TimeType, BlankTypes, ConfigAssumption
<1>1. ckpt \in Checkpoint
  <2>1. NoCheckpoint \in Checkpoint
    BY DEF NoCheckpoint, Checkpoint, None
  <2>2. ASSUME NEW s \in Snapshots, NEW capped \in BOOLEAN
        PROVE  LegacyCheckpoint(s.equity, capped) \in Checkpoint
    BY DEF LegacyCheckpoint, Checkpoint, Accounting, None
  <2>3. QED
    BY <2>1, <2>2, Zenon DEF Init
<1>2. pub \in Publication
  BY DEF Init, FailClosedState, Publication
<1>3. db \in Committed
  BY DEF Init, Committed
<1>4. closedAt \in [Trades -> OptTime] /\ now \in Time /\ faults \in 0..MaxFaults
  BY DEF Init, Time
<1>5. QED
  <2>1. /\ ledgerFile \in {"absent", "version0", "ready"}
        /\ then \in {"loop", "stopped", "refused"}
        /\ pc \in {"down", "load_new", "load_old", "loop", "fetch", "ingest", "apply",
                  "save", "publish", "stopped", "refused"}
        /\ gen \in Int /\ failures \in Nat
    BY DEF Init, None
  <2>2. saveAllowed \in BOOLEAN /\ failClosed \in BOOLEAN
    BY Zenon DEF Init
  <2>3. acct \in Accounting /\ prov \in Provenance /\ cyc \in Cycle
    BY DEF Init
  <2>4. QED
    BY <1>1, <1>2, <1>3, <1>4, <2>1, <2>2, <2>3, Zenon DEF TypeOK

LEMMA FaultType == TypeOK /\ (Fault \/ NoFault) => faults' \in 0..MaxFaults
BY ConfigAssumption DEF TypeOK, Fault, NoFault

LEMMA FailureType ==
  ASSUME TypeOK, NEW forced \in BOOLEAN, RecordFailure(forced)
  PROVE  failures' \in Nat /\ failClosed' \in BOOLEAN
BY DEF TypeOK, RecordFailure

LEMMA InvalidateType ==
  TypeOK /\ Invalidate =>
    prov' \in Provenance /\ saveAllowed' \in BOOLEAN /\ failClosed' \in BOOLEAN
BY BlankTypes DEF Invalidate

\* What NewAccounting needs to be well typed is what the fetch left in cyc.
LEMMA NewAccountingType ==
  ASSUME TypeOK, cyc.start \in Time, cyc.snap \in Snapshots
  PROVE  NewAccounting \in Accounting
<1>1. Day(cyc.start) \in Int /\ cyc.snap.equity \in Int
  BY DayNat, ConfigAssumption
<1>2. acct.hwm \in Int /\ acct.sod \in Int
  BY DEF TypeOK, Accounting
<1>3. db.recs \in SUBSET Trades
  BY DEF TypeOK, Committed
<1> DEFINE realized == RealizedOn(db.recs, Day(cyc.start), EnforcementCut)
           unrealized == OpenAt(PositionCut(cyc.posAsOf, cyc.cut))
<1>4. /\ realized \in SUBSET Trades /\ unrealized \in SUBSET Trades
      /\ OnDay(db.recs, Day(cyc.start)) \ realized \in SUBSET Trades
  BY <1>3 DEF RealizedOn, OnDay, OpenAt
<1>5. HighWaterMark \in Int /\ StartOfDay \in Int
  BY <1>1, <1>2 DEF Larger, HighWaterMark, StartOfDay
<1>6. /\ Exceeds(SoftLoss, cyc.snap, realized, unrealized) \in BOOLEAN
      /\ Exceeds(HardLoss, cyc.snap, realized, unrealized) \in BOOLEAN
      /\ Stressed(cyc.snap) \in BOOLEAN
  BY ConfigAssumption DEF Exceeds, Stressed
<1> HIDE DEF realized, unrealized
<1>7. QED
  BY <1>1, <1>2, <1>4, <1>5, <1>6 DEF NewAccounting, Accounting, realized, unrealized

LEMMA StartupType ==
  TypeOK /\ (OpenLedger \/ OpenInterrupted \/ RestoreCheckpoint \/ StartFresh
             \/ RefuseRecovery) => TypeOK'
<1> SUFFICES ASSUME TypeOK,
                    OpenLedger \/ OpenInterrupted \/ RestoreCheckpoint \/ StartFresh
                      \/ RefuseRecovery
             PROVE  TypeOK'
  OBVIOUS
<1>1. faults' \in 0..MaxFaults
  BY FaultType DEF OpenLedger, OpenInterrupted, RestoreCheckpoint, StartFresh,
                   RefuseRecovery, world, NoFault
<1>2. /\ UNCHANGED <<now, closedAt, db, ckpt, pub, cyc>>
      /\ ledgerFile' \in {"absent", "version0", "ready"}
      /\ pc' \in {"down", "load_new", "load_old", "loop", "publish"}
      /\ then' \in {"loop", "stopped", "refused"}
  BY DEF OpenLedger, OpenInterrupted, RestoreCheckpoint, StartFresh, RefuseRecovery,
         world, files, memory, TypeOK
<1>3. acct' \in Accounting /\ gen' \in Int /\ failures' \in Nat
  BY DEF OpenLedger, OpenInterrupted, RestoreCheckpoint, StartFresh, RefuseRecovery,
         RestoredAccounting, memory, TypeOK, Checkpoint, None
<1>6. prov' \in Provenance
  <2>1. RestoredProvenance \in Provenance
    <3>1. (ckpt.prov.verified /\ Bound(ckpt)) \in BOOLEAN
      BY Zenon DEF Bound
    <3>2. QED
      BY <3>1 DEF RestoredProvenance, Provenance, TypeOK, Checkpoint
  <2>2. prov' \in {prov, RestoredProvenance, NoProvenance}
    BY DEF OpenLedger, OpenInterrupted, RestoreCheckpoint, StartFresh, RefuseRecovery,
           memory
  <2>3. QED
    BY <2>1, <2>2, BlankTypes DEF TypeOK
<1>4. saveAllowed' \in BOOLEAN /\ failClosed' \in BOOLEAN
  BY Zenon DEF OpenLedger, OpenInterrupted, RestoreCheckpoint, StartFresh,
               RefuseRecovery, memory, TypeOK, Bound
<1>5. QED
  BY <1>1, <1>2, <1>3, <1>4, <1>6, Zenon DEF TypeOK

\* The cycle's locals, and what validation and commit established about them.
CycleInv ==
  /\ pc \in {"fetch", "ingest", "apply"} => cyc.start \in Time /\ cyc.start <= now
  /\ pc \in {"ingest", "apply"} =>
       /\ cyc.snap \in Snapshots
       /\ cyc.posAsOf \in Time /\ cyc.asOf \in Time /\ cyc.asOf <= now
  /\ pc = "apply" =>
       /\ cyc.asOf = db.asOf /\ cyc.checked \in Time /\ gen < db.gen
       /\ IF cyc.cut = None THEN cyc.posAsOf <= cyc.asOf
                            ELSE cyc.cut <= cyc.posAsOf /\ cyc.cut = cyc.asOf

\* The steps of a cycle that end it without touching the ledger.
AbandonCycle ==
  RegistryFails \/ Shutdown \/ FetchFails
    \/ RejectObservation \/ IngestFails \/ ApplyFails

LEMMA AbandonType == TypeOK /\ AbandonCycle => TypeOK'
<1> SUFFICES ASSUME TypeOK, AbandonCycle PROVE TypeOK'
  OBVIOUS
<1>1. /\ UNCHANGED <<now, closedAt, files, acct, gen>>
      /\ pc' = "save" /\ then' \in {"loop", "stopped", "refused"}
  BY DEF AbandonCycle, RegistryFails, Shutdown, FetchFails,
         RejectObservation, IngestFails, ApplyFails, Finish, world, files
<1>2. faults' \in 0..MaxFaults
  BY FaultType DEF AbandonCycle, RegistryFails, Shutdown, FetchFails,
         RejectObservation, IngestFails, ApplyFails, world, NoFault
<1>3. failures' \in Nat
  BY DEF AbandonCycle, RegistryFails, Shutdown, FetchFails,
         RejectObservation, IngestFails, ApplyFails, RecordFailure, TypeOK
<1>4. failClosed' \in BOOLEAN /\ saveAllowed' \in BOOLEAN
  BY Zenon DEF AbandonCycle, RegistryFails, Shutdown, FetchFails,
         RejectObservation, IngestFails, ApplyFails, RecordFailure,
         Invalidate, TypeOK
<1>5. cyc' \in Cycle
  BY BlankTypes DEF AbandonCycle, RegistryFails, Shutdown, FetchFails,
         RejectObservation, IngestFails, ApplyFails, TypeOK
<1>6. prov' \in Provenance
  <2>1. prov' \in {prov, NoProvenance}
    BY DEF AbandonCycle, RegistryFails, Shutdown, FetchFails,
           RejectObservation, IngestFails, ApplyFails, Invalidate
  <2>2. QED
    BY <2>1, BlankTypes DEF TypeOK
<1>7. /\ UNCHANGED <<ledgerFile, db, ckpt, pub>>
      /\ pc' \in {"down", "load_new", "load_old", "loop", "fetch", "ingest", "apply",
                  "save", "publish", "stopped", "refused"}
  BY <1>1 DEF files
<1>8. QED
  BY <1>1, <1>2, <1>3, <1>4, <1>5, <1>6, <1>7, Zenon DEF TypeOK

LEMMA StartCycleType == TypeOK /\ StartCycle => TypeOK'
<1> SUFFICES ASSUME TypeOK, StartCycle PROVE TypeOK'
  OBVIOUS
<1>1. cyc' \in Cycle
  BY TimeType, BlankTypes DEF StartCycle, Cycle, TypeOK
<1>2. QED
  BY <1>1 DEF StartCycle, TypeOK, world, files, memory

LEMMA FetchType ==
  ASSUME TypeOK, CycleInv, NEW snap \in Snapshots, NEW posAsOf \in 0..now,
         NEW asOf \in 0..now, NEW cut \in (0..now) \cup {None},
         Fetch(snap, posAsOf, cut, asOf)
  PROVE  TypeOK'
<1>1. posAsOf \in OptTime /\ asOf \in OptTime /\ cut \in OptTime /\ None \in OptTime
  BY ConfigAssumption DEF TypeOK, Time, OptTime
<1>2. cyc' \in Cycle
  BY <1>1 DEF Fetch, Cycle, TypeOK
<1>3. faults' \in 0..MaxFaults
  BY FaultType DEF Fetch
<1>4. QED
  BY <1>2, <1>3 DEF Fetch, TypeOK, files, memory

LEMMA IngestType == TypeOK /\ CycleInv /\ Ingest => TypeOK'
<1> SUFFICES ASSUME TypeOK, CycleInv, Ingest PROVE TypeOK'
  OBVIOUS
<1>1. db' \in Committed
  BY TimeType DEF Ingest, CycleInv, Committed, TypeOK, ClosedBy
<1>2. cyc' \in Cycle
  BY TimeType DEF Ingest, Cycle, TypeOK
<1>3. QED
  BY <1>1, <1>2 DEF Ingest, TypeOK, world, memory

LEMMA ApplyType == TypeOK /\ CycleInv /\ Apply => TypeOK'
<1> SUFFICES ASSUME TypeOK, CycleInv, Apply PROVE TypeOK'
  OBVIOUS
<1>1. acct' \in Accounting
  BY NewAccountingType DEF Apply, CycleInv
<1>2. prov' \in Provenance /\ cyc' \in Cycle
  BY BlankTypes, TimeType DEF Apply, CycleInv, Provenance, TypeOK, Committed
<1>3. gen' \in Int /\ failures' \in Nat
  BY DEF Apply, TypeOK, Committed
<1>4. saveAllowed' \in BOOLEAN /\ failClosed' \in BOOLEAN
  BY Zenon DEF Apply
<1>5. /\ UNCHANGED <<now, closedAt, faults, ledgerFile, db, ckpt, pub>>
      /\ pc' = "save" /\ then' = "loop"
  BY DEF Apply, Finish, world, files
<1>6. /\ pc' \in {"down", "load_new", "load_old", "loop", "fetch", "ingest", "apply",
                  "save", "publish", "stopped", "refused"}
      /\ then' \in {"loop", "stopped", "refused"}
  BY <1>5
<1>7. QED
  BY <1>1, <1>2, <1>3, <1>4, <1>5, <1>6, Zenon DEF TypeOK

LEMMA SaveType == TypeOK /\ (Save \/ SaveFails) => TypeOK'
<1>1. ASSUME TypeOK, Save PROVE TypeOK'
  <2>1. ckpt' \in Checkpoint
    BY <1>1 DEF Save, Checkpoint, TypeOK, Committed
  <2>2. QED
    BY <1>1, <2>1 DEF Save, TypeOK, world, memory
<1>2. ASSUME TypeOK, SaveFails PROVE TypeOK'
  <2>1. prov' \in Provenance /\ saveAllowed' \in BOOLEAN /\ failClosed' \in BOOLEAN
    BY <1>2, InvalidateType DEF SaveFails
  <2>2. faults' \in 0..MaxFaults
    BY <1>2, FaultType DEF SaveFails
  <2>3. /\ UNCHANGED <<now, closedAt, ledgerFile, db, ckpt, pub, acct, gen, failures, then, cyc>>
        /\ pc' \in {"down", "load_new", "load_old", "loop", "fetch", "ingest", "apply",
                    "save", "publish", "stopped", "refused"}
    BY <1>2 DEF SaveFails, files
  <2>4. QED
    BY <1>2, <2>1, <2>2, <2>3, Zenon DEF TypeOK
<1>3. QED
  BY <1>1, <1>2

LEMMA PublishType == TypeOK /\ Publish => TypeOK'
<1> SUFFICES ASSUME TypeOK, Publish PROVE TypeOK'
  OBVIOUS
<1>1. Healthy \in BOOLEAN
  BY Zenon DEF Healthy
<1>2. pub' \in Publication
  BY <1>1, TimeType DEF Publish, Publication, TypeOK
<1>3. /\ acct' \in Accounting /\ prov' \in Provenance /\ gen' \in Int
      /\ saveAllowed' \in BOOLEAN /\ failClosed' \in BOOLEAN /\ failures' \in Nat
      /\ cyc' \in Cycle
  <2>1. CASE then = "loop"
    BY <2>1 DEF Publish, memory, TypeOK
  <2>2. CASE then # "loop"
    BY <2>2, BlankMemoryType DEF Publish
  <2>3. QED
    BY <2>1, <2>2
<1>4. /\ UNCHANGED <<now, closedAt, faults, ledgerFile, db, ckpt>>
      /\ pc' \in {"down", "load_new", "load_old", "loop", "fetch", "ingest", "apply",
                  "save", "publish", "stopped", "refused"}
      /\ then' \in {"loop", "stopped", "refused"}
  BY DEF Publish, TypeOK, world
<1>5. QED
  BY <1>2, <1>3, <1>4, Zenon DEF TypeOK

LEMMA EnvironmentType ==
  TypeOK /\ (StartupFails \/ Crash \/ \E closing \in SUBSET OpenAt(now) : Tick(closing))
    => TypeOK'
<1>1. ASSUME TypeOK, StartupFails PROVE TypeOK'
  <2>1. pub' \in Publication /\ faults' \in 0..MaxFaults
    BY <1>1, BlankTypes, TimeType, FaultType
       DEF StartupFails, FailClosedState, Publication, TypeOK
  <2>2. QED
    BY <1>1, <2>1 DEF StartupFails, TypeOK, memory
<1>2. ASSUME TypeOK, Crash PROVE TypeOK'
  <2>1. faults' \in 0..MaxFaults
    BY <1>2, FaultType DEF Crash
  <2>2. /\ UNCHANGED <<now, closedAt, ledgerFile, db, ckpt, pub>>
        /\ pc' \in {"down", "load_new", "load_old", "loop", "fetch", "ingest", "apply",
                    "save", "publish", "stopped", "refused"}
        /\ then' \in {"loop", "stopped", "refused"}
    BY <1>2 DEF Crash, files
  <2>3. QED
    BY <1>2, <2>1, <2>2, BlankMemoryType, Zenon DEF TypeOK, Crash
<1>3. ASSUME TypeOK, NEW closing \in SUBSET OpenAt(now), Tick(closing) PROVE TypeOK'
  <2>1. now' \in Time /\ now + 1 \in OptTime
    BY <1>3, ConfigAssumption DEF Tick, TypeOK, Time, OptTime
  <2>2. closedAt' \in [Trades -> OptTime]
    BY <1>3, <2>1 DEF Tick, TypeOK
  <2>3. QED
    BY <1>3, <2>1, <2>2 DEF Tick, TypeOK, files, memory
<1>4. QED
  BY <1>1, <1>2, <1>3

-----------------------------------------------------------------------------
(* What relates the files, the memory and the clock *)

\* The ledger holds closed trades only; nothing refers to a later generation.
LedgerInv ==
  /\ db.asOf <= now
  /\ \A t \in db.recs : closedAt[t] \in Time /\ closedAt[t] <= now
  /\ gen <= db.gen /\ ckpt.gen <= db.gen

\* Outside its run the process has no memory.
BlankInv ==
  pc \in {"down", "stopped", "refused", "load_new", "load_old"} =>
    acct = NoAccounting /\ prov = NoProvenance /\ gen = None

\* The process has decided what to resume from.
Loaded ==
  \/ pc \in {"loop", "fetch", "ingest", "apply", "save"}
  \/ pc = "publish" /\ then = "loop"

\* A state that may be saved is one that would load again.
MemoryInv ==
  Loaded /\ saveAllowed =>
    /\ SignalsAgree(acct)
    /\ prov.verified => acct.sod # None /\ acct.hwm # None
    /\ gen = None => acct = NoAccounting
    /\ gen = db.gen => Recomputes(acct, prov)

RecoveryInv ==
  TypeOK /\ CycleInv /\ LedgerInv /\ BlankInv /\ MemoryInv /\ OwnCheckpointLoads

\* Closing trades does not change what the ledger yields: its records are of
\* trades that had closed before.
LEMMA TickKeepsRealized ==
  ASSUME TypeOK, LedgerInv, NEW closing \in SUBSET OpenAt(now), Tick(closing)
  PROVE  /\ \A t \in db.recs : closedAt'[t] = closedAt[t]
         /\ \A d, c : RealizedOn(db.recs, d, c)' = RealizedOn(db.recs, d, c)
         /\ \A d : OnDay(db.recs, d)' = OnDay(db.recs, d)
<1>1. /\ closedAt' = [t \in Trades |-> IF t \in closing THEN now + 1 ELSE closedAt[t]]
      /\ db' = db /\ db.recs \subseteq Trades
  BY DEF Tick, files, TypeOK, Committed
<1>2. \A t \in db.recs : t \notin closing
  <2>1. \A t \in db.recs : closedAt[t] # None
    BY DEF LedgerInv, Time, None
  <2>2. QED
    BY <1>1, <2>1 DEF LedgerInv, OpenAt, ClosedBy, Closed
<1>3. \A t \in db.recs : closedAt'[t] = closedAt[t]
  BY <1>1, <1>2
<1>4. \A d : OnDay(db.recs, d)' = OnDay(db.recs, d)
  BY <1>1, <1>3 DEF OnDay
<1>5. \A d, c : RealizedOn(db.recs, d, c)' = RealizedOn(db.recs, d, c)
  BY <1>1, <1>3 DEF RealizedOn, OnDay, ClosedBy, Closed
<1>6. QED
  BY <1>3, <1>4, <1>5

LEMMA CycleInvStep ==
  TypeOK /\ LedgerInv /\ CycleInv /\ Next => CycleInv'
<1> SUFFICES ASSUME TypeOK, LedgerInv, CycleInv, Next PROVE CycleInv'
  OBVIOUS
<1>1. CASE StartCycle
  <2>1. pc' = "fetch" /\ cyc'.start = now /\ now' = now /\ now \in Time /\ now \in Int
    BY <1>1, TimeType DEF StartCycle, NoCycle, world, TypeOK
  <2>2. QED
    BY <2>1 DEF CycleInv
<1>2. ASSUME NEW snap \in Snapshots, NEW posAsOf \in 0..now, NEW asOf \in 0..now,
             NEW cut \in (0..now) \cup {None}, Fetch(snap, posAsOf, cut, asOf)
      PROVE  CycleInv'
  <2>1. now \in Time /\ 0..now \subseteq Time
    BY ConfigAssumption DEF TypeOK, Time
  <2>2. /\ cyc' = [start |-> cyc.start, checked |-> None, snap |-> snap,
                   posAsOf |-> posAsOf, cut |-> cut, asOf |-> asOf]
        /\ pc = "fetch" /\ pc' = "ingest" /\ now' = now
    BY <1>2 DEF Fetch
  <2>3. QED
    BY <2>1, <2>2 DEF CycleInv
<1>3. CASE Ingest
  <2>1. /\ cyc'.start = cyc.start /\ cyc'.snap = cyc.snap /\ cyc'.posAsOf = cyc.posAsOf
        /\ cyc'.asOf = cyc.asOf /\ cyc'.cut = cyc.cut /\ cyc'.checked = now
    BY <1>3 DEF Ingest, TypeOK, Cycle
  <2>2. /\ db'.asOf = cyc.asOf /\ db'.gen = db.gen + 1 /\ pc = "ingest" /\ pc' = "apply"
        /\ now' = now /\ gen' = gen
    BY <1>3 DEF Ingest, world, memory
  <2>3. IF cyc.cut = None THEN cyc.posAsOf <= cyc.asOf
                          ELSE cyc.cut <= cyc.posAsOf /\ cyc.cut = cyc.asOf
    BY <1>3 DEF Ingest, Validated, ValidCycle
  <2>4. QED
    BY <2>1, <2>2, <2>3 DEF CycleInv, LedgerInv, TypeOK, Committed
<1>4. CASE StartupFails
  BY <1>4 DEF StartupFails, CycleInv, memory
<1>5. ASSUME NEW closing \in SUBSET OpenAt(now), Tick(closing) PROVE CycleInv'
  <2>1. UNCHANGED <<cyc, pc, gen, db>> /\ now' = now + 1 /\ now \in Int
    BY <1>5, TimeType DEF Tick, memory, files, TypeOK
  <2>2. pc \in {"fetch", "ingest", "apply"} => cyc.start \in Int
    BY TimeType DEF CycleInv
  <2>3. pc \in {"ingest", "apply"} => cyc.asOf \in Int
    BY TimeType DEF CycleInv
  <2>4. QED
    BY <2>1, <2>2, <2>3 DEF CycleInv
<1>6. CASE pc' \notin {"fetch", "ingest", "apply"}
  BY <1>6 DEF CycleInv
<1>7. QED
  <2>1. CASE \/ OpenLedger \/ RestoreCheckpoint \/ StartFresh \/ RefuseRecovery
             \/ OpenInterrupted \/ Save \/ SaveFails \/ Publish \/ Crash \/ Apply
             \/ AbandonCycle
    <3>1. pc' \notin {"fetch", "ingest", "apply"}
      BY <2>1 DEF OpenLedger, RestoreCheckpoint, StartFresh, RefuseRecovery,
         OpenInterrupted, Save, SaveFails, Publish, Crash, Apply, AbandonCycle,
         RegistryFails, Shutdown, FetchFails,
         RejectObservation, IngestFails, ApplyFails, Finish, TypeOK
    <3>2. QED
      BY <3>1, <1>6
  <2>2. QED
    BY <1>1, <1>2, <1>3, <1>4, <1>5, <2>1 DEF Next, Step, Failure, AbandonCycle

LEMMA LedgerInvStep ==
  TypeOK /\ CycleInv /\ LedgerInv /\ BlankInv /\ Next => LedgerInv'
<1> SUFFICES ASSUME TypeOK, CycleInv, LedgerInv, BlankInv, Next PROVE LedgerInv'
  OBVIOUS
<1>1. CASE Ingest
  <2>1. /\ db'.recs = db.recs \cup ClosedBy(cyc.asOf) /\ db'.asOf = cyc.asOf
        /\ db'.gen = db.gen + 1 /\ pc = "ingest"
        /\ UNCHANGED <<now, closedAt, gen, ckpt>>
    BY <1>1 DEF Ingest, world, memory
  <2>2. \A t \in ClosedBy(cyc.asOf) : closedAt[t] \in Time /\ closedAt[t] <= now
    <3>1. cyc.asOf \in Int /\ cyc.asOf <= now /\ now \in Int
      BY <2>1, TimeType DEF CycleInv, TypeOK
    <3>2. QED
      BY <3>1, TimeType DEF ClosedBy, Closed, TypeOK, OptTime, Time
  <2>3. QED
    BY <2>1, <2>2 DEF LedgerInv, CycleInv, TypeOK, Committed, Checkpoint
<1>2. ASSUME NEW closing \in SUBSET OpenAt(now), Tick(closing) PROVE LedgerInv'
  <2>1. \A t \in db.recs : closedAt'[t] = closedAt[t]
    BY <1>2, TickKeepsRealized
  <2>2. UNCHANGED <<db, gen, ckpt>> /\ now' = now + 1 /\ now \in Int /\ db.asOf \in Int
    BY <1>2, TimeType DEF Tick, memory, files, TypeOK, Committed
  <2>3. \A t \in db.recs : closedAt[t] \in Int
    BY TimeType DEF LedgerInv
  <2>4. QED
    BY <2>1, <2>2, <2>3 DEF LedgerInv
<1>3. CASE Apply
  BY <1>3 DEF Apply, LedgerInv, world, files, TypeOK, Committed
<1>4. CASE Save
  BY <1>4 DEF Save, LedgerInv, world, memory, TypeOK, Committed
<1>5. CASE RestoreCheckpoint
  BY <1>5 DEF RestoreCheckpoint, LedgerInv, world, files, TypeOK, Committed, None
<1>6. CASE Publish \/ Crash
  BY <1>6 DEF Publish, Crash, BlankMemory, LedgerInv, world, files, memory, TypeOK,
              Committed, None
<1>7. CASE UNCHANGED <<now, closedAt, db, ckpt, gen>>
  BY <1>7 DEF LedgerInv
<1>8. CASE \/ OpenLedger \/ StartFresh \/ RefuseRecovery \/ OpenInterrupted \/ SaveFails
           \/ AbandonCycle \/ StartCycle \/ StartupFails
           \/ \E snap \in Snapshots, posAsOf, asOf \in 0..now, cut \in (0..now) \cup {None} :
                 Fetch(snap, posAsOf, cut, asOf)
  <2>1. UNCHANGED <<now, closedAt, db, ckpt, gen>>
    BY <1>8 DEF OpenLedger, StartFresh, RefuseRecovery, OpenInterrupted, SaveFails,
       AbandonCycle, StartCycle, StartupFails, Fetch, RegistryFails, Shutdown,
       FetchFails, RejectObservation, IngestFails,
       ApplyFails, world, files, memory
  <2>2. QED
    BY <2>1, <1>7
<1>9. QED
  BY <1>1, <1>2, <1>3, <1>4, <1>5, <1>6, <1>8 DEF Next, Step, Failure, AbandonCycle

LEMMA BlankInvStep == TypeOK /\ BlankInv /\ Next => BlankInv'
<1> SUFFICES ASSUME TypeOK, BlankInv, Next PROVE BlankInv'
  OBVIOUS
<1>1. CASE OpenLedger \/ OpenInterrupted \/ StartupFails
            \/ \E closing \in SUBSET OpenAt(now) : Tick(closing)
  <2>1. UNCHANGED <<acct, prov, gen>>
    BY <1>1 DEF OpenLedger, OpenInterrupted, StartupFails, Tick, memory
  <2>2. pc' \in {"down", "stopped", "refused", "load_new", "load_old"}
          => pc \in {"down", "stopped", "refused", "load_new", "load_old"}
    BY <1>1 DEF OpenLedger, OpenInterrupted, StartupFails, Tick, Exited
  <2>3. QED
    BY <2>1, <2>2 DEF BlankInv
<1>2. CASE Publish
  <2>1. CASE then = "loop"
    BY <1>2, <2>1 DEF Publish, BlankInv
  <2>2. CASE then # "loop"
    BY <1>2, <2>2 DEF Publish, BlankMemory, BlankInv
  <2>3. QED
    BY <2>1, <2>2
<1>3. CASE Crash
  BY <1>3 DEF Crash, BlankMemory, BlankInv
<1>4. CASE \/ RestoreCheckpoint \/ StartFresh \/ RefuseRecovery \/ StartCycle \/ Ingest
           \/ Apply \/ Save \/ SaveFails \/ AbandonCycle
           \/ \E snap \in Snapshots, posAsOf, asOf \in 0..now, cut \in (0..now) \cup {None} :
                 Fetch(snap, posAsOf, cut, asOf)
  <2>1. pc' \notin {"down", "stopped", "refused", "load_new", "load_old"}
    BY <1>4 DEF RestoreCheckpoint, StartFresh, RefuseRecovery, StartCycle, Ingest, Apply,
       Save, SaveFails, Fetch, AbandonCycle, RegistryFails, Shutdown, FetchFails,
              RejectObservation, IngestFails, ApplyFails, Finish
  <2>2. QED
    BY <2>1 DEF BlankInv
<1>5. QED
  BY <1>1, <1>2, <1>3, <1>4 DEF Next, Step, Failure, AbandonCycle

\* A successful reconciliation stages a state that load_checkpoint would accept:
\* the cut it used is the one a restart computes from the two timestamps alone.
LEMMA ApplyRecomputes ==
  ASSUME TypeOK, CycleInv, Apply
  PROVE  /\ SignalsAgree(acct') /\ acct'.sod # None /\ acct'.hwm # None
         /\ Recomputes(acct', prov')
         /\ gen' = db.gen /\ db' = db /\ closedAt' = closedAt
<1>1. /\ acct' = NewAccounting /\ pc = "apply"
      /\ prov' = [lastSuccess |-> cyc.checked, posAsOf |-> cyc.posAsOf,
                  ledgerAsOf |-> db.asOf, verified |-> TRUE]
      /\ gen' = db.gen /\ db' = db /\ closedAt' = closedAt
  BY DEF Apply, world, files
<1>2. /\ cyc.snap \in Snapshots /\ cyc.snap.equity \in Nat \ {0}
      /\ cyc.posAsOf \in Time /\ cyc.asOf \in Time /\ cyc.asOf = db.asOf
      /\ cyc.posAsOf \in Int /\ cyc.asOf \in Int
  BY <1>1, ConfigAssumption, TimeType DEF CycleInv
<1>3. acct.hwm \in Int /\ acct.sod \in Int
  BY DEF TypeOK, Accounting
<1>4. EnforcementCut = Smaller(cyc.posAsOf, cyc.asOf)
  BY <1>1, <1>2 DEF EnforcementCut, PositionCut, Smaller, CycleInv
<1>5. SignalsAgree(acct')
  BY <1>1 DEF NewAccounting, SignalsAgree
<1>6. acct'.sod # None /\ acct'.hwm # None
  <2>1. acct'.sod = StartOfDay /\ acct'.hwm = HighWaterMark
    BY <1>1 DEF NewAccounting
  <2>2. QED
    BY <2>1, <1>2, <1>3 DEF StartOfDay, HighWaterMark, Larger, None
<1>7. Recomputes(acct', prov')
  <2>1. /\ acct'.realized = RealizedOn(db.recs, acct'.day, EnforcementCut)
        /\ acct'.pending = OnDay(db.recs, acct'.day) \ acct'.realized
    BY <1>1 DEF NewAccounting
  <2>2. /\ prov'.posAsOf = cyc.posAsOf /\ prov'.ledgerAsOf = cyc.asOf
        /\ prov'.ledgerAsOf = db.asOf
        /\ prov'.posAsOf # None /\ prov'.ledgerAsOf # None
    BY <1>1, <1>2 DEF Time, None
  <2>3. QED
    BY <2>1, <2>2, <1>4 DEF Recomputes
<1>8. QED
  BY <1>1, <1>5, <1>6, <1>7

\* Whether amounts recompute depends on the ledger and on two timestamps only.
LEMMA RecomputesStable ==
  ASSUME UNCHANGED <<db, closedAt>>,
         acct' = acct, prov'.posAsOf = prov.posAsOf, prov'.ledgerAsOf = prov.ledgerAsOf
  PROVE  Recomputes(acct, prov) => Recomputes(acct, prov)'
BY DEF Recomputes, RealizedOn, OnDay, ClosedBy, Closed

LEMMA MemoryInvStep == RecoveryInv /\ Next => MemoryInv'
<1> SUFFICES ASSUME RecoveryInv, Next PROVE MemoryInv'
  OBVIOUS
<1> USE DEF RecoveryInv
\* The steps of a loaded process that keep what it would save.
<1>1. ASSUME UNCHANGED <<db, closedAt, acct, gen>>, Loaded, saveAllowed' => saveAllowed,
             saveAllowed' => prov' = prov
      PROVE  MemoryInv'
  <2>1. SUFFICES ASSUME saveAllowed' PROVE MemoryInv'
    BY DEF MemoryInv
  <2>2. /\ prov'.posAsOf = prov.posAsOf /\ prov'.ledgerAsOf = prov.ledgerAsOf
        /\ prov'.verified = prov.verified
    BY <1>1, <2>1 DEF TypeOK, Provenance
  <2>3. Recomputes(acct, prov) => Recomputes(acct, prov)'
    BY <1>1, <2>2, RecomputesStable
  <2>4. QED
    BY <1>1, <2>1, <2>2, <2>3 DEF MemoryInv
<1>2. CASE StartFresh
  <2>1. /\ acct' = NoAccounting /\ prov' = NoProvenance /\ gen' = None
        /\ db' = db /\ db.gen \in Nat
    BY <1>2 DEF StartFresh, BlankInv, memory, files, TypeOK, Committed
  <2>2. SignalsAgree(NoAccounting)
    BY DEF SignalsAgree, NoAccounting, Exceeds, Stressed
  <2>3. QED
    BY <2>1, <2>2 DEF MemoryInv, NoProvenance, None
<1>3. CASE RestoreCheckpoint
  <2>1. CASE saveAllowed' /\ ~ckpt.legacy
    <3>1. /\ CheckpointConsistent(ckpt) /\ Bound(ckpt)
          /\ acct' = ckpt.acct /\ prov' = RestoredProvenance /\ gen' = ckpt.gen
          /\ UNCHANGED <<db, closedAt, ckpt>>
      BY <1>3, <2>1 DEF RestoreCheckpoint, RestoredAccounting, world, files
    <3>2. /\ prov'.posAsOf = ckpt.prov.posAsOf /\ prov'.ledgerAsOf = ckpt.prov.ledgerAsOf
          /\ prov'.verified => ckpt.prov.verified
      BY <3>1 DEF RestoredProvenance
    <3>3. Recomputes(acct, prov)'
      BY <3>1, <3>2 DEF CheckpointConsistent, Recomputes, RealizedOn, OnDay, ClosedBy, Closed
    <3>4. gen' # None
      BY <3>1 DEF Bound, TypeOK, Committed, None
    <3>5. QED
      BY <3>1, <3>2, <3>3, <3>4 DEF MemoryInv, CheckpointConsistent
  <2>2. CASE ckpt.legacy
    BY <1>3, <2>2 DEF RestoreCheckpoint, MemoryInv
  <2>3. QED
    BY <2>1, <2>2 DEF MemoryInv
<1>4. CASE Ingest
  <2>1. /\ UNCHANGED <<acct, prov, gen, saveAllowed>> /\ db'.gen = db.gen + 1
        /\ gen \in Int /\ db.gen \in Int /\ gen <= db.gen /\ Loaded
    BY <1>4 DEF Ingest, memory, LedgerInv, TypeOK, Committed, Loaded
  <2>2. gen' # db'.gen
    BY <2>1
  <2>3. QED
    BY <2>1, <2>2 DEF MemoryInv
<1>5. CASE Apply
  <2>1. /\ SignalsAgree(acct') /\ acct'.sod # None /\ acct'.hwm # None
        /\ Recomputes(acct', prov')
        /\ gen' = db.gen /\ db' = db /\ closedAt' = closedAt
    BY <1>5, ApplyRecomputes
  <2>2. gen' # None
    BY <2>1 DEF TypeOK, Committed, None
  <2>3. Recomputes(acct, prov)'
    BY <2>1 DEF Recomputes, RealizedOn, OnDay, ClosedBy, Closed
  <2>4. QED
    BY <2>1, <2>2, <2>3 DEF MemoryInv
<1>6. CASE AbandonCycle
  <2>1. Loaded /\ UNCHANGED <<db, closedAt, acct, gen>>
    BY <1>6 DEF AbandonCycle, RegistryFails, Shutdown, FetchFails,
           RejectObservation, IngestFails, ApplyFails, world, files, Loaded
  <2>2. /\ saveAllowed' => saveAllowed
        /\ saveAllowed' => prov' = prov
    <3>1. CASE RegistryFails \/ Shutdown \/ FetchFails \/ RejectObservation
      <4>1. saveAllowed' = saveAllowed /\ prov' = prov
        BY <3>1 DEF RegistryFails, Shutdown, FetchFails, RejectObservation
      <4>2. QED
        BY <4>1
    <3>2. CASE IngestFails \/ ApplyFails
      BY <3>2 DEF IngestFails, ApplyFails, Invalidate
    <3>3. QED
      BY <1>6, <3>1, <3>2 DEF AbandonCycle
  <2>3. QED
    BY <1>1, <2>1, <2>2
<1>7. CASE \/ StartCycle \/ Save
           \/ \E snap \in Snapshots, posAsOf, asOf \in 0..now, cut \in (0..now) \cup {None} :
                 Fetch(snap, posAsOf, cut, asOf)
  <2>1. Loaded /\ UNCHANGED <<db, closedAt, acct, prov, gen, saveAllowed>>
    BY <1>7 DEF StartCycle, Save, Fetch, world, files, memory, Loaded
  <2>2. QED
    BY <1>1, <2>1
<1>8. CASE SaveFails
  BY <1>8 DEF SaveFails, Invalidate, MemoryInv
<1>9. CASE Publish
  <2>1. CASE then = "loop"
    <3>1. Loaded /\ UNCHANGED <<db, closedAt, acct, prov, gen, saveAllowed>>
      BY <1>9, <2>1 DEF Publish, world, memory, Loaded
    <3>2. QED
      BY <1>1, <3>1
  <2>2. CASE then # "loop"
    BY <1>9, <2>2 DEF Publish, MemoryInv, Loaded, TypeOK
  <2>3. QED
    BY <2>1, <2>2
<1>10. CASE OpenLedger \/ OpenInterrupted \/ RefuseRecovery \/ Crash
  BY <1>10 DEF OpenLedger, OpenInterrupted, RefuseRecovery, Crash, MemoryInv, Loaded
<1>11. CASE StartupFails
  <2>1. UNCHANGED <<db, closedAt, acct, prov, gen, saveAllowed, pc, then>>
    BY <1>11 DEF StartupFails, memory
  <2>2. CASE Loaded
    BY <1>1, <2>1, <2>2
  <2>3. CASE ~Loaded
    BY <2>1, <2>3 DEF MemoryInv, Loaded
  <2>4. QED
    BY <2>2, <2>3
<1>12. ASSUME NEW closing \in SUBSET OpenAt(now), Tick(closing) PROVE MemoryInv'
  <2>1. UNCHANGED <<db, acct, prov, gen, saveAllowed, pc, then>>
    BY <1>12 DEF Tick, files, memory
  <2>2. /\ \A d, c : RealizedOn(db.recs, d, c)' = RealizedOn(db.recs, d, c)
        /\ \A d : OnDay(db.recs, d)' = OnDay(db.recs, d)
    BY <1>12, TickKeepsRealized
  <2>3. Recomputes(acct, prov)' = Recomputes(acct, prov)
    BY <2>1, <2>2 DEF Recomputes
  <2>4. QED
    BY <2>1, <2>3 DEF MemoryInv, Loaded
<1>13. QED
  BY <1>2, <1>3, <1>4, <1>5, <1>6, <1>7, <1>8, <1>9, <1>10, <1>11, <1>12
     DEF Next, Step, Failure, AbandonCycle

\* The checkpoint stays loadable: a save writes what MemoryInv promises, a
\* commit only makes it one of an earlier generation.
LEMMA OwnCheckpointLoadsStep == RecoveryInv /\ Next => OwnCheckpointLoads'
<1> SUFFICES ASSUME RecoveryInv, Next PROVE OwnCheckpointLoads'
  OBVIOUS
<1> USE DEF RecoveryInv
<1>1. CASE UNCHANGED <<db, closedAt, ckpt>>
  BY <1>1 DEF OwnCheckpointLoads, CheckpointConsistent, Bound, Recomputes, RealizedOn,
              OnDay, ClosedBy, Closed
<1>2. CASE Save
  <2>1. /\ ckpt' = [present |-> TRUE, legacy |-> FALSE, acct |-> acct, prov |-> prov,
                    gen |-> db.gen, failClosed |-> failClosed, failures |-> failures]
        /\ Loaded /\ saveAllowed /\ BindingHolds /\ UNCHANGED <<db, closedAt>>
        /\ db.gen \in Int
    BY <1>2 DEF Save, world, Loaded, TypeOK, Committed
  <2>2. SUFFICES ASSUME acct.day # None
                 PROVE  ckpt'.gen <= db'.gen /\ CheckpointConsistent(ckpt)'
    BY <2>1 DEF OwnCheckpointLoads
  <2>3. /\ SignalsAgree(acct) /\ (prov.verified => acct.sod # None /\ acct.hwm # None)
        /\ Recomputes(acct, prov)
    BY <2>1, <2>2 DEF MemoryInv, BindingHolds, NoAccounting
  <2>4. Recomputes(ckpt.acct, ckpt.prov)'
    BY <2>1, <2>3 DEF Recomputes, RealizedOn, OnDay, ClosedBy, Closed
  <2>5. QED
    BY <2>1, <2>2, <2>3, <2>4 DEF CheckpointConsistent
<1>3. CASE Ingest
  <2>1. /\ db'.gen = db.gen + 1 /\ ckpt' = ckpt /\ closedAt' = closedAt
        /\ db.gen \in Int /\ ckpt.gen \in Int /\ ckpt.gen <= db.gen
    BY <1>3 DEF Ingest, world, LedgerInv, TypeOK, Committed, Checkpoint
  <2>2. ckpt'.gen < db'.gen
    BY <2>1
  <2>3. QED
    BY <2>1, <2>2 DEF OwnCheckpointLoads, CheckpointConsistent, Bound
<1>4. ASSUME NEW closing \in SUBSET OpenAt(now), Tick(closing) PROVE OwnCheckpointLoads'
  <2>1. UNCHANGED <<db, ckpt>>
    BY <1>4 DEF Tick, files
  <2>2. /\ \A d, c : RealizedOn(db.recs, d, c)' = RealizedOn(db.recs, d, c)
        /\ \A d : OnDay(db.recs, d)' = OnDay(db.recs, d)
    BY <1>4, TickKeepsRealized
  <2>3. Recomputes(ckpt.acct, ckpt.prov)' = Recomputes(ckpt.acct, ckpt.prov)
    BY <2>1, <2>2 DEF Recomputes
  <2>4. QED
    BY <2>1, <2>3 DEF OwnCheckpointLoads, CheckpointConsistent, Bound
<1>5. CASE \/ OpenLedger \/ RestoreCheckpoint \/ StartFresh \/ RefuseRecovery
           \/ OpenInterrupted \/ SaveFails \/ AbandonCycle \/ StartCycle \/ StartupFails
           \/ Apply \/ Publish \/ Crash
           \/ \E snap \in Snapshots, posAsOf, asOf \in 0..now, cut \in (0..now) \cup {None} :
                 Fetch(snap, posAsOf, cut, asOf)
  <2>1. UNCHANGED <<db, closedAt, ckpt>>
    BY <1>5 DEF OpenLedger, RestoreCheckpoint, StartFresh, RefuseRecovery,
       OpenInterrupted, SaveFails, AbandonCycle, StartCycle, StartupFails, Apply,
       Publish, Crash, Fetch, RegistryFails, Shutdown, FetchFails,
              RejectObservation, IngestFails, ApplyFails, world, files
  <2>2. QED
    BY <2>1, <1>1
<1>6. QED
  BY <1>2, <1>3, <1>4, <1>5 DEF Next, Step, Failure, AbandonCycle

LEMMA TypeOKStep == TypeOK /\ CycleInv /\ Next => TypeOK'
<1> SUFFICES ASSUME TypeOK, CycleInv, Next PROVE TypeOK'
  OBVIOUS
<1>1. CASE OpenLedger \/ OpenInterrupted \/ RestoreCheckpoint \/ StartFresh \/ RefuseRecovery
  BY <1>1, StartupType
<1>2. CASE AbandonCycle
  BY <1>2, AbandonType
<1>3. ASSUME NEW snap \in Snapshots, NEW posAsOf \in 0..now, NEW asOf \in 0..now,
             NEW cut \in (0..now) \cup {None}, Fetch(snap, posAsOf, cut, asOf)
      PROVE  TypeOK'
  BY <1>3, FetchType
<1>4. CASE StartCycle \/ Ingest \/ Apply \/ Save \/ SaveFails \/ Publish
  BY <1>4, StartCycleType, IngestType, ApplyType, SaveType, PublishType
<1>5. CASE StartupFails \/ Crash \/ \E closing \in SUBSET OpenAt(now) : Tick(closing)
  BY <1>5, EnvironmentType
<1>6. QED
  BY <1>1, <1>2, <1>3, <1>4, <1>5 DEF Next, Step, Failure, AbandonCycle

LEMMA RecoveryInit == Init => RecoveryInv
<1> SUFFICES ASSUME Init PROVE RecoveryInv
  OBVIOUS
<1>1. TypeOK
  BY InitType
<1>2. CycleInv /\ BlankInv /\ MemoryInv
  BY DEF Init, CycleInv, BlankInv, MemoryInv, Loaded
<1>3. ckpt.gen = None
  BY DEF Init, NoCheckpoint, LegacyCheckpoint
<1>4. LedgerInv
  BY <1>3 DEF Init, LedgerInv, None
<1>5. OwnCheckpointLoads
  BY DEF Init, NoCheckpoint, LegacyCheckpoint, OwnCheckpointLoads
<1>6. QED
  BY <1>1, <1>2, <1>4, <1>5 DEF RecoveryInv

LEMMA RecoveryStep == RecoveryInv /\ [Next]_vars => RecoveryInv'
<1>1. ASSUME RecoveryInv, Next PROVE RecoveryInv'
  BY <1>1, TypeOKStep, CycleInvStep, LedgerInvStep, BlankInvStep, MemoryInvStep,
     OwnCheckpointLoadsStep DEF RecoveryInv
<1>2. ASSUME RecoveryInv, UNCHANGED vars PROVE RecoveryInv'
  <2>1. UNCHANGED <<now, closedAt, faults, ledgerFile, db, ckpt, pub, pc, then, acct,
                    prov, gen, saveAllowed, failClosed, failures, cyc>>
    BY <1>2 DEF vars, world, files, memory
  <2>2. TypeOK'
    BY <1>2, <2>1 DEF RecoveryInv, TypeOK
  <2>3. CycleInv' /\ LedgerInv' /\ BlankInv'
    BY <1>2, <2>1 DEF RecoveryInv, CycleInv, LedgerInv, BlankInv
  <2>4. MemoryInv' /\ OwnCheckpointLoads'
    BY <1>2, <2>1 DEF RecoveryInv, MemoryInv, Loaded, OwnCheckpointLoads,
       CheckpointConsistent, Bound, Recomputes, RealizedOn, OnDay, ClosedBy, Closed
  <2>5. QED
    BY <2>2, <2>3, <2>4 DEF RecoveryInv
<1>3. QED
  BY <1>1, <1>2

THEOREM RecoveryInvariant == Spec => []RecoveryInv
BY RecoveryInit, RecoveryStep, PTL DEF Spec

\* Every reachable state is well typed.
THEOREM TypeCorrect == Spec => []TypeOK
<1>1. RecoveryInv => TypeOK
  BY DEF RecoveryInv
<1>2. QED
  BY <1>1, RecoveryInvariant, PTL

\* A checkpoint the aggregator wrote after a reconciliation passes
\* load_checkpoint in every later state of the ledger.
THEOREM OwnCheckpointAlwaysLoads == Spec => []OwnCheckpointLoads
<1>1. RecoveryInv => OwnCheckpointLoads
  BY DEF RecoveryInv
<1>2. QED
  BY <1>1, RecoveryInvariant, PTL

=============================================================================

-------------------------- MODULE RiskBaselineProofs --------------------------
(***************************************************************************)
(* For every set of trades, account snapshots, thresholds and bounds: the  *)
(* aggregator's durable baselines never regress, a restart never forgets   *)
(* what was published as trusted, a hard cap is withdrawn only by a newer  *)
(* reconciliation, and what is published as healthy is the checkpoint and  *)
(* counts every trade once.                                                *)
(***************************************************************************)
EXTENDS RiskAggregatorProofs

InCycle == pc \in {"fetch", "ingest", "apply"}

\* No day of the state, of the checkpoint or of a cycle is ahead of the clock,
\* and a cycle's day is never behind the one the amounts are of.
DayInv ==
  /\ acct.day <= Day(now) /\ ckpt.acct.day <= Day(now)
  /\ InCycle => acct.day <= Day(cyc.start)

\* The memory of a loaded process is never behind the checkpoint.
BaseInv ==
  Loaded /\ ckpt.present =>
    /\ acct.hwm >= ckpt.acct.hwm /\ acct.day >= ckpt.acct.day
    /\ acct.day = ckpt.acct.day /\ ckpt.acct.sod # None => acct.sod = ckpt.acct.sod

\* A state about to be published that is not fail-closed has just been saved.
SavedInv ==
  pc = "publish" /\ ~failClosed =>
    /\ ckpt.present /\ Bound(ckpt) /\ ~ckpt.failClosed
    /\ ckpt.acct = acct /\ ckpt.prov = prov
    /\ prov.verified => acct.sod # None

\* The checkpoint is never behind a healthy publication.
PubInv ==
  pub.healthy =>
    /\ ckpt.present /\ pub.acct.sod # None
    /\ ckpt.acct.hwm >= pub.acct.hwm /\ ckpt.acct.day >= pub.acct.day
    /\ ckpt.acct.day = pub.acct.day => ckpt.acct.sod = pub.acct.sod

\* A hard cap missing in memory but not on disk was withdrawn by a newer
\* generation of the ledger.
HardInv ==
  /\ pc = "apply" => ckpt.gen < db.gen
  /\ Loaded /\ ckpt.present /\ ckpt.acct.hard /\ ~acct.hard => gen > ckpt.gen

BaselineInv == DayInv /\ BaseInv /\ SavedInv /\ PubInv /\ HardInv

-----------------------------------------------------------------------------
(* The steps by what they leave alone *)

Keeps == OpenLedger \/ OpenInterrupted \/ RefuseRecovery \/ SaveFails \/ AbandonCycle

LEMMA KeepsFrame ==
  Keeps => /\ UNCHANGED <<now, db, ckpt, pub, acct, gen>>
           /\ ~InCycle' /\ (Loaded' => Loaded)
           /\ pc' = "publish" => failClosed'
<1> SUFFICES ASSUME Keeps
             PROVE  /\ UNCHANGED <<now, db, ckpt, pub, acct, gen>>
                    /\ ~InCycle' /\ (Loaded' => Loaded)
                    /\ pc' = "publish" => failClosed'
  OBVIOUS
<1>1. CASE OpenLedger
  <2>1. UNCHANGED <<now, db, ckpt, pub, acct, gen>>
    BY <1>1 DEF OpenLedger, memory, world
  <2>2. \/ pc' = "publish" /\ then' = "refused" /\ failClosed' = TRUE
        \/ pc' \in {"load_old", "load_new"}
    BY <1>1 DEF OpenLedger
  <2>3. QED
    BY <2>1, <2>2 DEF InCycle, Loaded
<1>2. CASE OpenInterrupted
  BY <1>2 DEF OpenInterrupted, memory, InCycle, Loaded
<1>3. CASE RefuseRecovery
  BY <1>3 DEF RefuseRecovery, files, InCycle, Loaded
<1>4. CASE SaveFails
  BY <1>4 DEF SaveFails, Invalidate, files, InCycle, Loaded
<1>5. CASE AbandonCycle
  BY <1>5 DEF AbandonCycle, RegistryFails, Shutdown, FetchFails,
         RejectObservation, IngestFails, ApplyFails, Finish, world, files,
     InCycle, Loaded
<1>6. QED
  BY <1>1, <1>2, <1>3, <1>4, <1>5 DEF Keeps

SomeFetch ==
  \E snap \in Snapshots, posAsOf, asOf \in 0..now, cut \in (0..now) \cup {None} :
    Fetch(snap, posAsOf, cut, asOf)

LEMMA CycleFrame ==
  StartCycle \/ SomeFetch \/ Ingest =>
    /\ UNCHANGED <<now, ckpt, pub, acct, gen>> /\ Loaded /\ InCycle'
BY DEF StartCycle, SomeFetch, Fetch, Ingest, world, files, memory, Loaded, InCycle

LEMMA PublishFrame ==
  TypeOK /\ Publish =>
    /\ UNCHANGED <<now, ckpt, db>> /\ ~InCycle' /\ pc' # "publish"
    /\ acct' = acct \/ acct' = NoAccounting
    /\ Loaded' => Loaded /\ acct' = acct /\ gen' = gen
<1> SUFFICES ASSUME TypeOK, Publish
             PROVE  /\ UNCHANGED <<now, ckpt, db>> /\ ~InCycle' /\ pc' # "publish"
                    /\ acct' = acct \/ acct' = NoAccounting
                    /\ Loaded' => Loaded /\ acct' = acct /\ gen' = gen
  OBVIOUS
<1>1. UNCHANGED <<now, ckpt, db>> /\ pc = "publish" /\ pc' = then /\ then' = "loop"
  BY DEF Publish, world
<1>2. CASE then = "loop"
  BY <1>1, <1>2 DEF Publish, memory, InCycle, Loaded
<1>3. CASE then # "loop"
  BY <1>1, <1>3 DEF Publish, BlankMemory, InCycle, Loaded, TypeOK
<1>4. QED
  BY <1>2, <1>3

LEMMA NextCases ==
  Next => \/ Keeps \/ StartFresh \/ RestoreCheckpoint
          \/ StartCycle \/ SomeFetch \/ Ingest \/ Apply \/ Save \/ Publish
          \/ StartupFails \/ Crash
          \/ \E closing \in SUBSET OpenAt(now) : Tick(closing)
BY DEF Next, Step, Failure, Keeps, AbandonCycle, SomeFetch

\* The types of everything the baselines are compared with.
LEMMA BaselineTypes ==
  TypeOK => /\ acct.day \in Int /\ acct.hwm \in Int /\ acct.sod \in Int
            /\ ckpt.acct.day \in Int /\ ckpt.acct.hwm \in Int /\ ckpt.acct.sod \in Int
            /\ pub.acct.day \in Int /\ pub.acct.hwm \in Int /\ pub.acct.sod \in Int
            /\ gen \in Int /\ ckpt.gen \in Int /\ db.gen \in Nat
            /\ now \in Time /\ now \in Int /\ Day(now) \in Nat
BY TimeType, DayNat DEF TypeOK, Accounting, Checkpoint, Publication, Committed

-----------------------------------------------------------------------------
(* Each part is preserved *)

LEMMA DayInvStep == RecoveryInv /\ DayInv /\ Next => DayInv'
<1> SUFFICES ASSUME RecoveryInv, DayInv, Next PROVE DayInv'
  OBVIOUS
<1> USE DEF RecoveryInv
<1>1. CASE Keeps \/ StartFresh
  <2>1. UNCHANGED <<now, ckpt, acct>> /\ ~InCycle'
    BY <1>1, KeepsFrame DEF StartFresh, world, files, memory, InCycle
  <2>2. QED
    BY <2>1 DEF DayInv
<1>2. CASE RestoreCheckpoint
  BY <1>2 DEF RestoreCheckpoint, RestoredAccounting, world, files, DayInv, InCycle
<1>3. CASE StartCycle \/ SomeFetch \/ Ingest
  <2>1. UNCHANGED <<now, ckpt, acct>>
    BY <1>3, CycleFrame
  <2>2. acct.day <= Day(cyc'.start)
    <3>1. CASE StartCycle
      BY <3>1 DEF StartCycle, NoCycle, DayInv
    <3>2. CASE SomeFetch \/ Ingest
      <4>1. cyc'.start = cyc.start /\ InCycle
        BY <3>2 DEF SomeFetch, Fetch, Ingest, InCycle, TypeOK, Cycle
      <4>2. QED
        BY <4>1 DEF DayInv
    <3>3. QED
      BY <1>3, <3>1, <3>2
  <2>3. QED
    BY <2>1, <2>2 DEF DayInv
<1>4. CASE Apply
  <2>1. /\ acct'.day = Day(cyc.start) /\ pc = "apply" /\ ~InCycle'
        /\ UNCHANGED <<now, ckpt>>
    BY <1>4 DEF Apply, NewAccounting, Finish, world, files, InCycle
  <2>2. Day(cyc.start) <= Day(now)
    BY <2>1, DayMonotone DEF CycleInv, TypeOK
  <2>3. QED
    BY <2>1, <2>2 DEF DayInv
<1>5. CASE Save
  BY <1>5 DEF Save, world, memory, DayInv, InCycle
<1>6. CASE Publish \/ Crash
  <2>1. UNCHANGED <<now, ckpt>> /\ ~InCycle' /\ (acct' = acct \/ acct' = NoAccounting)
    BY <1>6, PublishFrame DEF Crash, BlankMemory, files, InCycle
  <2>2. QED
    BY <2>1, BaselineTypes DEF DayInv, NoAccounting, None
<1>7. CASE StartupFails
  BY <1>7 DEF StartupFails, memory, DayInv, InCycle
<1>8. ASSUME NEW closing \in SUBSET OpenAt(now), Tick(closing) PROVE DayInv'
  <2>1. /\ now' = now + 1 /\ now' \in Time
        /\ UNCHANGED <<acct, ckpt, pc, cyc>>
    BY <1>8, ConfigAssumption DEF Tick, files, memory, TypeOK, Time
  <2>2. Day(now) <= Day(now') /\ Day(now') \in Nat
    BY <2>1, BaselineTypes, DayMonotone, DayNat
  <2>3. QED
    BY <2>1, <2>2, BaselineTypes DEF DayInv, InCycle
<1>9. QED
  BY <1>1, <1>2, <1>3, <1>4, <1>5, <1>6, <1>7, <1>8, NextCases

\* Midnight and a late cycle are what could break this: a new day resets the
\* start-of-day equity, so the day may not move back to the checkpoint's.
LEMMA BaseInvStep == RecoveryInv /\ DayInv /\ BaseInv /\ Next => BaseInv'
<1> SUFFICES ASSUME RecoveryInv, DayInv, BaseInv, Next PROVE BaseInv'
  OBVIOUS
<1> USE DEF RecoveryInv
<1>1. CASE UNCHANGED <<acct, ckpt>> /\ (Loaded' => Loaded)
  BY <1>1 DEF BaseInv
<1>2. CASE Keeps \/ StartCycle \/ SomeFetch \/ Ingest
  BY <1>1, <1>2, KeepsFrame, CycleFrame
<1>3. CASE StartFresh
  BY <1>3 DEF StartFresh, files, BaseInv
<1>4. CASE RestoreCheckpoint
  <2>1. acct' = ckpt.acct /\ ckpt' = ckpt
    BY <1>4 DEF RestoreCheckpoint, RestoredAccounting, files
  <2>2. QED
    BY <2>1, BaselineTypes DEF BaseInv
<1>5. CASE Apply
  <2>1. /\ acct' = NewAccounting /\ ckpt' = ckpt /\ pc = "apply" /\ Loaded
        /\ cyc.snap.equity \in Int /\ Day(cyc.start) \in Int
        /\ acct.day <= Day(cyc.start)
    BY <1>5, DayNat, ConfigAssumption
       DEF Apply, files, Loaded, CycleInv, DayInv, InCycle
  <2>2. /\ acct'.day = Day(cyc.start)
        /\ acct'.hwm = Larger(acct.hwm, cyc.snap.equity)
        /\ acct'.sod = IF acct.day # Day(cyc.start) \/ acct.sod = None
                         THEN cyc.snap.equity ELSE acct.sod
    BY <2>1 DEF NewAccounting, StartOfDay, HighWaterMark
  <2>3. acct'.hwm >= acct.hwm
    BY <2>1, <2>2, BaselineTypes DEF Larger
  <2>4. SUFFICES ASSUME ckpt.present
                 PROVE  /\ acct'.hwm >= ckpt.acct.hwm /\ acct'.day >= ckpt.acct.day
                        /\ acct'.day = ckpt.acct.day /\ ckpt.acct.sod # None
                             => acct'.sod = ckpt.acct.sod
    BY <2>1 DEF BaseInv
  <2>5. /\ acct.hwm >= ckpt.acct.hwm /\ acct.day >= ckpt.acct.day
        /\ acct.day = ckpt.acct.day /\ ckpt.acct.sod # None => acct.sod = ckpt.acct.sod
    BY <2>1, <2>4 DEF BaseInv
  <2>6. acct'.hwm >= ckpt.acct.hwm /\ acct'.day >= ckpt.acct.day
    <3>1. acct'.hwm \in Int
      BY <2>1, <2>2, BaselineTypes DEF Larger
    <3>2. QED
      BY <3>1, <2>1, <2>2, <2>3, <2>5, BaselineTypes
  <2>7. ASSUME acct'.day = ckpt.acct.day, ckpt.acct.sod # None
        PROVE  acct'.sod = ckpt.acct.sod
    <3>1. acct.day = Day(cyc.start)
      BY <2>1, <2>2, <2>5, <2>7, BaselineTypes
    <3>2. acct.sod = ckpt.acct.sod
      BY <3>1, <2>2, <2>5, <2>7
    <3>3. QED
      BY <3>1, <3>2, <2>2, <2>7
  <2>8. QED
    BY <2>6, <2>7
<1>6. CASE Save
  <2>1. ckpt'.acct = acct /\ acct' = acct
    BY <1>6 DEF Save, memory
  <2>2. QED
    BY <2>1, BaselineTypes DEF BaseInv
<1>7. CASE Publish
  BY <1>1, <1>7, PublishFrame DEF BaseInv
<1>8. CASE Crash
  BY <1>8 DEF Crash, Loaded, BaseInv
<1>9. CASE StartupFails \/ \E closing \in SUBSET OpenAt(now) : Tick(closing)
  <2>1. UNCHANGED <<acct, ckpt, pc, then>>
    BY <1>9 DEF StartupFails, Tick, files, memory
  <2>2. QED
    BY <1>1, <2>1 DEF Loaded
<1>10. QED
  BY <1>2, <1>3, <1>4, <1>5, <1>6, <1>7, <1>8, <1>9, NextCases

LEMMA SavedInvStep == RecoveryInv /\ SavedInv /\ Next => SavedInv'
<1> SUFFICES ASSUME RecoveryInv, SavedInv, Next PROVE SavedInv'
  OBVIOUS
<1> USE DEF RecoveryInv
<1>1. CASE Save
  <2>1. /\ ckpt' = [present |-> TRUE, legacy |-> FALSE, acct |-> acct, prov |-> prov,
                    gen |-> db.gen, failClosed |-> failClosed, failures |-> failures]
        /\ UNCHANGED <<db, acct, prov>> /\ Loaded /\ saveAllowed
    BY <1>1 DEF Save, memory, Loaded
  <2>2. failClosed' => failClosed
    BY <1>1, Zenon DEF Save, memory
  <2>3. failClosed => failClosed'
    BY <1>1, Zenon DEF Save, memory
  <2>4. prov.verified => acct.sod # None
    BY <2>1 DEF MemoryInv
  <2>5. QED
    BY <2>1, <2>2, <2>3, <2>4 DEF SavedInv, Bound
<1>2. CASE Keeps
  BY <1>2, KeepsFrame DEF SavedInv
<1>3. CASE StartCycle \/ SomeFetch \/ Ingest
  BY <1>3, CycleFrame DEF SavedInv, InCycle
<1>4. CASE StartFresh \/ RestoreCheckpoint \/ Apply \/ Publish \/ Crash
  <2>1. pc' # "publish"
    BY <1>4, PublishFrame DEF StartFresh, RestoreCheckpoint, Apply, Finish, Crash
  <2>2. QED
    BY <2>1 DEF SavedInv
<1>5. CASE StartupFails \/ \E closing \in SUBSET OpenAt(now) : Tick(closing)
  <2>1. UNCHANGED <<acct, prov, failClosed, db, ckpt, pc>>
    BY <1>5 DEF StartupFails, Tick, files, memory
  <2>2. QED
    BY <2>1 DEF SavedInv, Bound
<1>6. QED
  BY <1>1, <1>2, <1>3, <1>4, <1>5, NextCases

LEMMA PubInvStep ==
  RecoveryInv /\ BaseInv /\ SavedInv /\ PubInv /\ Next => PubInv'
<1> SUFFICES ASSUME RecoveryInv, BaseInv, SavedInv, PubInv, Next PROVE PubInv'
  OBVIOUS
<1> USE DEF RecoveryInv
<1>1. CASE UNCHANGED <<pub, ckpt>>
  BY <1>1 DEF PubInv
<1>2. CASE Save
  <2>1. /\ ckpt'.present /\ ckpt'.acct = acct /\ pub' = pub /\ Loaded
    BY <1>2 DEF Save, Loaded
  <2>2. QED
    BY <2>1, BaselineTypes DEF PubInv, BaseInv
<1>3. CASE Publish
  <2>1. /\ pub'.acct = acct /\ pub'.healthy = Healthy /\ ckpt' = ckpt
        /\ pc = "publish"
    BY <1>3 DEF Publish
  <2>2. Healthy => ~failClosed /\ prov.verified
    BY DEF Healthy
  <2>3. QED
    BY <2>1, <2>2, BaselineTypes DEF SavedInv, PubInv
<1>4. CASE StartupFails
  BY <1>4 DEF StartupFails, FailClosedState, PubInv
<1>5. CASE \/ Keeps \/ StartFresh \/ RestoreCheckpoint \/ StartCycle \/ SomeFetch
           \/ Ingest \/ Apply \/ Crash \/ \E closing \in SUBSET OpenAt(now) : Tick(closing)
  <2>1. UNCHANGED <<pub, ckpt>>
    BY <1>5, KeepsFrame, CycleFrame
       DEF StartFresh, RestoreCheckpoint, Apply, Crash, Tick, files
  <2>2. QED
    BY <1>1, <2>1
<1>6. QED
  BY <1>2, <1>3, <1>4, <1>5, NextCases

LEMMA HardInvStep == RecoveryInv /\ HardInv /\ Next => HardInv'
<1> SUFFICES ASSUME RecoveryInv, HardInv, Next PROVE HardInv'
  OBVIOUS
<1> USE DEF RecoveryInv
<1>1. CASE UNCHANGED <<acct, ckpt, gen>> /\ (Loaded' => Loaded) /\ pc' # "apply"
  BY <1>1 DEF HardInv
<1>2. CASE Keeps \/ StartCycle \/ SomeFetch
  <2>1. pc' # "apply"
    BY <1>2, KeepsFrame DEF InCycle, StartCycle, SomeFetch, Fetch
  <2>2. QED
    BY <1>1, <1>2, <2>1, KeepsFrame, CycleFrame
<1>3. CASE StartFresh
  BY <1>3 DEF StartFresh, files, HardInv
<1>4. CASE RestoreCheckpoint
  BY <1>4 DEF RestoreCheckpoint, RestoredAccounting, files, HardInv
<1>5. CASE Ingest
  <2>1. /\ db'.gen = db.gen + 1 /\ ckpt.gen <= db.gen /\ Loaded
        /\ UNCHANGED <<acct, ckpt, gen>>
    BY <1>5 DEF Ingest, memory, LedgerInv, Loaded
  <2>2. QED
    BY <2>1, BaselineTypes DEF HardInv
<1>6. CASE Apply
  <2>1. gen' = db.gen /\ ckpt' = ckpt /\ pc = "apply" /\ pc' # "apply"
    BY <1>6 DEF Apply, Finish, files
  <2>2. QED
    BY <2>1, BaselineTypes DEF HardInv
<1>7. CASE Save
  <2>1. ckpt'.acct = acct /\ acct' = acct /\ pc' # "apply"
    BY <1>7 DEF Save, memory
  <2>2. QED
    BY <2>1 DEF HardInv
<1>8. CASE Publish
  <2>1. pc' # "apply"
    BY <1>8, PublishFrame DEF InCycle
  <2>2. QED
    BY <1>8, <2>1, PublishFrame DEF HardInv
<1>9. CASE Crash
  BY <1>9 DEF Crash, Loaded, HardInv
<1>10. CASE StartupFails \/ \E closing \in SUBSET OpenAt(now) : Tick(closing)
  <2>1. UNCHANGED <<acct, ckpt, gen, db, pc, then>>
    BY <1>10 DEF StartupFails, Tick, files, memory
  <2>2. QED
    BY <2>1 DEF HardInv, Loaded
<1>11. QED
  BY <1>2, <1>3, <1>4, <1>5, <1>6, <1>7, <1>8, <1>9, <1>10, NextCases

-----------------------------------------------------------------------------
(* The theorems *)

LEMMA BaselineInit == Init => BaselineInv
<1> SUFFICES ASSUME Init PROVE BaselineInv
  OBVIOUS
<1>1. now = 0 /\ pc = "down" /\ acct = NoAccounting /\ pub.healthy = FALSE
  BY DEF Init, FailClosedState
<1>2. Day(now) \in Nat /\ ckpt.acct.day <= Day(now)
  <2>1. Day(now) \in Nat
    BY InitType, BaselineTypes
  <2>2. ckpt.acct.day = None \/ ckpt.acct.day = 0
    BY DEF Init, NoCheckpoint, LegacyCheckpoint, NoAccounting
  <2>3. QED
    BY <2>1, <2>2 DEF None
<1>3. DayInv
  BY <1>1, <1>2 DEF DayInv, InCycle, NoAccounting, None
<1>4. BaseInv /\ SavedInv /\ PubInv /\ HardInv
  BY <1>1 DEF BaseInv, SavedInv, PubInv, HardInv, Loaded
<1>5. QED
  BY <1>3, <1>4 DEF BaselineInv

LEMMA BaselineStep == RecoveryInv /\ BaselineInv /\ [Next]_vars => BaselineInv'
<1>1. ASSUME RecoveryInv, BaselineInv, Next PROVE BaselineInv'
  BY <1>1, DayInvStep, BaseInvStep, SavedInvStep, PubInvStep, HardInvStep DEF BaselineInv
<1>2. ASSUME BaselineInv, UNCHANGED vars PROVE BaselineInv'
  <2>1. UNCHANGED <<now, db, ckpt, pub, pc, then, acct, prov, gen, failClosed, cyc>>
    BY <1>2 DEF vars, world, files, memory
  <2>2. DayInv' /\ BaseInv' /\ SavedInv'
    BY <1>2, <2>1 DEF BaselineInv, DayInv, BaseInv, SavedInv, Loaded, InCycle, Bound
  <2>3. PubInv' /\ HardInv'
    BY <1>2, <2>1 DEF BaselineInv, PubInv, HardInv, Loaded
  <2>4. QED
    BY <2>2, <2>3 DEF BaselineInv
<1>3. QED
  BY <1>1, <1>2

THEOREM BaselineInvariant == Spec => []BaselineInv
<1>1. Init => BaselineInv
  BY BaselineInit
<1>2. RecoveryInv /\ BaselineInv /\ [Next]_vars => BaselineInv'
  BY BaselineStep
<1>3. QED
  BY <1>1, <1>2, RecoveryInvariant, PTL DEF Spec

\* While the state file says healthy, the checkpoint a restart would load holds
\* a high-water mark at least as high and the same day's start-of-day equity.
THEOREM RestartNeverForgetsHolds == Spec => []RestartNeverForgets
<1>1. BaselineInv => RestartNeverForgets
  BY DEF BaselineInv, PubInv, RestartNeverForgets
<1>2. QED
  BY <1>1, BaselineInvariant, PTL

\* Every publication that says healthy is the checkpoint, bound to the latest
\* generation of the ledger and itself not fail-closed.
THEOREM HealthyIsDurableHolds == Spec => HealthyIsDurable
<1> DEFINE A == pub' # pub /\ pub'.healthy =>
                  /\ ckpt.present /\ Bound(ckpt) /\ ~ckpt.failClosed
                  /\ ckpt.acct = pub'.acct /\ ckpt.prov = pub'.prov
<1>1. BaselineInv /\ [Next]_vars => [A]_vars
  <2>1. SUFFICES ASSUME BaselineInv, Next, pub' # pub, pub'.healthy
                 PROVE  /\ ckpt.present /\ Bound(ckpt) /\ ~ckpt.failClosed
                        /\ ckpt.acct = pub'.acct /\ ckpt.prov = pub'.prov
    BY DEF vars
  <2>2. CASE Publish
    <3>1. /\ pub'.acct = acct /\ pub'.prov = prov /\ pub'.healthy = Healthy
          /\ pc = "publish"
      BY <2>2 DEF Publish
    <3>2. ~failClosed
      BY <2>1, <3>1 DEF Healthy
    <3>3. QED
      BY <2>1, <3>1, <3>2 DEF BaselineInv, SavedInv
  <2>3. CASE StartupFails
    BY <2>1, <2>3 DEF StartupFails, FailClosedState
  <2>4. CASE ~Publish /\ ~StartupFails
    BY <2>1, <2>4, NextCases, KeepsFrame, CycleFrame
       DEF StartFresh, RestoreCheckpoint, Apply, Save, Crash, Tick, files
  <2>5. QED
    BY <2>2, <2>3, <2>4
<1>2. QED
  BY <1>1, BaselineInvariant, PTL DEF Spec, HealthyIsDurable

\* No step, crash or restart lowers the checkpoint's high-water mark or changes
\* the start-of-day equity a day already has.
THEOREM BaselinesMonotoneHolds == Spec => BaselinesMonotone
<1> DEFINE A == ckpt.present =>
                  /\ ckpt'.present /\ ckpt'.acct.hwm >= ckpt.acct.hwm
                  /\ ckpt'.acct.day = ckpt.acct.day /\ ckpt.acct.sod # None =>
                       ckpt'.acct.sod = ckpt.acct.sod
<1>1. RecoveryInv /\ BaselineInv /\ [Next]_vars => [A]_vars
  <2>1. SUFFICES ASSUME RecoveryInv, BaselineInv, Next, ckpt.present
                 PROVE  /\ ckpt'.present /\ ckpt'.acct.hwm >= ckpt.acct.hwm
                        /\ ckpt'.acct.day = ckpt.acct.day /\ ckpt.acct.sod # None =>
                             ckpt'.acct.sod = ckpt.acct.sod
    BY DEF vars
  <2>2. CASE Save
    <3>1. ckpt'.present /\ ckpt'.acct = acct /\ Loaded
      BY <2>2 DEF Save, Loaded
    <3>2. QED
      BY <2>1, <3>1 DEF BaselineInv, BaseInv
  <2>3. CASE ~Save
    <3>1. ckpt' = ckpt
      BY <2>1, <2>3, NextCases, KeepsFrame, CycleFrame, PublishFrame
         DEF RecoveryInv, StartFresh, RestoreCheckpoint, Apply, StartupFails, Crash,
             Tick, files
    <3>2. QED
      BY <2>1, <3>1, BaselineTypes DEF RecoveryInv
  <2>4. QED
    BY <2>2, <2>3
<1>2. QED
  BY <1>1, RecoveryInvariant, BaselineInvariant, PTL DEF Spec, BaselinesMonotone

\* The durable hard cap is withdrawn only with a newer ledger generation, and a
\* publication that is not fail-closed carries the durable one.
THEOREM HardCapWithdrawnHolds == Spec => HardCapWithdrawn
<1> DEFINE A == /\ ckpt.present /\ ckpt.acct.hard /\ ~ckpt'.acct.hard
                     => ckpt'.gen > ckpt.gen
                /\ pub' # pub /\ ~pub'.failClosed => pub'.acct.hard = ckpt.acct.hard
<1>1. RecoveryInv /\ BaselineInv /\ [Next]_vars => [A]_vars
  <2>1. SUFFICES ASSUME RecoveryInv, BaselineInv, Next PROVE A
    BY DEF vars
  <2>2. ASSUME ckpt.present, ckpt.acct.hard, ~ckpt'.acct.hard
        PROVE  ckpt'.gen > ckpt.gen
    <3>1. CASE Save
      <4>1. /\ ckpt'.acct = acct /\ ckpt'.gen = db.gen /\ Loaded
            /\ gen = db.gen \/ gen = None
        BY <3>1 DEF Save, Loaded, BindingHolds
      <4>2. gen > ckpt.gen
        BY <2>1, <2>2, <4>1 DEF BaselineInv, HardInv
      <4>3. QED
        BY <2>1, <4>1, <4>2, BaselineTypes DEF RecoveryInv, None
    <3>2. CASE ~Save
      <4>1. ckpt' = ckpt
        BY <2>1, <3>2, NextCases, KeepsFrame, CycleFrame, PublishFrame
           DEF RecoveryInv, StartFresh, RestoreCheckpoint, Apply, StartupFails, Crash,
               Tick, files
      <4>2. QED
        BY <2>2, <4>1
    <3>3. QED
      BY <3>1, <3>2
  <2>3. ASSUME pub' # pub, ~pub'.failClosed
        PROVE  pub'.acct.hard = ckpt.acct.hard
    <3>1. CASE Publish
      <4>1. pub'.acct = acct /\ pub'.failClosed = failClosed /\ pc = "publish"
        BY <3>1 DEF Publish
      <4>2. QED
        BY <2>1, <2>3, <4>1 DEF BaselineInv, SavedInv
    <3>2. CASE StartupFails
      BY <2>3, <3>2 DEF StartupFails, FailClosedState
    <3>3. CASE ~Publish /\ ~StartupFails
      BY <2>1, <2>3, <3>3, NextCases, KeepsFrame, CycleFrame
         DEF StartFresh, RestoreCheckpoint, Apply, Save, Crash, Tick, files
    <3>4. QED
      BY <3>1, <3>2, <3>3
  <2>4. QED
    BY <2>2, <2>3
<1>2. QED
  BY <1>1, RecoveryInvariant, BaselineInvariant, PTL DEF Spec, HardCapWithdrawn

-----------------------------------------------------------------------------
(* Every trade is counted once *)

\* The amounts a are of one instant: no later than the clock, realized and
\* unrealized split the trades at the cut that the timestamps p give.
Accounted(a, p) ==
  LET cut == Smaller(p.posAsOf, p.ledgerAsOf) IN
  /\ p.posAsOf \in Time /\ p.ledgerAsOf \in Time /\ p.ledgerAsOf <= now
  /\ a.unrealized = OpenAt(cut)
  /\ a.realized = RealizedOn(Trades, a.day, cut)

\* Nothing that closed before the ledger's watermark is missing from it, and
\* whatever counts as verified is accounted for, in memory and on disk.
CountedInv ==
  /\ ClosedBy(db.asOf) \subseteq db.recs
  /\ prov.verified => Accounted(acct, prov)
  /\ ckpt.prov.verified => Accounted(ckpt.acct, ckpt.prov)
  /\ pub.healthy => Accounted(pub.acct, pub.prov)

\* A trade closes at the instant of the step that closes it, so what had closed
\* by an earlier instant stays as it is.
LEMMA TickKeepsClosed ==
  ASSUME TypeOK, NEW closing \in SUBSET OpenAt(now), Tick(closing),
         NEW instant \in Int, instant <= now
  PROVE  /\ ClosedBy(instant)' = ClosedBy(instant)
         /\ OpenAt(instant)' = OpenAt(instant)
         /\ \A d : RealizedOn(Trades, d, instant)' = RealizedOn(Trades, d, instant)
<1>1. /\ closedAt' = [t \in Trades |-> IF t \in closing THEN now + 1 ELSE closedAt[t]]
      /\ now \in Int /\ \A t \in Trades : closedAt[t] \in Int
  BY TimeType DEF Tick, TypeOK
<1>2. \A t \in closing : ~Closed(t, instant)
  BY <1>1 DEF OpenAt, ClosedBy, Closed
<1>3. \A t \in closing : ~(closedAt'[t] <= instant)
  BY <1>1 DEF OpenAt
<1>4. \A t \in Trades \ closing : closedAt'[t] = closedAt[t]
  BY <1>1
<1>5. ClosedBy(instant)' = ClosedBy(instant)
  BY <1>2, <1>3, <1>4 DEF ClosedBy, Closed
<1>6. \A t \in ClosedBy(instant) : closedAt'[t] = closedAt[t]
  BY <1>2, <1>4 DEF ClosedBy
<1>7. QED
  BY <1>5, <1>6 DEF OpenAt, RealizedOn, OnDay

LEMMA TickKeepsAccounted ==
  ASSUME TypeOK, NEW closing \in SUBSET OpenAt(now), Tick(closing),
         NEW a, NEW p, Accounted(a, p)
  PROVE  /\ p.ledgerAsOf <= now'
         /\ a.unrealized = OpenAt(Smaller(p.posAsOf, p.ledgerAsOf))'
         /\ a.realized = RealizedOn(Trades, a.day, Smaller(p.posAsOf, p.ledgerAsOf))'
<1> DEFINE cut == Smaller(p.posAsOf, p.ledgerAsOf)
<1>1. /\ p.posAsOf \in Int /\ p.ledgerAsOf \in Int /\ p.ledgerAsOf <= now
      /\ now \in Int /\ now' = now + 1
      /\ a.unrealized = OpenAt(cut) /\ a.realized = RealizedOn(Trades, a.day, cut)
  BY TimeType DEF Accounted, Tick, TypeOK
<1>2. cut \in Int /\ cut <= now /\ p.ledgerAsOf <= now'
  BY <1>1 DEF Smaller
<1> HIDE DEF cut
<1>3. /\ OpenAt(cut)' = OpenAt(cut)
      /\ RealizedOn(Trades, a.day, cut)' = RealizedOn(Trades, a.day, cut)
  BY <1>2, TickKeepsClosed
<1>4. QED
  BY <1>1, <1>2, <1>3 DEF cut

\* The amounts of a complete reconciliation: the cut the cycle used is the one
\* its timestamps give, and the ledger is complete up to its watermark.
LEMMA ApplyAccounts ==
  ASSUME RecoveryInv, CountedInv, Apply
  PROVE  Accounted(acct', prov')
<1> USE DEF RecoveryInv
<1>1. /\ acct' = NewAccounting /\ pc = "apply"
      /\ prov' = [lastSuccess |-> cyc.checked, posAsOf |-> cyc.posAsOf,
                  ledgerAsOf |-> db.asOf, verified |-> TRUE]
  BY DEF Apply
<1>2. /\ cyc.posAsOf \in Time /\ cyc.asOf \in Time /\ cyc.asOf = db.asOf /\ cyc.asOf <= now
      /\ cyc.posAsOf \in Int /\ cyc.asOf \in Int
  BY <1>1, TimeType DEF CycleInv
<1> DEFINE cut == Smaller(cyc.posAsOf, cyc.asOf)
<1>3. EnforcementCut = cut /\ PositionCut(cyc.posAsOf, cyc.cut) = cut
  BY <1>1, <1>2 DEF EnforcementCut, PositionCut, Smaller, CycleInv
<1>4. cut \in Int /\ cut <= db.asOf
  BY <1>2 DEF Smaller
<1> HIDE DEF cut
<1>5. db.recs \subseteq Trades /\ ClosedBy(cut) \subseteq ClosedBy(db.asOf)
  <2>1. db.recs \subseteq Trades /\ \A t \in Trades : closedAt[t] \in Int
    BY TimeType DEF TypeOK, Committed
  <2>2. db.asOf \in Int
    BY <1>2
  <2>3. QED
    BY <1>4, <2>1, <2>2 DEF ClosedBy, Closed
<1>6. \A d : RealizedOn(db.recs, d, cut) = RealizedOn(Trades, d, cut)
  BY <1>5 DEF CountedInv, RealizedOn, OnDay, ClosedBy
<1>7. /\ acct'.unrealized = OpenAt(cut)
      /\ acct'.realized = RealizedOn(db.recs, acct'.day, cut)
  BY <1>1, <1>3 DEF NewAccounting
<1>8. QED
  BY <1>1, <1>2, <1>6, <1>7 DEF Accounted, cut

\* What a state, a checkpoint or a publication accounts for depends on the
\* clock and on the closed trades only.
LEMMA AccountedStable ==
  ASSUME UNCHANGED <<now, closedAt>>
  PROVE  /\ \A a, p : Accounted(a, p) => Accounted(a, p)'
         /\ \A instant : ClosedBy(instant)' = ClosedBy(instant)
<1>1. \A instant : ClosedBy(instant)' = ClosedBy(instant)
  BY DEF ClosedBy, Closed
<1>2. ASSUME NEW a, NEW p, Accounted(a, p)
      PROVE  Accounted(a, p)'
  BY <1>1, <1>2 DEF Accounted, OpenAt, RealizedOn, OnDay
<1>3. QED
  BY <1>1, <1>2

LEMMA CountedStep == RecoveryInv /\ CountedInv /\ Next => CountedInv'
<1> SUFFICES ASSUME RecoveryInv, CountedInv, Next PROVE CountedInv'
  OBVIOUS
<1> USE DEF RecoveryInv
<1>1. ASSUME UNCHANGED <<now, closedAt>>, ClosedBy(db'.asOf) \subseteq db'.recs,
             prov'.verified => Accounted(acct', prov'),
             ckpt'.prov.verified => Accounted(ckpt'.acct, ckpt'.prov),
             pub'.healthy => Accounted(pub'.acct, pub'.prov)
      PROVE  CountedInv'
  BY <1>1, AccountedStable DEF CountedInv, Accounted, OpenAt, RealizedOn, OnDay, ClosedBy, Closed
<1>2. CASE Keeps \/ Crash
  <2>1. UNCHANGED <<now, closedAt, db, ckpt, pub>>
    BY <1>2 DEF Keeps, OpenLedger, OpenInterrupted, RefuseRecovery, SaveFails, Crash,
       AbandonCycle, RegistryFails, Shutdown, FetchFails, RejectObservation,
       IngestFails, ApplyFails, world, files
  <2>2. prov' = NoProvenance \/ (prov' = prov /\ acct' = acct)
    BY <1>2 DEF Keeps, OpenLedger, OpenInterrupted, RefuseRecovery, SaveFails, Crash,
       BlankMemory, AbandonCycle, RegistryFails, Shutdown, FetchFails,
       RejectObservation, IngestFails, ApplyFails, Invalidate, memory
  <2>3. QED
    BY <1>1, <2>1, <2>2 DEF CountedInv, NoProvenance
<1>3. CASE StartFresh \/ StartCycle \/ SomeFetch
  <2>1. UNCHANGED <<now, closedAt, db, ckpt, pub, acct, prov>>
    BY <1>3 DEF StartFresh, StartCycle, SomeFetch, Fetch, world, files, memory
  <2>2. QED
    BY <1>1, <2>1 DEF CountedInv
<1>4. CASE RestoreCheckpoint
  <2>1. UNCHANGED <<now, closedAt, db, ckpt, pub>> /\ acct' = ckpt.acct
    BY <1>4 DEF RestoreCheckpoint, RestoredAccounting, world, files
  <2>2. \/ prov' = NoProvenance
        \/ /\ prov'.posAsOf = ckpt.prov.posAsOf /\ prov'.ledgerAsOf = ckpt.prov.ledgerAsOf
           /\ prov'.verified => ckpt.prov.verified
    <3>1. prov' = NoProvenance \/ prov' = RestoredProvenance
      BY <1>4, Zenon DEF RestoreCheckpoint
    <3>2. RestoredProvenance.verified => ckpt.prov.verified
      BY DEF RestoredProvenance
    <3>3. QED
      BY <3>1, <3>2 DEF RestoredProvenance
  <2>3. prov'.verified => Accounted(acct', prov')
    BY <2>1, <2>2 DEF CountedInv, Accounted, NoProvenance
  <2>4. QED
    BY <1>1, <2>1, <2>3 DEF CountedInv
<1>5. CASE Ingest
  <2>1. /\ UNCHANGED <<now, closedAt, ckpt, pub, acct, prov>>
        /\ db'.recs = db.recs \cup ClosedBy(cyc.asOf) /\ db'.asOf = cyc.asOf
    BY <1>5 DEF Ingest, world, memory
  <2>2. QED
    BY <1>1, <2>1 DEF CountedInv
<1>6. CASE Apply
  <2>1. UNCHANGED <<now, closedAt, db, ckpt, pub>>
    BY <1>6 DEF Apply, world, files
  <2>2. QED
    BY <1>1, <1>6, <2>1, ApplyAccounts DEF CountedInv
<1>7. CASE Save
  <2>1. /\ UNCHANGED <<now, closedAt, db, pub, acct, prov>>
        /\ ckpt'.acct = acct /\ ckpt'.prov = prov
    BY <1>7 DEF Save, world, memory
  <2>2. QED
    BY <1>1, <2>1 DEF CountedInv
<1>8. CASE Publish
  <2>1. /\ UNCHANGED <<now, closedAt, db, ckpt>>
        /\ pub'.acct = acct /\ pub'.prov = prov /\ pub'.healthy = Healthy
    BY <1>8 DEF Publish, world
  <2>2. (prov' = prov /\ acct' = acct) \/ prov' = NoProvenance
    BY <1>8 DEF Publish, BlankMemory, memory
  <2>3. pub'.healthy => Accounted(pub'.acct, pub'.prov)
    BY <2>1 DEF Healthy, CountedInv
  <2>4. QED
    BY <1>1, <2>1, <2>2, <2>3 DEF CountedInv, NoProvenance
<1>9. CASE StartupFails
  <2>1. UNCHANGED <<now, closedAt, db, ckpt, acct, prov>> /\ pub'.healthy = FALSE
    BY <1>9 DEF StartupFails, FailClosedState, memory
  <2>2. QED
    BY <1>1, <2>1 DEF CountedInv
<1>10. ASSUME NEW closing \in SUBSET OpenAt(now), Tick(closing) PROVE CountedInv'
  <2>1. UNCHANGED <<db, ckpt, pub, acct, prov>>
    BY <1>10 DEF Tick, files, memory
  <2>2. ASSUME NEW a, NEW p, Accounted(a, p)
        PROVE  Accounted(a, p)'
    BY <1>10, <2>2, TickKeepsAccounted DEF Accounted
  <2>3. db.asOf \in Int /\ db.asOf <= now
    BY TimeType DEF LedgerInv, TypeOK, Committed
  <2>4. ClosedBy(db.asOf)' = ClosedBy(db.asOf)
    BY <1>10, <2>1, <2>3, TickKeepsClosed DEF ClosedBy, Closed
  <2>5. /\ Accounted(acct, prov) => Accounted(acct, prov)'
        /\ Accounted(ckpt.acct, ckpt.prov) => Accounted(ckpt.acct, ckpt.prov)'
        /\ Accounted(pub.acct, pub.prov) => Accounted(pub.acct, pub.prov)'
    BY <2>1, <2>2 DEF Accounted
  <2>6. QED
    BY <2>1, <2>4, <2>5 DEF CountedInv
<1>11. QED
  BY <1>2, <1>3, <1>4, <1>5, <1>6, <1>7, <1>8, <1>9, <1>10, NextCases

LEMMA CountedInit == Init => CountedInv
<1> SUFFICES ASSUME Init PROVE CountedInv
  OBVIOUS
<1>1. ClosedBy(db.asOf) = {}
  BY DEF Init, ClosedBy, Closed
<1>2. ~prov.verified /\ ~ckpt.prov.verified /\ ~pub.healthy
  BY DEF Init, NoProvenance, NoCheckpoint, LegacyCheckpoint, FailClosedState
<1>3. QED
  BY <1>1, <1>2 DEF CountedInv

\* The ledger is complete up to its watermark, and verified amounts are of one
\* instant, wherever they are kept.
THEOREM CountedInvariant == Spec => []CountedInv
<1>1. RecoveryInv /\ CountedInv /\ UNCHANGED vars => CountedInv'
  BY DEF CountedInv, Accounted, OpenAt, RealizedOn, OnDay, ClosedBy, Closed,
         vars, world, files, memory
<1>2. RecoveryInv /\ CountedInv /\ [Next]_vars => CountedInv'
  BY <1>1, CountedStep
<1>3. QED
  BY <1>2, CountedInit, RecoveryInvariant, PTL DEF Spec

\* A healthy publication counts every trade once: realized if it closed by the
\* cut, unrealized otherwise, for every cut, skew and assembly of the ledger.
THEOREM CountedOnceHolds == Spec => []CountedOnce
<1>1. CountedInv => CountedOnce
  BY DEF CountedInv, Accounted, CountedOnce
<1>2. QED
  BY <1>1, CountedInvariant, PTL

=============================================================================

------------------------ MODULE StateFreshnessProofs ------------------------
(***************************************************************************)
(* For every health window, tolerance and reader's limit, every difference *)
(* of the clocks and any delays: what is published as healthy passes a     *)
(* reader's validation at that instant, what a reader accepts was true at  *)
(* the venue recently enough, and what memory takes over is not yet stale. *)
(***************************************************************************)
EXTENDS StateFreshness, TLAPS

Fields == {"account", "positions", "cut", "orders", "ledger"}

-----------------------------------------------------------------------------
(* The invariant *)

\* Positions are those of the observation, or of the ledger's watermark.
Paired(s) == s.cut = s.positions \/ s.cut = s.ledger

\* Amounts and timestamps in memory are those of one whole cycle, or missing.
Whole(m) == m.stamps = NoStamps \/ (m.stamps \in Stamps /\ Paired(m.stamps))

\* What a cycle has observed by the time it comes to a step.
Seen ==
  /\ pc \in {"positions", "orders", "ledger", "validate"} => obs.account \in Venue
  /\ pc \in {"orders", "ledger", "validate"} => obs.positions \in Venue /\ obs.cut \in Venue
  /\ pc \in {"ledger", "validate"} => obs.orders \in Venue
  /\ pc = "validate" => obs.ledger \in Venue

\* The file on disk shows a memory as it was at one reading of the clock.
Shown == \E m \in Memory, clock \in Int : Whole(m) /\ pub = Published(m, clock)

FreshnessInv == TypeOK /\ Whole(mem) /\ Whole(saved) /\ Seen /\ Shown

-----------------------------------------------------------------------------
(* Timestamps and memories *)

LEMMA FieldsOfStamps == DOMAIN NoStamps = Fields
BY DEF NoStamps, Fields

LEMMA NoneIsNoInstant ==
  /\ None \in Int /\ None \notin Venue
  /\ \A t \in Venue : t \in Int /\ t # None
BY FreshnessAssumption DEF Venue

\* Observations of a whole cycle are the timestamps of one.
LEMMA WholeObservation ==
  ASSUME NEW o \in [Fields -> Venue \cup {None}], \A f \in Fields : o[f] \in Venue
  PROVE  o \in Stamps
BY DEF Fields, Stamps

LEMMA ObservableInstants ==
  ASSUME NEW u \in Venue
  PROVE  Larger(0, u - MaxLag)..u \subseteq Venue
BY FreshnessAssumption DEF Venue, Larger

LEMMA NewMemoryType == NewMemory \in Memory /\ Whole(NewMemory)
BY NoneIsNoInstant DEF NewMemory, Memory, Instant, Whole

LEMMA RecordFailureType ==
  ASSUME NEW m \in Memory, NEW force \in BOOLEAN
  PROVE  /\ RecordFailure(m, force) \in Memory
         /\ RecordFailure(m, force).stamps = m.stamps
         /\ force => RecordFailure(m, force).failClosed
<1>1. DEFINE failures == Smaller(m.failures + 1, FailThreshold)
             failClosed == m.failClosed \/ force \/ m.failures + 1 >= FailThreshold
<1>2. failures \in Nat
  BY FreshnessAssumption DEF Memory, Smaller
<1>3. failClosed \in BOOLEAN /\ (force => failClosed)
  OBVIOUS
<1>4. ASSUME NEW r, r = RecordFailure(m, force)
      PROVE  r = [stamps |-> m.stamps, lastSuccess |-> m.lastSuccess, verified |-> m.verified,
                  failClosed |-> failClosed, failures |-> failures,
                  saveAllowed |-> m.saveAllowed]
  BY <1>4, Zenon DEF RecordFailure, Memory
<1>5. [stamps |-> m.stamps, lastSuccess |-> m.lastSuccess, verified |-> m.verified,
       failClosed |-> failClosed, failures |-> failures, saveAllowed |-> m.saveAllowed] \in Memory
  <2> HIDE DEF failures, failClosed
  <2>1. QED
    BY <1>2, <1>3 DEF Memory
<1>6. RecordFailure(m, force) =
        [stamps |-> m.stamps, lastSuccess |-> m.lastSuccess, verified |-> m.verified,
         failClosed |-> failClosed, failures |-> failures, saveAllowed |-> m.saveAllowed]
  BY <1>4
<1>7. /\ RecordFailure(m, force).stamps = m.stamps
      /\ RecordFailure(m, force).failClosed = failClosed
  <2> HIDE DEF failures, failClosed
  <2>1. QED
    BY <1>6
<1>8. QED
  BY <1>3, <1>5, <1>6, <1>7

LEMMA InvalidatedType ==
  ASSUME NEW m \in Memory
  PROVE  Invalidated(m) \in Memory /\ Whole(Invalidated(m))
<1>1. ASSUME NEW r, r = Invalidated(m)
      PROVE  r = [stamps |-> NoStamps, lastSuccess |-> None, verified |-> FALSE,
                  failClosed |-> TRUE, failures |-> m.failures, saveAllowed |-> FALSE]
  BY <1>1, Zenon DEF Invalidated, Memory
<1>2. Invalidated(m) = [stamps |-> NoStamps, lastSuccess |-> None, verified |-> FALSE,
                        failClosed |-> TRUE, failures |-> m.failures, saveAllowed |-> FALSE]
  BY <1>1
<1>3. [stamps |-> NoStamps, lastSuccess |-> None, verified |-> FALSE, failClosed |-> TRUE,
       failures |-> m.failures, saveAllowed |-> FALSE] \in Memory
  BY NoneIsNoInstant DEF Memory, Instant
<1>4. Whole(Invalidated(m))
  BY <1>2 DEF Whole
<1>5. QED
  BY <1>2, <1>3, <1>4

\* A cycle that is judged valid leaves the timestamps of one whole cycle.
LEMMA ReconciledType ==
  ASSUME obs \in Stamps, NEW clock \in Int, ValidCycle(obs, clock)
  PROVE  Reconciled(clock) \in Memory /\ Whole(Reconciled(clock))
<1>1. Reconciled(clock) \in Memory
  BY DEF Reconciled, Memory, Instant
<1>2. Paired(obs)
  BY DEF ValidCycle, Paired
<1>3. QED
  BY <1>1, <1>2 DEF Reconciled, Whole

-----------------------------------------------------------------------------
(* What a publication says of the memory it shows *)

LEMMA StampInstants ==
  ASSUME NEW s \in Stamps \cup {NoStamps}
  PROVE  /\ s.account \in Int /\ s.positions \in Int /\ s.cut \in Int
         /\ s.orders \in Int /\ s.ledger \in Int
         /\ GroupAsOf(s) \in Int /\ Smaller(s.cut, s.ledger) \in Int
<1>1. /\ s.account \in Int /\ s.positions \in Int /\ s.cut \in Int
      /\ s.orders \in Int /\ s.ledger \in Int
  <2>1. CASE s \in Stamps
    BY <2>1, NoneIsNoInstant DEF Stamps, Venue
  <2>2. CASE s = NoStamps
    BY <2>2, NoneIsNoInstant DEF NoStamps
  <2>3. QED
    BY <2>1, <2>2
<1>2. QED
  BY <1>1, NoneIsNoInstant DEF GroupAsOf, Smaller

LEMMA PublishedParts ==
  ASSUME NEW m \in Memory, NEW clock \in Int, NEW p, p = Published(m, clock)
  PROVE  /\ p \in Publication
         /\ p.at = clock /\ p.healthy = Healthy(m, clock)
         /\ p.asOf["account"] = m.stamps.account /\ p.asOf["positions"] = m.stamps.positions
         /\ p.asOf["orders"] = m.stamps.orders /\ p.asOf["group"] = GroupAsOf(m.stamps)
         /\ p.basis["account"] = m.stamps.account /\ p.basis["positions"] = m.stamps.cut
         /\ p.basis["orders"] = m.stamps.orders
         /\ p.basis["group"] = Smaller(m.stamps.cut, m.stamps.ledger)
         /\ \A x \in Metric : p.ages[x] = IF p.asOf[x] = None THEN 0 ELSE clock - p.asOf[x]
<1>1. m.stamps \in Stamps \cup {NoStamps}
  BY DEF Memory
<1>2. DEFINE asOf == AsOf(m.stamps)
             basis == Basis(m.stamps)
             ages == [x \in Metric |-> IF AsOf(m.stamps)[x] = None THEN 0
                                       ELSE clock - AsOf(m.stamps)[x]]
<1>3. /\ asOf \in [Metric -> Instant]
      /\ asOf["account"] = m.stamps.account /\ asOf["positions"] = m.stamps.positions
      /\ asOf["orders"] = m.stamps.orders /\ asOf["group"] = GroupAsOf(m.stamps)
  BY <1>1, StampInstants DEF AsOf, Metric, Instant
<1>4. /\ basis \in [Metric -> Instant]
      /\ basis["account"] = m.stamps.account /\ basis["positions"] = m.stamps.cut
      /\ basis["orders"] = m.stamps.orders
      /\ basis["group"] = Smaller(m.stamps.cut, m.stamps.ledger)
  BY <1>1, StampInstants DEF Basis, Metric, Instant
<1>5. /\ ages \in [Metric -> Int]
      /\ \A x \in Metric : ages[x] = IF asOf[x] = None THEN 0 ELSE clock - asOf[x]
  BY <1>3 DEF Instant
<1>6. Healthy(m, clock) \in BOOLEAN
  BY DEF Healthy
<1>7. p = [at |-> clock, healthy |-> Healthy(m, clock), asOf |-> asOf, ages |-> ages,
           basis |-> basis]
  BY DEF Published
<1> HIDE DEF asOf, basis, ages
<1>8. p \in Publication
  BY <1>3, <1>4, <1>5, <1>6, <1>7 DEF Publication, Instant
<1>9. /\ p.at = clock /\ p.healthy = Healthy(m, clock)
      /\ p.asOf = asOf /\ p.basis = basis /\ p.ages = ages
  BY <1>7
<1>10. QED
  BY <1>3, <1>4, <1>5, <1>8, <1>9

\* A healthy memory has the timestamps of a whole cycle, all of them fresh.
LEMMA HealthyIsFresh ==
  ASSUME NEW m \in Memory, Whole(m), NEW clock \in Int, Healthy(m, clock)
  PROVE  /\ m.stamps \in Stamps /\ Paired(m.stamps)
         /\ Fresh(m.stamps.account, clock) /\ Fresh(m.stamps.positions, clock)
         /\ Fresh(m.stamps.orders, clock) /\ Fresh(m.stamps.ledger, clock)
<1>1. \A t \in Required(m) : t # None /\ Fresh(t, clock)
  BY DEF Healthy
<1>2. m.stamps # NoStamps
  BY <1>1 DEF Required, NoStamps
<1>3. QED
  BY <1>1, <1>2 DEF Required, Whole

-----------------------------------------------------------------------------
(* The invariant is kept *)

LEMMA PublishedIsShown ==
  ASSUME NEW m \in Memory, Whole(m), NEW clock \in Int, pub' = Published(m, clock)
  PROVE  Shown' /\ pub' \in Publication
BY PublishedParts DEF Shown

LEMMA ClockReadings ==
  ASSUME TypeOK
  PROVE  /\ AggregatorClock \in Int /\ ReaderClock \in Int
         /\ skew.aggregator \in Int /\ skew.reader \in Int
<1>1. \A t \in Offsets : t \in Int
  BY FreshnessAssumption
<1>2. skew.aggregator \in Offsets /\ skew.reader \in Offsets
  BY DEF TypeOK
<1>3. now \in Int
  BY NoneIsNoInstant DEF TypeOK
<1>4. QED
  BY <1>1, <1>2, <1>3 DEF AggregatorClock, ReaderClock

LEMMA FaultCounted ==
  ASSUME TypeOK, Fault
  PROVE  faults' \in 0..MaxFaults
BY FreshnessAssumption DEF TypeOK, Fault

\* The steps that observe: what is published and remembered is left alone.
LEMMA ObservingStep ==
  ASSUME FreshnessInv,
         StartCycle \/ FetchAccount \/ FetchPositions \/ FetchOrders \/ FetchLedger
  PROVE  FreshnessInv'
<1> USE FieldsOfStamps
<1>1. UNCHANGED <<now, skew, faults, mem, saved, pub>>
  BY DEF StartCycle, FetchAccount, FetchPositions, FetchOrders, FetchLedger
<1>2. Whole(mem)' /\ Whole(saved)' /\ Shown'
  BY <1>1 DEF FreshnessInv, Shown
<1>3. obs \in [Fields -> Venue \cup {None}] /\ Seen /\ Observable \subseteq Venue
  BY ObservableInstants DEF FreshnessInv, TypeOK, Observable
<1>4. /\ obs' \in [Fields -> Venue \cup {None}]
      /\ pc' \in {"account", "positions", "orders", "ledger", "validate"} /\ Seen'
  <2>1. CASE StartCycle
    BY <2>1, <1>3 DEF StartCycle, Seen
  <2>2. CASE FetchAccount
    BY <2>2, <1>3 DEF FetchAccount, Returned, Seen, Fields
  <2>3. CASE FetchPositions
    <3>1. PICK t \in Observable : \E cut \in Larger(0, t - MaxLag)..t :
            obs' = [obs EXCEPT !.positions = t, !.cut = cut]
      BY <2>3 DEF FetchPositions
    <3>2. PICK cut \in Larger(0, t - MaxLag)..t :
            obs' = [obs EXCEPT !.positions = t, !.cut = cut]
      BY <3>1
    <3>3. t \in Venue /\ cut \in Venue
      BY <1>3, ObservableInstants
    <3>4. /\ obs' \in [Fields -> Venue \cup {None}]
          /\ obs'.positions = t /\ obs'.cut = cut /\ obs'.account = obs.account
      BY <1>3, <3>2, <3>3 DEF Fields
    <3>5. QED
      BY <1>3, <2>3, <3>3, <3>4 DEF FetchPositions, Seen
  <2>4. CASE FetchOrders
    BY <2>4, <1>3 DEF FetchOrders, Returned, Seen, Fields
  <2>5. CASE FetchLedger
    BY <2>5, <1>3 DEF FetchLedger, Returned, Seen, Fields
  <2>6. QED
    BY <2>1, <2>2, <2>3, <2>4, <2>5
<1>5. TypeOK'
  BY <1>1, <1>4 DEF FreshnessInv, TypeOK
<1>6. QED
  BY <1>2, <1>4, <1>5 DEF FreshnessInv

\* The steps that end a cycle change memory, and forget the observations.
LEMMA EndingStep ==
  ASSUME FreshnessInv, Validate \/ FetchFails \/ ApplyFails \/ RegistryFails
  PROVE  FreshnessInv'
<1>1. UNCHANGED <<now, skew, saved, pub>> /\ pc' = "publish"
  BY DEF Validate, Judged, FetchFails, ApplyFails, RegistryFails
<1>2. faults' \in 0..MaxFaults
  BY FaultCounted DEF FreshnessInv, TypeOK, Validate, Judged, FetchFails, ApplyFails, RegistryFails
<1>3. obs' \in [DOMAIN NoStamps -> Venue \cup {None}]
  <2>1. NoStamps \in [DOMAIN NoStamps -> Venue \cup {None}]
    BY DEF NoStamps
  <2>2. QED
    BY <2>1 DEF FreshnessInv, TypeOK, Validate, Judged, FetchFails, ApplyFails, RegistryFails
<1>4. mem' \in Memory /\ Whole(mem')
  <2>1. mem \in Memory /\ Whole(mem) /\ AggregatorClock \in Int
    BY ClockReadings DEF FreshnessInv, TypeOK
  <2>2. \A force \in BOOLEAN :
          RecordFailure(mem, force) \in Memory /\ Whole(RecordFailure(mem, force))
    BY <2>1, RecordFailureType DEF Whole
  <2>3. CASE Validate
    <3>1. CASE ValidCycle(obs, AggregatorClock)
      <4>1. obs \in Stamps
        BY <2>3, WholeObservation, FieldsOfStamps
        DEF Validate, Judged, FreshnessInv, TypeOK, Seen, Fields
      <4>2. mem' = Reconciled(AggregatorClock)
        BY <2>3, <3>1 DEF Validate, Judged
      <4>3. QED
        BY <2>1, <3>1, <4>1, <4>2, ReconciledType
    <3>2. CASE ~ValidCycle(obs, AggregatorClock)
      BY <2>2, <2>3, <3>2 DEF Validate, Judged
    <3>3. QED
      BY <3>1, <3>2
  <2>4. CASE FetchFails \/ RegistryFails
    BY <2>2, <2>4 DEF FetchFails, RegistryFails
  <2>5. CASE ApplyFails
    BY <2>2, <2>5, InvalidatedType DEF ApplyFails
  <2>6. QED
    BY <2>3, <2>4, <2>5
<1>5. Seen' /\ Shown' /\ Whole(saved)'
  BY <1>1 DEF FreshnessInv, Seen, Shown
<1>6. TypeOK'
  BY <1>1, <1>2, <1>3, <1>4 DEF FreshnessInv, TypeOK
<1>7. QED
  BY <1>4, <1>5, <1>6 DEF FreshnessInv

\* The steps that publish a memory, and the crash and the start between them.
LEMMA PublishingStep ==
  ASSUME FreshnessInv, Publish \/ SaveFails \/ Shutdown \/ Crash \/ Restart
  PROVE  FreshnessInv'
<1>1. UNCHANGED <<now, skew>> /\ pc' \in {"idle", "down"}
  BY DEF Publish, SaveFails, Shutdown, Crash, Restart
<1>2. faults' \in 0..MaxFaults
  BY FaultCounted DEF FreshnessInv, TypeOK, Publish, SaveFails, Shutdown, Crash, Restart
<1>3. obs' \in [DOMAIN NoStamps -> Venue \cup {None}]
  <2>1. NoStamps \in [DOMAIN NoStamps -> Venue \cup {None}]
    BY DEF NoStamps
  <2>2. QED
    BY <2>1 DEF FreshnessInv, TypeOK, Publish, SaveFails, Shutdown, Crash, Restart
<1>4. /\ mem \in Memory /\ Whole(mem) /\ saved \in Memory /\ Whole(saved)
      /\ pub \in Publication /\ Shown /\ AggregatorClock \in Int
  BY ClockReadings DEF FreshnessInv, TypeOK
<1>5. /\ mem' \in Memory /\ Whole(mem') /\ saved' \in Memory /\ Whole(saved')
      /\ pub' \in Publication /\ Shown'
  <2>1. CASE Publish
    <3>1. pub' = Published(mem, AggregatorClock) /\ mem' = mem /\ saved' \in {mem, saved}
      BY <2>1 DEF Publish
    <3>2. QED
      BY <1>4, <3>1, PublishedIsShown
  <2>2. CASE SaveFails
    <3>1. mem' = Invalidated(mem) /\ pub' = Published(mem', AggregatorClock) /\ saved' = saved
      BY <2>2 DEF SaveFails
    <3>2. mem' \in Memory /\ Whole(mem')
      BY <1>4, <3>1, InvalidatedType
    <3>3. pub' = Published(Invalidated(mem), AggregatorClock)
      BY <3>1
    <3>4. QED
      BY <1>4, <3>1, <3>2, <3>3, InvalidatedType, PublishedIsShown
  <2>3. CASE Shutdown
    <3>1. PICK m : /\ m = [mem EXCEPT !.failClosed = TRUE]
                   /\ saved' \in {m, saved} /\ mem' = NewMemory
                   /\ pub' = Published(m, AggregatorClock)
      BY <2>3 DEF Shutdown
    <3>2. m = [stamps |-> mem.stamps, lastSuccess |-> mem.lastSuccess,
               verified |-> mem.verified, failClosed |-> TRUE, failures |-> mem.failures,
               saveAllowed |-> mem.saveAllowed]
      BY <1>4, <3>1, Zenon DEF Memory
    <3>3. m \in Memory /\ Whole(m)
      BY <1>4, <3>2 DEF Memory, Whole
    <3>4. QED
      BY <1>4, <3>1, <3>3, NewMemoryType, PublishedIsShown
  <2>4. CASE Crash
    BY <1>4, <2>4, NewMemoryType DEF Crash, Shown
  <2>5. CASE Restart
    <3>1. UNCHANGED <<saved, pub>>
      BY <2>5 DEF Restart
    <3>2. PICK bound \in BOOLEAN :
            mem' = [saved EXCEPT !.verified = @ /\ bound, !.saveAllowed = bound,
                                 !.failClosed = @ \/ ~bound]
      BY <2>5 DEF Restart
    <3>3. mem' = [stamps |-> saved.stamps, lastSuccess |-> saved.lastSuccess,
                  verified |-> saved.verified /\ bound,
                  failClosed |-> saved.failClosed \/ ~bound,
                  failures |-> saved.failures, saveAllowed |-> bound]
      BY <1>4, <3>2, Zenon DEF Memory
    <3>4. (saved.verified /\ bound) \in BOOLEAN /\ (saved.failClosed \/ ~bound) \in BOOLEAN
      OBVIOUS
    <3>5. mem' \in Memory /\ Whole(mem')
      BY <1>4, <3>3, <3>4 DEF Memory, Whole
    <3>6. QED
      BY <1>4, <3>1, <3>5 DEF Shown
  <2>6. QED
    BY <2>1, <2>2, <2>3, <2>4, <2>5
<1>6. Seen'
  BY <1>1 DEF Seen
<1>7. TypeOK'
  BY <1>1, <1>2, <1>3, <1>5 DEF FreshnessInv, TypeOK
<1>8. QED
  BY <1>5, <1>6, <1>7 DEF FreshnessInv

LEMMA FreshnessInit == Init => FreshnessInv
<1> SUFFICES ASSUME Init PROVE FreshnessInv
  OBVIOUS
<1>1. pub = Published(NewMemory, None) /\ NewMemory \in Memory /\ Whole(NewMemory)
  BY NewMemoryType DEF Init
<1>2. pub \in Publication /\ Shown
  BY <1>1, NoneIsNoInstant, PublishedParts DEF Shown
<1>3. NoStamps \in [DOMAIN NoStamps -> Venue \cup {None}]
  BY DEF NoStamps
<1>4. TypeOK
  BY <1>1, <1>2, <1>3, FreshnessAssumption DEF Init, TypeOK, Venue
<1>5. QED
  BY <1>1, <1>2, <1>4 DEF Init, FreshnessInv, Seen

LEMMA FreshnessStep == FreshnessInv /\ [Next]_vars => FreshnessInv'
<1> SUFFICES ASSUME FreshnessInv, [Next]_vars PROVE FreshnessInv'
  OBVIOUS
<1>1. CASE StartCycle \/ FetchAccount \/ FetchPositions \/ FetchOrders \/ FetchLedger
  BY <1>1, ObservingStep
<1>2. CASE Validate \/ FetchFails \/ ApplyFails \/ RegistryFails
  BY <1>2, EndingStep
<1>3. CASE Publish \/ SaveFails \/ Shutdown \/ Crash \/ Restart
  BY <1>3, PublishingStep
<1>4. CASE Tick
  <2>1. now' \in Venue
    BY <1>4, FreshnessAssumption DEF Tick, FreshnessInv, TypeOK, Venue
  <2>2. QED
    BY <1>4, <2>1 DEF Tick, FreshnessInv, TypeOK, Seen, Shown
<1>5. CASE UNCHANGED vars
  BY <1>5 DEF vars, FreshnessInv, TypeOK, Seen, Shown
<1>6. QED
  BY <1>1, <1>2, <1>3, <1>4, <1>5 DEF Next

\* What memory, the checkpoint and the published file know of time: the
\* timestamps of one whole cycle, whose positions are those of the observation
\* or of the ledger's watermark, or none at all.
THEOREM FreshnessInvariant == Spec => []FreshnessInv
BY FreshnessInit, FreshnessStep, PTL DEF Spec

-----------------------------------------------------------------------------
(* The reader *)

\* What is published as healthy passes a reader's validation at that instant,
\* for every window and tolerance: _is_healthy and the reader judge alike.
THEOREM HealthyPassesHolds == Spec => []HealthyPasses
<1>1. FreshnessInv => HealthyPasses
  <2> SUFFICES ASSUME FreshnessInv, pub.healthy PROVE Valid(pub, pub.at, HealthWindow)
    BY DEF HealthyPasses
  <2>1. PICK m \in Memory, clock \in Int : Whole(m) /\ pub = Published(m, clock)
    BY DEF FreshnessInv, Shown
  <2>2. /\ m.stamps \in Stamps
        /\ Fresh(m.stamps.account, clock) /\ Fresh(m.stamps.positions, clock)
        /\ Fresh(m.stamps.orders, clock) /\ Fresh(m.stamps.ledger, clock)
    BY <2>1, PublishedParts, HealthyIsFresh
  <2>3. GroupAsOf(m.stamps) \in {m.stamps.ledger, m.stamps.positions}
    BY <2>2, NoneIsNoInstant DEF GroupAsOf, Smaller, Stamps
  <2>4. \A x \in Metric : pub.asOf[x] \in Venue /\ Fresh(pub.asOf[x], clock)
    BY <2>1, <2>2, <2>3, PublishedParts DEF Metric, Stamps
  <2>5. \A x \in Metric : pub.asOf[x] # None /\ pub.ages[x] = clock - pub.asOf[x]
    BY <2>1, <2>4, NoneIsNoInstant, PublishedParts
  <2>6. pub.at = clock
    BY <2>1, PublishedParts
  <2>7. \A x \in Metric :
          /\ pub.asOf[x] # None /\ pub.ages[x] >= -FutureSkew
          /\ -FutureSkew <= clock - pub.asOf[x] /\ clock - pub.asOf[x] <= HealthWindow
          /\ pub.asOf[x] - clock <= FutureSkew
    <3>1. TAKE x \in Metric
    <3>2. pub.asOf[x] \in Int /\ Fresh(pub.asOf[x], clock)
      BY <2>4, NoneIsNoInstant
    <3>3. QED
      BY <2>5, <3>2, FreshnessAssumption DEF Fresh
  <2>8. -FutureSkew <= clock - clock /\ clock - clock <= HealthWindow
    BY FreshnessAssumption
  <2>9. QED
    BY <2>6, <2>7, <2>8 DEF Valid
<1>2. QED
  BY <1>1, FreshnessInvariant, PTL

\* What a bot accepts was true no longer ago than it allows, whatever the clocks
\* differ by, however slow the calls and however old the file: the timestamps of
\* positions and of the group's amounts never promise more than the cut they are of.
THEOREM AcceptedIsCurrentHolds == Spec => []AcceptedIsCurrent
<1>1. FreshnessInv => AcceptedIsCurrent
  <2> SUFFICES ASSUME FreshnessInv, Accepts(ReaderClock), NEW x \in Metric
               PROVE  now - pub.basis[x] <= MaxAge - skew.reader
    BY DEF AcceptedIsCurrent
  <2>1. PICK m \in Memory, clock \in Int : Whole(m) /\ pub = Published(m, clock)
    BY DEF FreshnessInv, Shown
  <2>2. m.stamps \in Stamps /\ Paired(m.stamps)
    BY <2>1, PublishedParts, HealthyIsFresh DEF Accepts
  <2>3. /\ now \in Int /\ skew.reader \in Int /\ MaxAge \in Int
        /\ ReaderClock = now + skew.reader
    BY ClockReadings, NoneIsNoInstant, FreshnessAssumption
    DEF FreshnessInv, TypeOK, ReaderClock
  <2>4. \A y \in Metric : ReaderClock - pub.asOf[y] <= MaxAge
    BY DEF Accepts, Valid
  <2>5. \E y \in Metric : /\ pub.asOf[y] \in Int /\ pub.basis[x] \in Int
                          /\ pub.asOf[y] <= pub.basis[x]
    <3>1. /\ m.stamps.account \in Int /\ m.stamps.positions \in Int /\ m.stamps.cut \in Int
          /\ m.stamps.orders \in Int /\ m.stamps.ledger \in Int
          /\ GroupAsOf(m.stamps) = Smaller(m.stamps.ledger, m.stamps.positions)
      <4>1. /\ m.stamps.account \in Venue /\ m.stamps.positions \in Venue
            /\ m.stamps.cut \in Venue /\ m.stamps.orders \in Venue
            /\ m.stamps.ledger \in Venue
        BY <2>2 DEF Stamps
      <4>2. QED
        BY <4>1, NoneIsNoInstant DEF GroupAsOf
    <3>2. /\ GroupAsOf(m.stamps) \in Int /\ Smaller(m.stamps.cut, m.stamps.ledger) \in Int
          /\ GroupAsOf(m.stamps) <= Smaller(m.stamps.cut, m.stamps.ledger)
          /\ GroupAsOf(m.stamps) <= m.stamps.cut
      BY <2>2, <3>1 DEF Paired, Smaller
    <3>3. CASE x \in {"account", "orders"}
      BY <2>1, <3>1, <3>3, PublishedParts
    <3>4. CASE x \in {"positions", "group"}
      <4>1. pub.asOf["group"] \in Int /\ pub.basis[x] \in Int
            /\ pub.asOf["group"] <= pub.basis[x]
        BY <2>1, <3>1, <3>2, <3>4, PublishedParts
      <4>2. QED
        BY <4>1 DEF Metric
    <3>5. QED
      BY <3>3, <3>4 DEF Metric
  <2>6. QED
    BY <2>3, <2>4, <2>5
<1>2. QED
  BY <1>1, FreshnessInvariant, PTL

\* The clock that judges a cycle is read after its last call, so what memory
\* takes over is no older than the health window allows when it is taken over.
THEOREM AdoptedIsCurrentHolds == Spec => AdoptedIsCurrent
<1>1. ASSUME FreshnessInv, Validate, ~mem'.failClosed, NEW f \in DOMAIN obs
      PROVE  now - obs[f] <= HealthWindow - skew.aggregator
  <2>1. mem \in Memory
    BY <1>1 DEF FreshnessInv, TypeOK
  <2>2. RecordFailure(mem, TRUE).failClosed
    BY <2>1, RecordFailureType
  <2>3. ValidCycle(obs, AggregatorClock)
    BY <1>1, <2>2 DEF Validate, Judged
  <2>4. AggregatorClock - obs[f] <= HealthWindow
    BY <1>1, <2>3 DEF ValidCycle, Fresh
  <2>5. obs[f] \in Int /\ now \in Int /\ skew.aggregator \in Int /\ HealthWindow \in Int
    <3>1. obs[f] \in Venue \cup {None} /\ now \in Venue
      BY <1>1 DEF FreshnessInv, TypeOK
    <3>2. QED
      BY <1>1, <3>1, ClockReadings, NoneIsNoInstant, FreshnessAssumption DEF FreshnessInv
  <2>6. QED
    BY <2>4, <2>5 DEF AggregatorClock
<1>2. FreshnessInv /\ [Next]_vars =>
        [Validate /\ ~mem'.failClosed =>
           \A f \in DOMAIN obs : now - obs[f] <= HealthWindow - skew.aggregator]_vars
  BY <1>1
<1>3. QED
  BY <1>2, FreshnessInvariant, PTL DEF Spec, AdoptedIsCurrent
=============================================================================

--------------------------- MODULE StateFreshness ---------------------------
(***************************************************************************)
(* How old the numbers in the published state file may be, for a bot that  *)
(* reads it with a clock of its own.  The four venue calls of a cycle are  *)
(* made one after the other and may be slow; what they return may have     *)
(* been observed earlier; calls and commits fail; the aggregator may die   *)
(* and leave its last file behind.                                         *)
(*                                                                         *)
(* Real time is the venue's clock.  The aggregator's and the reader's may  *)
(* differ from it by a constant.  Amounts are left out: what matters is    *)
(* the instant at which each of them was true.                             *)
(***************************************************************************)
EXTENDS Integers

CONSTANTS HealthWindow,   \* health_window_s
          FutureSkew,     \* future_skew_tolerance_s
          CutMaxSkew,     \* accounting_cut_max_skew_s
          FailThreshold,  \* fail_closed_after_consecutive_failures
          MaxAge,         \* max_age_s of the reader
          Offsets,        \* what a clock may differ from the venue's by
          None,           \* stands for a missing timestamp: no clock shows it
          MaxLag,         \* bound: the age of an observation when it is returned
          MaxTime,        \* bound: the last instant
          MaxFaults       \* bound: failed calls and commits, and crashes

ASSUME FreshnessAssumption ==
  /\ HealthWindow \in Nat \ {0} /\ FutureSkew \in Nat /\ MaxAge \in Nat
  /\ CutMaxSkew \in 0..HealthWindow /\ FailThreshold \in Nat \ {0}
  /\ Offsets \subseteq Int /\ Offsets # {}
  /\ None \in Int /\ None < 0 /\ \A t \in Offsets : None < t
  /\ MaxLag \in Nat /\ MaxTime \in Nat /\ MaxFaults \in Nat

VARIABLES
  now,      \* real time
  skew,     \* [aggregator, reader]: what their clocks show more than now
  faults,   \* failures so far
  pc,       \* the next step of the aggregator
  obs,      \* what the venue calls of this cycle have returned
  mem,      \* AggregatorState
  saved,    \* the checkpoint
  pub       \* the published file

vars == <<now, skew, faults, pc, obs, mem, saved, pub>>

Instant == Int
Venue == 0..MaxTime

\* Timestamps of one cycle: the account snapshot, the positions and the instant
\* they are the positions of, the open orders, the ledger's watermark.
Stamps ==
  [account : Venue, positions : Venue, cut : Venue, orders : Venue, ledger : Venue]
NoStamps ==
  [account |-> None, positions |-> None, cut |-> None, orders |-> None, ledger |-> None]

Memory ==
  [stamps : Stamps \cup {NoStamps}, lastSuccess : Instant, verified : BOOLEAN, failClosed : BOOLEAN,
   failures : Nat, saveAllowed : BOOLEAN]
NewMemory ==
  [stamps |-> NoStamps, lastSuccess |-> None, verified |-> FALSE, failClosed |-> FALSE,
   failures |-> 0, saveAllowed |-> TRUE]

\* metric_metadata, by what the metrics are computed from.  ages is the stored
\* age_seconds, basis the instants at which the published amounts were true.
Metric == {"account", "positions", "orders", "group"}
Publication ==
  [at : Instant, healthy : BOOLEAN, asOf : [Metric -> Instant], ages : [Metric -> Int],
   basis : [Metric -> Instant]]

\* Memory holds the timestamps of a whole cycle or none, those of the running
\* cycle arrive one by one.
TypeOK ==
  /\ now \in Venue /\ faults \in 0..MaxFaults
  /\ skew \in [aggregator : Offsets, reader : Offsets]
  /\ pc \in {"down", "idle", "account", "positions", "orders", "ledger", "validate",
             "apply", "publish"}
  /\ obs \in [DOMAIN NoStamps -> Venue \cup {None}]
  /\ mem \in Memory /\ saved \in Memory /\ pub \in Publication

Fault == faults < MaxFaults /\ faults' = faults + 1
Smaller(a, b) == IF a <= b THEN a ELSE b
Larger(a, b) == IF a <= b THEN b ELSE a

AggregatorClock == now + skew.aggregator
ReaderClock == now + skew.reader

----------------------------------------------------------------------------
(* The venue calls of a cycle *)

Observable == Larger(0, now - MaxLag)..now

Returned(field, next) ==
  \E t \in Observable :
    /\ obs' = [obs EXCEPT ![field] = t]
    /\ pc' = next

StartCycle ==
  /\ pc = "idle" /\ pc' = "account"
  /\ UNCHANGED <<now, skew, faults, obs, mem, saved, pub>>

FetchAccount ==
  /\ pc = "account" /\ Returned("account", "positions")
  /\ UNCHANGED <<now, skew, faults, mem, saved, pub>>

\* Without as_of_cut the positions are those of the observation itself.
FetchPositions ==
  /\ pc = "positions"
  /\ \E t \in Observable : \E cut \in Larger(0, t - MaxLag)..t :
       obs' = [obs EXCEPT !.positions = t, !.cut = cut]
  /\ pc' = "orders"
  /\ UNCHANGED <<now, skew, faults, mem, saved, pub>>

FetchOrders ==
  /\ pc = "orders" /\ Returned("orders", "ledger")
  /\ UNCHANGED <<now, skew, faults, mem, saved, pub>>

FetchLedger ==
  /\ pc = "ledger" /\ Returned("ledger", "validate")
  /\ UNCHANGED <<now, skew, faults, mem, saved, pub>>

----------------------------------------------------------------------------
(* Validation and application *)

\* _require_observation_timestamp.
Fresh(t, clock) == t - clock <= FutureSkew /\ clock - t <= HealthWindow

\* The part of _validate_venue_cycle that judges time.
ValidCycle(o, clock) ==
  /\ \A f \in DOMAIN o : Fresh(o[f], clock)
  /\ \/ o.cut = o.positions /\ o.positions <= o.ledger
     \/ o.cut = o.ledger
  /\ o.ledger - o.cut <= CutMaxSkew

\* _record_reconciliation_failure.  Beyond the threshold the count says nothing more.
RecordFailure(m, force) ==
  [m EXCEPT !.failures = Smaller(@ + 1, FailThreshold),
            !.failClosed = @ \/ force \/ m.failures + 1 >= FailThreshold]

\* _invalidate_cached_enforcement_provenance.
Invalidated(m) ==
  [m EXCEPT !.failClosed = TRUE, !.saveAllowed = FALSE, !.verified = FALSE,
            !.lastSuccess = None, !.stamps = NoStamps]

\* A call raises.
FetchFails ==
  /\ pc \in {"account", "positions", "orders", "ledger"} /\ Fault
  /\ mem' = RecordFailure(mem, FALSE) /\ pc' = "publish" /\ obs' = NoStamps
  /\ UNCHANGED <<now, skew, saved, pub>>

\* The state after a cycle that was validated at a reading of the clock.
Reconciled(clock) ==
  [stamps |-> obs, lastSuccess |-> clock, verified |-> TRUE, failClosed |-> FALSE,
   failures |-> 0, saveAllowed |-> TRUE]

Judged(clock) ==
  /\ pc = "validate"
  /\ mem' = IF ValidCycle(obs, clock) THEN Reconciled(clock) ELSE RecordFailure(mem, TRUE)
  /\ pc' = "publish" /\ obs' = NoStamps
  /\ UNCHANGED <<now, skew, faults, saved, pub>>

\* Mutant of Validate: the clock was read before the calls, at the latest when
\* the first observation was made.
ValidateEarly == Judged(obs.account + skew.aggregator)

\* The clock is read after the last call.  A cycle that passes is applied with
\* its timestamps; one that does not leaves amounts and timestamps, fail-closed.
Validate == Judged(AggregatorClock)

\* Ingestion or a later computation raises: nothing of the old authority is left.
ApplyFails ==
  /\ pc = "validate" /\ Fault
  /\ ValidCycle(obs, AggregatorClock)
  /\ mem' = Invalidated(RecordFailure(mem, TRUE)) /\ pc' = "publish" /\ obs' = NoStamps
  /\ UNCHANGED <<now, skew, saved, pub>>

\* The registry cannot be loaded: a failed cycle without venue calls.
RegistryFails ==
  /\ pc = "idle" /\ Fault
  /\ mem' = RecordFailure(mem, FALSE) /\ pc' = "publish"
  /\ UNCHANGED <<now, skew, obs, saved, pub>>

----------------------------------------------------------------------------
(* Publication *)

Required(m) ==
  {m.lastSuccess, m.stamps.account, m.stamps.positions, m.stamps.orders, m.stamps.ledger}

\* Mutant of Healthy: a recent success is enough.
HealthyBySuccess(m, clock) ==
  ~m.failClosed /\ m.verified /\ m.lastSuccess # None /\ Fresh(m.lastSuccess, clock)

\* _is_healthy.
Healthy(m, clock) ==
  /\ ~m.failClosed /\ m.verified
  /\ \A t \in Required(m) : t # None /\ Fresh(t, clock)

\* Mutant of GroupAsOf: as recent as the more recent of the two.
GroupAsOfLater(s) ==
  IF s.ledger = None \/ s.positions = None THEN None ELSE Larger(s.ledger, s.positions)

\* Realized amounts are counted up to the earlier of the two instants.
GroupAsOf(s) ==
  IF s.ledger = None \/ s.positions = None THEN None ELSE Smaller(s.ledger, s.positions)

\* _state_metric_metadata: source and as_of_ts are missing together.
AsOf(s) ==
  [account |-> s.account, positions |-> s.positions, orders |-> s.orders,
   group |-> GroupAsOf(s)]
\* When the amounts were true: positions at their cut, the group's amounts at the
\* earlier of the cut and the watermark.
Basis(s) ==
  [account |-> s.account, positions |-> s.cut, orders |-> s.orders,
   group |-> Smaller(s.cut, s.ledger)]

\* state_to_dict.
Published(m, clock) ==
  [at |-> clock, healthy |-> Healthy(m, clock), asOf |-> AsOf(m.stamps),
   ages |-> [x \in Metric |-> IF AsOf(m.stamps)[x] = None THEN 0
                              ELSE clock - AsOf(m.stamps)[x]],
   basis |-> Basis(m.stamps)]

\* save_checkpoint if the state is bound to the ledger, then publish_state.
Publish ==
  /\ pc = "publish"
  /\ saved' = IF mem.saveAllowed THEN mem ELSE saved
  /\ pub' = Published(mem, AggregatorClock)
  /\ pc' = "idle"
  /\ UNCHANGED <<now, skew, faults, obs, mem>>

\* The checkpoint cannot be written: the state is invalidated, then published.
SaveFails ==
  /\ pc = "publish" /\ Fault
  /\ mem' = Invalidated(mem) /\ pub' = Published(mem', AggregatorClock)
  /\ pc' = "idle"
  /\ UNCHANGED <<now, skew, obs, saved>>

\* The final publication; the timestamps stay in it.
Shutdown ==
  /\ pc = "idle" /\ Fault
  /\ LET m == [mem EXCEPT !.failClosed = TRUE] IN
     /\ saved' = IF m.saveAllowed THEN m ELSE saved
     /\ pub' = Published(m, AggregatorClock)
  /\ pc' = "down" /\ mem' = NewMemory
  /\ UNCHANGED <<now, skew, obs>>

Crash ==
  /\ pc # "down" /\ Fault
  /\ pc' = "down" /\ mem' = NewMemory /\ obs' = NoStamps
  /\ UNCHANGED <<now, skew, saved, pub>>

\* load_checkpoint keeps the timestamps, with or without the ledger's binding.
Restart ==
  /\ pc = "down" /\ pc' = "idle"
  /\ \E bound \in BOOLEAN :
       mem' = [saved EXCEPT !.verified = @ /\ bound, !.saveAllowed = bound,
                            !.failClosed = @ \/ ~bound]
  /\ UNCHANGED <<now, skew, faults, obs, saved, pub>>

Tick ==
  /\ now < MaxTime /\ now' = now + 1
  /\ UNCHANGED <<skew, faults, pc, obs, mem, saved, pub>>

Init ==
  /\ now = 0 /\ skew \in [aggregator : Offsets, reader : Offsets] /\ faults = 0
  /\ pc = "idle" /\ obs = NoStamps
  /\ mem = NewMemory /\ saved = NewMemory /\ pub = Published(NewMemory, None)

Next ==
  \/ StartCycle \/ FetchAccount \/ FetchPositions \/ FetchOrders \/ FetchLedger
  \/ Validate \/ Publish \/ Restart \/ Tick
  \/ FetchFails \/ ApplyFails \/ RegistryFails \/ SaveFails \/ Shutdown \/ Crash

Spec == Init /\ [][Next]_vars

----------------------------------------------------------------------------
(* The reader *)

\* Mutant of Valid: the stored ages are believed.
ValidByStoredAges(p, clock, maxAge) ==
  \A x \in Metric : /\ p.asOf[x] # None /\ -FutureSkew <= p.ages[x] /\ p.ages[x] <= maxAge

\* validate_state_metric_metadata: age is recomputed with the reader's clock.
Valid(p, clock, maxAge) ==
  /\ -FutureSkew <= clock - p.at /\ clock - p.at <= maxAge
  /\ \A x \in Metric :
       /\ p.asOf[x] # None
       /\ p.ages[x] >= -FutureSkew
       /\ -FutureSkew <= clock - p.asOf[x] /\ clock - p.asOf[x] <= maxAge
       /\ p.asOf[x] - p.at <= FutureSkew

\* A bot acts on a file that says healthy and passes the validation.
Accepts(clock) == pub.healthy /\ Valid(pub, clock, MaxAge)

----------------------------------------------------------------------------
(* Properties *)

\* Whatever a bot accepts was true, at the venue, no longer ago than MaxAge and
\* the difference of the clocks: also hours after the aggregator died, after slow
\* calls, and for amounts whose parts are of different instants.  In particular
\* positions of a historical cut are accepted only while the cut itself is young
\* enough, although their timestamp is that of the observation.
AcceptedIsCurrent ==
  Accepts(ReaderClock) =>
    \A x \in Metric : now - pub.basis[x] <= MaxAge - skew.reader

\* What is published as healthy passes a reader's validation at that instant, if
\* reader and aggregator agree on the clock and on the window: also when the
\* venue's clock is ahead by as much as is tolerated.
HealthyPasses ==
  pub.healthy => Valid(pub, pub.at, HealthWindow)

\* No call is so slow that memory takes over (and judges limits by) an
\* observation which, when it is taken over, is older than the health window.
AdoptedIsCurrent ==
  [][ Validate /\ ~mem'.failClosed =>
        \A f \in DOMAIN obs : now - obs[f] <= HealthWindow - skew.aggregator ]_vars
=============================================================================

# Verification of claude-finance

TLA+ models, model-checking runs and machine-checked proofs for the parts of
this repository that decide whether money may be put at risk: the per-group risk
aggregator with its SQLite fill ledger, checkpoint, log tails and published state
file (`src/risk`), and the strategy registry (`src/orchestrator/registry.py`); and
of the updater that rewrites a project from its template (`scripts/update.py`).

    tlc -workers 2 -config RiskRecovery.cfg MCRiskAggregator     # one run
    tlapm RiskAggregatorProofs.tla                               # one proof module

`PROJECT.json` names, for every definition, the source lines it stands for, for
every property a mutant that breaks it, and for every hazard the properties that
cover it.

## 1. The system

| component | state it keeps | operations | talks to |
|---|---|---|---|
| Fill ledger, `risk/ledger.py` | SQLite file: `fills`, `cash_events`, metadata `cursor`, `as_of`, `generation` | open or create, validate, `ingest_batch`, `realized_pnl_for_day`, `binding` | called by the aggregator; rows come from the venue |
| Risk aggregator, `risk/aggregator.py` | the loop's position and the in-memory `AggregatorState` | start-up and recovery, `reconcile_once`, poll loop, shutdown | venue (4 calls a cycle), registry file, ledger, checkpoint, state file |
| Accounting, `risk/accounting.py` | fields of `AggregatorState`: daily amounts, baselines, cap flags, failure count | day boundary, staged application, signals, failure recording, invalidation | pure functions of the loop |
| Persistence, `risk/persistence.py` | checkpoint JSON (schema 3, reads 1 and 2), the writer lock | save, load and validate against ledger and configuration | ledger binding, disk |
| Observations, `risk/observations.py` | per strategy log: offset, identity, fingerprints, quarantine | cycle validation, null venue, strategy log tail | venue, strategy logs |
| Publication, `risk/publication.py` | published state JSON | health predicate, publish, start-up fail-closed publication | read by bots, which validate its metadata |
| Configuration, `risk/config.py` | none | load and validate `risk_groups.toml` | read at start-up |
| Strategy registry, `orchestrator/registry.py` | `registry.toml`, its lock file, scaffolded directories and config files | register, enable, disable, transition, list, show, audit [--fix], migrate | several processes; read by the aggregator |
| Template updater, `scripts/update.py` | private work directory: staged files, recovery copies | validate and stage, copy for recovery, replace path by path, clean up | project tree, template, the user |

The remaining packages (`backtesting`, `bot`, `monitoring`, `optimization`,
`strategies`, `utils`, `mql5`) are empty placeholders.

What is hard here: the aggregator writes three files (ledger, checkpoint, state)
that no transaction covers and may die between any two of them; positions and
fills come from separate calls made at different instants; the clock moves, also
across midnight UTC; failures must take authority away without forgetting
baselines and caps; operators move strategies through the registry, and bots
write and rotate their logs, between any two calls of a cycle; readers judge the
age of a file whose writer may be dead; registry commands of several processes
share one file through a lock that not every path takes; and an update replaces
many paths with no transaction at all.

What makes each part correct:

* ledger: a batch is all or nothing, the cursor leaves no gap and passes no
  contradiction, whatever was written can be opened again;
* aggregator: every trade is counted once; what is published as healthy is
  durable; baselines and hard caps survive anything but a complete
  reconciliation; its own checkpoints load; it recovers by itself;
* log tail: offset and telemetry agree through failures, a replaced log is
  noticed, a log that only grew is not read twice, quarantine comes when due;
* state file: what a reader accepts was true recently;
* risk group: no fill is skipped and no open position is missing, whatever
  happens in the registry and whichever process runs;
* registry: no lost update, a MagicNumber for one strategy only and for ever,
  exclusive netting slots, no strategy leaves the aggregator's sight, what died half
  way can be repaired, every command ends;
* updater: nothing of the user's is lost, an interrupted update can be completed.

## 2. Modules

```
LedgerContract    <-- implemented by --  FillLedger        (rows, transaction, file)
      ^------------- relied on by ----  RiskAggregator, RiskGroup  (a batch is one step)
RegistryContract  <-- implemented by --  Registry          (processes, lock, file)
      ^------------- used by ---------  RiskGroup         (processes of one group)

StrategyLog        one log tail, inside the aggregator's cycle
StateFreshness     the published file, seen by a reader with its own clock
TemplateUpdater    on its own
```

`LedgerContract` is the joint between the risk modules: `FillLedger` shows that
SQLite's row-by-row transaction implements it, which is why `RiskAggregator` and
`RiskGroup` may commit a batch in one step. In the same way `RegistryContract` is
the registry that `RiskGroup` composes with aggregator processes.

### FillLedger

`file` is the database file (`version0` is the file SQLite creates before the
schema transaction commits, `PRAGMA user_version` 0), `db` the committed content,
`txn` the open transaction of `ingest_batch`, `proc` the owner. `BeginIngest` is
`ingest_batch` up to its transaction, `InsertRow` one `INSERT OR IGNORE` with the
comparison that follows (`Inserted`: the primary key admits one row per identity
and ignores what contradicts it; `NoConflict`: the comparison, which turns that
silence into an exception), `CommitTxn` the metadata updates and the commit,
`Rollback` every exception out of `with connection`, `Crash` the death of the
process anywhere. `hist` is the venue, external: records in the order in which
they became visible; a cursor is a position in it. Replays, late records and
contradicting corrections are batches over `hist`.

Two simplifications: a record's columns other than identity and instant are one
`body`; `_validate_batch`, which checks dozens of column domains, keeps the one
check that relates two things (no record is younger than the watermark), since a
batch that fails any of them changes nothing.

### RiskAggregator

`pc` follows the process: `OpenLedger`, then `RestoreCheckpoint`, `StartFresh` or
`RefuseRecovery` (`_run_forever_locked` up to its loop), then per cycle
`StartCycle`, `Fetch`, `Ingest`, `Apply` (`reconcile_once`), `Save`
(`save_checkpoint`) and `Publish` (`publish_state`). Each step has its failure:
`FetchFails`, `RejectObservation`, `IngestFails`, `ApplyFails`, `SaveFails`,
`RegistryFails`; `Shutdown`, `Crash` and `StartupFails` may come at the places the
code allows. Durable are `ledgerFile`, `db`, `ckpt` and `pub`; memory are `acct`
(amounts, baselines, caps), `prov` (timestamps and `drawdown_baseline_verified`),
`gen` (`checkpoint_ledger_generation`), `saveAllowed`, `failClosed`, `failures`.

Amounts are sets of trades. A trade is an open position until the instant
`closedAt` gives it and a ledger record from then on, so "realized" and
"unrealized" are sets, double counting is a non-empty intersection and
forgetting is a missing element; sums would hide both. Losses (`Net`) are counted
from these sets. A cursor need not be kept: with one history it is a function of
the generation.

`Fetch` lets the venue answer with any combination of position instant, optional
certified cut (`as_of_cut`) and ledger watermark in the past of the clock. The
timestamps of snapshot and orders, which are only checked for freshness, share
`posAsOf`; the tolerance for a venue clock ahead of ours is 0.

Not in the module: exposure sums, counts, drawdown percentages and residual
strategy ids (nothing decides on them), log telemetry (StrategyLog), clocks that
differ and slow calls (StateFreshness), which strategies a cycle asks for and the
null venue (RiskGroup), JSON shapes and decimal domains (a checkpoint is readable
or, as a failure, not), the configuration changing between two runs.

### Registry

Each process executes one command step by step: `Acquire` or `LockTimeout`,
`Ensure` (`path.exists()`, load), `Create` (the empty document), `Refuse` or
`Write` (`atomic_replace`, one step because of `os.replace`), `Release`,
`Scaffold` (two parts: directories, config file), `Finish`. `read` stands for
`list`, `show`, `audit` and `migrate`, which change nothing beyond what `Ensure`
may; `audit_fix` scaffolds what is missing, without the lock, as the code does.
A path is there or not: a config file that a crash cut short in `write_text` counts
as there, for the code too.
`Candidates` is the sequence of MagicNumbers `allocate_magic_number` derives from
an id by salt. `Slot` is account, venue and canonical symbol on a netting
account. Two variables are history: `acked`, registrations that ended with code 0,
and `issued`, every MagicNumber ever written for a strategy, also by a command that
died before it could report it.
External: the operator edits `[[accounts]]` by hand, when no writer is at work.

### StrategyLog

One strategy's log and the aggregator's memory of it. `Open` is the `open` and
`fstat` of `read_strategy_log_delta`, `Check` its comparison of inode, size and two
fingerprints (a replay is decided here), `ReadChunk` the read of at most `Chunk`
bytes, `Mark` the end of the read, where lines are judged, the malformed counted
and new fingerprints taken from the same descriptor; then `Commit` or `Discard`
(the staged copy of `reconcile_once`), `Save`, and `Crash` and `Start`. Between any
two of these the bot may `WriteByte`, `Truncate` (copytruncate), `Rotate` or
`MoveAway` the file. A byte ends a line, spoils it or is neither; a fingerprint is
the content it was computed from, so that SHA-256 collides with nothing.
The queue of malformed timestamps is a bounded deque: `Newest` keeps its last
`QueueLimit` entries and `Pruned` drops those older than the period from its left
end, as `read_strategy_log_delta` does once the lines of a read are judged.

Telemetry is the sequence of bytes it was computed from; `epoch`, `shaken` and
`blind` are history. `Blind` names what the code cannot see: a truncation in the
middle of a read after which the log has grown past the offset again before its
fingerprints are taken, and a new log that differs from the old one only in bytes
that neither fingerprint covers. One strategy is enough, since no status is
shared; the wall clock does not go back.

### StateFreshness

Real time, and an aggregator's and a reader's clock that differ from it by a
constant. Each of the four venue calls is a step during which time may pass, and
returns something observed up to `MaxLag` before. `Validate` is
`_validate_venue_cycle` with the clock read after the calls, `Judged` the outcome;
`Publish` computes health, `metric_metadata` and ages as `state_to_dict` does;
`Valid` is `validate_state_metric_metadata`, and `Accepts` what the bot makes of it.
`basis`, a history field, is the instant at which each published number was true.

A reader must check `healthy` as well: a fail-closed file may have metadata that
validates, so `Accepts` requires both.

### RiskGroup

Operators (`Operate` is any step of RegistryContract), bots that open positions
while enabled and close them at any time, and several aggregator processes with
and without a venue adapter. A process starts (`main`: `Start`, `StartupFails`,
`StartupRefuses`), asks for the writer lock (`TakeLock`, `LockTaken`), restores,
and runs the loop: `LoadRegistry`, `FetchPositions`, `FetchLedger`, then
`RejectCycle`, `RejectBatch` or `Reconcile`, `Save`, `Publish`. The registry is read
once per cycle and positions and fills are fetched later, so strategies are
activated and retired in between. Amounts and time are left out: a fill is its
position in the venue's history. Every id is of the one group; other groups on the
account are not modelled. `due` and `watched` are history fields.

`Adapters` has two kinds, because `VenueClient` passes ids to the adapter without
saying whether it filters by them (the venue's side is external). With an adapter
that answers for the account, a fill of a strategy the cycle did not ask for
rejects the batch, and the next cycle asks again; nothing can be skipped. See
section 5 for one that filters.

### TemplateUpdater

One path per kind of treatment. `Prepare` validates and stages, `CreateRecovery`
copies, `Plan` is the sequence of steps of `_apply_update` for what template and
project have, `Apply` makes one, `ApplyFails` stops in the middle of one: an
exception, Ctrl-C, or a kill (which differs only in that nothing is printed).
Removing and then copying a directory are two steps. The contracts keep two facts:
whose head they have, and whether the local sections are whole. `WriteDesign` is
the user creating DESIGN.md at any time, `Restore` the user copying a damaged path
back "after inspection", as the recovery directory's README says.

### Model-checking modules

`MCFillLedger`, `MCRiskAggregator`, `MCRegistry`, `MCStrategyLog`,
`MCStateFreshness`, `MCRiskGroup` and `MCTemplateUpdater` define the constant values
that a configuration cannot spell (records, functions, permutations, model values).

## 3. Runs

| run | what it asks | bounds and why they are enough |
|---|---|---|
| FillLedger | atomicity, no gap and no contradiction behind the cursor, reopening, the contract | one fill and one cash event id, two bodies (a contradiction), two instants (a late record, a regressed watermark), a history of 3 and 3 generations (empty, replayed and conflicting batches in sequence) |
| RiskRecovery | what survives failures, and recovery from them | 2 faults of any kind anywhere, 2 days of one instant, two snapshots (equity up and down, stressed or not), 3 generations: enough for a healthy publication, a crash between the next commit and its save, one more failure during the recovery, the complete cycle that ends it, and a day boundary at any point of it |
| RiskAccounting | each trade counted once | three trades (two losing, symmetric; one winning) closing at any of 4 instants, days of two instants, every cut of the venue, one fault |
| RegistryNetting | MagicNumbers, exclusivity, no lost update, lifecycle | 2 processes (interference is pairwise: the lock has one holder), 2 strategies whose first MagicNumbers collide and whose netting slot is the same, all commands |
| RegistryFirstUse | audit --fix when the file does not exist yet, and every command ends | 2 processes: a writer that dies half way, and an audit, a reader that blanks the file or a second writer; register, disable, read and audit --fix |
| RegistryLostUpdate | expected to fail, see section 5 | 2 processes, no file at first |
| LogTail | offset, telemetry, replacement, replay, progress | two inodes, logs of 4 bytes, fingerprints of 2 and chunks of 3, two logs (one replacement at any point of a read), one fault, an offset from an old checkpoint |
| LogQuarantine | quarantine | threshold and queue of 2, period of 1 in 3 instants, logs of 8 bytes (four lines): the lines can be spread over cycles and over the period in every way |
| LogLongLine | expected to fail, see section 5 | a chunk of 2 and lines of 3 bytes with their end |
| Freshness | what readers accept | windows of 1 and 2 in 4 instants, both clocks ahead or behind by 1, answers up to 1 old, one fault: every comparison of the code is reached from both sides |
| RiskGroup | skipped fills, missing positions, null venue, two processes, the owner is heard | one strategy through its whole lifecycle (interference is between one strategy and the set a cycle loaded), 2 processes, 2 fills (opened and closed), both kinds of adapter, one fault |
| Updater | recovery copies, completeness, DESIGN.md, retry | every combination of paths that project and template have, two attempts that stop anywhere and further ones that go through |

Each bound is a named constant: `MaxTime` (last instant), `MaxHist` (records the
venue emits), `MaxGen` (no cycle or batch starts at this generation), `MaxFaults`
(failures, crashes and stops together) and `Ops` (commands users call). In
StrategyLog, StateFreshness and RiskGroup also: `MaxBytes`, `LongestLine` and `MaxEpoch` (length of a log
and of its lines, logs begun), `MaxLag` (age of an answer when it arrives),
`MaxFills` (fills of the venue's history). No guard of the code is replaced by a
bound. The liveness properties are checked on the state graphs of the same runs as
the invariants; `OwnerRecovers`, `Recovers` and `RetryCompletes` are stated from
the last fault on, which stands for a long enough time without one.

Deadlock is checked in the runs of Registry, StrategyLog, RiskGroup and
TemplateUpdater. It is not in those of FillLedger, RiskAggregator and
StateFreshness, where the system may really stop: a refused or stopped process waits for a
supervisor, and time, generations and faults are used up.

### Fairness

`RiskAggregator!FairSpec` has weak fairness on `Step`, the disjunction of what the
process does when nothing fails: `run_forever` polls without waiting for anyone,
and start-up belongs to the supervisor (`docker/docker-compose.example.yml` has
`restart: unless-stopped`). It assumes nothing of failures, of the venue's choice
of instants or of the clock. `Registry!FairSpec` has weak fairness on the steps of
each process: a running process is scheduled and its 30 second deadline passes.
Nobody is required to start a command and no process is fair in getting the lock;
a command may always time out.

`StrategyLog!FairSpec` has weak fairness on the aggregator's steps, for the same
reason as `RiskAggregator!FairSpec`, and none on the bot. `RiskGroup!Spec` has it on
each process's steps once it has been started; nobody has to start one, and
failures are never fair. `TemplateUpdater!Spec` assumes that an attempt that
runs goes on, and a user who restores damaged paths and tries again: `RetryCompletes`
says that this is enough.

`Recovers` is stated for a checkpoint with a day. The two states it leaves out are
refusals by design: a ledger without any checkpoint, and a bootstrap checkpoint
(no day yet) after whose save a batch was committed. In both the drawdown baseline
is unknown and an operator has to decide.

## 4. Proofs

The runs check small instances; the following theorems hold for every value of
the constants, under one assumption per module, which says what the code's
validation or the platform guarantees and that the bounds are numbers:
`BoundsAssumption` (FillLedger), `ConfigAssumption` (RiskAggregator: what
`load_aggregator_config` validates), `RegistryAssumption` and `GroupAssumption`
(among others: "free" is no process), `LogAssumption` (the sizes of window, chunk,
queue and threshold are positive), `FreshnessAssumption` (the cut tolerance is
within the health window, and no clock shows what stands for a missing timestamp)
and `UpdaterAssumption`. Every invariant and every action property of the passing
runs is the statement of one of them.

* **FillLedgerProofs.** `LedgerInv` is `TypeOK` with four parts: one committed row per
  identity (the schema); valid metadata; a statement about the open transaction (its
  rows extend the committed ones, and rows and rows still to do together cover the
  history up to its new cursor); and the cursor's coverage. `ContradictionStops` is
  not inductive by itself: it follows because every record behind the cursor is a
  row, that very record and not one with its key, and a key has one row. From the
  same invariant follow `TypeOK`, `CursorCovers`, `ReopenAccepts` and the refinement
  `ImplementsContract`.
* **RiskAggregatorProofs.** `RecoveryInv` says which generation memory and
  checkpoint belong to at each `pc`: amounts bound to the ledger's generation
  recompute from it; a checkpoint's generation is never ahead of the ledger's; a
  process that has not reconciled has nothing to save. `TypeOK` and
  `OwnCheckpointLoads` are part of it: whether a checkpoint still loads after a
  commit depends on its being consistent when it was written.
* **RiskBaselineProofs** adds two invariants. `BaselineInv`: memory's high-water mark
  and, for the same day, its start-of-day equity are at least those of the
  checkpoint once it has been loaded, a save is the only writer, and what is about
  to be published as healthy was just saved. It proves `RestartNeverForgets`,
  `HealthyIsDurable`, `BaselinesMonotone` and `HardCapWithdrawn`. `CountedInv`: no
  trade that closed by the ledger's watermark is missing from the ledger, and
  wherever amounts are verified (memory, checkpoint, published file) they are
  `Accounted`, that is, realized and unrealized split the trades at one cut, which
  the timestamps next to them give. `CountedOnce`, which looks at the published
  file only, is not inductive: a restart publishes what it loaded. The key lemma is
  `TickKeepsClosed`: a trade closes at the instant of the step, so that what had
  closed by an earlier cut stays as it is while the clock moves under a cycle.
* **RegistryProofs.** `SoundInvariant`: in the file, and in every document a process
  has loaded, no two entries share a MagicNumber or a netting slot, and a command
  keeps a sound document sound (lemmas `FirstFreeIsFree`, `UpdatedSound`). Because
  each process writes a function of a sound document, this needs no lock and holds
  even where updates are lost, and with it `NettingExclusive`. It speaks of one
  document at one instant: what an erased entry had is forgotten. `AuditRepairs`
  needs no lock either: paths only come, and `AuditInv` says that what an audit has
  loaded is still on its list or complete. `SerialInvariant`, under
  `ASSUME FileExists`, says that the lock holder's document is the file, so that the
  file keeps every registration acknowledged and every MagicNumber issued;
  `MagicNeverReissued`, `AcknowledgedKept`, `ImplementsContract` and
  `StaysRiskVisible` need it. Section 5 shows why the assumption cannot be dropped.
* **RiskGroupProofs.** `GroupInv` has a part for the registry (an open position is of
  a risk-visible strategy, and so is every strategy a cycle has asked for: the
  lifecycle has no way back to draft), one for the files, and one for the memory of
  each process. `NoFillSkipped` needs what a process carries from one call to the
  next: between the ledger call and the commit, every record behind the cursor is
  in the batch, or is one a filtering adapter left out of a cycle that did not ask
  for its strategy. `HealthyIsLatest` needs the lock: only its holder is in the
  loop, so nobody moves the ledger under the memory of another that could publish.
  `OpenPositionsCovered` and `NoTrustWithoutVenue` hold of memory, checkpoint and
  file alike, since each becomes the next.
* **StateFreshnessProofs.** `FreshnessInv`: memory, checkpoint and file hold the
  timestamps of one whole cycle or none, and the positions of a cycle are those of
  the observation or of the ledger's watermark (`Paired`); what is on disk shows such
  a memory at one reading of the clock. `HealthyPasses` then says that `_is_healthy`
  and the reader's validation judge one memory by the same comparisons.
  `AcceptedIsCurrent` follows because, for whatever is published, one of the
  timestamps the reader checks is no later than the instant at which it was true
  (for positions and group amounts, the group's), and a reader checks all of
  them; `AdoptedIsCurrent` because the clock is read after the last call.
* **TemplateUpdaterProofs.** `UpdaterInv`: what is staged is composed from what is
  found; every step still to do settles its path or a later one does (`Settles`; for
  the plan as a whole this is the lemma `PlanSettles`); a path without a step left is
  as it should be; and what is at stake is in a recovery copy or at a path that is
  not replaced. `SuccessIsComplete` is the second part when nothing is left to do,
  `NothingLost` the last. It is here that the order of the plan matters: thresholds
  are restored after they were overwritten, not before.
* **StrategyLogProofs** has three invariants. `TailInv`: of the log under the path and
  of the one that is open, whichever the memory is of, what was parsed is the part
  before the offset and the fingerprints recognise it (`Follows`); and any log that
  the fingerprints recognise begins with what was parsed (`Faithful`), except where
  `Blind` says that the code cannot know. Both are needed: the first gives
  `OffsetMatchesTelemetry` and `NoNeedlessReplay`, the second `ReplacementIsNoticed`,
  and neither survives the other's steps alone. `StampsInv` relates the bounded,
  pruned queue to the whole history of malformed lines: as long as there is no
  quarantine, the queue is the history's end, and what precedes it is older than
  the period (`EndOf`); from it follow the bound in `TypeOK` and `QuarantineIsDue`, for
  every threshold up to the length of the queue. `QuarantineInv` gives
  `QuarantineSurvives`. `Pruned` and `Newest` are stated by the index from which the
  queue is kept, as the code drops from its left end, so that no fact about them
  needs an induction over sequences.

`TypeOK` of StrategyLog and of StateFreshness is no property of a run: the first is
the theorem `TypeCorrect`, the second a part of `FreshnessInv`.

Only model-checked are the five liveness properties: `Recovers`, `CommandsFinish`,
`RemainderPickedUp`, `OwnerRecovers` and `RetryCompletes`. They hold under fairness,
whose ENABLED is beyond the prover. Induction over data and RECURSIVE operators,
which are beyond it too, do not occur: sequences are described by indices, and
sets of trades and steps by quantifiers. The two expected violations of section 5
are refutations and stay with TLC.

## 5. What the checks found

**An unlocked reader can erase a registration on first use.** `_ensure_registry`
(registry.py:479-490) tests `path.exists()` and, if there is no file, replaces it
by an empty document. `list`, `show` and `audit` call it without the lock. A reader
that has found no file, then a complete `register` of another process, then the
reader's `atomic_replace` leave an empty registry although the registration was
reported as done. The run RegistryLostUpdate has the trace. `write_registry` says
"Caller MUST already hold `locked_registry_file`" (registry.py:462), and
`test_concurrent_register_no_double_magic` expects all registrations to be there.
With the entry its MagicNumber is forgotten, and the next registration may be given
the same one: in the configuration of RegistryFirstUse `MagicNeverReissued` fails in
the same way, although the registry at any one time never shows a number twice.
Once the file exists the code is right: RegistryNetting checks it, RegistryProofs
proves it.

**A line longer than the read chunk stops the tail of its log for ever.**
`read_strategy_log_delta` returns the old offset if a chunk of `max_bytes` has no
newline (observations.py:376-379), and the next cycle reads the same chunk again.
Its docstring (observations.py:334) promises that "the remainder will be picked up
on the next cycle". The run LogLongLine has the trace; LogTail checks the promise
for lines that fit.

Everything else that was checked holds. Observations that are design, or outside
what the code promises:

* A crash between creating the ledger and saving the first checkpoint makes every
  later start refuse (aggregator.py:360).
* A change of a loss limit between two runs can make the stored cap flags
  inconsistent and the checkpoint unloadable (persistence.py:715).
* A cycle that crosses midnight publishes under the day on which it began, and
  counts the new day's fills one cycle later.
* The ledger's cursor is the account's, the ids in the call are the cycle's. An
  adapter that filters fills by the ids skips, for ever, fills that a strategy makes
  between its activation and the first cycle that asks for it, if a cycle that had
  loaded the registry before is on its way to the ledger (the exception in
  `NoFillSkipped`). The adapter has to answer "gap-free" (`VenueLedgerBatch`) for the
  account.
* A configuration error ends a start before anything is published (aggregator.py:475),
  unlike every other failed start: the last state file stays as it was.
* The timestamps of malformed lines are not in the checkpoint: after a restart the
  count begins again, and only a quarantine that was saved is remembered.
* A file that is not healthy may have metadata that validates; readers must check
  `healthy` and `fail_closed` as well.
* A retried update takes what the failed one left for the user's: thresholds that
  were already overwritten by the template's, local sections of a contract that
  were cut after their last marker, a half written DESIGN.md scaffold. It reports
  success; the originals are in the first attempt's recovery copies only
  (`NothingLost`), in the system's directory for temporary files.

## 6. Not modelled, and the plan

| order | module | subject | worth stating or proving |
|---|---|---|---|
| done | FillLedger, RiskAggregator, Registry with contracts and proofs | the core | sections 3 and 4 |
| done | StrategyLog, StateFreshness | log tail; metadata of the state file | section 3 |
| done | RiskGroup | Registry, venue, writer lock and aggregator processes | section 3 |
| done | TemplateUpdater | `scripts/update.py` | section 3 |
| done | proofs | all modules | section 4: every invariant and action property of the passing runs |
| 1 | RiskConfigChange | configuration changing between runs, residual strategies | when a checkpoint stays loadable |
| 2 | proofs | RiskGroup's ledger as an implementation of `LedgerContract` | that several processes behind one lock commit as one |

Outside: the bodies of TOML and JSON parsing, decimal arithmetic (its domain
checks only raise, which the models include as failures), logging, power loss
between `os.replace` and the directory reaching the disk, SQLite and flock
themselves; exposure sums and counts, on which nothing decides; two updaters at
work on one project; the shell front ends.

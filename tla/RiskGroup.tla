------------------------------ MODULE RiskGroup ------------------------------
(***************************************************************************)
(* A risk group: its strategies, which operators move through the registry *)
(* while their bots trade, and the aggregator processes started for it, of *)
(* which the writer lock lets one at a time run the loop.  A process may   *)
(* be started without a venue adapter, may fail before it asks for the     *)
(* lock, and may be stopped or die anywhere.                               *)
(*                                                                         *)
(* The registry is RegistryContract, which Registry implements.  Recovery, *)
(* amounts and time are those of RiskAggregator and StateFreshness: here   *)
(* every answer is recent, and what matters is whose positions and fills a *)
(* cycle has seen.                                                         *)
(***************************************************************************)
EXTENDS Integers, Sequences

CONSTANTS Ids,        \* strategies of the group
          Processes,  \* aggregator processes started for it
          Adapters,   \* how venue adapters use the ids they are asked for: "account"
                      \* answers for the whole account, "filtering" for those ids
          Clients,    \* "venue": an adapter is configured, "null": none is
          MaxFills,   \* bound: fills in the venue's history
          MaxFaults   \* bound: failures, crashes and stops

Free == "free"

ASSUME GroupAssumption ==
  /\ Adapters \subseteq {"account", "filtering"} /\ Adapters # {}
  /\ Clients \subseteq {"venue", "null"} /\ Clients # {}
  /\ MaxFills \in Nat /\ MaxFaults \in Nat
  /\ Free \notin Processes

VARIABLES
  entries,  \* the registry
  adapter,  \* the kind of venue adapter
  open,     \* external: strategies with an open position
  fills,    \* external: the venue's history, the strategy of each fill
  lock,     \* the holder of the writer lock, or Free
  proc,     \* the processes
  ledger,   \* the fill ledger: which fills, and the cursor
  ckpt,     \* the checkpoint, and whether it belongs to the ledger's generation
  pub,      \* the published state file
  faults,   \* failures so far
  watched   \* history: fills made before a cycle first asked for the strategy

world == <<entries, adapter, open, fills, watched>>
files == <<ledger, ckpt, pub>>
vars == <<world, files, lock, proc, faults>>

R == INSTANCE RegistryContract
       WITH Mql5 <- {}, Magics <- {0}, Slot <- [i \in Ids |-> "hedging"]

\* AggregatorState.  from: the client a successful cycle asked, "none" without
\* last_success_ts; due: strategies whose positions were open when that cycle
\* loaded the registry and still were when it asked for positions; upTo: where
\* the ledger stood.
Memory ==
  [failClosed : BOOLEAN, saveAllowed : BOOLEAN, from : {"none", "venue", "null"},
   positions : SUBSET Ids, due : SUBSET Ids, upTo : 0..MaxFills]
NewMemory ==
  [failClosed |-> FALSE, saveAllowed |-> TRUE, from |-> "none", positions |-> {},
   due |-> {}, upTo |-> 0]

\* Fail-closed: the amounts of earlier cycles play no part until a cycle replaces
\* them, and are left out.
Closed(saveAllowed) ==
  [NewMemory EXCEPT !.failClosed = TRUE, !.saveAllowed = saveAllowed]

\* A process with the locals of its cycle.
Process ==
  [pc : {"down", "lock", "loop", "positions", "ledger", "ingest", "save", "publish",
         "unlock"},
   last : BOOLEAN, client : {"venue", "null"}, visible : SUBSET Ids, due : SUBSET Ids,
   positions : SUBSET Ids, batch : SUBSET (1..MaxFills), upTo : 0..MaxFills, mem : Memory]
Down ==
  [pc |-> "down", last |-> FALSE, client |-> "venue", visible |-> {}, due |-> {},
   positions |-> {}, batch |-> {}, upTo |-> 0, mem |-> NewMemory]

Publication == [mem : Memory, healthy : BOOLEAN, by : Processes]

\* Only the lock's holder is in the loop.
TypeOK ==
  /\ entries \in [Ids -> R!Entry] /\ adapter \in Adapters
  /\ open \subseteq Ids /\ fills \in Seq(Ids) /\ Len(fills) <= MaxFills
  /\ watched \in [Ids -> 0..MaxFills] /\ faults \in 0..MaxFaults
  /\ lock \in Processes \cup {Free} /\ proc \in [Processes -> Process]
  /\ \A p \in Processes : (lock = p) <=> proc[p].pc \notin {"down", "lock"}
  /\ ledger \in [recs : SUBSET (1..MaxFills), cursor : 0..MaxFills]
  /\ ckpt \in [mem : Memory, bound : BOOLEAN] /\ pub \in Publication

\* The group has been run before and was stopped.
Init ==
  /\ R!Init /\ adapter \in Adapters /\ open = {} /\ fills = <<>>
  /\ watched = [i \in Ids |-> MaxFills]
  /\ lock = Free /\ proc = [p \in Processes |-> Down] /\ faults = 0
  /\ ledger = [recs |-> {}, cursor |-> 0]
  /\ ckpt = [mem |-> Closed(TRUE), bound |-> TRUE]
  /\ \E p \in Processes : pub = [mem |-> ckpt.mem, healthy |-> FALSE, by |-> p]

Fault == faults < MaxFaults /\ faults' = faults + 1

Becomes(p, state) == proc' = [proc EXCEPT ![p] = state]

----------------------------------------------------------------------------
(* Operators and bots *)

\* config.LIVE_CAPABLE_STATES
LIVE_CAPABLE == {"testnet", "live"}

\* Mutant of RISK_VISIBLE: only strategies that may open positions.
LiveCapableOnly == {"testnet", "live"}

\* config.RISK_VISIBLE_STATES
RISK_VISIBLE == {"testnet", "live", "deprecated", "retired"}

Operate ==
  /\ R!Next
  /\ UNCHANGED <<adapter, open, fills, watched, files, lock, proc, faults>>

\* A bot trades while it is enabled and past draft.
OpenPosition(i) ==
  /\ entries[i].state \in LIVE_CAPABLE /\ entries[i].enabled
  /\ i \notin open /\ Len(fills) < MaxFills
  /\ open' = open \cup {i} /\ fills' = Append(fills, i)
  /\ UNCHANGED <<entries, adapter, watched, files, lock, proc, faults>>

\* A position may be closed whatever has become of the strategy.
ClosePosition(i) ==
  /\ i \in open /\ Len(fills) < MaxFills
  /\ open' = open \ {i} /\ fills' = Append(fills, i)
  /\ UNCHANGED <<entries, adapter, watched, files, lock, proc, faults>>

----------------------------------------------------------------------------
(* Start-up *)

\* load_group_strategies
Visible == {i \in Ids : entries[i].state \in RISK_VISIBLE}

Healthy(m) == ~m.failClosed /\ m.from # "none"
Published(p, m) == [mem |-> m, healthy |-> Healthy(m), by |-> p]
FailClosed(p) == Published(p, Closed(TRUE))

\* The adapter or the registry cannot be loaded, or a path is unsafe: a
\* fail-closed state is published without the lock.
StartupFails(p) ==
  /\ proc[p].pc = "down" /\ Fault
  /\ pub' = FailClosed(p)
  /\ UNCHANGED <<world, lock, proc, ledger, ckpt>>

\* Without an adapter a group with risk-visible strategies is refused.
StartupRefuses(p) ==
  /\ proc[p].pc = "down" /\ "null" \in Clients /\ Visible # {}
  /\ pub' = FailClosed(p)
  /\ UNCHANGED <<world, lock, proc, ledger, ckpt, faults>>

Start(p) ==
  /\ proc[p].pc = "down"
  /\ \E c \in Clients :
       /\ c = "null" => Visible = {}
       /\ Becomes(p, [Down EXCEPT !.pc = "lock", !.client = c])
  /\ UNCHANGED <<world, files, lock, faults>>

\* The lock does not wait: a second process exits and publishes nothing.
LockTaken(p) ==
  /\ proc[p].pc = "lock" /\ lock # Free
  /\ Becomes(p, Down)
  /\ UNCHANGED <<world, files, lock, faults>>

\* load_checkpoint
Restored == IF ckpt.bound THEN ckpt.mem ELSE Closed(FALSE)

\* Mutant of TakeLock: the lock can be shared.
TakeLockShared(p) ==
  /\ proc[p].pc = "lock"
  /\ lock' = p /\ Becomes(p, [proc[p] EXCEPT !.pc = "loop", !.mem = Restored])
  /\ UNCHANGED <<world, files, faults>>

TakeLock(p) ==
  /\ proc[p].pc = "lock" /\ lock = Free
  /\ lock' = p /\ Becomes(p, [proc[p] EXCEPT !.pc = "loop", !.mem = Restored])
  /\ UNCHANGED <<world, files, faults>>

\* Recovery fails: published under the lock, which is then released.
RecoveryFails(p) ==
  /\ proc[p].pc = "lock" /\ lock = Free /\ Fault
  /\ pub' = FailClosed(p) /\ Becomes(p, Down)
  /\ UNCHANGED <<world, lock, ledger, ckpt>>

----------------------------------------------------------------------------
(* The loop *)

At(p, step) == proc[p].pc = step

\* The cycle, or the loop, ends: save, then publish.
Ends(p, m, last) ==
  Becomes(p, [proc[p] EXCEPT !.pc = "save", !.last = last, !.mem = m, !.visible = {},
                             !.due = {}, !.positions = {}, !.batch = {}, !.upTo = 0])

\* Every cycle asks for the strategies that are risk-visible now.
LoadRegistry(p) ==
  /\ At(p, "loop")
  /\ proc[p].client = "null" => Visible = {}
  /\ Becomes(p, [proc[p] EXCEPT !.pc = "positions", !.visible = Visible, !.due = open])
  /\ watched' = [i \in Ids |-> IF i \in Visible /\ watched[i] > Len(fills)
                                 THEN Len(fills) ELSE watched[i]]
  /\ UNCHANGED <<entries, adapter, open, fills, files, lock, faults>>

\* Without an adapter the loop ends when a strategy becomes risk-visible.
RefuseNullVenue(p) ==
  /\ At(p, "loop") /\ proc[p].client = "null" /\ Visible # {}
  /\ Ends(p, Closed(proc[p].mem.saveAllowed), TRUE)
  /\ UNCHANGED <<world, files, lock, faults>>

\* One failure of a call changes nothing, enough of them in a row close the state.
Failed(m) == {m, Closed(m.saveAllowed)}

RegistryFails(p) ==
  /\ At(p, "loop") /\ Fault
  /\ \E m \in Failed(proc[p].mem) : Ends(p, m, FALSE)
  /\ UNCHANGED <<world, files, lock>>

Stop(p) ==
  /\ At(p, "loop") /\ Fault
  /\ Ends(p, Closed(proc[p].mem.saveAllowed), TRUE)
  /\ UNCHANGED <<world, files, lock>>

Asked(p, ids) == IF adapter = "account" THEN ids ELSE ids \cap proc[p].visible

FetchPositions(p) ==
  /\ At(p, "positions")
  /\ Becomes(p, [proc[p] EXCEPT !.pc = "ledger", !.positions = Asked(p, open),
                                !.due = @ \cap open])
  /\ UNCHANGED <<world, files, lock, faults>>

\* The history after the ledger's cursor, whoever traded, up to now.
FetchLedger(p) ==
  /\ At(p, "ledger")
  /\ Becomes(p, [proc[p] EXCEPT
       !.pc = "ingest", !.upTo = Len(fills),
       !.batch = {k \in (ledger.cursor + 1)..Len(fills) : fills[k] \in Asked(p, Ids)}])
  /\ UNCHANGED <<world, files, lock, faults>>

FetchFails(p) ==
  /\ (At(p, "positions") \/ At(p, "ledger")) /\ Fault
  /\ \E m \in Failed(proc[p].mem) : Ends(p, m, FALSE)
  /\ UNCHANGED <<world, files, lock>>

\* Mutant of Authoritative: the null client's answers are taken for a venue's.
AnyAnswer(p) == TRUE

\* The null client says of its answers that they are not authoritative.
Authoritative(p) == proc[p].client # "null"

\* A position of a strategy that was not asked for is foreign.
ValidCycle(p) == Authoritative(p) /\ proc[p].positions \subseteq proc[p].visible

ForeignRecord(p) == \E k \in proc[p].batch : fills[k] \notin proc[p].visible

\* _invalidate_cached_enforcement_provenance
Invalidated == Closed(FALSE)

\* _validate_venue_cycle rejects the answers: fail-closed at once.
RejectCycle(p) ==
  /\ At(p, "ingest") /\ ~ValidCycle(p)
  /\ Ends(p, Closed(proc[p].mem.saveAllowed), FALSE)
  /\ UNCHANGED <<world, files, lock, faults>>

\* ingest_batch rejects a fill of another strategy: the ledger and its cursor
\* stay as they are.
RejectBatch(p) ==
  /\ At(p, "ingest") /\ ValidCycle(p) /\ ForeignRecord(p)
  /\ Ends(p, Invalidated, FALSE)
  /\ UNCHANGED <<world, files, lock, faults>>

\* The batch is committed; the checkpoint is now of an earlier generation.
Commit(records, upTo) ==
  /\ ledger' = [recs |-> ledger.recs \cup records, cursor |-> upTo]
  /\ ckpt' = [ckpt EXCEPT !.bound = FALSE]

Reconciled(p) ==
  [failClosed |-> FALSE, saveAllowed |-> TRUE, from |-> proc[p].client,
   positions |-> proc[p].positions, due |-> proc[p].due, upTo |-> proc[p].upTo]

\* Mutant of Reconcile: fills of other strategies are passed over.
ReconcileOwn(p) ==
  /\ At(p, "ingest") /\ ValidCycle(p)
  /\ Commit({k \in proc[p].batch : fills[k] \in proc[p].visible}, proc[p].upTo)
  /\ Ends(p, Reconciled(p), FALSE)
  /\ UNCHANGED <<world, lock, pub, faults>>

Reconcile(p) ==
  /\ At(p, "ingest") /\ ValidCycle(p) /\ ~ForeignRecord(p)
  /\ Commit(proc[p].batch, proc[p].upTo)
  /\ Ends(p, Reconciled(p), FALSE)
  /\ UNCHANGED <<world, lock, pub, faults>>

\* Something after the commit raises.
ReconcileFails(p) ==
  /\ At(p, "ingest") /\ ValidCycle(p) /\ ~ForeignRecord(p) /\ Fault
  /\ Commit(proc[p].batch, proc[p].upTo)
  /\ Ends(p, Invalidated, FALSE)
  /\ UNCHANGED <<world, lock, pub>>

Save(p) ==
  /\ At(p, "save")
  /\ ckpt' = IF proc[p].mem.saveAllowed THEN [mem |-> proc[p].mem, bound |-> TRUE] ELSE ckpt
  /\ Becomes(p, [proc[p] EXCEPT !.pc = "publish"])
  /\ UNCHANGED <<world, lock, ledger, pub, faults>>

SaveFails(p) ==
  /\ At(p, "save") /\ Fault
  /\ Becomes(p, [proc[p] EXCEPT !.pc = "publish", !.mem = Invalidated])
  /\ UNCHANGED <<world, files, lock>>

Publish(p) ==
  /\ At(p, "publish")
  /\ pub' = Published(p, proc[p].mem)
  /\ Becomes(p, [proc[p] EXCEPT !.pc = IF proc[p].last THEN "unlock" ELSE "loop"])
  /\ UNCHANGED <<world, lock, ledger, ckpt, faults>>

\* Mutant of Unlock: the lock is a file that somebody must remove.
UnlockForgotten(p) ==
  /\ At(p, "unlock")
  /\ Becomes(p, Down)
  /\ UNCHANGED <<world, files, lock, faults>>

Unlock(p) ==
  /\ At(p, "unlock")
  /\ lock' = Free /\ Becomes(p, Down)
  /\ UNCHANGED <<world, files, faults>>

\* The operating system releases a dead process's lock.
Crash(p) ==
  /\ ~At(p, "down") /\ Fault
  /\ lock' = IF lock = p THEN Free ELSE lock
  /\ Becomes(p, Down)
  /\ UNCHANGED <<world, files>>

Step(p) ==
  \/ LockTaken(p) \/ TakeLock(p) \/ LoadRegistry(p) \/ RefuseNullVenue(p)
  \/ FetchPositions(p) \/ FetchLedger(p) \/ RejectCycle(p) \/ RejectBatch(p)
  \/ Reconcile(p) \/ Save(p) \/ Publish(p) \/ Unlock(p)
Failure(p) ==
  \/ StartupFails(p) \/ RecoveryFails(p) \/ RegistryFails(p) \/ Stop(p) \/ FetchFails(p)
  \/ ReconcileFails(p) \/ SaveFails(p) \/ Crash(p)

Next ==
  \/ Operate \/ \E i \in Ids : OpenPosition(i) \/ ClosePosition(i)
  \/ \E p \in Processes : Start(p) \/ StartupRefuses(p) \/ Step(p) \/ Failure(p)

\* A process that runs keeps running; nobody has to start one.  Every step of a
\* process changes proc.
Spec == Init /\ [][Next]_vars /\ \A p \in Processes : WF_proc(Step(p))

----------------------------------------------------------------------------
(* Properties *)

\* Whatever operators do to the registry between two reads of it, the ledger's
\* cursor never passes a fill the ledger does not have.  A filtering adapter
\* allows one exception: fills a strategy made before any cycle asked for it,
\* which a cycle that loaded the registry before its activation can skip.
NoFillSkipped ==
  \A k \in 1..ledger.cursor :
    \/ k \in ledger.recs
    \/ (adapter = "filtering" /\ k <= watched[fills[k]])

\* A healthy state covers every position that was open all the time between the
\* cycle's load of the registry and its call for positions, also those of
\* strategies that were disabled, deprecated or retired with the position open.
OpenPositionsCovered == pub.healthy => pub.mem.due \subseteq pub.mem.positions

\* What is published as healthy was observed through a venue adapter, whatever
\* processes were started without one, before the group's first strategy was
\* activated or after.
NoTrustWithoutVenue == pub.healthy => pub.mem.from = "venue"

\* What is published as healthy stands at the ledger's last commit: no process
\* publishes amounts that another one has overtaken.
HealthyIsLatest ==
  [][pub' # pub /\ pub'.healthy => pub'.mem.upTo = ledger.cursor]_vars

\* A process that runs the loop with an adapter makes itself heard in the end, and
\* healthy: over fail-closed files of processes that failed to start without
\* holding the lock, and although strategies are activated while it runs.
OwnerRecovers ==
  \A p \in Processes :
    (lock = p /\ proc[p].client = "venue" /\ faults = MaxFaults)
      ~> ((pub.healthy /\ pub.by = p) \/ lock # p)
=============================================================================

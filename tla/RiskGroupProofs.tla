--------------------------- MODULE RiskGroupProofs ---------------------------
(***************************************************************************)
(* For every set of strategies and of processes, and every number of fills *)
(* and failures: the ledger of a risk group has no gap, what is published  *)
(* as healthy was observed through a venue, covers the open positions and  *)
(* stands at the ledger's last commit.                                     *)
(***************************************************************************)
EXTENDS RiskGroup, TLAPS

-----------------------------------------------------------------------------
(* Steps of one process *)

LEMMA BecomesState ==
  ASSUME TypeOK, NEW p \in Processes, NEW s, Becomes(p, s)
  PROVE  /\ proc'[p] = s
         /\ \A q \in Processes : q # p => proc'[q] = proc[q]
         /\ s \in Process => proc' \in [Processes -> Process]
BY DEF TypeOK, Becomes

LEMMA MemoryTypes ==
  /\ NewMemory \in Memory
  /\ \A allowed \in BOOLEAN : Closed(allowed) =
       [failClosed |-> TRUE, saveAllowed |-> allowed, from |-> "none",
        positions |-> {}, due |-> {}, upTo |-> 0]
  /\ \A allowed \in BOOLEAN : Closed(allowed) \in Memory
<1>1. NewMemory \in Memory
  BY GroupAssumption DEF NewMemory, Memory
<1>2. ASSUME NEW allowed \in BOOLEAN, NEW m, m = Closed(allowed)
      PROVE  m = [failClosed |-> TRUE, saveAllowed |-> allowed, from |-> "none",
                  positions |-> {}, due |-> {}, upTo |-> 0]
  BY <1>2, Zenon DEF Closed, NewMemory
<1>3. ASSUME NEW allowed \in BOOLEAN
      PROVE  Closed(allowed) = [failClosed |-> TRUE, saveAllowed |-> allowed, from |-> "none",
                                positions |-> {}, due |-> {}, upTo |-> 0]
  BY <1>2
<1>4. ASSUME NEW allowed \in BOOLEAN PROVE Closed(allowed) \in Memory
  <2>1. [failClosed |-> TRUE, saveAllowed |-> allowed, from |-> "none",
         positions |-> {}, due |-> {}, upTo |-> 0] \in Memory
    BY <1>4, GroupAssumption DEF Memory
  <2>2. QED
    BY <1>3, <2>1
<1>5. QED
  BY <1>1, <1>3, <1>4

LEMMA EndsState ==
  ASSUME TypeOK, NEW p \in Processes, NEW m \in Memory, NEW last \in BOOLEAN,
         Ends(p, m, last)
  PROVE  /\ proc' \in [Processes -> Process]
         /\ \A q \in Processes : q # p => proc'[q] = proc[q]
         /\ proc'[p].pc = "save" /\ proc'[p].mem = m
<1>1. proc[p] \in Process
  BY DEF TypeOK
<1>2. /\ proc'[p] = [proc[p] EXCEPT !.pc = "save", !.last = last, !.mem = m,
                       !.visible = {}, !.due = {}, !.positions = {}, !.batch = {}, !.upTo = 0]
      /\ \A q \in Processes : q # p => proc'[q] = proc[q]
      /\ proc'[p] \in Process => proc' \in [Processes -> Process]
  BY BecomesState, Zenon DEF Ends
<1>3. proc'[p] = [pc |-> "save", last |-> last, client |-> proc[p].client,
                  visible |-> {}, due |-> {}, positions |-> {}, batch |-> {},
                  upTo |-> 0, mem |-> m]
  BY <1>1, <1>2, Zenon DEF Process
<1>4. proc'[p] \in Process
  BY <1>1, <1>3, GroupAssumption DEF Process
<1>5. /\ proc'[p].pc = "save" /\ proc'[p].mem = m
  BY <1>3
<1>6. QED
  BY <1>2, <1>4, <1>5
Batch(p) == {k \in (ledger.cursor + 1)..Len(fills) : fills[k] \in Asked(p, Ids)}

LEMMA TakeLockState ==
  ASSUME TypeOK, NEW p \in Processes, TakeLock(p)
  PROVE  /\ proc' \in [Processes -> Process]
         /\ \A q \in Processes : q # p => proc'[q] = proc[q]
         /\ proc'[p].pc = "loop" /\ proc'[p].mem = Restored
<1>1. proc[p] \in Process /\ Restored \in Memory
  BY MemoryTypes DEF TypeOK, Restored
<1>2. /\ proc'[p] = [proc[p] EXCEPT !.pc = "loop", !.mem = Restored]
      /\ \A q \in Processes : q # p => proc'[q] = proc[q]
      /\ proc'[p] \in Process => proc' \in [Processes -> Process]
  BY BecomesState, Zenon DEF TakeLock
<1>3. proc'[p] = [pc |-> "loop", last |-> proc[p].last, client |-> proc[p].client,
                  visible |-> proc[p].visible, due |-> proc[p].due, positions |-> proc[p].positions,
                  batch |-> proc[p].batch, upTo |-> proc[p].upTo, mem |-> Restored]
  BY <1>1, <1>2, Zenon DEF Process
<1>4. proc'[p] \in Process
  BY <1>1, <1>3, GroupAssumption DEF Process
<1>5. /\ proc'[p].pc = "loop" /\ proc'[p].mem = Restored
  BY <1>3
<1>6. QED
  BY <1>2, <1>4, <1>5

LEMMA LoadRegistryState ==
  ASSUME TypeOK, NEW p \in Processes, LoadRegistry(p)
  PROVE  /\ proc' \in [Processes -> Process]
         /\ \A q \in Processes : q # p => proc'[q] = proc[q]
         /\ proc'[p].pc = "positions" /\ proc'[p].visible = Visible
         /\ proc'[p].due = open /\ proc'[p].mem = proc[p].mem
<1>1. proc[p] \in Process /\ Visible \subseteq Ids /\ open \subseteq Ids
  BY DEF TypeOK, Visible
<1>2. /\ proc'[p] = [proc[p] EXCEPT !.pc = "positions", !.visible = Visible, !.due = open]
      /\ \A q \in Processes : q # p => proc'[q] = proc[q]
      /\ proc'[p] \in Process => proc' \in [Processes -> Process]
  BY BecomesState, Zenon DEF LoadRegistry
<1>3. proc'[p] = [pc |-> "positions", last |-> proc[p].last, client |-> proc[p].client,
                  visible |-> Visible, due |-> open, positions |-> proc[p].positions,
                  batch |-> proc[p].batch, upTo |-> proc[p].upTo, mem |-> proc[p].mem]
  BY <1>1, <1>2, Zenon DEF Process
<1>4. proc'[p] \in Process
  BY <1>1, <1>3, GroupAssumption DEF Process
<1>5. /\ proc'[p].pc = "positions" /\ proc'[p].visible = Visible
      /\ proc'[p].due = open /\ proc'[p].mem = proc[p].mem
  BY <1>3
<1>6. QED
  BY <1>2, <1>4, <1>5

LEMMA FetchPositionsState ==
  ASSUME TypeOK, NEW p \in Processes, FetchPositions(p)
  PROVE  /\ proc' \in [Processes -> Process]
         /\ \A q \in Processes : q # p => proc'[q] = proc[q]
         /\ proc'[p].pc = "ledger" /\ proc'[p].visible = proc[p].visible
         /\ proc'[p].positions = Asked(p, open)
         /\ proc'[p].due = proc[p].due \cap open /\ proc'[p].mem = proc[p].mem
<1>1. proc[p] \in Process /\ Asked(p, open) \subseteq Ids /\ open \subseteq Ids
  BY DEF TypeOK, Asked
<1>2. /\ proc'[p] = [proc[p] EXCEPT !.pc = "ledger", !.positions = Asked(p, open),
                                   !.due = @ \cap open]
      /\ \A q \in Processes : q # p => proc'[q] = proc[q]
      /\ proc'[p] \in Process => proc' \in [Processes -> Process]
  BY BecomesState, Zenon DEF FetchPositions
<1>3. proc'[p] = [pc |-> "ledger", last |-> proc[p].last, client |-> proc[p].client,
                  visible |-> proc[p].visible, due |-> proc[p].due \cap open, positions |-> Asked(p, open),
                  batch |-> proc[p].batch, upTo |-> proc[p].upTo, mem |-> proc[p].mem]
  BY <1>1, <1>2, Zenon DEF Process
<1>4. proc'[p] \in Process
  BY <1>1, <1>3, GroupAssumption DEF Process
<1>5. /\ proc'[p].pc = "ledger" /\ proc'[p].visible = proc[p].visible
      /\ proc'[p].positions = Asked(p, open) /\ proc'[p].due = proc[p].due \cap open
      /\ proc'[p].mem = proc[p].mem
  BY <1>3
<1>6. QED
  BY <1>2, <1>4, <1>5

LEMMA FetchLedgerState ==
  ASSUME TypeOK, NEW p \in Processes, FetchLedger(p)
  PROVE  /\ proc' \in [Processes -> Process]
         /\ \A q \in Processes : q # p => proc'[q] = proc[q]
         /\ proc'[p].pc = "ingest" /\ proc'[p].visible = proc[p].visible
         /\ proc'[p].positions = proc[p].positions /\ proc'[p].due = proc[p].due
         /\ proc'[p].batch = Batch(p) /\ proc'[p].upTo = Len(fills)
         /\ proc'[p].mem = proc[p].mem
<1>1. proc[p] \in Process /\ Batch(p) \subseteq 1..MaxFills /\ Len(fills) \in 0..MaxFills
  BY GroupAssumption DEF TypeOK, Batch
<1>2. /\ proc'[p] = [proc[p] EXCEPT !.pc = "ingest", !.upTo = Len(fills), !.batch = Batch(p)]
      /\ \A q \in Processes : q # p => proc'[q] = proc[q]
      /\ proc'[p] \in Process => proc' \in [Processes -> Process]
  BY BecomesState, Zenon DEF FetchLedger, Batch
<1>3. proc'[p] = [pc |-> "ingest", last |-> proc[p].last, client |-> proc[p].client,
                  visible |-> proc[p].visible, due |-> proc[p].due, positions |-> proc[p].positions,
                  batch |-> Batch(p), upTo |-> Len(fills), mem |-> proc[p].mem]
  BY <1>1, <1>2, Zenon DEF Process
<1>4. proc'[p] \in Process
  BY <1>1, <1>3, GroupAssumption DEF Process
<1>5. /\ proc'[p].pc = "ingest" /\ proc'[p].visible = proc[p].visible
      /\ proc'[p].positions = proc[p].positions /\ proc'[p].due = proc[p].due
      /\ proc'[p].batch = Batch(p) /\ proc'[p].upTo = Len(fills)
      /\ proc'[p].mem = proc[p].mem
  BY <1>3
<1>6. QED
  BY <1>2, <1>4, <1>5

LEMMA SaveState ==
  ASSUME TypeOK, NEW p \in Processes, Save(p)
  PROVE  /\ proc' \in [Processes -> Process]
         /\ \A q \in Processes : q # p => proc'[q] = proc[q]
         /\ proc'[p].pc = "publish" /\ proc'[p].mem = proc[p].mem
<1>1. proc[p] \in Process
  BY DEF TypeOK
<1>2. /\ proc'[p] = [proc[p] EXCEPT !.pc = "publish"]
      /\ \A q \in Processes : q # p => proc'[q] = proc[q]
      /\ proc'[p] \in Process => proc' \in [Processes -> Process]
  BY BecomesState, Zenon DEF Save
<1>3. proc'[p] = [pc |-> "publish", last |-> proc[p].last, client |-> proc[p].client,
                  visible |-> proc[p].visible, due |-> proc[p].due, positions |-> proc[p].positions,
                  batch |-> proc[p].batch, upTo |-> proc[p].upTo, mem |-> proc[p].mem]
  BY <1>1, <1>2, Zenon DEF Process
<1>4. proc'[p] \in Process
  BY <1>1, <1>3, GroupAssumption DEF Process
<1>5. /\ proc'[p].pc = "publish" /\ proc'[p].mem = proc[p].mem
  BY <1>3
<1>6. QED
  BY <1>2, <1>4, <1>5

LEMMA SaveFailsState ==
  ASSUME TypeOK, NEW p \in Processes, SaveFails(p)
  PROVE  /\ proc' \in [Processes -> Process]
         /\ \A q \in Processes : q # p => proc'[q] = proc[q]
         /\ proc'[p].pc = "publish" /\ proc'[p].mem = Invalidated
<1>1. proc[p] \in Process /\ Invalidated \in Memory
  BY MemoryTypes DEF TypeOK, Invalidated
<1>2. /\ proc'[p] = [proc[p] EXCEPT !.pc = "publish", !.mem = Invalidated]
      /\ \A q \in Processes : q # p => proc'[q] = proc[q]
      /\ proc'[p] \in Process => proc' \in [Processes -> Process]
  BY BecomesState, Zenon DEF SaveFails
<1>3. proc'[p] = [pc |-> "publish", last |-> proc[p].last, client |-> proc[p].client,
                  visible |-> proc[p].visible, due |-> proc[p].due, positions |-> proc[p].positions,
                  batch |-> proc[p].batch, upTo |-> proc[p].upTo, mem |-> Invalidated]
  BY <1>1, <1>2, Zenon DEF Process
<1>4. proc'[p] \in Process
  BY <1>1, <1>3, GroupAssumption DEF Process
<1>5. /\ proc'[p].pc = "publish" /\ proc'[p].mem = Invalidated
  BY <1>3
<1>6. QED
  BY <1>2, <1>4, <1>5

LEMMA PublishState ==
  ASSUME TypeOK, NEW p \in Processes, Publish(p)
  PROVE  /\ proc' \in [Processes -> Process]
         /\ \A q \in Processes : q # p => proc'[q] = proc[q]
         /\ proc'[p].pc = (IF proc[p].last THEN "unlock" ELSE "loop")
         /\ proc'[p].mem = proc[p].mem
<1>1. proc[p] \in Process
  BY DEF TypeOK
<1>2. /\ proc'[p] = [proc[p] EXCEPT !.pc = IF proc[p].last THEN "unlock" ELSE "loop"]
      /\ \A q \in Processes : q # p => proc'[q] = proc[q]
      /\ proc'[p] \in Process => proc' \in [Processes -> Process]
  BY BecomesState, Zenon DEF Publish
<1>3. proc'[p] = [pc |-> IF proc[p].last THEN "unlock" ELSE "loop", last |-> proc[p].last, client |-> proc[p].client,
                  visible |-> proc[p].visible, due |-> proc[p].due, positions |-> proc[p].positions,
                  batch |-> proc[p].batch, upTo |-> proc[p].upTo, mem |-> proc[p].mem]
  BY <1>1, <1>2, Zenon DEF Process
<1>4. proc'[p] \in Process
  BY <1>1, <1>3, GroupAssumption DEF Process
<1>5. /\ proc'[p].pc = (IF proc[p].last THEN "unlock" ELSE "loop")
      /\ proc'[p].mem = proc[p].mem
  BY <1>3
<1>6. QED
  BY <1>2, <1>4, <1>5

-----------------------------------------------------------------------------
(* The invariant *)

\* An open position is one of a risk-visible strategy, and so is every strategy
\* a cycle has asked for: the lifecycle has no way back to draft.
RegistryInv ==
  /\ open \subseteq Visible
  /\ \A i \in Ids : watched[i] # MaxFills => i \in Visible

\* What a memory was observed through and what it covers.
Sound(m) == m.due \subseteq m.positions /\ m.from # "null"

Current(m) == Healthy(m) => m.upTo = ledger.cursor

\* What a process has seen so far in its cycle.
ProcessInv(s) ==
  /\ Sound(s.mem)
  /\ s.pc \notin {"down", "lock"} => Current(s.mem)
  /\ s.pc \in {"positions", "ledger", "ingest"} =>
       \A i \in Ids \ s.visible : watched[i] = MaxFills
  /\ s.pc = "positions" => s.due \subseteq s.visible
  /\ s.pc \in {"ledger", "ingest"} => s.due \subseteq s.positions
  /\ s.pc = "ingest" =>
       /\ ledger.cursor <= s.upTo /\ s.upTo <= Len(fills)
       /\ \A k \in (ledger.cursor + 1)..s.upTo :
            k \in s.batch \/ (adapter = "filtering" /\ fills[k] \notin s.visible)

FilesInv ==
  /\ ledger.cursor <= Len(fills) /\ NoFillSkipped
  /\ Sound(ckpt.mem) /\ (ckpt.bound => Current(ckpt.mem))
  /\ Sound(pub.mem) /\ (pub.healthy <=> Healthy(pub.mem))

GroupInv ==
  TypeOK /\ RegistryInv /\ FilesInv /\ \A p \in Processes : ProcessInv(proc[p])

-----------------------------------------------------------------------------
(* What steps have in common *)

LEMMA ClosedIsUnhealthy ==
  ASSUME NEW allowed \in BOOLEAN
  PROVE  Sound(Closed(allowed)) /\ ~Healthy(Closed(allowed)) /\ Closed(allowed) \in Memory
BY MemoryTypes DEF Sound, Healthy

LEMMA BlankIsSound == Sound(NewMemory) /\ ~Healthy(NewMemory) /\ NewMemory \in Memory
BY MemoryTypes DEF Sound, Healthy, NewMemory

LEMMA DownState == Down \in Process /\ Down.pc = "down" /\ Down.mem = NewMemory
BY MemoryTypes, GroupAssumption DEF Down, Process

LEMMA LengthType == TypeOK => Len(fills) \in Nat /\ Len(fills) <= MaxFills
BY DEF TypeOK

\* What holds of a process does not depend on what other processes do: only the
\* lock's holder touches the ledger or loads the registry.
LEMMA OthersInv ==
  ASSUME GroupInv, NEW p \in Processes, NEW q \in Processes, q # p, proc'[q] = proc[q],
         UNCHANGED <<adapter, fills>>, UNCHANGED <<ledger, watched>> \/ lock = p
  PROVE  ProcessInv(proc[q])'
<1>1. ProcessInv(proc[q])
  BY DEF GroupInv
<1>2. CASE UNCHANGED <<ledger, watched>>
  BY <1>1, <1>2 DEF ProcessInv, Current
<1>3. CASE lock = p
  <2>1. proc[q].pc \in {"down", "lock"}
    BY <1>3 DEF GroupInv, TypeOK
  <2>2. QED
    BY <1>1, <2>1 DEF ProcessInv
<1>4. QED
  BY <1>2, <1>3

\* A step of one process: what has to be shown of it.
LEMMA ProcessStep ==
  ASSUME GroupInv, NEW p \in Processes,
         proc' \in [Processes -> Process],
         \A q \in Processes : q # p => proc'[q] = proc[q],
         UNCHANGED <<entries, adapter, open, fills>>,
         UNCHANGED <<ledger, watched>> \/ lock = p,
         watched' \in [Ids -> 0..MaxFills], faults' \in 0..MaxFaults,
         lock' \in Processes \cup {Free},
         (lock' = p) <=> proc'[p].pc \notin {"down", "lock"},
         \A q \in Processes : q # p => ((lock' = q) <=> (lock = q)),
         ledger' \in [recs : SUBSET (1..MaxFills), cursor : 0..MaxFills],
         ckpt' \in [mem : Memory, bound : BOOLEAN], pub' \in Publication,
         \A i \in Ids : watched'[i] # MaxFills => watched[i] # MaxFills \/ i \in Visible,
         FilesInv', ProcessInv(proc[p])'
  PROVE  GroupInv'
<1>1. TypeOK'
  <2>1. \A q \in Processes : (lock' = q) <=> proc'[q].pc \notin {"down", "lock"}
    BY DEF GroupInv, TypeOK
  <2>2. QED
    BY <2>1 DEF GroupInv, TypeOK
<1>2. RegistryInv'
  BY DEF GroupInv, RegistryInv, Visible
<1>3. \A q \in Processes : ProcessInv(proc[q])'
  BY OthersInv
<1>4. QED
  BY <1>1, <1>2, <1>3 DEF GroupInv

\* The files are as good as before when they do not change and nothing happens
\* to the history.
LEMMA FilesKept ==
  ASSUME FilesInv, UNCHANGED <<files, adapter, fills, watched>>
  PROVE  FilesInv'
BY DEF FilesInv, files, NoFillSkipped, Current

LEMMA PublicationType ==
  ASSUME NEW m \in Memory, NEW healthy \in BOOLEAN, NEW p \in Processes
  PROVE  [mem |-> m, healthy |-> healthy, by |-> p] \in Publication
BY DEF Publication

\* A fail-closed publication changes nothing else.
LEMMA FailClosedPublished ==
  ASSUME GroupInv, NEW p \in Processes, pub' = FailClosed(p),
         UNCHANGED <<ledger, ckpt, adapter, fills, watched>>
  PROVE  FilesInv' /\ pub' \in Publication
<1>1. /\ pub'.mem = Closed(TRUE) /\ pub'.healthy = FALSE
      /\ pub' = [mem |-> Closed(TRUE), healthy |-> FALSE, by |-> p]
  <2>1. Healthy(Closed(TRUE)) = FALSE
    <3>1. ~Healthy(Closed(TRUE))
      BY ClosedIsUnhealthy
    <3>2. QED
      BY <3>1, Zenon DEF Healthy
  <2>2. pub' = [mem |-> Closed(TRUE), healthy |-> FALSE, by |-> p]
    BY <2>1, Zenon DEF FailClosed, Published
  <2>3. QED
    BY <2>2
<1>2. Sound(pub'.mem) /\ ~Healthy(pub'.mem) /\ Closed(TRUE) \in Memory
  BY <1>1, ClosedIsUnhealthy
<1>3. QED
  <2>1. pub' \in Publication
    BY <1>1, <1>2, PublicationType
  <2>2. FilesInv'
    BY <1>1, <1>2 DEF GroupInv, FilesInv, NoFillSkipped, Current
  <2>3. QED
    BY <2>1, <2>2

\* The end of a cycle, with whatever memory it leaves.
LEMMA EndsInv ==
  ASSUME GroupInv, NEW p \in Processes, NEW m \in Memory, NEW last \in BOOLEAN,
         Ends(p, m, last), proc[p].pc \notin {"down", "lock"},
         Sound(m), Healthy(m) => m.upTo = ledger'.cursor,
         UNCHANGED <<world, lock, pub>>, faults' \in 0..MaxFaults,
         ledger' \in [recs : SUBSET (1..MaxFills), cursor : 0..MaxFills],
         ckpt' \in [mem : Memory, bound : BOOLEAN], FilesInv'
  PROVE  GroupInv'
<1>1. /\ proc' \in [Processes -> Process]
      /\ \A q \in Processes : q # p => proc'[q] = proc[q]
      /\ proc'[p].pc = "save" /\ proc'[p].mem = m
  <2>1. TypeOK
    BY DEF GroupInv
  <2>2. QED
    BY <2>1, EndsState
<1>2. lock = p /\ UNCHANGED <<entries, adapter, open, fills, watched, lock, pub>>
  BY DEF GroupInv, TypeOK, world
<1>3. ProcessInv(proc[p])'
  BY <1>1 DEF ProcessInv, Current
<1>4. lock' \in Processes \cup {Free} /\ watched' \in [Ids -> 0..MaxFills] /\ pub' \in Publication
  BY <1>2 DEF GroupInv, TypeOK
<1>5. QED
  BY <1>1, <1>2, <1>3, <1>4, ProcessStep

-----------------------------------------------------------------------------
(* Operators and bots *)

\* The registry never takes a strategy out of sight.
LEMMA RegistryStep ==
  ASSUME TypeOK, R!Next
  PROVE  /\ entries' \in [Ids -> R!Entry]
         /\ \A i \in Ids : entries[i].state \in RISK_VISIBLE
              => entries'[i].state \in RISK_VISIBLE
<1>1. PICK i \in Ids : \/ \E magic \in {0} : R!Register(i, magic)
                       \/ \E target \in R!States : R!Transition(i, target)
                       \/ \E flag \in BOOLEAN : R!SetEnabled(i, flag)
  BY DEF R!Next
<1>2. entries \in [Ids -> R!Entry] /\ entries[i] \in R!Entry
  BY DEF TypeOK
<1>3. ASSUME NEW e \in R!Entry, entries' = [entries EXCEPT ![i] = e],
             entries[i].state \in RISK_VISIBLE => e.state \in RISK_VISIBLE
      PROVE  /\ entries' \in [Ids -> R!Entry]
             /\ \A j \in Ids : entries[j].state \in RISK_VISIBLE
                  => entries'[j].state \in RISK_VISIBLE
  BY <1>2, <1>3
<1>4. CASE \E magic \in {0} : R!Register(i, magic)
  <2>1. PICK magic \in {0} : R!Register(i, magic)
    BY <1>4
  <2> DEFINE e == [state |-> "draft", enabled |-> FALSE, magic |-> magic]
  <2>2. e \in R!Entry /\ entries[i].state \notin RISK_VISIBLE
    BY <2>1 DEF R!Register, R!Known, R!Entry, R!States, RISK_VISIBLE
  <2>3. entries' = [entries EXCEPT ![i] = e]
    BY <2>1 DEF R!Register
  <2>4. QED
    BY <1>3, <2>2, <2>3
<1>5. CASE \E target \in R!States : R!Transition(i, target)
  <2>1. PICK target \in R!States : R!Transition(i, target)
    BY <1>5
  <2> DEFINE e == [state |-> target, magic |-> entries[i].magic,
                   enabled |-> entries[i].enabled /\ target # "deprecated"]
  <2>2. (entries[i].enabled /\ target # "deprecated") \in BOOLEAN
    BY Zenon
  <2>3. e \in R!Entry
    BY <1>2, <2>2 DEF R!Entry
  <2>4. entries[i].state \in R!States /\ target \in R!ALLOWED_TRANSITIONS[entries[i].state]
    BY <1>2, <2>1 DEF R!Entry, R!Transition
  <2>5. entries[i].state \in RISK_VISIBLE => target \in RISK_VISIBLE
    BY <2>4 DEF RISK_VISIBLE, R!ALLOWED_TRANSITIONS, R!States
  <2>6. entries' = [entries EXCEPT ![i] = e]
    BY <2>1 DEF R!Transition
  <2>7. QED
    BY <1>3, <2>3, <2>5, <2>6
<1>6. CASE \E flag \in BOOLEAN : R!SetEnabled(i, flag)
  <2>1. PICK flag \in BOOLEAN : R!SetEnabled(i, flag)
    BY <1>6
  <2> DEFINE e == [state |-> entries[i].state, enabled |-> flag,
                   magic |-> entries[i].magic]
  <2>2. entries'[i] = [entries[i] EXCEPT !.enabled = flag]
    BY <1>2, <2>1, Zenon DEF R!SetEnabled
  <2>3. entries'[i] = e
    BY <1>2, <2>2, Zenon DEF R!Entry
  <2>4. entries' = [entries EXCEPT ![i] = entries'[i]]
    BY <1>2, <2>1, <2>2, Zenon DEF R!SetEnabled
  <2>5. e \in R!Entry /\ e.state = entries[i].state
    BY <1>2 DEF R!Entry
  <2> HIDE DEF e
  <2>6. QED
    BY <1>3, <2>3, <2>4, <2>5
<1>7. QED
  BY <1>1, <1>4, <1>5, <1>6

LEMMA OperateInv == GroupInv /\ Operate => GroupInv'
<1> SUFFICES ASSUME GroupInv, Operate PROVE GroupInv'
  OBVIOUS
<1>1. /\ entries' \in [Ids -> R!Entry] /\ Visible \subseteq Visible'
      /\ UNCHANGED <<adapter, open, fills, watched, ledger, ckpt, pub, lock, proc, faults>>
  BY RegistryStep DEF Operate, GroupInv, Visible, files
<1>2. TypeOK'
  BY <1>1 DEF GroupInv, TypeOK
<1>3. RegistryInv'
  BY <1>1 DEF GroupInv, RegistryInv
<1>4. FilesInv' /\ \A q \in Processes : ProcessInv(proc[q])'
  BY <1>1 DEF GroupInv, FilesInv, NoFillSkipped, ProcessInv, Current
<1>5. QED
  BY <1>2, <1>3, <1>4 DEF GroupInv

\* A fill is appended to the venue's history: whatever was seen of it before
\* stays as it was.
LEMMA FillInv ==
  ASSUME GroupInv, NEW i \in Ids, Len(fills) < MaxFills, fills' = Append(fills, i),
         open' \subseteq Visible,
         UNCHANGED <<entries, adapter, watched, files, lock, proc, faults>>
  PROVE  GroupInv'
<1>1. /\ fills \in Seq(Ids) /\ Len(fills) \in Nat /\ Len(fills') = Len(fills) + 1
      /\ fills' \in Seq(Ids) /\ \A k \in 1..Len(fills) : fills'[k] = fills[k]
  BY DEF GroupInv, TypeOK
<1>2. /\ UNCHANGED <<ledger, ckpt, pub>> /\ Visible' = Visible
      /\ ledger.cursor \in Nat
  BY DEF files, GroupInv, TypeOK, Visible
<1>3. TypeOK'
  BY <1>1, <1>2, GroupAssumption DEF GroupInv, TypeOK, Visible
<1>4. RegistryInv'
  BY <1>2 DEF GroupInv, RegistryInv
<1>5. FilesInv'
  BY <1>1, <1>2 DEF GroupInv, FilesInv, NoFillSkipped, Current
<1>6. ASSUME NEW q \in Processes PROVE ProcessInv(proc[q])'
  <2>1. proc[q].upTo \in Nat /\ ProcessInv(proc[q])
    BY DEF GroupInv, TypeOK, Process
  <2>2. QED
    BY <1>1, <1>2, <2>1 DEF ProcessInv, Current
<1>7. QED
  BY <1>3, <1>4, <1>5, <1>6 DEF GroupInv

LEMMA TradeInv ==
  ASSUME GroupInv, NEW i \in Ids, OpenPosition(i) \/ ClosePosition(i)
  PROVE  GroupInv'
<1>1. CASE OpenPosition(i)
  <2>1. open' \subseteq Visible
    BY <1>1 DEF OpenPosition, GroupInv, RegistryInv, Visible, LIVE_CAPABLE, RISK_VISIBLE
  <2>2. QED
    BY <1>1, <2>1, FillInv DEF OpenPosition
<1>2. CASE ClosePosition(i)
  BY <1>2, FillInv DEF ClosePosition, GroupInv, RegistryInv
<1>3. QED
  BY <1>1, <1>2

-----------------------------------------------------------------------------
(* Starting and ending *)

\* The clauses of TypeOK that a step of a process leaves alone.
LEMMA FileTypes ==
  ASSUME TypeOK
  PROVE  /\ watched \in [Ids -> 0..MaxFills] /\ faults \in 0..MaxFaults
         /\ lock \in Processes \cup {Free}
         /\ ledger \in [recs : SUBSET (1..MaxFills), cursor : 0..MaxFills]
         /\ ckpt \in [mem : Memory, bound : BOOLEAN] /\ pub \in Publication
         /\ Fault => faults' \in 0..MaxFaults
BY GroupAssumption DEF TypeOK, Fault

LEMMA StartupPublishesInv ==
  ASSUME GroupInv, NEW p \in Processes, StartupFails(p) \/ StartupRefuses(p)
  PROVE  GroupInv'
<1>1. /\ UNCHANGED <<world, lock, proc, ledger, ckpt>> /\ pub' = FailClosed(p)
      /\ faults' = faults \/ Fault
  BY DEF StartupFails, StartupRefuses
<1>2. UNCHANGED <<entries, adapter, open, fills, watched>>
  BY <1>1 DEF world
<1>3. FilesInv' /\ pub' \in Publication
  BY <1>1, <1>2, FailClosedPublished
<1>4. TypeOK'
  BY <1>1, <1>2, <1>3, FileTypes DEF GroupInv, TypeOK
<1>5. RegistryInv' /\ \A q \in Processes : ProcessInv(proc[q])'
  BY <1>1, <1>2 DEF GroupInv, RegistryInv, Visible, ProcessInv, Current
<1>6. QED
  BY <1>3, <1>4, <1>5 DEF GroupInv

LEMMA StartState ==
  ASSUME TypeOK, NEW p \in Processes, Start(p)
  PROVE  /\ proc' \in [Processes -> Process]
         /\ \A q \in Processes : q # p => proc'[q] = proc[q]
         /\ proc'[p].pc = "lock" /\ proc'[p].mem = NewMemory
<1>1. PICK c \in Clients : Becomes(p, [Down EXCEPT !.pc = "lock", !.client = c])
  BY DEF Start
<1>2. /\ proc'[p] = [Down EXCEPT !.pc = "lock", !.client = c]
      /\ \A q \in Processes : q # p => proc'[q] = proc[q]
      /\ proc'[p] \in Process => proc' \in [Processes -> Process]
  BY <1>1, BecomesState, Zenon
<1>3. proc'[p] = [pc |-> "lock", last |-> FALSE, client |-> c, visible |-> {}, due |-> {},
                  positions |-> {}, batch |-> {}, upTo |-> 0, mem |-> NewMemory]
  BY <1>2, Zenon DEF Down
<1>4. proc'[p] \in Process
  BY <1>3, MemoryTypes, GroupAssumption DEF Process
<1>5. proc'[p].pc = "lock" /\ proc'[p].mem = NewMemory
  BY <1>3
<1>6. QED
  BY <1>2, <1>4, <1>5

\* A process that is down, or waiting for the lock, and stays out of the loop.
LEMMA IdleStep ==
  ASSUME GroupInv, NEW p \in Processes,
         proc' \in [Processes -> Process],
         \A q \in Processes : q # p => proc'[q] = proc[q],
         proc'[p].pc \in {"down", "lock"}, proc'[p].mem = NewMemory,
         lock' = IF lock = p THEN Free ELSE lock,
         UNCHANGED world, UNCHANGED <<ledger, ckpt>>, faults' \in 0..MaxFaults,
         pub' \in Publication, FilesInv'
  PROVE  GroupInv'
<1>1. /\ UNCHANGED <<entries, adapter, open, fills, watched, ledger, ckpt>>
      /\ lock' # p /\ lock' \in Processes \cup {Free}
      /\ \A q \in Processes : q # p => ((lock' = q) <=> (lock = q))
  BY GroupAssumption DEF world, GroupInv, TypeOK
<1>2. /\ watched' \in [Ids -> 0..MaxFills] /\ ckpt' \in [mem : Memory, bound : BOOLEAN]
      /\ ledger' \in [recs : SUBSET (1..MaxFills), cursor : 0..MaxFills]
  BY <1>1, FileTypes DEF GroupInv
<1>3. ProcessInv(proc[p])'
  BY BlankIsSound DEF ProcessInv
<1>4. QED
  BY <1>1, <1>2, <1>3, ProcessStep

LEMMA IdleInv ==
  ASSUME GroupInv, NEW p \in Processes,
         \/ Start(p) \/ LockTaken(p) \/ RecoveryFails(p) \/ Unlock(p) \/ Crash(p)
  PROVE  GroupInv'
<1>1. TypeOK /\ FilesInv
  BY DEF GroupInv
<1>2. /\ proc' \in [Processes -> Process]
      /\ \A q \in Processes : q # p => proc'[q] = proc[q]
      /\ proc'[p].pc \in {"down", "lock"} /\ proc'[p].mem = NewMemory
  <2>1. CASE Start(p)
    BY <1>1, <2>1, StartState
  <2>2. CASE Becomes(p, Down)
    BY <1>1, <2>2, BecomesState, DownState
  <2>3. QED
    BY <2>1, <2>2 DEF LockTaken, RecoveryFails, Unlock, Crash
<1>3. /\ UNCHANGED world /\ UNCHANGED <<ledger, ckpt>> /\ faults' \in 0..MaxFaults
      /\ UNCHANGED pub \/ pub' = FailClosed(p)
  BY <1>1, FileTypes DEF Start, LockTaken, RecoveryFails, Unlock, Crash, files
<1>4. lock' = IF lock = p THEN Free ELSE lock
  <2>1. CASE Start(p) \/ LockTaken(p) \/ RecoveryFails(p)
    BY <1>1, <2>1 DEF Start, LockTaken, RecoveryFails, TypeOK
  <2>2. CASE Unlock(p)
    BY <1>1, <2>2 DEF Unlock, At, TypeOK
  <2>3. CASE Crash(p)
    BY <2>3 DEF Crash
  <2>4. QED
    BY <2>1, <2>2, <2>3
<1>5. UNCHANGED <<adapter, fills, watched>>
  BY <1>3 DEF world
<1>6. FilesInv' /\ pub' \in Publication
  <2>1. CASE UNCHANGED pub
    BY <1>1, <1>3, <1>5, <2>1, FilesKept, FileTypes DEF files
  <2>2. CASE pub' = FailClosed(p)
    BY <1>3, <1>5, <2>2, FailClosedPublished
  <2>3. QED
    BY <1>3, <2>1, <2>2
<1>7. QED
  BY <1>2, <1>3, <1>4, <1>6, IdleStep

\* The lock's new holder resumes from a checkpoint that either stands at the
\* ledger's last commit or is loaded fail-closed.
LEMMA TakeLockInv ==
  ASSUME GroupInv, NEW p \in Processes, TakeLock(p)
  PROVE  GroupInv'
<1>1. TypeOK /\ FilesInv
  BY DEF GroupInv
<1>2. /\ proc' \in [Processes -> Process]
      /\ \A q \in Processes : q # p => proc'[q] = proc[q]
      /\ proc'[p].pc = "loop" /\ proc'[p].mem = Restored
  BY <1>1, TakeLockState
<1>3. /\ UNCHANGED <<entries, adapter, open, fills, watched, ledger, ckpt, pub, faults>>
      /\ lock = Free /\ lock' = p
  BY DEF TakeLock, world, files
<1>4. FilesInv'
  BY <1>1, <1>3, FilesKept DEF files
<1>5. Sound(Restored) /\ Current(Restored)
  BY <1>1, ClosedIsUnhealthy DEF Restored, FilesInv, Current
<1>6. ProcessInv(proc[p])'
  BY <1>2, <1>3, <1>5 DEF ProcessInv, Current
<1>7. \A q \in Processes : q # p => ((lock' = q) <=> (lock = q))
  BY <1>3, GroupAssumption
<1>8. /\ watched' \in [Ids -> 0..MaxFills] /\ ckpt' \in [mem : Memory, bound : BOOLEAN]
      /\ ledger' \in [recs : SUBSET (1..MaxFills), cursor : 0..MaxFills]
      /\ pub' \in Publication /\ faults' \in 0..MaxFaults
  BY <1>1, <1>3, FileTypes
<1>9. QED
  BY <1>2, <1>3, <1>4, <1>6, <1>7, <1>8, ProcessStep

-----------------------------------------------------------------------------
(* The loop *)

\* A step inside the loop that changes neither a file nor the lock.
LEMMA LoopStep ==
  ASSUME GroupInv, NEW p \in Processes,
         proc' \in [Processes -> Process],
         \A q \in Processes : q # p => proc'[q] = proc[q],
         proc[p].pc \notin {"down", "lock"}, proc'[p].pc \notin {"down", "lock"},
         UNCHANGED <<entries, adapter, open, fills, watched, lock>>,
         faults' \in 0..MaxFaults, UNCHANGED ledger,
         ckpt' \in [mem : Memory, bound : BOOLEAN], pub' \in Publication,
         FilesInv', ProcessInv(proc[p])'
  PROVE  GroupInv'
<1>1. /\ lock = p /\ lock' = p /\ lock' \in Processes \cup {Free}
      /\ watched' \in [Ids -> 0..MaxFills]
      /\ ledger' \in [recs : SUBSET (1..MaxFills), cursor : 0..MaxFills]
  BY DEF GroupInv, TypeOK
<1>2. QED
  BY <1>1, ProcessStep

\* A strategy that comes into sight for the first time: every fill it made so
\* far is one the ledger may not have.
LEMMA LoadRegistryInv ==
  ASSUME GroupInv, NEW p \in Processes, LoadRegistry(p)
  PROVE  GroupInv'
<1>1. TypeOK /\ FilesInv /\ RegistryInv /\ ProcessInv(proc[p])
  BY DEF GroupInv
<1>2. /\ proc' \in [Processes -> Process]
      /\ \A q \in Processes : q # p => proc'[q] = proc[q]
      /\ proc'[p].pc = "positions" /\ proc'[p].visible = Visible /\ proc'[p].due = open
      /\ proc'[p].mem = proc[p].mem
  BY <1>1, LoadRegistryState
<1>3. /\ UNCHANGED <<entries, adapter, open, fills, lock, faults, ledger, ckpt, pub>>
      /\ proc[p].pc = "loop" /\ lock = p /\ lock' = p
      /\ watched' = [i \in Ids |-> IF i \in Visible /\ watched[i] > Len(fills)
                                     THEN Len(fills) ELSE watched[i]]
  BY <1>1 DEF LoadRegistry, At, files, TypeOK
<1>4. Len(fills) \in Nat /\ Len(fills) <= MaxFills /\ \A i \in Ids : watched[i] \in 0..MaxFills
  BY <1>1, LengthType DEF TypeOK
<1>5. watched' \in [Ids -> 0..MaxFills]
  BY <1>3, <1>4, GroupAssumption
<1>6. \A i \in Ids : watched'[i] # MaxFills => watched[i] # MaxFills \/ i \in Visible
  BY <1>3
<1>7. FilesInv'
  <2>1. ASSUME NEW k \in 1..ledger.cursor, k <= watched[fills[k]]
        PROVE  k <= watched'[fills[k]]
    <3>1. k \in Nat /\ k <= Len(fills) /\ fills[k] \in Ids
      BY <1>1, <1>4 DEF FilesInv, TypeOK
    <3>2. QED
      BY <1>3, <1>4, <2>1, <3>1
  <2>2. NoFillSkipped'
    BY <1>1, <1>3, <2>1 DEF FilesInv, NoFillSkipped
  <2>3. QED
    BY <1>1, <1>3, <2>2 DEF FilesInv, Current
<1>8. ProcessInv(proc[p])'
  <2>1. \A i \in Ids \ Visible : watched'[i] = MaxFills
    BY <1>1, <1>3 DEF RegistryInv
  <2>2. QED
    BY <1>1, <1>2, <1>3, <2>1 DEF ProcessInv, Current, RegistryInv
<1>9. /\ lock' \in Processes \cup {Free} /\ faults' \in 0..MaxFaults
      /\ ledger' \in [recs : SUBSET (1..MaxFills), cursor : 0..MaxFills]
      /\ ckpt' \in [mem : Memory, bound : BOOLEAN] /\ pub' \in Publication
  BY <1>1, <1>3, FileTypes
<1>10. QED
  BY <1>2, <1>3, <1>5, <1>6, <1>7, <1>8, <1>9, ProcessStep

LEMMA FetchPositionsInv ==
  ASSUME GroupInv, NEW p \in Processes, FetchPositions(p)
  PROVE  GroupInv'
<1>1. TypeOK /\ FilesInv /\ ProcessInv(proc[p])
  BY DEF GroupInv
<1>2. /\ proc' \in [Processes -> Process]
      /\ \A q \in Processes : q # p => proc'[q] = proc[q]
      /\ proc'[p].pc = "ledger" /\ proc'[p].visible = proc[p].visible
      /\ proc'[p].positions = Asked(p, open) /\ proc'[p].due = proc[p].due \cap open
      /\ proc'[p].mem = proc[p].mem
  BY <1>1, FetchPositionsState
<1>3. /\ UNCHANGED <<entries, adapter, open, fills, watched, lock, faults, ledger, ckpt, pub>>
      /\ proc[p].pc = "positions"
  BY DEF FetchPositions, At, world, files
<1>4. FilesInv'
  BY <1>1, <1>3, FilesKept DEF files
<1>5. ProcessInv(proc[p])'
  BY <1>1, <1>2, <1>3 DEF ProcessInv, Current, Asked
<1>6. faults' \in 0..MaxFaults /\ ckpt' \in [mem : Memory, bound : BOOLEAN] /\ pub' \in Publication
  BY <1>1, <1>3, FileTypes
<1>7. QED
  BY <1>2, <1>3, <1>4, <1>5, <1>6, LoopStep

LEMMA FetchLedgerInv ==
  ASSUME GroupInv, NEW p \in Processes, FetchLedger(p)
  PROVE  GroupInv'
<1>1. TypeOK /\ FilesInv /\ ProcessInv(proc[p])
  BY DEF GroupInv
<1>2. /\ proc' \in [Processes -> Process]
      /\ \A q \in Processes : q # p => proc'[q] = proc[q]
      /\ proc'[p].pc = "ingest" /\ proc'[p].visible = proc[p].visible
      /\ proc'[p].positions = proc[p].positions /\ proc'[p].due = proc[p].due
      /\ proc'[p].batch = Batch(p) /\ proc'[p].upTo = Len(fills)
      /\ proc'[p].mem = proc[p].mem
  BY <1>1, FetchLedgerState
<1>3. /\ UNCHANGED <<entries, adapter, open, fills, watched, lock, faults, ledger, ckpt, pub>>
      /\ proc[p].pc = "ledger"
  BY DEF FetchLedger, At, world, files
<1>4. FilesInv'
  BY <1>1, <1>3, FilesKept DEF files
<1>5. ProcessInv(proc[p])'
  <2>1. \A k \in (ledger.cursor + 1)..Len(fills) : fills[k] \in Ids
    BY <1>1 DEF TypeOK
  <2>2. adapter = "account" \/ adapter = "filtering"
    BY <1>1, GroupAssumption DEF TypeOK
  <2>3. \A k \in (ledger.cursor + 1)..Len(fills) :
          k \in Batch(p) \/ (adapter = "filtering" /\ fills[k] \notin proc[p].visible)
    BY <2>1, <2>2 DEF Batch, Asked
  <2>4. Len(fills) \in Nat
    BY <1>1, LengthType
  <2>5. QED
    BY <1>1, <1>2, <1>3, <2>3, <2>4 DEF ProcessInv, Current, FilesInv
<1>6. faults' \in 0..MaxFaults /\ ckpt' \in [mem : Memory, bound : BOOLEAN] /\ pub' \in Publication
  BY <1>1, <1>3, FileTypes
<1>7. QED
  BY <1>2, <1>3, <1>4, <1>5, <1>6, LoopStep

\* The ways out of a cycle that touch no file.
LEMMA AbandonInv ==
  ASSUME GroupInv, NEW p \in Processes,
         \/ RefuseNullVenue(p) \/ RegistryFails(p) \/ Stop(p) \/ FetchFails(p)
         \/ RejectCycle(p) \/ RejectBatch(p)
  PROVE  GroupInv'
<1>1. TypeOK /\ FilesInv /\ ProcessInv(proc[p])
  BY DEF GroupInv
<1>2. /\ UNCHANGED <<entries, adapter, open, fills, watched, ledger, ckpt, pub, lock>>
      /\ UNCHANGED <<world, files>>
      /\ faults' = faults \/ Fault
      /\ proc[p].pc \notin {"down", "lock"}
  BY DEF RefuseNullVenue, RegistryFails, Stop, FetchFails, RejectCycle, RejectBatch,
         At, world, files
<1>3. PICK last \in BOOLEAN :
           \/ Ends(p, proc[p].mem, last) \/ Ends(p, Closed(proc[p].mem.saveAllowed), last)
           \/ Ends(p, Closed(FALSE), last)
  BY DEF RefuseNullVenue, RegistryFails, Stop, FetchFails, RejectCycle, RejectBatch,
         Failed, Invalidated
<1>4. /\ proc[p].mem \in Memory /\ Sound(proc[p].mem)
      /\ Healthy(proc[p].mem) => proc[p].mem.upTo = ledger'.cursor
      /\ proc[p].mem.saveAllowed \in BOOLEAN
  BY <1>1, <1>2 DEF ProcessInv, Current, TypeOK, Process, Memory
<1>5. PICK m \in Memory : /\ Ends(p, m, last) /\ Sound(m)
                          /\ Healthy(m) => m.upTo = ledger'.cursor
  BY <1>3, <1>4, ClosedIsUnhealthy
<1>6. /\ UNCHANGED <<world, lock, pub, ledger, ckpt>> /\ faults' \in 0..MaxFaults
      /\ ledger' \in [recs : SUBSET (1..MaxFills), cursor : 0..MaxFills]
      /\ ckpt' \in [mem : Memory, bound : BOOLEAN]
  BY <1>1, <1>2, FileTypes
<1>7. FilesInv'
  BY <1>1, <1>2, FilesKept
<1>8. QED
  BY <1>2, <1>5, <1>6, <1>7, EndsInv

\* The commit of a batch leaves no gap: what the batch does not hold belongs to
\* strategies that no cycle had asked for when this one loaded the registry.
LEMMA CommitInv ==
  ASSUME GroupInv, NEW p \in Processes, At(p, "ingest"),
         Commit(proc[p].batch, proc[p].upTo), UNCHANGED <<world, pub>>
  PROVE  /\ FilesInv' /\ ckpt'.bound = FALSE /\ ckpt' \in [mem : Memory, bound : BOOLEAN]
         /\ ledger' \in [recs : SUBSET (1..MaxFills), cursor : 0..MaxFills]
         /\ ledger'.cursor = proc[p].upTo
<1>1. TypeOK /\ FilesInv /\ ProcessInv(proc[p]) /\ proc[p].pc = "ingest" /\ proc[p] \in Process
  BY DEF GroupInv, At, TypeOK
<1>2. /\ UNCHANGED <<adapter, fills, watched, pub>>
      /\ ledger' = [recs |-> ledger.recs \cup proc[p].batch, cursor |-> proc[p].upTo]
      /\ ckpt' = [ckpt EXCEPT !.bound = FALSE] /\ ckpt \in [mem : Memory, bound : BOOLEAN]
  BY <1>1 DEF Commit, world, TypeOK
<1>3. ckpt' = [mem |-> ckpt.mem, bound |-> FALSE]
  BY <1>2, Zenon
<1>4. /\ ckpt' \in [mem : Memory, bound : BOOLEAN] /\ ckpt'.bound = FALSE
      /\ ckpt'.mem = ckpt.mem
  BY <1>2, <1>3
<1>5. /\ ledger'.recs = ledger.recs \cup proc[p].batch /\ ledger'.cursor = proc[p].upTo
      /\ ledger' \in [recs : SUBSET (1..MaxFills), cursor : 0..MaxFills]
  <2>1. proc[p].batch \subseteq 1..MaxFills /\ proc[p].upTo \in 0..MaxFills
    BY <1>1 DEF Process
  <2>2. QED
    BY <1>1, <1>2, <2>1 DEF TypeOK
<1>6. NoFillSkipped'
  <2>1. ASSUME NEW k \in 1..proc[p].upTo
        PROVE  k \in ledger'.recs \/ (adapter = "filtering" /\ k <= watched[fills[k]])
    <3>1. CASE k <= ledger.cursor
      BY <1>1, <1>5, <2>1, <3>1 DEF FilesInv, NoFillSkipped, TypeOK
    <3>2. CASE ~(k <= ledger.cursor)
      <4>1. ledger.cursor \in Nat /\ proc[p].upTo \in Nat /\ Len(fills) \in Nat
        BY <1>1, LengthType DEF TypeOK, Process
      <4>2. k \in (ledger.cursor + 1)..proc[p].upTo
        BY <3>2, <4>1
      <4>3. CASE k \in proc[p].batch
        BY <1>5, <4>3
      <4>4. CASE adapter = "filtering" /\ fills[k] \notin proc[p].visible
        <5>1. k <= Len(fills) /\ Len(fills) <= MaxFills /\ fills[k] \in Ids
          BY <1>1, <4>1, <4>2, LengthType DEF ProcessInv, TypeOK
        <5>2. watched[fills[k]] = MaxFills
          BY <1>1, <4>4, <5>1 DEF ProcessInv
        <5>3. QED
          BY <4>1, <4>2, <4>4, <5>1, <5>2, GroupAssumption
      <4>5. QED
        BY <1>1, <4>2, <4>3, <4>4 DEF ProcessInv
    <3>3. QED
      BY <3>1, <3>2
  <2>2. QED
    BY <1>2, <1>5, <2>1 DEF NoFillSkipped
<1>7. FilesInv'
  BY <1>1, <1>2, <1>4, <1>5, <1>6 DEF FilesInv, ProcessInv
<1>8. QED
  BY <1>4, <1>5, <1>7

LEMMA ReconcileInv ==
  ASSUME GroupInv, NEW p \in Processes, Reconcile(p) \/ ReconcileFails(p)
  PROVE  GroupInv'
<1>1. TypeOK /\ ProcessInv(proc[p]) /\ proc[p] \in Process /\ proc[p].pc = "ingest"
  BY DEF GroupInv, Reconcile, ReconcileFails, At, TypeOK
<1>2. /\ At(p, "ingest") /\ Commit(proc[p].batch, proc[p].upTo) /\ ValidCycle(p)
      /\ UNCHANGED <<world, lock, pub>> /\ faults' \in 0..MaxFaults
  BY <1>1, FileTypes DEF Reconcile, ReconcileFails
<1>3. /\ FilesInv' /\ ckpt' \in [mem : Memory, bound : BOOLEAN]
      /\ ledger' \in [recs : SUBSET (1..MaxFills), cursor : 0..MaxFills]
      /\ ledger'.cursor = proc[p].upTo
  BY <1>2, CommitInv
<1>4. /\ Reconciled(p) \in Memory /\ Sound(Reconciled(p))
      /\ Reconciled(p).upTo = proc[p].upTo
  BY <1>1, <1>2 DEF Reconciled, Memory, Process, Sound, ProcessInv, ValidCycle, Authoritative
<1>5. CASE Reconcile(p)
  <2>1. Ends(p, Reconciled(p), FALSE)
    BY <1>5 DEF Reconcile
  <2>2. QED
    BY <1>1, <1>2, <1>3, <1>4, <2>1, EndsInv
<1>6. CASE ReconcileFails(p)
  <2>1. Ends(p, Closed(FALSE), FALSE)
    BY <1>6 DEF ReconcileFails, Invalidated
  <2>2. QED
    BY <1>1, <1>2, <1>3, <2>1, ClosedIsUnhealthy, EndsInv
<1>7. QED
  BY <1>5, <1>6

LEMMA SaveInv ==
  ASSUME GroupInv, NEW p \in Processes, Save(p) \/ SaveFails(p)
  PROVE  GroupInv'
<1>1. TypeOK /\ FilesInv /\ ProcessInv(proc[p]) /\ proc[p] \in Process
  BY DEF GroupInv, TypeOK
<1>2. /\ UNCHANGED <<entries, adapter, open, fills, watched, ledger, pub, lock>>
      /\ proc[p].pc = "save" /\ faults' \in 0..MaxFaults
  BY <1>1, FileTypes DEF Save, SaveFails, At, world, files
<1>3. CASE Save(p)
  <2>1. /\ proc' \in [Processes -> Process]
        /\ \A q \in Processes : q # p => proc'[q] = proc[q]
        /\ proc'[p].pc = "publish" /\ proc'[p].mem = proc[p].mem
    BY <1>1, <1>3, SaveState
  <2>2. \/ ckpt' = ckpt
        \/ ckpt' = [mem |-> proc[p].mem, bound |-> TRUE]
    BY <1>3 DEF Save
  <2>3. /\ ckpt' \in [mem : Memory, bound : BOOLEAN]
        /\ Sound(ckpt'.mem) /\ (ckpt'.bound => Current(ckpt'.mem))
    <3>1. CASE ckpt' = ckpt
      BY <1>1, <3>1 DEF FilesInv, TypeOK
    <3>2. CASE ckpt' = [mem |-> proc[p].mem, bound |-> TRUE]
      BY <1>1, <1>2, <3>2 DEF ProcessInv, Process
    <3>3. QED
      BY <2>2, <3>1, <3>2
  <2>4. FilesInv'
    BY <1>1, <1>2, <2>3 DEF FilesInv, NoFillSkipped, Current
  <2>5. ProcessInv(proc[p])'
    BY <1>1, <1>2, <2>1 DEF ProcessInv, Current
  <2>6. pub' \in Publication
    BY <1>1, <1>2, FileTypes
  <2>7. QED
    BY <1>2, <2>1, <2>3, <2>4, <2>5, <2>6, LoopStep
<1>4. CASE SaveFails(p)
  <2>1. /\ proc' \in [Processes -> Process]
        /\ \A q \in Processes : q # p => proc'[q] = proc[q]
        /\ proc'[p].pc = "publish" /\ proc'[p].mem = Invalidated
    BY <1>1, <1>4, SaveFailsState
  <2>2. ckpt' = ckpt /\ UNCHANGED <<files, adapter, fills, watched>>
    BY <1>2, <1>4 DEF SaveFails, files
  <2>3. FilesInv'
    BY <1>1, <2>2, FilesKept
  <2>4. ProcessInv(proc[p])'
    BY <2>1, ClosedIsUnhealthy DEF ProcessInv, Current, Invalidated
  <2>5. pub' \in Publication /\ ckpt' \in [mem : Memory, bound : BOOLEAN]
    BY <1>1, <1>2, <2>2, FileTypes
  <2>6. QED
    BY <1>2, <2>1, <2>3, <2>4, <2>5, LoopStep
<1>5. QED
  BY <1>3, <1>4

LEMMA PublishInv ==
  ASSUME GroupInv, NEW p \in Processes, Publish(p)
  PROVE  GroupInv'
<1>1. TypeOK /\ FilesInv /\ ProcessInv(proc[p]) /\ proc[p] \in Process
  BY DEF GroupInv, TypeOK
<1>2. /\ UNCHANGED <<entries, adapter, open, fills, watched, ledger, ckpt, lock, faults>>
      /\ proc[p].pc = "publish" /\ pub' = Published(p, proc[p].mem)
  BY DEF Publish, At, world
<1>3. /\ proc' \in [Processes -> Process]
      /\ \A q \in Processes : q # p => proc'[q] = proc[q]
      /\ proc'[p].pc \in {"unlock", "loop"} /\ proc'[p].mem = proc[p].mem
  BY <1>1, PublishState
<1>4. Healthy(proc[p].mem) \in BOOLEAN /\ proc[p].mem \in Memory
  <2>1. Healthy(proc[p].mem) \in BOOLEAN
    BY Zenon DEF Healthy
  <2>2. QED
    BY <1>1, <2>1 DEF Process
<1>5. /\ pub' \in Publication /\ pub'.mem = proc[p].mem
      /\ pub'.healthy = Healthy(proc[p].mem)
  BY <1>2, <1>4, PublicationType DEF Published
<1>6. FilesInv'
  BY <1>1, <1>2, <1>5 DEF FilesInv, NoFillSkipped, Current, ProcessInv
<1>7. ProcessInv(proc[p])'
  BY <1>1, <1>2, <1>3 DEF ProcessInv, Current
<1>8. faults' \in 0..MaxFaults /\ ckpt' \in [mem : Memory, bound : BOOLEAN]
  BY <1>1, <1>2, FileTypes
<1>9. QED
  BY <1>2, <1>3, <1>5, <1>6, <1>7, <1>8, LoopStep

-----------------------------------------------------------------------------
(* The theorems *)

LEMMA InitInv == Init => GroupInv
<1> SUFFICES ASSUME Init PROVE GroupInv
  OBVIOUS
<1>1. entries \in [Ids -> R!Entry]
  BY DEF Init, R!Init, R!Unregistered, R!Entry, R!States
<1>2. /\ proc \in [Processes -> Process]
      /\ \A p \in Processes : proc[p].pc = "down" /\ proc[p].mem = NewMemory
  BY DownState DEF Init
<1>3. ckpt = [mem |-> Closed(TRUE), bound |-> TRUE] /\ Closed(TRUE) \in Memory
  BY ClosedIsUnhealthy DEF Init
<1>4. /\ pub \in Publication /\ pub.mem = Closed(TRUE) /\ pub.healthy = FALSE
  <2>1. PICK p \in Processes : pub = [mem |-> ckpt.mem, healthy |-> FALSE, by |-> p]
    BY DEF Init
  <2>2. pub = [mem |-> Closed(TRUE), healthy |-> FALSE, by |-> p]
    BY <1>3, <2>1
  <2>3. pub \in Publication
    BY <1>3, <2>2, PublicationType
  <2>4. QED
    BY <2>2, <2>3
<1>5. TypeOK
  <2>1. ckpt \in [mem : Memory, bound : BOOLEAN]
    BY <1>3
  <2>2. /\ open \subseteq Ids /\ fills \in Seq(Ids) /\ Len(fills) <= MaxFills
        /\ watched \in [Ids -> 0..MaxFills] /\ faults \in 0..MaxFaults
        /\ ledger \in [recs : SUBSET (1..MaxFills), cursor : 0..MaxFills]
        /\ lock = Free /\ adapter \in Adapters
    BY GroupAssumption DEF Init
  <2>3. \A p \in Processes : (lock = p) <=> proc[p].pc \notin {"down", "lock"}
    BY <1>2, <2>2, GroupAssumption
  <2>4. QED
    BY <1>1, <1>2, <1>4, <2>1, <2>2, <2>3 DEF TypeOK
<1>6. RegistryInv
  BY DEF Init, RegistryInv
<1>7. FilesInv
  <2>1. ledger.cursor = 0 /\ Len(fills) = 0 /\ ledger.cursor <= Len(fills)
    BY DEF Init
  <2>2. ckpt.mem = Closed(TRUE)
    BY <1>3
  <2>3. Sound(Closed(TRUE)) /\ ~Healthy(Closed(TRUE))
    BY ClosedIsUnhealthy
  <2>4. NoFillSkipped
    BY <2>1 DEF NoFillSkipped
  <2>5. ~pub.healthy /\ ~Healthy(pub.mem) /\ Sound(pub.mem)
    BY <1>4, <2>3
  <2>6. Sound(ckpt.mem) /\ (ckpt.bound => Current(ckpt.mem))
    BY <2>2, <2>3 DEF Current
  <2>7. pub.healthy <=> Healthy(pub.mem)
    BY <2>5, Zenon
  <2>8. QED
    BY <2>1, <2>4, <2>5, <2>6, <2>7, Zenon DEF FilesInv
<1>8. \A p \in Processes : ProcessInv(proc[p])
  BY <1>2, BlankIsSound DEF ProcessInv
<1>9. QED
  BY <1>5, <1>6, <1>7, <1>8 DEF GroupInv

LEMMA NextInv == GroupInv /\ [Next]_vars => GroupInv'
<1> SUFFICES ASSUME GroupInv, [Next]_vars PROVE GroupInv'
  OBVIOUS
<1>1. CASE Operate
  BY <1>1, OperateInv
<1>2. CASE \E i \in Ids : OpenPosition(i) \/ ClosePosition(i)
  BY <1>2, TradeInv
<1>3. ASSUME NEW p \in Processes, Start(p) \/ StartupRefuses(p) \/ Step(p) \/ Failure(p)
      PROVE  GroupInv'
  BY <1>3, StartupPublishesInv, IdleInv, TakeLockInv, LoadRegistryInv, FetchPositionsInv,
     FetchLedgerInv, AbandonInv, ReconcileInv, SaveInv, PublishInv DEF Step, Failure
<1>4. CASE UNCHANGED vars
  <2>1. UNCHANGED <<entries, adapter, open, fills, watched, ledger, ckpt, pub, lock, proc,
                    faults>>
    BY <1>4 DEF vars, world, files
  <2>2. TypeOK' /\ RegistryInv'
    BY <2>1 DEF GroupInv, TypeOK, RegistryInv, Visible
  <2>3. FilesInv' /\ \A q \in Processes : ProcessInv(proc[q])'
    BY <2>1 DEF GroupInv, FilesInv, NoFillSkipped, ProcessInv, Current
  <2>4. QED
    BY <2>2, <2>3 DEF GroupInv
<1>5. QED
  BY <1>1, <1>2, <1>3, <1>4 DEF Next

\* GroupInv holds in every reachable state of the group.
THEOREM GroupInvariant == Spec => []GroupInv
BY InitInv, NextInv, PTL DEF Spec

\* Every reachable state is well typed, and only the lock's holder is in the loop.
THEOREM TypeCorrect == Spec => []TypeOK
<1>1. GroupInv => TypeOK
  BY DEF GroupInv
<1>2. QED
  BY <1>1, GroupInvariant, PTL

\* The ledger has every fill before its cursor, whatever operators do to the
\* registry between two reads of it (_fetch_and_validate_venue_cycle, ingest_batch).
THEOREM NoFillSkippedHolds == Spec => []NoFillSkipped
<1>1. GroupInv => NoFillSkipped
  BY DEF GroupInv, FilesInv
<1>2. QED
  BY <1>1, GroupInvariant, PTL

\* A healthy state covers every position that was open from the load of the
\* registry to the call for positions.
THEOREM OpenPositionsCoveredHolds == Spec => []OpenPositionsCovered
<1>1. GroupInv => OpenPositionsCovered
  BY DEF GroupInv, FilesInv, Sound, OpenPositionsCovered
<1>2. QED
  BY <1>1, GroupInvariant, PTL

\* What is published as healthy was observed through a venue adapter.
THEOREM NoTrustWithoutVenueHolds == Spec => []NoTrustWithoutVenue
<1>1. GroupInv => NoTrustWithoutVenue
  <2>1. SUFFICES ASSUME GroupInv, pub.healthy PROVE pub.mem.from = "venue"
    BY DEF NoTrustWithoutVenue
  <2>2. pub.mem.from \in {"none", "venue", "null"}
    BY <2>1 DEF GroupInv, TypeOK, Publication, Memory
  <2>3. QED
    BY <2>1, <2>2 DEF GroupInv, FilesInv, Sound, Healthy
<1>2. QED
  BY <1>1, GroupInvariant, PTL

\* No process publishes as healthy what another one has overtaken.
THEOREM HealthyIsLatestHolds == Spec => HealthyIsLatest
<1> DEFINE A == pub' # pub /\ pub'.healthy => pub'.mem.upTo = ledger.cursor
<1>1. GroupInv /\ [Next]_vars => [A]_vars
  <2>1. SUFFICES ASSUME GroupInv, Next, pub' # pub, pub'.healthy
                 PROVE  pub'.mem.upTo = ledger.cursor
    BY DEF vars
  <2>2. ASSUME NEW p \in Processes, pub' = FailClosed(p)
        PROVE  FALSE
    BY <2>1, <2>2, ClosedIsUnhealthy DEF FailClosed, Published
  <2>3. ASSUME NEW p \in Processes, Publish(p)
        PROVE  pub'.mem.upTo = ledger.cursor
    <3>1. /\ proc[p].pc = "publish" /\ pub'.mem = proc[p].mem
          /\ pub'.healthy = Healthy(proc[p].mem)
      BY <2>3 DEF Publish, At, Published
    <3>2. QED
      BY <2>1, <3>1 DEF GroupInv, ProcessInv, Current
  <2>4. PICK p \in Processes : pub' = FailClosed(p) \/ Publish(p)
    BY <2>1 DEF Next, Operate, OpenPosition, ClosePosition, Start, StartupRefuses, Step,
       Failure, StartupFails, RecoveryFails, LockTaken, TakeLock, LoadRegistry,
       RefuseNullVenue, RegistryFails, Stop, FetchPositions, FetchLedger, FetchFails,
       RejectCycle, RejectBatch, Reconcile, ReconcileFails, Save, SaveFails, Unlock,
       Crash, files
  <2>5. QED
    BY <2>2, <2>3, <2>4
<1>2. QED
  BY <1>1, GroupInvariant, PTL DEF Spec, HealthyIsLatest

=============================================================================

------------------------------ MODULE Registry ------------------------------
(***************************************************************************)
(* The strategy registry (src/src/orchestrator/registry.py): concurrent    *)
(* command-line processes that read, change and rewrite registry.toml, the *)
(* writers under a lock file, the readers without it, any of which may die *)
(* between two steps.                                                      *)
(*                                                                         *)
(* Replacing the file is atomic; loading it is one read of an open file.   *)
(***************************************************************************)
EXTENDS Naturals, Sequences

CONSTANTS Clis,         \* processes
          Ids, Mql5,    \* strategy ids; those whose runtime is mql5
          Accounts,     \* account names the operator may declare
          AccountOf,    \* account_scope of each id
          Slot,         \* account, venue and canonical symbol of an id on a netting
                        \* account; "hedging" on any other
          Candidates,   \* MagicNumber by salt, as a sequence, of each id
          FileExists,   \* registry.toml is there from the start
          Ops           \* bound: the operations users call

ASSUME RegistryAssumption ==
  /\ Mql5 \subseteq Ids
  /\ AccountOf \in [Ids -> Accounts]
  /\ Candidates \in [Mql5 -> Seq(Nat \ {0})]
  /\ FileExists \in BOOLEAN
  /\ "free" \notin Clis

VARIABLES
  exists,   \* whether registry.toml exists
  file,     \* its content
  paths,    \* scaffolded directories and configs: <<id, part>>
  lock,     \* holder of the lock file, or Free
  pc, call, \* per process: its next step and the command it executes
  doc,      \* per process: the document it loaded
  todo,     \* per process: ids whose paths it still has to create
  acked,    \* history: registrations that ended with exit code OK
  issued    \* history: <<id, MagicNumber>> of every registration ever written

vars == <<exists, file, paths, lock, pc, call, doc, todo, acked, issued>>

Magics ==
  {0} \cup UNION {{Candidates[i][salt] : salt \in DOMAIN Candidates[i]} : i \in Mql5}

C == INSTANCE RegistryContract WITH entries <- file.entries
States == C!States

\* ENABLEABLE_STATES, config.RISK_VISIBLE
ENABLEABLE_STATES == {"draft", "testnet", "live"}
RISK_VISIBLE == {"testnet", "live", "deprecated", "retired"}

Parts == {"dirs", "config"}
Free == "free"

Document == [accounts : SUBSET Accounts, entries : [Ids -> C!Entry]]
EmptyDocument == [accounts |-> {}, entries |-> [i \in Ids |-> C!Unregistered]]

Command ==
  [op : {"register", "enable", "disable"}, id : Ids]
    \cup [op : {"transition"}, id : Ids, target : States \ {"unregistered"}]
    \cup [op : {"read", "audit_fix"}]
Locking(cmd) == cmd.op \in {"register", "enable", "disable", "transition"}

TypeOK ==
  /\ exists \in BOOLEAN /\ file \in Document /\ paths \subseteq Ids \X Parts
  /\ lock \in Clis \cup {Free}
  /\ pc \in [Clis -> {"idle", "lock", "ensure", "create", "update", "release", "scaffold"}]
  /\ call \in [Clis -> Command]
  /\ doc \in [Clis -> Document] /\ todo \in [Clis -> SUBSET Ids]
  /\ acked \subseteq Ids /\ issued \subseteq Mql5 \X Magics

Init ==
  /\ exists = FileExists
  /\ file = EmptyDocument /\ paths = {} /\ lock = Free
  /\ pc = [c \in Clis |-> "idle"]
  /\ call = [c \in Clis |-> [op |-> "read"]]
  /\ doc = [c \in Clis |-> EmptyDocument]
  /\ todo = [c \in Clis |-> {}]
  /\ acked = {} /\ issued = {}

Goto(c, step) == pc' = [pc EXCEPT ![c] = step]

\* The process ends; its locals are gone.
Exit(c) ==
  /\ Goto(c, "idle")
  /\ call' = [call EXCEPT ![c] = [op |-> "read"]]
  /\ doc' = [doc EXCEPT ![c] = EmptyDocument]
  /\ todo' = [todo EXCEPT ![c] = {}]

----------------------------------------------------------------------------
(* What a command makes of the document it has loaded *)

Registered(d, i) == d.entries[i].state # "unregistered"

\* Mutant of Taken: a retired strategy frees its MagicNumber.
TakenByActive(d) ==
  {d.entries[j].magic :
     j \in {k \in Mql5 : d.entries[k].state \notin {"unregistered", "retired"}}}

Taken(d) == {d.entries[j].magic : j \in {k \in Mql5 : Registered(d, k)}}

\* The MagicNumbers of a document's strategies, for the history.
Numbers(d) == {<<j, d.entries[j].magic>> : j \in {k \in Mql5 : Registered(d, k)}}

FreeSalts(d, i) ==
  {salt \in DOMAIN Candidates[i] : Candidates[i][salt] \notin Taken(d)}

\* allocate_magic_number: the first candidate nobody has, not even a retired
\* strategy.
FirstFree(d, i) ==
  Candidates[i][CHOOSE salt \in FreeSalts(d, i) :
                  \A other \in FreeSalts(d, i) : salt <= other]

\* Mutant of SlotTaken: a deprecated strategy, which may still hold positions,
\* frees its slot.
SlotTakenByEnabled(d, i) ==
  /\ Slot[i] # "hedging"
  /\ \E j \in Mql5 : d.entries[j].state \in ENABLEABLE_STATES /\ Slot[j] = Slot[i]

SlotTaken(d, i) ==
  /\ Slot[i] # "hedging"
  /\ \E j \in Mql5 :
       Registered(d, j) /\ d.entries[j].state # "retired" /\ Slot[j] = Slot[i]

CanRegister(d, i) ==
  /\ ~Registered(d, i)
  /\ i \in Mql5 => /\ AccountOf[i] \in d.accounts /\ ~SlotTaken(d, i)
                   /\ FreeSalts(d, i) # {}

Allowed(cmd, d) ==
  \/ cmd.op = "register" /\ CanRegister(d, cmd.id)
  \/ cmd.op = "transition" /\ cmd.target \in C!ALLOWED_TRANSITIONS[d.entries[cmd.id].state]
  \/ cmd.op \in {"enable", "disable"} /\ d.entries[cmd.id].state \in ENABLEABLE_STATES

NewEntry(d, i) ==
  [state |-> "draft", enabled |-> FALSE, magic |-> IF i \in Mql5 THEN FirstFree(d, i) ELSE 0]

\* Mutant of Moved: deprecating leaves the flag alone.
MovedOnly(entry, target) ==
  [state |-> target, magic |-> entry.magic, enabled |-> entry.enabled]

\* A transition to deprecated also disables.
Moved(entry, target) ==
  [state |-> target, magic |-> entry.magic,
   enabled |-> entry.enabled /\ target # "deprecated"]

Changed(cmd, d) ==
  CASE cmd.op = "register" -> NewEntry(d, cmd.id)
    [] cmd.op = "transition" -> Moved(d.entries[cmd.id], cmd.target)
    [] OTHER -> [d.entries[cmd.id] EXCEPT !.enabled = (cmd.op = "enable")]

Updated(cmd, d) ==
  [accounts |-> d.accounts, entries |-> [d.entries EXCEPT ![cmd.id] = Changed(cmd, d)]]

----------------------------------------------------------------------------
(* A command, step by step *)

Invoke(c, cmd) ==
  /\ pc[c] = "idle" /\ cmd.op \in Ops
  /\ call' = [call EXCEPT ![c] = cmd]
  /\ Goto(c, IF Locking(cmd) THEN "lock" ELSE "ensure")
  /\ UNCHANGED <<exists, file, paths, lock, doc, todo, acked, issued>>

\* Mutant of Acquire: the lock is taken without looking.
AcquireHeld(c) ==
  /\ pc[c] = "lock"
  /\ lock' = c /\ Goto(c, "ensure")
  /\ UNCHANGED <<exists, file, paths, call, doc, todo, acked, issued>>

\* locked_registry_file polls; LockContentionError after LOCK_TIMEOUT_S.
Acquire(c) ==
  /\ pc[c] = "lock" /\ lock = Free
  /\ lock' = c /\ Goto(c, "ensure")
  /\ UNCHANGED <<exists, file, paths, call, doc, todo, acked, issued>>

\* Mutant of LockTimeout: polls for ever.
PollsForEver(c) == pc[c] = "lock" /\ lock # Free /\ UNCHANGED vars

LockTimeout(c) ==
  /\ pc[c] = "lock" /\ lock # Free
  /\ Exit(c)
  /\ UNCHANGED <<exists, file, paths, lock, acked, issued>>

\* Mutant of MissingPaths: looks at the directories only.
MissingDirs(d) == {i \in Ids : Registered(d, i) /\ <<i, "dirs">> \notin paths}

\* Mutant of MissingPaths: names the parts instead of the strategies.
MissingParts(d) == {p \in Ids \X Parts : Registered(d, p[1]) /\ p \notin paths}

MissingPaths(d) == {i \in Ids : Registered(d, i) /\ ~({i} \X Parts \subseteq paths)}

\* What a command does with the document d: writers decide on it, audit --fix
\* scaffolds what it declares, list and show print it.
Loaded(c, d) ==
  /\ doc' = IF call[c].op = "read" THEN doc ELSE [doc EXCEPT ![c] = d]
  /\ Goto(c, IF Locking(call[c]) THEN "update" ELSE "scaffold")
  /\ todo' = [todo EXCEPT ![c] = IF call[c].op = "audit_fix" THEN MissingPaths(d) ELSE {}]

\* _ensure_registry: path.exists(), then load_registry.
Ensure(c) ==
  /\ pc[c] = "ensure"
  /\ IF exists THEN Loaded(c, file)
               ELSE Goto(c, "create") /\ UNCHANGED <<doc, todo>>
  /\ UNCHANGED <<exists, file, paths, lock, call, acked, issued>>

\* _ensure_registry: atomic_replace with an empty document.  Readers get here
\* without the lock.
Create(c) ==
  /\ pc[c] = "create"
  /\ exists' = TRUE /\ file' = EmptyDocument
  /\ Loaded(c, EmptyDocument)
  /\ UNCHANGED <<paths, lock, call, acked, issued>>

Refuse(c) ==
  /\ pc[c] = "update" /\ ~Allowed(call[c], doc[c])
  /\ lock' = Free /\ Exit(c)
  /\ UNCHANGED <<exists, file, paths, acked, issued>>

\* write_registry
Write(c) ==
  /\ pc[c] = "update" /\ Allowed(call[c], doc[c])
  /\ exists' = TRUE /\ file' = Updated(call[c], doc[c])
  /\ issued' = issued \cup Numbers(file')
  /\ Goto(c, "release")
  /\ UNCHANGED <<paths, lock, call, doc, todo, acked>>

\* The lock is released before register scaffolds.
Release(c) ==
  /\ pc[c] = "release"
  /\ lock' = Free /\ Goto(c, "scaffold")
  /\ todo' = [todo EXCEPT ![c] = IF call[c].op = "register" THEN {call[c].id} ELSE {}]
  /\ UNCHANGED <<exists, file, paths, call, doc, acked, issued>>

\* _scaffold_strategy_dirs: directories, then the config file; what is there
\* already is left alone.
Scaffold(c, i) ==
  /\ pc[c] = "scaffold" /\ i \in todo[c]
  /\ \/ /\ <<i, "dirs">> \notin paths
        /\ paths' = paths \cup {<<i, "dirs">>} /\ UNCHANGED todo
     \/ /\ <<i, "dirs">> \in paths
        /\ paths' = paths \cup {<<i, "config">>}
        /\ todo' = [todo EXCEPT ![c] = @ \ {i}]
  /\ UNCHANGED <<exists, file, lock, pc, call, doc, acked, issued>>

Finish(c) ==
  /\ pc[c] = "scaffold" /\ todo[c] = {}
  /\ acked' = IF call[c].op = "register" THEN acked \cup {call[c].id} ELSE acked
  /\ Exit(c)
  /\ UNCHANGED <<exists, file, paths, lock, issued>>

\* The process dies; the operating system releases its lock.
Crash(c) ==
  /\ pc[c] # "idle"
  /\ lock' = IF lock = c THEN Free ELSE lock
  /\ Exit(c)
  /\ UNCHANGED <<exists, file, paths, acked, issued>>

\* External: the operator declares an [[accounts]] entry by hand while no
\* writer is at work.
AddAccount(a) ==
  /\ lock = Free /\ a \notin file.accounts
  /\ exists' = TRUE /\ file' = [file EXCEPT !.accounts = @ \cup {a}]
  /\ UNCHANGED <<paths, lock, pc, call, doc, todo, acked, issued>>

CliStep(c) ==
  \/ Acquire(c) \/ LockTimeout(c) \/ Ensure(c) \/ Create(c) \/ Refuse(c) \/ Write(c)
  \/ Release(c) \/ (\E i \in Ids : Scaffold(c, i)) \/ Finish(c)

Next ==
  \/ \E c \in Clis : CliStep(c) \/ Crash(c) \/ \E cmd \in Command : Invoke(c, cmd)
  \/ \E a \in Accounts : AddAccount(a)

Spec == Init /\ [][Next]_vars

\* A running process keeps running; nobody has to start or kill one.
FairSpec == Spec /\ \A c \in Clis : WF_vars(CliStep(c))

----------------------------------------------------------------------------
(* Properties *)

\* A MagicNumber that was ever written for a strategy is never written for
\* another, be the first one retired by now, and a strategy never gets a second
\* one, however commands interleave and die: positions at the broker carry the
\* number only (cmd_register, allocate_magic_number).
MagicNeverReissued == \A p, q \in issued : p[1] = q[1] <=> p[2] = q[2]

\* At most one MQL5 strategy that is not retired holds a netting slot.
NettingExclusive ==
  \A i, j \in Mql5 :
    /\ i # j /\ Slot[i] = Slot[j] /\ Slot[i] # "hedging"
    /\ Registered(file, i) /\ Registered(file, j)
    => file.entries[i].state = "retired" \/ file.entries[j].state = "retired"

\* A registration that was reported as done stays in the registry with its
\* directories and config file, whatever other processes do.
AcknowledgedKept ==
  \A i \in acked : exists /\ Registered(file, i) /\ {i} \X Parts \subseteq paths

\* When audit --fix is about to report, every strategy it found in the registry
\* has all its paths, also one whose registration died half way through its
\* directories (cmd_audit, _scaffold_strategy_dirs).
AuditRepairs ==
  \A c \in Clis :
    call[c].op = "audit_fix" /\ pc[c] = "scaffold" /\ todo[c] = {} =>
      \A i \in Ids : Registered(doc[c], i) => {i} \X Parts \subseteq paths

\* A strategy the risk aggregator watches (it may hold positions) is never taken
\* out of its sight again by any sequence of commands.
StaysRiskVisible ==
  [][\A i \in Ids : file.entries[i].state \in RISK_VISIBLE
                      => file'.entries[i].state \in RISK_VISIBLE]_vars

\* Every write is one command applied to the registry as it is at that moment:
\* no update is lost, deprecated and retired strategies stay disabled.
ImplementsContract == C!Spec

\* Every command ends, be it with LockContentionError, under any contention.
CommandsFinish == \A c \in Clis : pc[c] # "idle" ~> pc[c] = "idle"
=============================================================================

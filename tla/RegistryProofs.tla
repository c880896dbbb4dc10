--------------------------- MODULE RegistryProofs ---------------------------
(***************************************************************************)
(* For every set of processes, strategies and MagicNumber candidates: the  *)
(* registry never holds two strategies on one netting slot, audit --fix    *)
(* completes what it finds, and where registry.toml exists from the start, *)
(* every write is one command applied to the current registry, no          *)
(* acknowledged registration is lost and no MagicNumber is issued twice.   *)
(***************************************************************************)
EXTENDS Registry, WellFoundedInduction, TLAPS

-----------------------------------------------------------------------------
(* The MagicNumber allocator *)

LEMMA SmallestMember ==
  ASSUME NEW S \in SUBSET Nat, S # {}
  PROVE  \E m \in S : \A k \in S : m <= k
<1>1. PICK m \in S : \A k \in S : <<k, m>> \notin OpToRel(<, Nat)
  BY NatLessThanWellFounded, WFMin, Zenon
<1>2. \A k \in S : ~(k < m)
  BY <1>1 DEF OpToRel
<1>3. QED
  BY <1>2

\* allocate_magic_number returns a MagicNumber no registered strategy holds.
LEMMA FirstFreeIsFree ==
  ASSUME NEW d, NEW i \in Mql5, FreeSalts(d, i) # {}
  PROVE  FirstFree(d, i) \notin Taken(d) /\ FirstFree(d, i) \in Magics \ {0}
<1>1. FreeSalts(d, i) \in SUBSET Nat
  BY RegistryAssumption DEF FreeSalts
<1>2. PICK m \in FreeSalts(d, i) : \A k \in FreeSalts(d, i) : m <= k
  BY <1>1, SmallestMember
<1> DEFINE s == CHOOSE salt \in FreeSalts(d, i) :
                  \A other \in FreeSalts(d, i) : salt <= other
<1>3. s \in FreeSalts(d, i)
  BY <1>2
<1>4. FirstFree(d, i) = Candidates[i][s]
  BY DEF FirstFree
<1> HIDE DEF s
<1>5. Candidates[i][s] \notin Taken(d) /\ s \in DOMAIN Candidates[i]
  BY <1>3 DEF FreeSalts
<1>6. Candidates[i][s] \in Nat \ {0}
  BY <1>5, RegistryAssumption
<1>7. QED
  BY <1>4, <1>5, <1>6 DEF Magics

-----------------------------------------------------------------------------
(* Documents *)

\* No two entries of a document have one MagicNumber, and NettingExclusive of any
\* document instead of the file.
SoundDocument(d) ==
  /\ \A i, j \in Mql5 :
       i # j /\ Registered(d, i) /\ Registered(d, j)
         => d.entries[i].magic # d.entries[j].magic
  /\ \A i, j \in Mql5 :
       /\ i # j /\ Slot[i] = Slot[j] /\ Slot[i] # "hedging"
       /\ Registered(d, i) /\ Registered(d, j)
       => d.entries[i].state = "retired" \/ d.entries[j].state = "retired"

LEMMA EmptyDocumentSound == EmptyDocument \in Document /\ SoundDocument(EmptyDocument)
<1>1. C!Unregistered \in C!Entry
  BY DEF C!Unregistered, C!Entry, C!States, Magics
<1>2. EmptyDocument \in Document
  BY <1>1 DEF EmptyDocument, Document
<1>3. \A i \in Ids : ~Registered(EmptyDocument, i)
  BY DEF EmptyDocument, Registered, C!Unregistered
<1>4. QED
  BY <1>2, <1>3, RegistryAssumption DEF SoundDocument

LEMMA CommandFields ==
  ASSUME NEW cmd \in Command
  PROVE  /\ Locking(cmd) => cmd.id \in Ids
         /\ cmd.op = "transition" => cmd.target \in States \ {"unregistered"}
BY DEF Command, Locking

LEMMA ChangedType ==
  ASSUME NEW cmd \in Command, NEW d \in Document, Allowed(cmd, d)
  PROVE  cmd.id \in Ids /\ Changed(cmd, d) \in C!Entry
<1>1. Locking(cmd) /\ cmd.id \in Ids
  BY CommandFields DEF Allowed, Locking
<1>2. d.entries[cmd.id] \in C!Entry
  BY <1>1 DEF Document
<1>3. CASE cmd.op = "register"
  <2>1. CanRegister(d, cmd.id)
    BY <1>3 DEF Allowed
  <2>2. (IF cmd.id \in Mql5 THEN FirstFree(d, cmd.id) ELSE 0) \in Magics
    BY <2>1, FirstFreeIsFree DEF CanRegister, Magics
  <2>3. QED
    BY <1>1, <1>3, <2>2 DEF Changed, NewEntry, C!Entry, C!States
<1>4. CASE cmd.op = "transition"
  <2>1. cmd.target \in C!States
    BY <1>4, CommandFields DEF States
  <2>2. (d.entries[cmd.id].enabled /\ cmd.target # "deprecated") \in BOOLEAN
    BY Zenon
  <2>3. QED
    BY <1>1, <1>2, <1>4, <2>1, <2>2 DEF Changed, Moved, C!Entry
<1>5. CASE cmd.op \in {"enable", "disable"}
  <2>1. (cmd.op = "enable") \in BOOLEAN
    BY Zenon
  <2>2. Changed(cmd, d) = [d.entries[cmd.id] EXCEPT !.enabled = (cmd.op = "enable")]
    BY <1>5 DEF Changed
  <2>3. QED
    BY <1>1, <1>2, <2>1, <2>2 DEF C!Entry
<1>6. QED
  BY <1>3, <1>4, <1>5 DEF Allowed

\* A command leaves every other entry alone, and changes its own as follows.
LEMMA ChangedFacts ==
  ASSUME NEW cmd \in Command, NEW d \in Document, Allowed(cmd, d),
         NEW e, e = Updated(cmd, d)
  PROVE  /\ e \in Document
         /\ \A j \in Ids \ {cmd.id} : e.entries[j] = d.entries[j]
         /\ e.entries[cmd.id] = Changed(cmd, d)
<1>1. cmd.id \in Ids /\ Changed(cmd, d) \in C!Entry
  BY ChangedType
<1>2. QED
  BY <1>1 DEF Updated, Document

LEMMA UpdatedSound ==
  ASSUME NEW cmd \in Command, NEW d \in Document, Allowed(cmd, d), SoundDocument(d)
  PROVE  SoundDocument(Updated(cmd, d))
<1> DEFINE e == Updated(cmd, d)
<1> SUFFICES SoundDocument(e)
  OBVIOUS
<1>1. /\ \A j \in Ids \ {cmd.id} : e.entries[j] = d.entries[j]
      /\ e.entries[cmd.id] = Changed(cmd, d) /\ cmd.id \in Ids
  BY ChangedFacts, ChangedType
<1> HIDE DEF e
<1>2. CASE cmd.op = "register"
  <2>1. e.entries[cmd.id] = NewEntry(d, cmd.id) /\ CanRegister(d, cmd.id)
    BY <1>1, <1>2 DEF Changed, Allowed
  <2>2. ASSUME cmd.id \in Mql5
        PROVE  /\ e.entries[cmd.id].magic \notin Taken(d)
               /\ ~SlotTaken(d, cmd.id)
    BY <2>1, <2>2, FirstFreeIsFree DEF NewEntry, CanRegister
  <2>3. ASSUME NEW j \in Mql5, j # cmd.id, Registered(e, j), cmd.id \in Mql5
        PROVE  /\ e.entries[cmd.id].magic # e.entries[j].magic
               /\ Slot[j] = Slot[cmd.id] /\ Slot[j] # "hedging"
                    => e.entries[j].state = "retired"
    <3>1. e.entries[j] = d.entries[j] /\ Registered(d, j)
      BY <1>1, <2>3, RegistryAssumption DEF Registered
    <3>2. QED
      BY <2>2, <2>3, <3>1 DEF Taken, SlotTaken
  <2>4. \A j \in Mql5 \ {cmd.id} : e.entries[j] = d.entries[j]
    BY <1>1, RegistryAssumption
  <2>5. ASSUME NEW i \in Mql5, NEW j \in Mql5, i # j, Registered(e, i), Registered(e, j)
        PROVE  /\ e.entries[i].magic # e.entries[j].magic
               /\ Slot[i] = Slot[j] /\ Slot[i] # "hedging"
                    => e.entries[i].state = "retired" \/ e.entries[j].state = "retired"
    <3>1. CASE i = cmd.id
      BY <2>3, <2>5, <3>1
    <3>2. CASE j = cmd.id
      BY <2>3, <2>5, <3>2
    <3>3. CASE i # cmd.id /\ j # cmd.id
      BY <2>4, <2>5, <3>3 DEF SoundDocument, Registered
    <3>4. QED
      BY <3>1, <3>2, <3>3
  <2>6. QED
    BY <2>5 DEF SoundDocument
<1>3. CASE cmd.op # "register"
  <2>1. /\ e.entries[cmd.id].magic = d.entries[cmd.id].magic
        /\ Registered(d, cmd.id)
        /\ d.entries[cmd.id].state = "retired" => e.entries[cmd.id].state = "retired"
    <3>1. d.entries[cmd.id] \in C!Entry
      BY <1>1 DEF Document
    <3>2. CASE cmd.op = "transition"
      BY <1>1, <3>1, <3>2 DEF Changed, Moved, Allowed, Registered, C!Entry, C!States,
                              C!ALLOWED_TRANSITIONS
    <3>3. CASE cmd.op \in {"enable", "disable"}
      BY <1>1, <3>1, <3>3 DEF Changed, Allowed, Registered, C!Entry, ENABLEABLE_STATES
    <3>4. QED
      BY <1>3, <3>2, <3>3 DEF Allowed
  <2>2. \A j \in Ids : /\ e.entries[j].magic = d.entries[j].magic
                       /\ Registered(e, j) => Registered(d, j)
                       /\ d.entries[j].state = "retired" => e.entries[j].state = "retired"
    BY <1>1, <2>1 DEF Registered
  <2>3. QED
    BY <2>2, RegistryAssumption DEF SoundDocument
<1>4. QED
  BY <1>2, <1>3

-----------------------------------------------------------------------------
(* Type correctness *)

LEMMA InitType == Init => TypeOK
<1> SUFFICES ASSUME Init PROVE TypeOK
  OBVIOUS
<1>1. file \in Document /\ doc \in [Clis -> Document]
  BY EmptyDocumentSound DEF Init
<1>2. exists \in BOOLEAN
  BY RegistryAssumption, Zenon DEF Init
<1>3. call \in [Clis -> Command]
  BY DEF Init, Command
<1>4. QED
  BY <1>1, <1>2, <1>3, Zenon DEF Init, TypeOK, Free

LEMMA ExitType ==
  ASSUME TypeOK, NEW c \in Clis, Exit(c)
  PROVE  /\ pc' \in [Clis -> {"idle", "lock", "ensure", "create", "update", "release",
                              "scaffold"}]
         /\ call' \in [Clis -> Command] /\ doc' \in [Clis -> Document]
         /\ todo' \in [Clis -> SUBSET Ids]
<1>1. [op |-> "read"] \in Command
  BY DEF Command
<1>2. QED
  BY <1>1, EmptyDocumentSound DEF Exit, Goto, TypeOK

LEMMA LoadedType ==
  ASSUME TypeOK, NEW c \in Clis, NEW d \in Document, Loaded(c, d)
  PROVE  /\ pc' \in [Clis -> {"idle", "lock", "ensure", "create", "update", "release",
                              "scaffold"}]
         /\ doc' \in [Clis -> Document] /\ todo' \in [Clis -> SUBSET Ids]
BY DEF Loaded, Goto, TypeOK, MissingPaths

LEMMA NumbersType ==
  ASSUME NEW d \in Document
  PROVE  Numbers(d) \subseteq Mql5 \X Magics
BY RegistryAssumption DEF Numbers, Document, C!Entry

LEMMA TypeOKStep == TypeOK /\ Next => TypeOK'
<1> SUFFICES ASSUME TypeOK, Next PROVE TypeOK'
  OBVIOUS
<1>1. ASSUME NEW c \in Clis, NEW cmd \in Command, Invoke(c, cmd) PROVE TypeOK'
  BY <1>1 DEF Invoke, Goto, TypeOK
<1>2. ASSUME NEW c \in Clis, Acquire(c) PROVE TypeOK'
  BY <1>2 DEF Acquire, Goto, TypeOK
<1>3. ASSUME NEW c \in Clis, LockTimeout(c) PROVE TypeOK'
  BY <1>3, ExitType DEF LockTimeout, TypeOK
<1>4. ASSUME NEW c \in Clis, Ensure(c) PROVE TypeOK'
  <2>1. CASE exists
    BY <1>4, <2>1, LoadedType DEF Ensure, TypeOK
  <2>2. CASE ~exists
    BY <1>4, <2>2 DEF Ensure, Goto, TypeOK
  <2>3. QED
    BY <2>1, <2>2
<1>5. ASSUME NEW c \in Clis, Create(c) PROVE TypeOK'
  BY <1>5, EmptyDocumentSound, LoadedType DEF Create, TypeOK
<1>6. ASSUME NEW c \in Clis, Refuse(c) PROVE TypeOK'
  BY <1>6, ExitType DEF Refuse, TypeOK
<1>7. ASSUME NEW c \in Clis, Write(c) PROVE TypeOK'
  <2>1. file' \in Document
    BY <1>7, ChangedFacts DEF Write, TypeOK
  <2>2. issued' \subseteq Mql5 \X Magics
    BY <1>7, <2>1, NumbersType DEF Write, TypeOK
  <2>3. QED
    BY <1>7, <2>1, <2>2 DEF Write, Goto, TypeOK
<1>8. ASSUME NEW c \in Clis, Release(c) PROVE TypeOK'
  <2>1. todo' \in [Clis -> SUBSET Ids]
    BY <1>8, CommandFields DEF Release, Locking, TypeOK
  <2>2. QED
    BY <1>8, <2>1 DEF Release, Goto, TypeOK
<1>9. ASSUME NEW c \in Clis, NEW i \in Ids, Scaffold(c, i) PROVE TypeOK'
  BY <1>9 DEF Scaffold, TypeOK, Parts
<1>10. ASSUME NEW c \in Clis, Finish(c) PROVE TypeOK'
  <2>1. acked' \subseteq Ids
    BY <1>10, CommandFields DEF Finish, Locking, TypeOK
  <2>2. QED
    BY <1>10, <2>1, ExitType DEF Finish, TypeOK
<1>11. ASSUME NEW c \in Clis, Crash(c) PROVE TypeOK'
  BY <1>11, ExitType DEF Crash, TypeOK
<1>12. ASSUME NEW a \in Accounts, AddAccount(a) PROVE TypeOK'
  <2>1. file' \in Document
    BY <1>12 DEF AddAccount, Document, TypeOK
  <2>2. QED
    BY <1>12, <2>1 DEF AddAccount, TypeOK
<1>13. QED
  BY <1>1, <1>2, <1>3, <1>4, <1>5, <1>6, <1>7, <1>8, <1>9, <1>10, <1>11, <1>12
     DEF Next, CliStep

-----------------------------------------------------------------------------
(* Every document a process ever holds is sound *)

SoundInv == TypeOK /\ SoundDocument(file) /\ \A c \in Clis : SoundDocument(doc[c])

\* Soundness speaks of the entries only.
LEMMA SoundSameEntries ==
  ASSUME NEW d, NEW e, d.entries = e.entries, SoundDocument(d)
  PROVE  SoundDocument(e)
BY DEF SoundDocument, Registered

LEMMA ExitSound ==
  ASSUME SoundInv, NEW c \in Clis, Exit(c)
  PROVE  \A k \in Clis : SoundDocument(doc'[k])
BY EmptyDocumentSound DEF Exit, SoundInv, TypeOK

LEMMA LoadedSound ==
  ASSUME SoundInv, NEW c \in Clis, NEW d, SoundDocument(d), Loaded(c, d)
  PROVE  \A k \in Clis : SoundDocument(doc'[k])
BY DEF Loaded, SoundInv, TypeOK

LEMMA SoundStep == SoundInv /\ Next => SoundInv'
<1> SUFFICES ASSUME SoundInv, Next PROVE SoundInv'
  OBVIOUS
<1>1. TypeOK'
  BY TypeOKStep DEF SoundInv
<1>2. ASSUME SoundDocument(file'), \A k \in Clis : SoundDocument(doc'[k]) PROVE SoundInv'
  <2>1. SoundDocument(file)' /\ (\A k \in Clis : SoundDocument(doc[k]))'
    BY <1>2 DEF SoundDocument, Registered
  <2>2. QED
    BY <1>1, <2>1 DEF SoundInv
<1>3. ASSUME NEW c \in Clis,
             LockTimeout(c) \/ Refuse(c) \/ Finish(c) \/ Crash(c)
      PROVE  SoundInv'
  BY <1>2, <1>3, ExitSound DEF LockTimeout, Refuse, Finish, Crash, SoundInv
<1>4. CASE UNCHANGED <<file, doc>>
  BY <1>2, <1>4 DEF SoundInv
<1>5. ASSUME NEW c \in Clis, Ensure(c) PROVE SoundInv'
  <2>1. CASE exists
    BY <1>2, <1>5, <2>1, LoadedSound DEF Ensure, SoundInv
  <2>2. CASE ~exists
    BY <1>4, <1>5, <2>2 DEF Ensure
  <2>3. QED
    BY <2>1, <2>2
<1>6. ASSUME NEW c \in Clis, Create(c) PROVE SoundInv'
  BY <1>2, <1>6, EmptyDocumentSound, LoadedSound DEF Create
<1>7. ASSUME NEW c \in Clis, Write(c) PROVE SoundInv'
  BY <1>2, <1>7, UpdatedSound DEF Write, SoundInv, TypeOK
<1>8. ASSUME NEW a \in Accounts, AddAccount(a) PROVE SoundInv'
  <2>1. file'.entries = file.entries /\ doc' = doc
    BY <1>8 DEF AddAccount, SoundInv, TypeOK, Document
  <2>2. QED
    BY <1>2, <2>1, SoundSameEntries DEF SoundInv
<1>9. ASSUME NEW c \in Clis,
             \/ Acquire(c) \/ Release(c) \/ (\E i \in Ids : Scaffold(c, i))
             \/ \E cmd \in Command : Invoke(c, cmd)
      PROVE  SoundInv'
  BY <1>4, <1>9 DEF Acquire, Release, Scaffold, Invoke
<1>10. QED
  BY <1>3, <1>5, <1>6, <1>7, <1>8, <1>9 DEF Next, CliStep

\* Every document that is on disk or in a process is sound, with or without updates
\* that were lost.
THEOREM SoundInvariant == Spec => []SoundInv
<1>1. Init => SoundInv
  BY InitType, EmptyDocumentSound DEF Init, SoundInv
<1>2. SoundInv /\ [Next]_vars => SoundInv'
  <2>1. ASSUME SoundInv, UNCHANGED vars PROVE SoundInv'
    BY <2>1 DEF SoundInv, TypeOK, SoundDocument, Registered, vars
  <2>2. QED
    BY <2>1, SoundStep
<1>3. QED
  BY <1>1, <1>2, PTL DEF Spec

\* Every reachable state is well typed.
THEOREM TypeCorrect == Spec => []TypeOK
<1>1. SoundInv => TypeOK
  BY DEF SoundInv
<1>2. QED
  BY <1>1, SoundInvariant, PTL

\* No interleaving or crash gives two active MQL5 strategies one netting slot.
THEOREM NettingExclusiveHolds == Spec => []NettingExclusive
<1>1. SoundInv => NettingExclusive
  BY DEF SoundInv, SoundDocument, NettingExclusive
<1>2. QED
  BY <1>1, SoundInvariant, PTL

-----------------------------------------------------------------------------
(* audit --fix completes what it finds *)

\* A strategy the audit has loaded is still to be scaffolded or has its paths; only
\* commands that change the registry write it.
AuditInv ==
  \A c \in Clis :
    /\ call[c].op = "audit_fix" /\ pc[c] = "scaffold" =>
         \A i \in Ids : Registered(doc[c], i) /\ i \notin todo[c] => {i} \X Parts \subseteq paths
    /\ pc[c] \in {"update", "release"} => Locking(call[c])

\* Nothing removes a directory or a config file.
LEMMA PathsGrow == [Next]_vars => paths \subseteq paths'
BY DEF Next, CliStep, Invoke, Acquire, LockTimeout, Ensure, Create, Refuse, Write,
   Release, Scaffold, Finish, Crash, AddAccount, vars

\* A step of one process leaves the locals of the others alone.
LEMMA OthersFrame ==
  ASSUME TypeOK, NEW c \in Clis, NEW k \in Clis, k # c,
         CliStep(c) \/ Crash(c) \/ \E cmd \in Command : Invoke(c, cmd)
  PROVE  call'[k] = call[k] /\ pc'[k] = pc[k] /\ todo'[k] = todo[k] /\ doc'[k] = doc[k]
BY DEF CliStep, Crash, Invoke, Acquire, LockTimeout, Ensure, Create, Refuse,
   Write, Release, Scaffold, Finish, Loaded, Exit, Goto, TypeOK

LEMMA AuditStep == TypeOK /\ AuditInv /\ [Next]_vars => AuditInv'
<1> SUFFICES ASSUME TypeOK, AuditInv, [Next]_vars PROVE AuditInv'
  OBVIOUS
<1>1. paths \subseteq paths'
  BY PathsGrow
<1> DEFINE Goal(c) ==
      /\ call'[c].op = "audit_fix" /\ pc'[c] = "scaffold" =>
           \A i \in Ids : Registered(doc'[c], i) /\ i \notin todo'[c]
                            => {i} \X Parts \subseteq paths'
      /\ pc'[c] \in {"update", "release"} => Locking(call'[c])
<1>2. ASSUME NEW c \in Clis, call'[c] = call[c], pc'[c] = pc[c], todo'[c] = todo[c],
             doc'[c] = doc[c]
      PROVE  Goal(c)
  BY <1>1, <1>2 DEF AuditInv
<1>3. ASSUME NEW c \in Clis, NEW d, paths' = paths, call' = call, Loaded(c, d)
      PROVE  Goal(c)
  <2>1. /\ call[c].op = "audit_fix" => doc'[c] = d /\ todo'[c] = MissingPaths(d)
        /\ pc'[c] = IF Locking(call[c]) THEN "update" ELSE "scaffold"
    BY <1>3 DEF Loaded, Goto, TypeOK
  <2>2. QED
    BY <1>3, <2>1 DEF MissingPaths
<1>4. ASSUME NEW c \in Clis, Ensure(c) \/ Create(c) PROVE Goal(c)
  <2>1. CASE Create(c) \/ exists
    BY <1>3, <1>4, <2>1 DEF Ensure, Create
  <2>2. CASE Ensure(c) /\ ~exists
    BY <2>2 DEF Ensure, Goto, TypeOK
  <2>3. QED
    BY <1>4, <2>1, <2>2
<1>5. ASSUME NEW c \in Clis, NEW i \in Ids, Scaffold(c, i) PROVE Goal(c)
  <2>1. /\ pc[c] = "scaffold" /\ UNCHANGED <<call, doc, pc>>
        /\ \/ todo' = todo
           \/ todo'[c] = todo[c] \ {i} /\ {i} \X Parts \subseteq paths'
    BY <1>5 DEF Scaffold, TypeOK, Parts
  <2>2. QED
    BY <1>1, <2>1 DEF AuditInv
<1>6. ASSUME NEW c \in Clis, Release(c) PROVE Goal(c)
  <2>1. pc[c] = "release" /\ call' = call /\ pc'[c] = "scaffold"
    BY <1>6 DEF Release, Goto, TypeOK
  <2>2. call[c].op # "audit_fix"
    BY <2>1 DEF AuditInv, Locking
  <2>3. QED
    BY <2>1, <2>2
<1>7. ASSUME NEW c \in Clis,
             \/ Acquire(c) \/ LockTimeout(c) \/ Refuse(c) \/ Write(c) \/ Finish(c)
             \/ Crash(c) \/ \E cmd \in Command : Invoke(c, cmd)
      PROVE  Goal(c)
  <2>1. CASE Write(c)
    <3>1. pc[c] = "update" /\ call' = call /\ pc'[c] = "release"
      BY <2>1 DEF Write, Goto, TypeOK
    <3>2. QED
      BY <3>1 DEF AuditInv
  <2>2. CASE ~Write(c)
    <3>1. pc'[c] \notin {"scaffold", "update", "release"}
      BY <1>7, <2>2 DEF Acquire, LockTimeout, Refuse, Finish, Crash, Invoke, Exit, Goto,
         TypeOK
    <3>2. QED
      BY <3>1
  <2>3. QED
    BY <2>1, <2>2
<1>8. \A c \in Clis : Goal(c)
  <2>1. ASSUME NEW k \in Clis,
               CliStep(k) \/ Crash(k) \/ \E cmd \in Command : Invoke(k, cmd)
        PROVE  \A c \in Clis : Goal(c)
    <3>1. \A c \in Clis \ {k} : Goal(c)
      BY <1>2, <2>1, OthersFrame
    <3>2. Goal(k)
      BY <1>4, <1>5, <1>6, <1>7, <2>1 DEF CliStep
    <3>3. QED
      BY <3>1, <3>2
  <2>2. ASSUME NEW a \in Accounts, AddAccount(a) PROVE \A c \in Clis : Goal(c)
    BY <1>2, <2>2 DEF AddAccount
  <2>3. CASE UNCHANGED vars
    BY <1>2, <2>3 DEF vars
  <2>4. QED
    BY <2>1, <2>2, <2>3 DEF Next
<1>9. QED
  BY <1>8 DEF AuditInv, Registered, Locking

\* Whatever died half way and whoever else is at work, also on first use, audit
\* --fix ends with all paths of the strategies it found.
THEOREM AuditRepairsHolds == Spec => []AuditRepairs
<1>1. Init => AuditInv
  BY DEF Init, AuditInv
<1>2. AuditInv => AuditRepairs
  BY DEF AuditInv, AuditRepairs
<1>3. QED
  BY <1>1, <1>2, AuditStep, TypeCorrect, PTL DEF Spec

-----------------------------------------------------------------------------
(* Where registry.toml exists, writers are serialised by the lock *)

\* A writer holds the lock from before it loads until it has written, and what
\* it has loaded is still what the file says.
LockInv ==
  /\ exists
  /\ \A c \in Clis :
       /\ pc[c] # "create"
       /\ pc[c] \in {"update", "release"} => Locking(call[c]) /\ lock = c
       /\ pc[c] = "ensure" /\ Locking(call[c]) => lock = c
       /\ pc[c] = "update" => doc[c] = file

\* A registration under way is in the file, and what it no longer has to
\* scaffold is there.
RegisteringInv ==
  \A c \in Clis :
    call[c].op = "register" /\ pc[c] \in {"release", "scaffold"} =>
      /\ Registered(file, call[c].id)
      /\ pc[c] = "scaffold" /\ call[c].id \notin todo[c]
           => {call[c].id} \X Parts \subseteq paths

\* The numbers ever issued are those the registry shows: none is forgotten.
IssuedInv == issued = Numbers(file)

SerialInv == SoundInv /\ LockInv /\ RegisteringInv /\ IssuedInv /\ AcknowledgedKept

\* A command never takes an entry out of the registry.
LEMMA UpdatedKeeps ==
  ASSUME NEW cmd \in Command, NEW d \in Document, Allowed(cmd, d)
  PROVE  /\ \A i \in Ids : Registered(d, i) => Registered(Updated(cmd, d), i)
         /\ Registered(Updated(cmd, d), cmd.id)
<1> DEFINE e == Updated(cmd, d)
<1>1. /\ \A j \in Ids \ {cmd.id} : e.entries[j] = d.entries[j]
      /\ e.entries[cmd.id] = Changed(cmd, d) /\ cmd.id \in Ids
  BY ChangedFacts, ChangedType
<1> HIDE DEF e
<1>2. d.entries[cmd.id] \in C!Entry
  BY <1>1 DEF Document
<1>3. Changed(cmd, d).state # "unregistered"
  <2>1. CASE cmd.op = "register"
    BY <2>1 DEF Changed, NewEntry
  <2>2. CASE cmd.op = "transition"
    BY <2>2, CommandFields DEF Changed, Moved
  <2>3. CASE cmd.op \in {"enable", "disable"}
    BY <1>2, <2>3 DEF Changed, Allowed, ENABLEABLE_STATES, C!Entry
  <2>4. QED
    BY <2>1, <2>2, <2>3 DEF Allowed
<1>4. QED
  BY <1>1, <1>3 DEF Registered, e

\* A command never takes back or changes a MagicNumber.
LEMMA UpdatedKeepsNumbers ==
  ASSUME NEW cmd \in Command, NEW d \in Document, Allowed(cmd, d)
  PROVE  Numbers(d) \subseteq Numbers(Updated(cmd, d))
<1> DEFINE e == Updated(cmd, d)
<1>1. /\ \A j \in Ids \ {cmd.id} : e.entries[j] = d.entries[j]
      /\ e.entries[cmd.id] = Changed(cmd, d) /\ cmd.id \in Ids
      /\ \A i \in Ids : Registered(d, i) => Registered(e, i)
  BY ChangedFacts, ChangedType, UpdatedKeeps
<1> HIDE DEF e
<1>2. d.entries[cmd.id] \in C!Entry
  BY <1>1 DEF Document
<1>3. Registered(d, cmd.id) => e.entries[cmd.id].magic = d.entries[cmd.id].magic
  <2>1. CASE cmd.op = "register"
    BY <2>1 DEF Allowed, CanRegister
  <2>2. CASE cmd.op = "transition"
    BY <1>1, <2>2 DEF Changed, Moved
  <2>3. CASE cmd.op \in {"enable", "disable"}
    BY <1>1, <1>2, <2>3 DEF Changed, C!Entry
  <2>4. QED
    BY <2>1, <2>2, <2>3 DEF Allowed
<1>4. \A j \in Mql5 : Registered(d, j) =>
        Registered(e, j) /\ e.entries[j].magic = d.entries[j].magic
  BY <1>1, <1>3, RegistryAssumption
<1>5. QED
  BY <1>4 DEF Numbers, e

\* What a command makes of the registry is one step of the contract.
LEMMA UpdatedIsStep ==
  ASSUME TypeOK, NEW cmd \in Command, Allowed(cmd, file), file' = Updated(cmd, file)
  PROVE  C!Next
<1>1. cmd.id \in Ids /\ Changed(cmd, file) \in C!Entry /\ file.entries[cmd.id] \in C!Entry
  BY ChangedType DEF TypeOK, Document
<1>2. file'.entries = [file.entries EXCEPT ![cmd.id] = Changed(cmd, file)]
  BY DEF Updated
<1>3. CASE cmd.op = "register"
  <2> DEFINE i == cmd.id
             magic == Changed(cmd, file).magic
  <2>1. CanRegister(file, i) /\ Changed(cmd, file) = NewEntry(file, i)
    BY <1>3 DEF Allowed, Changed
  <2>2. magic \in Magics
    BY <1>1 DEF C!Entry
  <2>3. IF i \in Mql5 THEN magic # 0 /\ magic \notin Taken(file) ELSE magic = 0
    BY <2>1, FirstFreeIsFree DEF NewEntry, CanRegister
  <2>4. C!Register(i, magic)
    <3>1. Changed(cmd, file) = [state |-> "draft", enabled |-> FALSE, magic |-> magic]
      BY <2>1 DEF NewEntry
    <3>2. ~C!Known(i)
      BY <2>1 DEF CanRegister, Registered, C!Known
    <3>3. ASSUME i \in Mql5, NEW j \in Mql5, C!Known(j)
          PROVE  file.entries[j].magic # magic /\ ~C!Conflicts(i, j)
      <4>1. Registered(file, j) /\ ~SlotTaken(file, i)
        BY <2>1, <3>3 DEF CanRegister, Registered, C!Known
      <4>2. file.entries[j].magic \in Taken(file)
        BY <4>1 DEF Taken
      <4>3. ~C!Conflicts(i, j)
        BY <3>3, <4>1 DEF SlotTaken, C!Conflicts
      <4>4. QED
        BY <2>3, <3>3, <4>2, <4>3
    <3> HIDE DEF magic, i
    <3>4. QED
      BY <1>2, <2>3, <3>1, <3>2, <3>3 DEF C!Register, i
  <2> HIDE DEF magic
  <2>5. QED
    BY <1>1, <2>2, <2>4 DEF C!Next
<1>4. CASE cmd.op = "transition"
  <2>1. C!Transition(cmd.id, cmd.target)
    BY <1>2, <1>4 DEF Allowed, Changed, Moved, C!Transition
  <2>2. cmd.target \in C!States
    BY <1>4, CommandFields DEF States
  <2>3. QED
    BY <1>1, <2>1, <2>2 DEF C!Next
<1>5. CASE cmd.op \in {"enable", "disable"}
  <2>1. (cmd.op = "enable") \in BOOLEAN
    BY Zenon
  <2>2. C!SetEnabled(cmd.id, cmd.op = "enable")
    BY <1>1, <1>2, <1>5 DEF Allowed, Changed, ENABLEABLE_STATES, C!SetEnabled, TypeOK, Document
  <2>3. QED
    BY <1>1, <2>1, <2>2 DEF C!Next
<1>6. QED
  BY <1>3, <1>4, <1>5 DEF Allowed

LEMMA LockInvStep == TypeOK /\ LockInv /\ Next => LockInv'
<1> SUFFICES ASSUME TypeOK, LockInv, Next PROVE LockInv'
  OBVIOUS
<1> USE DEF LockInv, TypeOK
<1>1. ASSUME NEW c \in Clis, LockTimeout(c) \/ Refuse(c) \/ Finish(c) \/ Crash(c)
      PROVE  LockInv'
  <2>1. /\ UNCHANGED <<exists, file>> /\ pc'[c] = "idle"
        /\ \A k \in Clis \ {c} : pc'[k] = pc[k] /\ call'[k] = call[k] /\ doc'[k] = doc[k]
    BY <1>1 DEF LockTimeout, Refuse, Finish, Crash, Exit, Goto
  <2>2. \A k \in Clis \ {c} : lock = k => lock' = k
    BY <1>1, RegistryAssumption DEF LockTimeout, Refuse, Finish, Crash
  <2>3. QED
    BY <2>1, <2>2
<1>2. ASSUME NEW c \in Clis, NEW cmd \in Command, Invoke(c, cmd) PROVE LockInv'
  BY <1>2 DEF Invoke, Goto
<1>3. ASSUME NEW c \in Clis, Acquire(c) PROVE LockInv'
  <2>1. \A k \in Clis : lock # k
    BY <1>3, RegistryAssumption DEF Acquire, Free
  <2>2. QED
    BY <1>3, <2>1 DEF Acquire, Goto
<1>4. ASSUME NEW c \in Clis, Ensure(c) PROVE LockInv'
  <2>1. /\ UNCHANGED <<exists, file, lock, call>> /\ pc[c] = "ensure"
        /\ pc'[c] = IF Locking(call[c]) THEN "update" ELSE "scaffold"
        /\ Locking(call[c]) => doc'[c] = file
    BY <1>4 DEF Ensure, Loaded, Locking, Goto
  <2>2. \A k \in Clis \ {c} : pc'[k] = pc[k] /\ doc'[k] = doc[k]
    BY <1>4 DEF Ensure, Loaded, Goto
  <2>3. QED
    BY <2>1, <2>2
<1>5. ASSUME NEW c \in Clis, Write(c) PROVE LockInv'
  <2>1. /\ lock = c /\ lock' = lock /\ UNCHANGED <<call, doc>> /\ exists' = TRUE
        /\ pc' = [pc EXCEPT ![c] = "release"]
    BY <1>5 DEF Write, Goto
  <2>2. \A k \in Clis \ {c} : pc[k] # "update"
    BY <2>1
  <2>3. Locking(call[c])
    BY <1>5 DEF Write
  <2>4. QED
    BY <2>1, <2>2, <2>3
<1>6. ASSUME NEW c \in Clis, Release(c) PROVE LockInv'
  <2>1. lock = c /\ lock' = Free /\ UNCHANGED <<call, doc, file, exists>>
        /\ pc' = [pc EXCEPT ![c] = "scaffold"]
    BY <1>6 DEF Release, Goto
  <2>2. \A k \in Clis \ {c} : pc[k] \notin {"update", "release"}
                               /\ ~(pc[k] = "ensure" /\ Locking(call[k]))
    BY <2>1
  <2>3. QED
    BY <2>1, <2>2
<1>7. ASSUME NEW a \in Accounts, AddAccount(a) PROVE LockInv'
  <2>1. lock = Free /\ \A k \in Clis : lock # k
    BY <1>7, RegistryAssumption DEF AddAccount, Free
  <2>2. QED
    BY <1>7, <2>1 DEF AddAccount
<1>8. ASSUME NEW c \in Clis, Create(c) \/ \E i \in Ids : Scaffold(c, i) PROVE LockInv'
  BY <1>8 DEF Create, Scaffold
<1>9. QED
  BY <1>1, <1>2, <1>3, <1>4, <1>5, <1>6, <1>7, <1>8 DEF Next, CliStep

\* What registered entries and scaffolded paths survive: everything.
LEMMA RegistryGrows ==
  TypeOK /\ LockInv /\ Next =>
    /\ \A i \in Ids : Registered(file, i) => Registered(file', i)
    /\ paths \subseteq paths' /\ exists'
<1> SUFFICES ASSUME TypeOK, LockInv, Next
             PROVE  /\ \A i \in Ids : Registered(file, i) => Registered(file', i)
                    /\ paths \subseteq paths' /\ exists'
  OBVIOUS
<1>1. exists'
  BY LockInvStep DEF LockInv
<1>2. paths \subseteq paths'
  BY DEF Next, CliStep, Invoke, Acquire, LockTimeout, Ensure, Create, Refuse, Write,
     Release, Scaffold, Finish, Crash, AddAccount
<1>3. CASE file' = file
  BY <1>1, <1>2, <1>3
<1>4. ASSUME NEW c \in Clis, Write(c)
      PROVE  \A i \in Ids : Registered(file, i) => Registered(file', i)
  BY <1>4, UpdatedKeeps DEF Write, LockInv, TypeOK
<1>5. ASSUME NEW a \in Accounts, AddAccount(a)
      PROVE  \A i \in Ids : Registered(file, i) => Registered(file', i)
  BY <1>5 DEF AddAccount, TypeOK, Document, Registered
<1>6. CASE ~(\E c \in Clis : Write(c)) /\ ~(\E a \in Accounts : AddAccount(a))
  <2>1. file' = file
    BY <1>6 DEF Next, CliStep, Invoke, Acquire, LockTimeout, Ensure, Create, Refuse,
       Release, Scaffold, Finish, Crash, LockInv
  <2>2. QED
    BY <2>1, <1>3
<1>7. QED
  BY <1>1, <1>2, <1>4, <1>5, <1>6

LEMMA RegisteringInvStep == SerialInv /\ Next => RegisteringInv' /\ AcknowledgedKept'
<1> SUFFICES ASSUME SerialInv, Next PROVE RegisteringInv' /\ AcknowledgedKept'
  OBVIOUS
<1> USE DEF SerialInv, SoundInv
<1>1. /\ \A i \in Ids : Registered(file, i) => Registered(file', i)
      /\ paths \subseteq paths' /\ exists'
  BY RegistryGrows
<1>2. ASSUME UNCHANGED acked PROVE AcknowledgedKept'
  <2>1. \A i \in acked : Registered(file', i)
    BY <1>1 DEF AcknowledgedKept, TypeOK
  <2>2. \A i \in acked : Registered(file, i)'
    BY <2>1 DEF Registered
  <2>3. QED
    BY <1>1, <1>2, <2>2 DEF AcknowledgedKept
\* A process is unchanged, or idle, or in one of the three steps below.
<1>3. ASSUME NEW c \in Clis, call'[c] = call[c], call[c].op = "register",
             pc[c] \in {"release", "scaffold"},
             pc'[c] = pc[c], todo'[c] = todo[c]
      PROVE  /\ Registered(file', call[c].id)
             /\ pc[c] = "scaffold" /\ call[c].id \notin todo[c]
                  => {call[c].id} \X Parts \subseteq paths'
  <2>1. call[c].id \in Ids
    BY <1>3, CommandFields DEF Locking, TypeOK
  <2>2. QED
    BY <1>1, <1>3, <2>1 DEF RegisteringInv
<1> DEFINE Goal(c) ==
      call'[c].op = "register" /\ pc'[c] \in {"release", "scaffold"} =>
        /\ Registered(file', call'[c].id)
        /\ pc'[c] = "scaffold" /\ call'[c].id \notin todo'[c]
             => {call'[c].id} \X Parts \subseteq paths'
<1>4. ASSUME NEW c \in Clis, pc'[c] \notin {"release", "scaffold"} PROVE Goal(c)
  BY <1>4
<1>5. ASSUME NEW c \in Clis, call'[c] = call[c], pc'[c] = pc[c], todo'[c] = todo[c]
      PROVE  Goal(c)
  BY <1>3, <1>5
<1>6. ASSUME NEW c \in Clis, Write(c) PROVE Goal(c)
  <2>1. /\ file' = Updated(call[c], doc[c]) /\ Allowed(call[c], doc[c])
        /\ call' = call /\ pc'[c] = "release"
    BY <1>6 DEF Write, Goto, TypeOK
  <2>2. Registered(file', call[c].id)
    BY <2>1, UpdatedKeeps DEF TypeOK
  <2>3. QED
    BY <2>1, <2>2
<1>7. ASSUME NEW c \in Clis, Release(c) PROVE Goal(c)
  <2>1. /\ pc[c] = "release" /\ UNCHANGED <<call, file>>
        /\ call[c].op = "register" => todo'[c] = {call[c].id}
    BY <1>7 DEF Release, TypeOK
  <2>2. QED
    BY <2>1 DEF RegisteringInv
<1>8. ASSUME NEW c \in Clis, NEW i \in Ids, Scaffold(c, i) PROVE Goal(c)
  <2>1. /\ pc[c] = "scaffold" /\ UNCHANGED <<call, file, pc>>
        /\ \/ todo' = todo
           \/ todo'[c] = todo[c] \ {i} /\ {i} \X Parts \subseteq paths'
    BY <1>8 DEF Scaffold, TypeOK, Parts
  <2>2. QED
    BY <1>1, <2>1 DEF RegisteringInv
<1>9. ASSUME NEW c \in Clis, Ensure(c) \/ Create(c) PROVE Goal(c)
  <2>1. call' = call /\ (pc'[c] # "release") /\ (Locking(call[c]) => pc'[c] # "scaffold")
    BY <1>9 DEF Ensure, Create, Loaded, Goto, TypeOK
  <2>2. QED
    BY <2>1 DEF Locking
<1>10. ASSUME NEW c \in Clis, NEW k \in Clis, k # c,
              CliStep(c) \/ Crash(c) \/ \E cmd \in Command : Invoke(c, cmd)
       PROVE  call'[k] = call[k] /\ pc'[k] = pc[k] /\ todo'[k] = todo[k]
  BY <1>10, OthersFrame
<1>11. ASSUME NEW c \in Clis,
              \/ Acquire(c) \/ LockTimeout(c) \/ Refuse(c) \/ Finish(c) \/ Crash(c)
              \/ \E cmd \in Command : Invoke(c, cmd)
       PROVE  pc'[c] \notin {"release", "scaffold"}
  BY <1>11 DEF Acquire, LockTimeout, Refuse, Finish, Crash, Invoke, Exit, Goto, TypeOK
<1>12. \A c \in Clis : Goal(c)
  <2>1. ASSUME NEW k \in Clis,
               CliStep(k) \/ Crash(k) \/ \E cmd \in Command : Invoke(k, cmd)
        PROVE  \A c \in Clis : Goal(c)
    <3>1. \A c \in Clis \ {k} : Goal(c)
      BY <1>5, <1>10, <2>1
    <3>2. Goal(k)
      BY <1>4, <1>6, <1>7, <1>8, <1>9, <1>11, <2>1 DEF CliStep
    <3>3. QED
      BY <3>1, <3>2
  <2>2. ASSUME NEW a \in Accounts, AddAccount(a) PROVE \A c \in Clis : Goal(c)
    BY <1>5, <2>2 DEF AddAccount
  <2>3. QED
    BY <2>1, <2>2 DEF Next
<1>13. RegisteringInv'
  BY <1>12 DEF RegisteringInv, Registered
<1>14. AcknowledgedKept'
  <2>1. ASSUME NEW c \in Clis, Finish(c) PROVE AcknowledgedKept'
    <3>1. /\ pc[c] = "scaffold" /\ todo[c] = {} /\ file' = file /\ paths' = paths
          /\ acked' = IF call[c].op = "register" THEN acked \cup {call[c].id} ELSE acked
      BY <2>1 DEF Finish
    <3>2. \A i \in acked' : Registered(file, i) /\ {i} \X Parts \subseteq paths
      BY <3>1 DEF RegisteringInv, AcknowledgedKept
    <3>3. QED
      BY <1>1, <3>1, <3>2 DEF AcknowledgedKept, Registered
  <2>2. CASE \A c \in Clis : ~Finish(c)
    <3>1. UNCHANGED acked
      BY <2>2 DEF Next, CliStep, Crash, Invoke, Acquire, LockTimeout, Ensure, Create,
         Refuse, Write, Release, Scaffold, AddAccount
    <3>2. QED
      BY <3>1, <1>2
  <2>3. QED
    BY <2>1, <2>2
<1>15. QED
  BY <1>13, <1>14

LEMMA IssuedStep == TypeOK /\ LockInv /\ IssuedInv /\ Next => IssuedInv'
<1> SUFFICES ASSUME TypeOK, LockInv, IssuedInv, Next PROVE IssuedInv'
  OBVIOUS
<1>1. ASSUME Numbers(file') = Numbers(file), issued' = issued PROVE IssuedInv'
  BY <1>1 DEF IssuedInv, Numbers, Registered
<1>2. ASSUME NEW c \in Clis, Write(c) PROVE IssuedInv'
  <2>1. file' = Updated(call[c], file) /\ Allowed(call[c], file)
        /\ issued' = issued \cup Numbers(file')
    BY <1>2 DEF Write, LockInv
  <2>2. issued \subseteq Numbers(file')
    BY <2>1, UpdatedKeepsNumbers DEF IssuedInv, TypeOK
  <2>3. QED
    BY <2>1, <2>2 DEF IssuedInv, Numbers, Registered
<1>3. ASSUME NEW a \in Accounts, AddAccount(a) PROVE IssuedInv'
  <2>1. file'.entries = file.entries /\ issued' = issued
    BY <1>3 DEF AddAccount, TypeOK, Document
  <2>2. QED
    BY <1>1, <2>1 DEF Numbers, Registered
<1>4. CASE ~(\E c \in Clis : Write(c)) /\ ~(\E a \in Accounts : AddAccount(a))
  <2>1. file' = file /\ issued' = issued
    BY <1>4 DEF Next, CliStep, Invoke, Acquire, LockTimeout, Ensure, Create, Refuse,
       Release, Scaffold, Finish, Crash, LockInv
  <2>2. QED
    BY <1>1, <2>1
<1>5. QED
  BY <1>2, <1>3, <1>4

LEMMA SerialInit == FileExists /\ Init => SerialInv
<1> SUFFICES ASSUME FileExists, Init PROVE SerialInv
  OBVIOUS
<1>1. SoundInv
  BY InitType, EmptyDocumentSound DEF Init, SoundInv
<1>2. LockInv /\ RegisteringInv /\ AcknowledgedKept
  BY DEF Init, LockInv, RegisteringInv, AcknowledgedKept
<1>3. IssuedInv
  BY RegistryAssumption
     DEF Init, IssuedInv, Numbers, Registered, EmptyDocument, C!Unregistered
<1>4. QED
  BY <1>1, <1>2, <1>3 DEF SerialInv

LEMMA SerialStep == SerialInv /\ [Next]_vars => SerialInv'
<1>1. ASSUME SerialInv, Next PROVE SerialInv'
  BY <1>1, SoundStep, LockInvStep, RegisteringInvStep, IssuedStep DEF SerialInv, SoundInv
<1>2. ASSUME SerialInv, UNCHANGED vars PROVE SerialInv'
  BY <1>2 DEF SerialInv, SoundInv, TypeOK, SoundDocument, Registered, LockInv,
              RegisteringInv, IssuedInv, Numbers, AcknowledgedKept, vars
<1>3. QED
  BY <1>1, <1>2

\* Where registry.toml exists from the start, writers are serialised, and the
\* registry holds everything that was ever acknowledged or issued.
THEOREM SerialInvariant == ASSUME FileExists PROVE Spec => []SerialInv
<1>1. Init => SerialInv
  BY SerialInit
<1>2. QED
  BY <1>1, SerialStep, PTL DEF Spec

\* Where registry.toml exists from the start, an acknowledged registration stays
\* with all its paths.
THEOREM AcknowledgedKeptHolds == ASSUME FileExists PROVE Spec => []AcknowledgedKept
<1>1. SerialInv => AcknowledgedKept
  BY DEF SerialInv
<1>2. QED
  BY <1>1, SerialInvariant, PTL

\* Where registry.toml exists from the start, a MagicNumber belongs to one strategy
\* for ever, whatever became of that strategy.
THEOREM MagicNeverReissuedHolds == ASSUME FileExists PROVE Spec => []MagicNeverReissued
<1>1. SerialInv => MagicNeverReissued
  <2>1. SUFFICES ASSUME SerialInv, NEW p \in issued, NEW q \in issued
                 PROVE  p[1] = q[1] <=> p[2] = q[2]
    BY DEF MagicNeverReissued
  <2>2. PICK i \in Mql5 : Registered(file, i) /\ p = <<i, file.entries[i].magic>>
    BY <2>1 DEF SerialInv, IssuedInv, Numbers
  <2>3. PICK j \in Mql5 : Registered(file, j) /\ q = <<j, file.entries[j].magic>>
    BY <2>1 DEF SerialInv, IssuedInv, Numbers
  <2>4. i # j => file.entries[i].magic # file.entries[j].magic
    BY <2>1, <2>2, <2>3 DEF SerialInv, SoundInv, SoundDocument
  <2>5. QED
    BY <2>2, <2>3, <2>4
<1>2. QED
  BY <1>1, SerialInvariant, PTL

\* Every step changes the entries as one command would, or not at all.
LEMMA StepIsContractStep == SerialInv /\ [Next]_vars => [C!Next]_(file.entries)
<1> SUFFICES ASSUME SerialInv, [Next]_vars
             PROVE  C!Next \/ file'.entries = file.entries
  OBVIOUS
<1> USE DEF SerialInv, SoundInv
<1>1. ASSUME NEW c \in Clis, Write(c) PROVE C!Next
  BY <1>1, UpdatedIsStep DEF Write, LockInv, TypeOK
<1>2. ASSUME NEW a \in Accounts, AddAccount(a) PROVE file'.entries = file.entries
  BY <1>2 DEF AddAccount, TypeOK, Document
<1>3. CASE ~(\E c \in Clis : Write(c)) /\ ~(\E a \in Accounts : AddAccount(a))
  BY <1>3 DEF Next, CliStep, Invoke, Acquire, LockTimeout, Ensure, Create, Refuse,
     Release, Scaffold, Finish, Crash, LockInv, vars
<1>4. QED
  BY <1>1, <1>2, <1>3

\* Where registry.toml exists from the start, the command-line processes
\* implement the atomic registry.
THEOREM RegistryImplementsContract == ASSUME FileExists PROVE Spec => ImplementsContract
<1>1. Init => C!Init
  BY DEF Init, EmptyDocument, C!Init
<1>2. QED
  BY <1>1, SerialInvariant, StepIsContractStep, PTL DEF Spec, ImplementsContract, C!Spec

\* A strategy the risk aggregator watches stays in its sight.
THEOREM StaysRiskVisibleHolds == ASSUME FileExists PROVE Spec => StaysRiskVisible
<1> DEFINE A == \A i \in Ids : file.entries[i].state \in RISK_VISIBLE
                                 => file'.entries[i].state \in RISK_VISIBLE
<1>1. SerialInv /\ [Next]_vars => [A]_vars
  <2>1. SUFFICES ASSUME SerialInv, C!Next \/ file'.entries = file.entries PROVE A
    BY StepIsContractStep
  <2>2. file.entries \in [Ids -> C!Entry]
    BY <2>1 DEF SerialInv, SoundInv, TypeOK, Document
  <2>3. ASSUME NEW k \in Ids, NEW magic \in Magics, C!Register(k, magic) PROVE A
    BY <2>2, <2>3 DEF C!Register, C!Known, RISK_VISIBLE
  <2>4. ASSUME NEW k \in Ids, NEW target \in C!States, C!Transition(k, target) PROVE A
    BY <2>2, <2>4 DEF C!Transition, C!ALLOWED_TRANSITIONS, C!States, C!Entry, RISK_VISIBLE
  <2>5. ASSUME NEW k \in Ids, NEW flag \in BOOLEAN, C!SetEnabled(k, flag) PROVE A
    BY <2>2, <2>5 DEF C!SetEnabled, C!Entry, RISK_VISIBLE
  <2>6. QED
    BY <2>1, <2>3, <2>4, <2>5 DEF C!Next
<1>2. QED
  BY <1>1, SerialInvariant, PTL DEF Spec, StaysRiskVisible

=============================================================================

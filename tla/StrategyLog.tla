----------------------------- MODULE StrategyLog -----------------------------
(***************************************************************************)
(* The tail of one strategy's telemetry log (read_strategy_log_delta) and  *)
(* the life of what it remembers: staged in a cycle, committed or dropped  *)
(* with it, saved in the checkpoint, lost or restored by a restart.  The   *)
(* bot appends, truncates and rotates the file at any moment, also between *)
(* two reads of the same cycle.                                            *)
(*                                                                         *)
(* A log is a sequence of bytes, of which three kinds matter: "n" ends a   *)
(* line, a line with an "x" in it is malformed, any other line is an       *)
(* event.  A fingerprint is the content it was computed from.              *)
(***************************************************************************)
EXTENDS Integers, Sequences, FiniteSets

CONSTANTS Inodes,       \* identities a log file may have
          Window,       \* LOG_FINGERPRINT_BYTES
          Chunk,        \* max_bytes of one read
          Period,       \* the 60 seconds over which malformed lines count
          Threshold,    \* malformed_log_quarantine_per_minute
          QueueLimit,   \* maxlen of malformed_timestamps
          LegacyOffsets,\* offsets an old checkpoint may hold without an identity
          LongestLine,  \* bound: bytes the bot writes before it ends a line
          MaxBytes,     \* bound: length of a log
          MaxEpoch,     \* bound: logs the bot begins, by truncation or rotation
          MaxTime,      \* bound: the last instant
          MaxFaults     \* bound: failed cycles, reads and saves, and crashes

ASSUME LogAssumption ==
  /\ Inodes \subseteq Nat \ {0} /\ Inodes # {}
  /\ Window \in Nat \ {0} /\ Chunk \in Nat \ {0}
  /\ Period \in Nat /\ Threshold \in Nat \ {0} /\ QueueLimit \in Nat \ {0}
  /\ LegacyOffsets \subseteq Nat
  /\ LongestLine \in Nat /\ MaxBytes \in Nat /\ MaxEpoch \in Nat
  /\ MaxTime \in Nat /\ MaxFaults \in Nat

VARIABLES
  file,     \* what the log path names (inode 0: nothing)
  now,      \* the wall clock
  faults,   \* failures so far
  ckpt,     \* durable: status and telemetry in the checkpoint
  mem,      \* memory of the aggregator, between cycles
  pc,       \* the next step of the aggregator
  staged,   \* the copy of mem the cycle works on
  fd,       \* the file the aggregator has open, as it is now, or NoFile
  rd        \* locals of read_strategy_log_delta

vars == <<file, now, faults, ckpt, mem, pc, staged, fd, rd>>

Byte == {"e", "x", "n"}

\* Epochs number the logs the bot has begun; no code sees them.
File == [inode : Inodes \cup {0}, epoch : Nat, bytes : Seq(Byte)]
NoFile == [inode |-> 0, epoch |-> 0, bytes |-> <<>>]

\* StrategyLogStatus.
Status ==
  [offset : Nat, inode : Inodes \cup {0}, prefixLength : Nat, prefix : Seq(Byte),
   boundaryStart : Nat, boundary : Seq(Byte), stamps : Seq(Nat), quarantined : BOOLEAN]
NewStatus ==
  [offset |-> 0, inode |-> 0, prefixLength |-> 0, prefix |-> <<>>,
   boundaryStart |-> 0, boundary |-> <<>>, stamps |-> <<>>, quarantined |-> FALSE]

\* What the telemetry of AggregatorState has been computed from: the bytes
\* parsed since the last replay began, the epoch they are of (0: more than one),
\* and when malformed lines were met since the process started.  The code keeps
\* their effect only.  The last two are for the properties: shaken says that the
\* log was truncated in the middle of a read since the last replay, blind that a
\* replacement may have been missed for one of the reasons given at Blind.
Telemetry ==
  [parsed : Seq(Byte), epoch : Nat, noticed : Seq(Nat), shaken : BOOLEAN, blind : BOOLEAN]
NoTelemetry ==
  [parsed |-> <<>>, epoch |-> 0, noticed |-> <<>>, shaken |-> FALSE, blind |-> FALSE]

Kept == [status : Status, tele : Telemetry]
Local == [size : Nat, replay : BOOLEAN, start : Nat, complete : Seq(Byte),
          epoch : Nat, truncated : BOOLEAN]
NoLocal == [size |-> 0, replay |-> FALSE, start |-> 0, complete |-> <<>>,
            epoch |-> 0, truncated |-> FALSE]

TypeOK ==
  /\ file \in File /\ fd \in File
  /\ now \in 0..MaxTime /\ faults \in 0..MaxFaults
  /\ ckpt \in Kept /\ mem \in Kept /\ staged \in Kept /\ rd \in Local
  /\ \A k \in {ckpt, mem, staged} : Len(k.status.stamps) <= QueueLimit
  /\ pc \in {"down", "poll", "check", "read", "mark", "apply", "save"}

Init ==
  /\ file = NoFile /\ now = 0 /\ faults = 0
  /\ \E offset \in LegacyOffsets \cup {0} :
       ckpt = [status |-> [NewStatus EXCEPT !.offset = offset], tele |-> NoTelemetry]
  /\ pc = "down"
  /\ mem = [status |-> NewStatus, tele |-> NoTelemetry] /\ staged = mem
  /\ fd = NoFile /\ rd = NoLocal

Fault == faults < MaxFaults /\ faults' = faults + 1

Smaller(a, b) == IF a <= b THEN a ELSE b
Larger(a, b) == IF a <= b THEN b ELSE a

\* seek(from), read(to - from): the file may end earlier.
Region(bytes, from, to) == SubSeq(bytes, from + 1, Smaller(to, Len(bytes)))

----------------------------------------------------------------------------
(* The bot, external *)

\* The open handle follows the inode, the path does not.
Becomes(f) ==
  /\ file' = f
  /\ fd' = IF fd.inode = file.inode THEN f ELSE fd

SinceNewline(bytes) ==
  Cardinality({i \in DOMAIN bytes : \A j \in i..Len(bytes) : bytes[j] # "n"})

WriteByte ==
  /\ file.inode # 0 /\ Len(file.bytes) < MaxBytes
  /\ \E b \in Byte :
       /\ IF b = "n" THEN SinceNewline(file.bytes) > 0
                     ELSE SinceNewline(file.bytes) < LongestLine
       /\ Becomes([file EXCEPT !.bytes = Append(@, b)])
  /\ UNCHANGED <<now, faults, ckpt, mem, pc, staged, rd>>

\* copytruncate: the same inode begins again.
Truncate ==
  /\ file.inode # 0 /\ file.epoch < MaxEpoch
  /\ Becomes([file EXCEPT !.bytes = <<>>, !.epoch = @ + 1])
  /\ rd' = [rd EXCEPT !.truncated = @ \/ fd.inode = file.inode]
  /\ UNCHANGED <<now, faults, ckpt, mem, pc, staged>>

\* A new file under the path; its inode may be one that was freed, which an
\* open one is not.
Rotate ==
  /\ file.epoch < MaxEpoch
  /\ \E i \in Inodes \ {fd.inode} :
       file' = [inode |-> i, epoch |-> file.epoch + 1, bytes |-> <<>>]
  /\ UNCHANGED <<now, faults, ckpt, mem, pc, staged, fd, rd>>

\* The log is moved away; the bot will begin another.
MoveAway ==
  /\ file.inode # 0
  /\ file' = [NoFile EXCEPT !.epoch = file.epoch]
  /\ UNCHANGED <<now, faults, ckpt, mem, pc, staged, fd, rd>>

Tick ==
  /\ now < MaxTime /\ now' = now + 1
  /\ UNCHANGED <<file, faults, ckpt, mem, pc, staged, fd, rd>>

----------------------------------------------------------------------------
(* read_strategy_log_delta *)

\* The cycle works on deep copies; a quarantined strategy is not read, and a
\* missing file leaves its status alone.
Open ==
  /\ pc = "poll"
  /\ staged' = mem
  /\ IF mem.status.quarantined \/ file.inode = 0
       THEN pc' = "apply" /\ UNCHANGED <<fd, rd>>
       ELSE LET s == mem.status  size == Len(file.bytes) IN
            /\ fd' = file
            /\ rd' = [NoLocal EXCEPT
                        !.size = size,
                        !.replay = \/ s.inode # 0 /\ s.inode # file.inode
                                   \/ size < s.offset
                                   \/ s.offset > 0 /\ s.inode = 0]
            /\ pc' = "check"
  /\ UNCHANGED <<file, now, faults, ckpt, mem>>

\* Mutant of Recognised: only the beginning is compared.
PrefixRecognised(s, bytes) == Region(bytes, 0, s.prefixLength) = s.prefix

\* The fingerprints of the last read are still those of the file.
Recognised(s, bytes) ==
  /\ s.prefixLength > 0 =>
       /\ Len(bytes) >= s.prefixLength
       /\ Region(bytes, 0, s.prefixLength) = s.prefix
  /\ s.offset > 0 =>
       /\ Len(bytes) >= s.offset
       /\ Region(bytes, s.boundaryStart, s.offset) = s.boundary

Check ==
  /\ pc = "check"
  /\ rd' = [rd EXCEPT !.replay = @ \/ ~Recognised(staged.status, fd.bytes)]
  /\ pc' = "read"
  /\ UNCHANGED <<file, now, faults, ckpt, mem, staged, fd>>

\* Mutant of Complete: the newline stays behind.
WithoutNewline(bytes) ==
  LET ends == {i \in DOMAIN bytes : bytes[i] = "n"}
  IN IF ends = {} THEN <<>>
     ELSE SubSeq(bytes, 1, (CHOOSE i \in ends : \A j \in ends : j <= i) - 1)

\* Everything up to the last newline.
Complete(bytes) ==
  LET ends == {i \in DOMAIN bytes : bytes[i] = "n"}
  IN IF ends = {} THEN <<>>
     ELSE SubSeq(bytes, 1, CHOOSE i \in ends : \A j \in ends : j <= i)

ReadChunk ==
  /\ pc = "read"
  /\ LET start == IF rd.replay THEN 0 ELSE staged.status.offset IN
     rd' = [rd EXCEPT !.start = start, !.epoch = fd.epoch,
                      !.complete = Complete(Region(fd.bytes, start, start + Chunk))]
  /\ pc' = "mark"
  /\ UNCHANGED <<file, now, faults, ckpt, mem, staged, fd>>

\* The malformed lines among complete lines.
Malformed(lines) ==
  Cardinality({i \in DOMAIN lines :
                 /\ lines[i] = "n"
                 /\ \E j \in 1..i : /\ lines[j] = "x"
                                    /\ \A k \in j..(i - 1) : lines[k] # "n"})

Times(n) == [i \in 1..n |-> now]

\* Mutant of Newest: a full queue keeps its oldest entries.
Oldest(stamps) == SubSeq(stamps, 1, Smaller(QueueLimit, Len(stamps)))

\* What a bounded queue keeps of all that was appended to it.
Newest(stamps) == SubSeq(stamps, 1 + Larger(0, Len(stamps) - QueueLimit), Len(stamps))

\* popleft as long as the first entry is older than the period.
Pruned(queue) ==
  LET young == {i \in DOMAIN queue : queue[i] >= now - Period}
  IN IF young = {} THEN <<>>
     ELSE SubSeq(queue, CHOOSE i \in young : \A j \in young : i <= j, Len(queue))

\* Mutant of PrefixSpan: as long as a fingerprint may be.
FullSpan(size) == Window

\* How much of the beginning is fingerprinted: the size is the one Open found.
PrefixSpan(size) == Smaller(size, Window)

\* The fingerprints are of the file as it is now, the lines of the file as it
\* was at ReadChunk.  A read without a complete line counts nothing.
NextStatus(s) ==
  LET offset == rd.start + Len(rd.complete)
      from == Larger(0, offset - Window)
      stamps == Pruned(Newest(s.stamps \o Times(Malformed(rd.complete))))
  IN [offset |-> offset, inode |-> fd.inode,
      prefixLength |-> PrefixSpan(rd.size),
      prefix |-> Region(fd.bytes, 0, PrefixSpan(rd.size)),
      boundaryStart |-> from, boundary |-> Region(fd.bytes, from, offset),
      stamps |-> IF rd.complete = <<>> THEN s.stamps ELSE stamps,
      quarantined |-> \/ s.quarantined
                      \/ rd.complete # <<>> /\ Len(stamps) >= Threshold]

\* What the code cannot see: a truncation in the middle of this read, if the new
\* log is as long as the offset when the fingerprints are taken; and a replacement
\* that differs only in bytes neither fingerprint of the last read covers.
Blind(s, t) ==
  LET offset == rd.start + Len(rd.complete) IN
  \/ rd.truncated /\ offset > 0 /\ Len(fd.bytes) >= offset
  \/ rd.start > 0 /\ t.blind
  \/ rd.start > 0 /\ t.epoch # rd.epoch /\ s.prefixLength < s.boundaryStart

NextTelemetry(s, t) ==
  [parsed |-> IF rd.start = 0 THEN rd.complete ELSE t.parsed \o rd.complete,
   epoch |-> IF rd.start = 0 \/ t.epoch = rd.epoch THEN rd.epoch ELSE 0,
   noticed |-> t.noticed \o Times(Malformed(rd.complete)),
   shaken |-> rd.truncated \/ (rd.start > 0 /\ t.shaken),
   blind |-> Blind(s, t)]

Mark ==
  /\ pc = "mark"
  /\ staged' = [status |-> NextStatus(staged.status),
             tele |-> NextTelemetry(staged.status, staged.tele)]
  /\ fd' = NoFile /\ pc' = "apply"
  /\ UNCHANGED <<file, now, faults, ckpt, mem, rd>>

\* An OSError: the strategy is passed over in this cycle.
ReadFails ==
  /\ pc \in {"check", "read", "mark"} /\ Fault
  /\ fd' = NoFile /\ pc' = "apply"
  /\ UNCHANGED <<file, now, ckpt, mem, staged, rd>>

----------------------------------------------------------------------------
(* The cycle around it *)

Commit ==
  /\ pc = "apply"
  /\ mem' = staged /\ pc' = "save"
  /\ UNCHANGED <<file, now, faults, ckpt, staged, fd, rd>>

\* Mutant of Discard: the status object is not a copy.
DiscardTelemetryOnly ==
  /\ pc = "apply" /\ Fault
  /\ mem' = [mem EXCEPT !.status = staged.status] /\ pc' = "save"
  /\ UNCHANGED <<file, now, ckpt, staged, fd, rd>>

\* A later part of the cycle raises: status and telemetry are dropped together.
Discard ==
  /\ pc = "apply" /\ Fault
  /\ pc' = "save"
  /\ UNCHANGED <<file, now, ckpt, mem, staged, fd, rd>>

Save ==
  /\ pc = "save"
  /\ ckpt' = mem /\ pc' = "poll"
  /\ UNCHANGED <<file, now, faults, mem, staged, fd, rd>>

SaveFails ==
  /\ pc = "save" /\ Fault
  /\ pc' = "poll"
  /\ UNCHANGED <<file, now, ckpt, mem, staged, fd, rd>>

Crash ==
  /\ pc # "down" /\ Fault
  /\ pc' = "down" /\ fd' = NoFile
  /\ UNCHANGED <<file, now, ckpt, mem, staged, rd>>

\* Mutant of Restored: quarantine is a matter of the process.
RestoredClean(k) ==
  [k EXCEPT !.status.stamps = <<>>, !.status.quarantined = FALSE, !.tele.noticed = <<>>]

\* load_checkpoint: the timestamps of malformed lines are not in the file.
Restored(k) == [k EXCEPT !.status.stamps = <<>>, !.tele.noticed = <<>>]

Start ==
  /\ pc = "down"
  /\ mem' = Restored(ckpt) /\ staged' = mem' /\ rd' = NoLocal
  /\ pc' = "poll"
  /\ UNCHANGED <<file, now, faults, ckpt, fd>>

Step == Open \/ Check \/ ReadChunk \/ Mark \/ Commit \/ Save \/ Start
Bot == WriteByte \/ Truncate \/ Rotate \/ MoveAway
Next == Step \/ Bot \/ Tick \/ ReadFails \/ Discard \/ SaveFails \/ Crash

Spec == Init /\ [][Next]_vars

\* The aggregator polls for ever and is restarted by its supervisor.
FairSpec == Spec /\ WF_vars(Step)

----------------------------------------------------------------------------
(* Properties *)

\* As long as the log has not been replaced, the offset is the end of a line
\* and telemetry accounts for every byte before it and for none behind it: in
\* memory and in the checkpoint, whatever failed in between.  Were the status
\* ahead, events would be lost for good; were it behind, malformed lines would
\* be counted twice.
Exact(k) ==
  k.tele.epoch = file.epoch /\ file.inode # 0 /\ k.tele.epoch # 0 =>
    /\ k.status.offset <= Len(file.bytes)
    /\ k.tele.parsed = SubSeq(file.bytes, 1, k.status.offset)
    /\ k.status.offset > 0 => file.bytes[k.status.offset] = "n"
OffsetMatchesTelemetry == Exact(mem) /\ Exact(ckpt)

\* A read that ends tells the log from its predecessors: whatever replaced it,
\* by truncation or by rotation, even under the same inode and at least as long,
\* what was parsed is the beginning of the log as it is, with the two exceptions
\* that Blind names.
ReplacementIsNoticed ==
  [][ Mark /\ ~rd.truncated /\ ~staged'.tele.blind =>
        staged'.tele.parsed = SubSeq(fd.bytes, 1, staged'.status.offset) ]_vars

\* A log that only grew is never read again from the beginning, although bytes
\* arrive between the fstat, the chunk and the fingerprints: a replay counts
\* malformed lines twice and could quarantine a healthy strategy.
NoNeedlessReplay ==
  [][ Check /\ rd'.replay =>
        \/ fd.epoch # mem.tele.epoch
        \/ mem.tele.shaken
        \/ mem.status.inode = 0 ]_vars

\* Malformed lines met by this process within the last period.
Recent(t) ==
  Cardinality({i \in DOMAIN t.noticed : t.noticed[i] >= now - Period})

\* When a read ends, a strategy with as many malformed lines in the last period
\* as the threshold is in quarantine, provided the bounded queue can hold that
\* many, however the lines were spread over cycles.
QuarantineIsDue ==
  [][ Mark /\ Threshold <= QueueLimit /\ Recent(staged'.tele) >= Threshold =>
        staged'.status.quarantined ]_vars

\* A quarantine that has reached the checkpoint outlives crashes, failed saves
\* and dropped cycles.
QuarantineSurvives ==
  ckpt.status.quarantined /\ pc # "down" => mem.status.quarantined

\* "the remainder will be picked up on the next cycle": once the bot is done,
\* the aggregator has read past every complete line.
RemainderPickedUp ==
  []<>(\/ file.inode = 0
       \/ mem.status.quarantined
       \/ \A i \in DOMAIN file.bytes :
            file.bytes[i] = "n" => i <= mem.status.offset)
=============================================================================

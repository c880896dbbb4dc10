-------------------------- MODULE StrategyLogProofs --------------------------
(***************************************************************************)
(* For every window, chunk and threshold, and whatever the bot does to its *)
(* log between two steps of a read: telemetry accounts for exactly the     *)
(* bytes before the offset, a log that was replaced is recognised except   *)
(* where Blind says it cannot be, a log that only grew is not read again,  *)
(* and a quarantine that was saved is not forgotten.                       *)
(***************************************************************************)
EXTENDS StrategyLog, SequenceTheorems, FiniteSetTheorems, WellFoundedInduction, TLAPS

-----------------------------------------------------------------------------
(* The invariant *)

Reading == pc \in {"check", "read", "mark"}

\* The part of TypeOK that the bytes depend on.
Shapes ==
  /\ file \in File /\ fd \in File /\ rd \in Local /\ now \in Nat
  /\ mem \in Kept /\ ckpt \in Kept /\ staged \in Kept
  /\ pc \in {"down", "poll", "check", "read", "mark", "apply", "save"}

\* The open file is the one under the path, or one that was replaced there.
HandleInv ==
  /\ fd.inode # 0 <=> Reading
  /\ file.inode # 0 => file.epoch > 0
  /\ fd.inode # 0 =>
       /\ fd.epoch > 0 /\ fd.epoch <= file.epoch
       /\ fd.inode = file.inode => fd = file
       /\ file.inode # 0 /\ fd.inode # file.inode => fd.epoch < file.epoch

\* What is remembered of the log f, if it is of that log: where it ends, and,
\* unless the log was truncated during a read, how it is recognised.
Follows(k, f) ==
  k.tele.epoch = f.epoch /\ f.inode # 0 /\ f.epoch # 0 =>
    /\ k.status.offset <= Len(f.bytes)
    /\ k.tele.parsed = SubSeq(f.bytes, 1, k.status.offset)
    /\ k.status.offset > 0 => f.bytes[k.status.offset] = "n"
    /\ ~k.tele.shaken => k.status.inode = f.inode /\ Recognised(k.status, f.bytes)

\* Whatever log is recognised by its fingerprints begins with what was parsed,
\* as far as the two fingerprints cover it; a boundary that was cut short by a
\* truncation recognises no log.
Faithful(k) ==
  LET s == k.status  t == k.tele IN
  ~t.blind /\ s.offset > 0 /\ s.inode # 0 =>
    \/ Len(s.boundary) < s.offset - s.boundaryStart
    \/ /\ Len(t.parsed) = s.offset
       /\ s.boundary = SubSeq(t.parsed, s.boundaryStart + 1, s.offset)
       /\ \A i \in 1..s.offset : i <= s.prefixLength => s.prefix[i] = t.parsed[i]

KeptInv(k) == k.tele.epoch <= file.epoch /\ Follows(k, file) /\ Faithful(k)

\* The lines read are those behind the offset, of a log that has only grown since.
Segment ==
  rd.complete # <<>> =>
    /\ rd.start + Len(rd.complete) <= Len(fd.bytes)
    /\ rd.complete = SubSeq(fd.bytes, rd.start + 1, rd.start + Len(rd.complete))
    /\ fd.bytes[rd.start + Len(rd.complete)] = "n"

ReadInv ==
  Reading =>
    /\ staged = mem /\ Follows(staged, fd)
    /\ ~rd.truncated => rd.size <= Len(fd.bytes)
    /\ pc # "mark" /\ ~rd.replay /\ staged.status.offset > 0 => staged.status.inode # 0
    /\ pc = "check" /\ rd.replay =>
         \/ fd.epoch # mem.tele.epoch \/ mem.tele.shaken \/ mem.status.inode = 0
    /\ pc = "read" /\ ~rd.replay /\ ~rd.truncated => Recognised(staged.status, fd.bytes)
    /\ pc = "mark" =>
         /\ rd.epoch <= fd.epoch
         /\ ~rd.truncated => rd.epoch = fd.epoch
         /\ rd.epoch = fd.epoch => Segment
         /\ rd.start > 0 => /\ rd.start = staged.status.offset
                            /\ staged.status.inode # 0
                            /\ ~rd.truncated => Recognised(staged.status, fd.bytes)

TailInv ==
  Shapes /\ HandleInv /\ KeptInv(mem) /\ KeptInv(ckpt) /\ KeptInv(staged) /\ ReadInv

\* b entries in the order of time, until w.
InOrder(t, b, w) ==
  /\ \A i \in 1..b : t[i] \in Nat /\ t[i] <= w
  /\ \A i, j \in 1..b : i <= j => t[i] <= t[j]

\* The a entries of s end the b entries of t; those before them are older than c.
EndOf(s, a, t, b, c) ==
  /\ a <= b
  /\ \A i \in 1..a : s[i] = t[b - a + i]
  /\ \A i \in 1..(b - a) : t[i] < c

\* As long as there is no quarantine, whatever of the malformed lines has left the
\* queue is older than the period.
Counts(k) ==
  LET queue == k.status.stamps  seen == k.tele.noticed IN
  /\ Len(queue) <= QueueLimit /\ InOrder(seen, Len(seen), now)
  /\ Threshold <= QueueLimit /\ ~k.status.quarantined =>
       Len(queue) < Threshold /\ EndOf(queue, Len(queue), seen, Len(seen), now - Period)

StampsInv ==
  /\ now \in 0..MaxTime /\ faults \in 0..MaxFaults
  /\ Counts(mem) /\ Counts(ckpt) /\ Counts(staged)

QuarantineInv ==
  ckpt.status.quarantined /\ pc # "down" =>
    /\ mem.status.quarantined
    /\ Reading \/ pc = "apply" => staged.status.quarantined

-----------------------------------------------------------------------------
(* Bytes, lines and fingerprints *)

LEMMA LastOfBounded ==
  ASSUME NEW n \in Nat, NEW T \in SUBSET (1..n), T # {}
  PROVE  \E i \in T : \A j \in T : j <= i
<1>1. DEFINE D == {n - i : i \in T}
<1>2. \A i \in T : i \in Nat /\ n - i \in Nat
  OBVIOUS
<1>3. D \subseteq Nat /\ D # {}
  BY <1>2
<1>4. PICK x \in D : \A y \in D : <<y, x>> \notin OpToRel(<, Nat)
  BY <1>3, NatLessThanWellFounded, WFMin
<1>5. \A y \in D : ~(y < x)
  BY <1>3, <1>4 DEF OpToRel
<1>6. PICK i \in T : x = n - i
  OBVIOUS
<1>7. ASSUME NEW j \in T PROVE j <= i
  <2>1. n - j \in D /\ ~(n - j < n - i)
    BY <1>5, <1>6
  <2>2. QED
    BY <1>2, <2>1
<1>8. QED
  BY <1>7

LEMMA RegionProperties ==
  ASSUME NEW b \in Seq(Byte), NEW from \in Nat, NEW to \in Nat
  PROVE  /\ Region(b, from, to) \in Seq(Byte)
         /\ Len(Region(b, from, to)) =
              IF from < Smaller(to, Len(b)) THEN Smaller(to, Len(b)) - from ELSE 0
         /\ \A i \in 1..Len(Region(b, from, to)) : Region(b, from, to)[i] = b[from + i]
<1>1. Len(b) \in Nat /\ Smaller(to, Len(b)) \in Nat /\ Smaller(to, Len(b)) <= Len(b)
  BY LenProperties DEF Smaller
<1>2. \A i \in (from + 1)..Smaller(to, Len(b)) : b[i] \in Byte
  BY <1>1, ElementOfSeq
<1>3. QED
  BY <1>1, <1>2, SubSeqProperties DEF Region

LEMMA AppendKeeps ==
  ASSUME NEW b \in Seq(Byte), NEW x \in Byte, NEW m \in Nat \ {0}, NEW n \in Nat, n <= Len(b)
  PROVE  SubSeq(Append(b, x), m, n) = SubSeq(b, m, n)
<1>1. DEFINE c == Append(b, x)
<1>2. c \in Seq(Byte) /\ Len(b) \in Nat /\ Len(c) = Len(b) + 1 /\ \A i \in 1..Len(b) : c[i] = b[i]
  BY AppendProperties, LenProperties
<1> HIDE DEF c
<1>3. /\ \A i \in m..n : b[i] \in Byte
      /\ \A i \in m..n : c[i] \in Byte
      /\ \A i \in m..n : c[i] = b[i]
  BY <1>2, ElementOfSeq
<1>4. /\ SubSeq(b, m, n) \in Seq(Byte) /\ SubSeq(c, m, n) \in Seq(Byte)
      /\ Len(SubSeq(b, m, n)) = Len(SubSeq(c, m, n))
  BY <1>3, SubSeqProperties
<1>5. \A i \in 1..(n - m + 1) : SubSeq(b, m, n)[i] = b[m + i - 1] /\ SubSeq(c, m, n)[i] = c[m + i - 1]
  BY <1>3, SubSeqProperties
<1>6. Len(SubSeq(b, m, n)) = IF m <= n THEN n - m + 1 ELSE 0
  BY <1>3, SubSeqProperties
<1>7. \A i \in 1..Len(SubSeq(b, m, n)) : SubSeq(b, m, n)[i] = SubSeq(c, m, n)[i]
  BY <1>3, <1>5, <1>6
<1>8. QED
  BY <1>4, <1>7, SeqEqual DEF c

LEMMA CompleteProperties ==
  ASSUME NEW b \in Seq(Byte), Complete(b) # <<>>
  PROVE  \E m \in 1..Len(b) : Complete(b) = SubSeq(b, 1, m) /\ b[m] = "n"
<1>1. DEFINE ends == {i \in DOMAIN b : b[i] = "n"}
<1>2. Len(b) \in Nat /\ DOMAIN b = 1..Len(b)
  BY LenProperties
<1>3. ends # {}
  BY DEF Complete
<1>4. ends \in SUBSET (1..Len(b))
  BY <1>2
<1>5. \E i \in ends : \A j \in ends : j <= i
  <2> HIDE DEF ends
  <2>1. QED
    BY <1>2, <1>3, <1>4, LastOfBounded
<1>6. DEFINE m == CHOOSE i \in ends : \A j \in ends : j <= i
<1>7. m \in ends
  BY <1>5
<1>8. Complete(b) = SubSeq(b, 1, m)
  BY <1>3 DEF Complete
<1>9. QED
  BY <1>2, <1>7, <1>8

LEMMA RegionKept ==
  ASSUME NEW b \in Seq(Byte), NEW x \in Byte, NEW from \in Nat, NEW to \in Nat, to <= Len(b)
  PROVE  Region(Append(b, x), from, to) = Region(b, from, to)
<1>1. Len(b) \in Nat /\ Len(Append(b, x)) = Len(b) + 1
  BY LenProperties, AppendProperties
<1>2. Smaller(to, Len(b)) = to /\ Smaller(to, Len(Append(b, x))) = to
  BY <1>1 DEF Smaller
<1>3. SubSeq(Append(b, x), from + 1, to) = SubSeq(b, from + 1, to)
  BY AppendKeeps
<1>4. QED
  BY <1>2, <1>3 DEF Region

\* A log that grows stays recognised.
LEMMA RecognisedKept ==
  ASSUME NEW s, s.prefixLength \in Nat, s.offset \in Nat, s.boundaryStart \in Nat,
         NEW b \in Seq(Byte), NEW x \in Byte, Recognised(s, b)
  PROVE  Recognised(s, Append(b, x))
<1>1. Len(b) \in Nat /\ Len(Append(b, x)) = Len(b) + 1
  BY LenProperties, AppendProperties
<1>2. s.prefixLength > 0 =>
        /\ Len(Append(b, x)) >= s.prefixLength
        /\ Region(Append(b, x), 0, s.prefixLength) = s.prefix
  BY <1>1, RegionKept DEF Recognised
<1>3. s.offset > 0 =>
        /\ Len(Append(b, x)) >= s.offset
        /\ Region(Append(b, x), s.boundaryStart, s.offset) = s.boundary
  BY <1>1, RegionKept DEF Recognised
<1>4. QED
  BY <1>2, <1>3 DEF Recognised

\* The complete lines of a chunk are the bytes behind its start, up to a newline.
LEMMA ChunkIsSegment ==
  ASSUME NEW b \in Seq(Byte), NEW start \in Nat,
         NEW c, c = Complete(Region(b, start, start + Chunk))
  PROVE  /\ c \in Seq(Byte)
         /\ c # <<>> => /\ start + Len(c) <= Len(b)
                        /\ c = SubSeq(b, start + 1, start + Len(c))
                        /\ b[start + Len(c)] = "n"
<1>1. DEFINE r == Region(b, start, start + Chunk)
             last == Smaller(start + Chunk, Len(b))
<1>2. /\ Len(b) \in Nat /\ start + Chunk \in Nat
      /\ last \in Nat /\ last <= Len(b)
  BY LenProperties, LogAssumption DEF Smaller
<1>3. /\ r \in Seq(Byte) /\ r = SubSeq(b, start + 1, last)
      /\ Len(r) = IF start < last THEN last - start ELSE 0
      /\ \A i \in 1..Len(r) : r[i] = b[start + i]
  BY <1>2, RegionProperties DEF Region
<1>4. CASE c = <<>>
  BY <1>4, EmptySeq
<1>5. CASE c # <<>>
  <2> HIDE DEF r, last
  <2>1. c = Complete(r)
    BY DEF r
  <2>2. PICK m \in 1..Len(r) : c = SubSeq(r, 1, m) /\ r[m] = "n"
    BY <1>3, <1>5, <2>1, CompleteProperties
  <2>3. start < last /\ m \in Nat /\ m >= 1 /\ m <= last - start
    BY <1>2, <1>3, <2>2
  <2>4. c = SubSeq(b, start + 1, start + m)
    <3>1. SubSeq(SubSeq(b, start + 1, last), 1, m) = SubSeq(b, (start + 1) + 1 - 1, (start + 1) + m - 1)
      <4>1. /\ start + 1 \in 1..Len(b) /\ last \in 1..Len(b)
            /\ 1 \in 1..(last - (start + 1) + 1) /\ m \in 1..(last - (start + 1) + 1)
        BY <1>2, <2>3
      <4>2. QED
        BY <4>1, SubSeqOfSubSeq
    <3>2. (start + 1) + 1 - 1 = start + 1 /\ (start + 1) + m - 1 = start + m
      BY <2>3
    <3>3. QED
      BY <1>3, <2>2, <3>1, <3>2
  <2>5. c \in Seq(Byte) /\ Len(c) = m
    <3>1. \A i \in (start + 1)..(start + m) : b[i] \in Byte
      BY <1>2, <2>3, ElementOfSeq
    <3>2. /\ SubSeq(b, start + 1, start + m) \in Seq(Byte)
          /\ Len(SubSeq(b, start + 1, start + m)) =
               IF start + 1 <= start + m THEN (start + m) - (start + 1) + 1 ELSE 0
      <4>1. start + 1 \in Int /\ start + m \in Int
        BY <2>3
      <4>2. QED
        BY <3>1, <4>1, SubSeqProperties
    <3>3. start + 1 <= start + m /\ (start + m) - (start + 1) + 1 = m
      BY <2>3
    <3>4. QED
      BY <2>4, <3>2, <3>3, Zenon
  <2>6. b[start + m] = "n" /\ start + m <= Len(b)
    BY <1>2, <1>3, <2>2, <2>3
  <2>7. QED
    BY <2>4, <2>5, <2>6
<1>6. QED
  BY <1>4, <1>5

LEMMA EndOfBeginning ==
  ASSUME NEW b \in Seq(Byte), NEW n \in 1..Len(b), NEW m \in 1..n
  PROVE  SubSeq(SubSeq(b, 1, n), m, n) = SubSeq(b, m, n)
<1>1. Len(b) \in Nat /\ n \in Nat /\ m \in Nat
  BY LenProperties
<1>2. 1 \in 1..Len(b) /\ m \in 1..(n - 1 + 1) /\ n \in 1..(n - 1 + 1)
  BY <1>1
<1>3. SubSeq(SubSeq(b, 1, n), m, n) = SubSeq(b, 1 + m - 1, 1 + n - 1)
  BY <1>2, SubSeqOfSubSeq
<1>4. 1 + m - 1 = m /\ 1 + n - 1 = n
  BY <1>1
<1>5. QED
  BY <1>3, <1>4, Zenon

\* Lines that follow what was parsed extend it to a longer beginning of the log.
LEMMA Extended ==
  ASSUME NEW b \in Seq(Byte), NEW start \in Nat, start <= Len(b),
         NEW p, p = SubSeq(b, 1, start), NEW c \in Seq(Byte),
         c # <<>> => /\ start + Len(c) <= Len(b)
                     /\ c = SubSeq(b, start + 1, start + Len(c))
  PROVE  /\ start + Len(c) <= Len(b)
         /\ p \o c = SubSeq(b, 1, start + Len(c))
         /\ start = 0 => c = SubSeq(b, 1, Len(c))
<1>1. Len(b) \in Nat /\ Len(c) \in Nat
  BY LenProperties
<1>2. p \in Seq(Byte)
  <2>1. \A i \in 1..start : b[i] \in Byte
    BY <1>1, ElementOfSeq
  <2>2. QED
    BY <2>1, SubSeqProperties
<1>3. CASE c = <<>>
  <2>1. Len(c) = 0 /\ start + Len(c) = start /\ p \o c = p
    BY <1>2, <1>3, EmptySeq, ConcatEmptySeq
  <2>2. SubSeq(b, 1, 0) = <<>>
    BY SubSeqEmpty
  <2>3. QED
    BY <1>3, <2>1, <2>2
<1>4. CASE c # <<>>
  <2>1. start + Len(c) <= Len(b) /\ c = SubSeq(b, start + 1, start + Len(c))
    BY <1>4
  <2>2. SubSeq(b, 1, start) \o SubSeq(b, start + 1, start + Len(c)) = SubSeq(b, 1, start + Len(c))
    <3>1. /\ 1 \in 1..(Len(b) + 1) /\ start \in (1 - 1)..Len(b)
          /\ start + Len(c) \in start..Len(b)
      BY <1>1, <2>1
    <3>2. QED
      BY <3>1, ConcatAdjacentSubSeq
  <2>3. start = 0 => c = SubSeq(b, 1, Len(c))
    BY <1>1, <2>1
  <2>4. QED
    BY <2>1, <2>2, <2>3
<1>5. QED
  BY <1>3, <1>4

-----------------------------------------------------------------------------
(* What is remembered of a log *)

LEMMA KeptParts ==
  ASSUME NEW k \in Kept
  PROVE  /\ k.status.offset \in Nat /\ k.status.inode \in Inodes \cup {0}
         /\ k.status.prefixLength \in Nat /\ k.status.prefix \in Seq(Byte)
         /\ k.status.boundaryStart \in Nat /\ k.status.boundary \in Seq(Byte)
         /\ k.status.stamps \in Seq(Nat) /\ k.status.quarantined \in BOOLEAN
         /\ k.tele.noticed \in Seq(Nat)
         /\ k.tele.parsed \in Seq(Byte) /\ k.tele.epoch \in Nat
         /\ k.tele.shaken \in BOOLEAN /\ k.tele.blind \in BOOLEAN
BY Zenon DEF Kept, Status, Telemetry

LEMMA FileParts ==
  ASSUME NEW f \in File
  PROVE  f.inode \in Inodes \cup {0} /\ f.epoch \in Nat /\ f.bytes \in Seq(Byte)
BY DEF File

LEMMA Numbers ==
  /\ Window \in Nat \ {0} /\ Chunk \in Nat \ {0}
  /\ \A i \in Inodes : i \in Nat \ {0}
BY LogAssumption

LEMMA FollowsGrown ==
  ASSUME NEW k \in Kept, NEW f \in File, NEW x \in Byte, Follows(k, f),
         NEW g, g.inode = f.inode, g.epoch = f.epoch, g.bytes = Append(f.bytes, x)
  PROVE  Follows(k, g)
<1> SUFFICES ASSUME k.tele.epoch = f.epoch, f.inode # 0, f.epoch # 0
             PROVE  /\ k.status.offset <= Len(g.bytes)
                    /\ k.tele.parsed = SubSeq(g.bytes, 1, k.status.offset)
                    /\ k.status.offset > 0 => g.bytes[k.status.offset] = "n"
                    /\ ~k.tele.shaken => /\ k.status.inode = g.inode
                                         /\ Recognised(k.status, g.bytes)
  BY DEF Follows
<1>1. /\ k.status.offset <= Len(f.bytes)
      /\ k.tele.parsed = SubSeq(f.bytes, 1, k.status.offset)
      /\ k.status.offset > 0 => f.bytes[k.status.offset] = "n"
      /\ ~k.tele.shaken => k.status.inode = f.inode /\ Recognised(k.status, f.bytes)
  BY DEF Follows
<1>2. f.bytes \in Seq(Byte) /\ Len(f.bytes) \in Nat /\ k.status.offset \in Nat
  BY FileParts, LenProperties, KeptParts
<1>3. /\ Len(g.bytes) = Len(f.bytes) + 1
      /\ \A i \in 1..Len(f.bytes) : g.bytes[i] = f.bytes[i]
  BY <1>2, AppendProperties
<1>4. SubSeq(g.bytes, 1, k.status.offset) = SubSeq(f.bytes, 1, k.status.offset)
  BY <1>1, <1>2, AppendKeeps
<1>5. Recognised(k.status, f.bytes) => Recognised(k.status, g.bytes)
  BY <1>2, KeptParts, RecognisedKept
<1>6. k.status.offset <= Len(g.bytes)
  BY <1>1, <1>2, <1>3
<1>7. k.status.offset > 0 => g.bytes[k.status.offset] = "n"
  BY <1>1, <1>2, <1>3
<1>8. k.tele.parsed = SubSeq(g.bytes, 1, k.status.offset)
  BY <1>1, <1>4, Zenon
<1>9. QED
  BY <1>1, <1>5, <1>6, <1>7, <1>8

\* A log whose epoch is later than what is remembered is followed trivially.
LEMMA FollowsNewer ==
  ASSUME NEW k, NEW f, f.inode = 0 \/ k.tele.epoch # f.epoch
  PROVE  Follows(k, f)
BY DEF Follows

\* What fingerprints that cover the log vouch for.
LEMMA CoveredIsParsed ==
  ASSUME NEW k \in Kept, Faithful(k), ~k.tele.blind,
         k.status.offset > 0, k.status.inode # 0,
         k.status.boundaryStart <= k.status.prefixLength,
         NEW b \in Seq(Byte), Recognised(k.status, b)
  PROVE  k.tele.parsed = SubSeq(b, 1, k.status.offset)
<1>1. DEFINE n == k.status.offset
             from == k.status.boundaryStart
             p == k.tele.parsed
             length == k.status.prefixLength
<1>2. /\ n \in Nat /\ from \in Nat /\ length \in Nat /\ p \in Seq(Byte)
      /\ Len(b) \in Nat
  BY KeptParts, LenProperties
<1>3. Len(b) >= n /\ Region(b, from, n) = k.status.boundary
  BY DEF Recognised
<1>4. /\ length > 0 => Len(b) >= length /\ Region(b, 0, length) = k.status.prefix
  BY DEF Recognised
<1>5. \/ Len(k.status.boundary) < n - from
      \/ /\ Len(p) = n
         /\ k.status.boundary = SubSeq(p, from + 1, n)
         /\ \A i \in 1..n : i <= length => k.status.prefix[i] = p[i]
  BY DEF Faithful
<1>6. from <= length /\ n > 0
  OBVIOUS
<1> HIDE DEF n, from, p, length
<1>7. /\ Len(Region(b, from, n)) = IF from < n THEN n - from ELSE 0
      /\ \A i \in 1..Len(Region(b, from, n)) : Region(b, from, n)[i] = b[from + i]
  <2>1. Smaller(n, Len(b)) = n
    BY <1>2, <1>3 DEF Smaller
  <2>2. /\ Len(Region(b, from, n)) =
             IF from < Smaller(n, Len(b)) THEN Smaller(n, Len(b)) - from ELSE 0
        /\ \A i \in 1..Len(Region(b, from, n)) : Region(b, from, n)[i] = b[from + i]
    BY <1>2, RegionProperties, Zenon
  <2>3. QED
    BY <2>1, <2>2, Zenon
<1>8. /\ Len(p) = n /\ k.status.boundary = SubSeq(p, from + 1, n)
      /\ \A i \in 1..n : i <= length => k.status.prefix[i] = p[i]
  <2>1. ~(Len(k.status.boundary) < n - from)
    BY <1>2, <1>3, <1>7
  <2>2. QED
    BY <1>5, <2>1
<1>9. \A i \in 1..n : p[i] \in Byte /\ b[i] \in Byte
  BY <1>2, <1>3, <1>8, ElementOfSeq
<1>10. ASSUME NEW i \in 1..n PROVE p[i] = b[i]
  <2>1. CASE i <= from
    <3>1. i <= length /\ length > 0 /\ length <= Len(b)
      BY <1>2, <1>4, <1>6, <2>1
    <3>2. Smaller(length, Len(b)) = length
      BY <1>2, <3>1 DEF Smaller
    <3>3. i \in 1..Len(Region(b, 0, length)) /\ Region(b, 0, length)[i] = b[0 + i]
      BY <1>2, <3>1, <3>2, RegionProperties
    <3>4. k.status.prefix[i] = p[i]
      BY <1>8, <3>1
    <3>5. QED
      BY <1>4, <3>1, <3>3, <3>4
  <2>2. CASE ~(i <= from)
    <3>1. DEFINE j == i - from
    <3>2. j \in 1..Len(Region(b, from, n)) /\ from + j = i /\ j \in 1..(n - (from + 1) + 1)
      BY <1>2, <1>7, <2>2
    <3>3. k.status.boundary[j] = b[i]
      BY <1>3, <1>7, <3>2
    <3>4. SubSeq(p, from + 1, n)[j] = p[(from + 1) + j - 1]
      <4>1. \A m \in (from + 1)..n : p[m] \in Byte
        BY <1>2, <1>9
      <4>2. from + 1 \in Int /\ n \in Int
        BY <1>2
      <4>3. QED
        BY <3>2, <4>1, <4>2, SubSeqProperties
    <3>5. (from + 1) + j - 1 = i
      BY <1>2
    <3>6. QED
      BY <1>8, <3>3, <3>4, <3>5
  <2>3. QED
    BY <2>1, <2>2
<1>11. /\ SubSeq(b, 1, n) \in Seq(Byte)
       /\ Len(SubSeq(b, 1, n)) = IF 1 <= n THEN n - 1 + 1 ELSE 0
       /\ \A i \in 1..(n - 1 + 1) : SubSeq(b, 1, n)[i] = b[1 + i - 1]
  BY <1>2, <1>9, SubSeqProperties
<1>12. DEFINE beginning == SubSeq(b, 1, n)
<1>13. beginning \in Seq(Byte) /\ Len(beginning) = n /\ \A i \in 1..n : beginning[i] = b[i]
  <2>1. n >= 1 /\ n - 1 + 1 = n /\ \A i \in 1..n : 1 + i - 1 = i
    BY <1>2, <1>6
  <2>2. QED
    BY <1>11, <2>1
<1> HIDE DEF beginning
<1>14. p = beginning
  BY <1>2, <1>8, <1>10, <1>13, SeqEqual
<1>15. QED
  BY <1>14 DEF beginning, p, n

-----------------------------------------------------------------------------
(* What the bot does between two steps *)

LEMMA SegmentKept ==
  ASSUME NEW b \in Seq(Byte), NEW x \in Byte, NEW start \in Nat, NEW c \in Seq(Byte),
         c # <<>>, start + Len(c) <= Len(b),
         c = SubSeq(b, start + 1, start + Len(c)), b[start + Len(c)] = "n"
  PROVE  /\ start + Len(c) <= Len(Append(b, x))
         /\ c = SubSeq(Append(b, x), start + 1, start + Len(c))
         /\ Append(b, x)[start + Len(c)] = "n"
<1>1. Len(b) \in Nat /\ Len(c) \in Nat /\ Len(c) > 0
  BY LenProperties, EmptySeq
<1>2. /\ Len(Append(b, x)) = Len(b) + 1
      /\ \A i \in 1..Len(b) : Append(b, x)[i] = b[i]
  BY AppendProperties
<1>3. start + 1 \in Nat \ {0} /\ start + Len(c) \in Nat /\ start + Len(c) \in 1..Len(b)
  BY <1>1
<1>4. SubSeq(Append(b, x), start + 1, start + Len(c)) = SubSeq(b, start + 1, start + Len(c))
  BY <1>3, AppendKeeps
<1>5. start + Len(c) <= Len(Append(b, x)) /\ Append(b, x)[start + Len(c)] = "n"
  BY <1>1, <1>2, <1>3
<1>6. QED
  BY <1>4, <1>5, Zenon

LEMMA WithBytes ==
  ASSUME NEW f \in File, NEW v
  PROVE  [f EXCEPT !.bytes = v] = [inode |-> f.inode, epoch |-> f.epoch, bytes |-> v]
BY DEF File

LEMMA WriteStep ==
  ASSUME TailInv, WriteByte
  PROVE  TailInv'
<1>1. PICK x \in Byte : Becomes([file EXCEPT !.bytes = Append(@, x)])
  BY DEF WriteByte
<1>2. DEFINE g == [inode |-> file.inode, epoch |-> file.epoch, bytes |-> Append(file.bytes, x)]
<1>3. file \in File /\ fd \in File /\ rd \in Local
  BY DEF TailInv, Shapes
<1>4. [file EXCEPT !.bytes = Append(@, x)] = g
  BY <1>3, WithBytes, Zenon
<1>5. file' = g /\ fd' = IF fd.inode = file.inode THEN g ELSE fd
  BY <1>1, <1>4, Zenon DEF Becomes
<1>6. UNCHANGED <<now, ckpt, mem, pc, staged, rd>> /\ file.inode # 0
  BY DEF WriteByte
<1>7. /\ file.inode \in Inodes \cup {0} /\ file.epoch \in Nat /\ file.bytes \in Seq(Byte)
      /\ fd.inode \in Inodes \cup {0} /\ fd.epoch \in Nat /\ fd.bytes \in Seq(Byte)
  BY <1>3, FileParts
<1>8. Append(file.bytes, x) \in Seq(Byte)
  BY <1>7, AppendProperties
<1>9. /\ g \in File /\ g.inode = file.inode /\ g.epoch = file.epoch
      /\ g.bytes = Append(file.bytes, x)
  BY <1>7, <1>8 DEF File
<1> HIDE DEF g
<1>10. fd'.inode = fd.inode /\ fd'.epoch = fd.epoch
  <2>1. fd.inode = file.inode => fd = file
    BY <1>6 DEF TailInv, HandleInv
  <2>2. QED
    BY <1>5, <1>9, <2>1
<1>11. fd' = fd \/ fd'.bytes = Append(fd.bytes, x)
  <2>1. fd.inode = file.inode => fd = file
    BY <1>6 DEF TailInv, HandleInv
  <2>2. QED
    BY <1>5, <1>9, <2>1
<1>12. Shapes'
  <2>1. mem' \in Kept /\ ckpt' \in Kept /\ staged' \in Kept /\ rd' \in Local
    BY <1>6 DEF TailInv, Shapes
  <2>2. file' \in File /\ fd' \in File
    BY <1>3, <1>5, <1>9
  <2>3. pc' \in {"down", "poll", "check", "read", "mark", "apply", "save"}
    BY <1>6 DEF TailInv, Shapes
  <2>4. QED
    BY <1>6, <2>1, <2>2, <2>3 DEF TailInv, Shapes
<1>13. HandleInv'
  BY <1>5, <1>6, <1>9, <1>10 DEF TailInv, HandleInv, Reading
<1>14. ASSUME NEW k \in Kept, k.tele.epoch <= file.epoch, Follows(k, file)
       PROVE  k.tele.epoch <= file'.epoch /\ Follows(k, file')
  <2>1. Follows(k, g)
    BY <1>3, <1>9, <1>14, FollowsGrown
  <2>2. QED
    BY <1>5, <1>9, <1>14, <2>1
<1>15. KeptInv(mem)' /\ KeptInv(ckpt)' /\ KeptInv(staged)'
  BY <1>6, <1>14 DEF TailInv, Shapes, KeptInv
<1>16. ASSUME NEW k \in Kept, Follows(k, fd) PROVE Follows(k, fd')
  BY <1>3, <1>10, <1>11, <1>16, FollowsGrown
<1>17. ASSUME NEW k \in Kept, Recognised(k.status, fd.bytes)
       PROVE  Recognised(k.status, fd'.bytes)
  BY <1>7, <1>11, <1>17, KeptParts, RecognisedKept
<1>18. Len(fd.bytes) <= Len(fd'.bytes) /\ Len(fd.bytes) \in Nat /\ Len(fd'.bytes) \in Nat
  BY <1>7, <1>11, LenProperties, AppendProperties
<1>19. ASSUME Segment PROVE Segment'
  <2>1. rd.start \in Nat /\ rd.complete \in Seq(Byte) /\ rd' = rd
    BY <1>3, <1>6 DEF Local
  <2>2. CASE fd' = fd
    BY <1>19, <2>1, <2>2 DEF Segment
  <2>3. CASE fd'.bytes = Append(fd.bytes, x)
    <3> SUFFICES ASSUME rd.complete # <<>>
                 PROVE  /\ rd.start + Len(rd.complete) <= Len(fd'.bytes)
                        /\ rd.complete = SubSeq(fd'.bytes, rd.start + 1,
                                               rd.start + Len(rd.complete))
                        /\ fd'.bytes[rd.start + Len(rd.complete)] = "n"
      BY <2>1 DEF Segment
    <3>1. /\ rd.start + Len(rd.complete) <= Len(fd.bytes)
          /\ rd.complete = SubSeq(fd.bytes, rd.start + 1, rd.start + Len(rd.complete))
          /\ fd.bytes[rd.start + Len(rd.complete)] = "n"
      BY <1>19 DEF Segment
    <3>2. fd.bytes \in Seq(Byte) /\ rd.start \in Nat /\ rd.complete \in Seq(Byte)
      BY <1>7, <2>1
    <3>3. /\ rd.start + Len(rd.complete) <= Len(Append(fd.bytes, x))
          /\ rd.complete = SubSeq(Append(fd.bytes, x), rd.start + 1,
                                 rd.start + Len(rd.complete))
          /\ Append(fd.bytes, x)[rd.start + Len(rd.complete)] = "n"
      BY <3>1, <3>2, SegmentKept
    <3>4. QED
      BY <2>3, <3>3, Zenon
  <2>4. QED
    BY <1>11, <2>2, <2>3
<1>20. ReadInv'
  <2>1. rd.size \in Nat
    BY <1>3 DEF Local
  <2>2. ~rd.truncated /\ rd.size <= Len(fd.bytes) => rd'.size <= Len(fd'.bytes)
    BY <1>6, <1>18, <2>1
  <2>3. staged \in Kept
    BY DEF TailInv, Shapes
  <2>4. Follows(staged, fd) => Follows(staged', fd')
    BY <1>6, <1>16, <2>3
  <2>5. Recognised(staged.status, fd.bytes) => Recognised(staged'.status, fd'.bytes)
    BY <1>6, <1>17, <2>3
  <2>6. QED
    BY <1>6, <1>10, <1>19, <2>2, <2>4, <2>5 DEF TailInv, ReadInv, Reading
<1>21. QED
  BY <1>12, <1>13, <1>15, <1>20 DEF TailInv

LEMMA TruncateStep ==
  ASSUME TailInv, Truncate
  PROVE  TailInv'
<1>1. DEFINE g == [inode |-> file.inode, epoch |-> file.epoch + 1, bytes |-> <<>>]
             cut == rd.truncated \/ fd.inode = file.inode
             r == [size |-> rd.size, replay |-> rd.replay, start |-> rd.start,
                   complete |-> rd.complete, epoch |-> rd.epoch, truncated |-> cut]
<1>2. file \in File /\ fd \in File /\ rd \in Local
  BY DEF TailInv, Shapes
<1>3. file' = g
  <2>1. file' = [file EXCEPT !.bytes = <<>>, !.epoch = @ + 1]
    BY DEF Truncate, Becomes
  <2>2. QED
    BY <1>2, <2>1, Zenon DEF File
<1>4. /\ file' = g /\ fd' = IF fd.inode = file.inode THEN g ELSE fd
      /\ UNCHANGED <<now, ckpt, mem, pc, staged>> /\ file.inode # 0
  <2>1. fd' = IF fd.inode = file.inode THEN file' ELSE fd
    BY DEF Truncate, Becomes
  <2>2. QED
    BY <1>3, <2>1, Zenon DEF Truncate
<1>5. rd' = r
  <2>1. rd' = [rd EXCEPT !.truncated = cut]
    BY DEF Truncate
  <2>2. QED
    BY <1>2, <2>1, Zenon DEF Local
<1>6. /\ file.inode \in Inodes \cup {0} /\ file.epoch \in Nat
      /\ fd.inode \in Inodes \cup {0} /\ fd.epoch \in Nat
  BY <1>2, FileParts
<1>7. /\ g \in File /\ g.inode = file.inode /\ g.epoch = file.epoch + 1 /\ g.bytes = <<>>
  BY <1>6, EmptySeq DEF File
<1>8. /\ rd.size \in Nat /\ rd.replay \in BOOLEAN /\ rd.start \in Nat
      /\ rd.complete \in Seq(Byte) /\ rd.epoch \in Nat /\ rd.truncated \in BOOLEAN
  BY <1>2, Zenon DEF Local
<1>9. r \in Local
  BY <1>8 DEF Local
<1>10. /\ r.size = rd.size /\ r.replay = rd.replay /\ r.start = rd.start
       /\ r.complete = rd.complete /\ r.epoch = rd.epoch /\ r.truncated = cut
  OBVIOUS
<1> HIDE DEF g, r
<1>11. Shapes'
  <2>1. mem' \in Kept /\ ckpt' \in Kept /\ staged' \in Kept
    BY <1>4 DEF TailInv, Shapes
  <2>2. file' \in File /\ fd' \in File /\ rd' \in Local
    BY <1>2, <1>4, <1>5, <1>7, <1>9
  <2>3. pc' \in {"down", "poll", "check", "read", "mark", "apply", "save"}
    BY <1>4 DEF TailInv, Shapes
  <2>4. QED
    BY <1>4, <2>1, <2>2, <2>3 DEF TailInv, Shapes
<1>12. /\ fd.inode # 0 <=> Reading
       /\ fd.inode # 0 => fd.epoch > 0 /\ fd.epoch <= file.epoch
       /\ fd.inode # 0 /\ fd.inode = file.inode => fd = file
  BY <1>4 DEF TailInv, HandleInv
<1>13. HandleInv'
  BY <1>4, <1>6, <1>7, <1>12 DEF TailInv, HandleInv, Reading
<1>14. ASSUME NEW k \in Kept, k.tele.epoch <= file.epoch
       PROVE  /\ k.tele.epoch <= file'.epoch /\ Follows(k, file')
              /\ k.tele.epoch # file'.epoch
  BY <1>4, <1>6, <1>7, <1>14, KeptParts, FollowsNewer
<1>15. KeptInv(mem)' /\ KeptInv(ckpt)' /\ KeptInv(staged)'
  BY <1>4, <1>14 DEF TailInv, Shapes, KeptInv
<1>16. ReadInv'
  <2>1. CASE fd.inode = file.inode
    <3>1. fd' = file' /\ fd'.epoch = file.epoch + 1 /\ fd = file /\ rd'.truncated = TRUE
      BY <1>4, <1>5, <1>7, <1>10, <1>12, <2>1
    <3>2. /\ mem.tele.epoch <= file.epoch /\ staged.tele.epoch <= file.epoch
          /\ mem \in Kept /\ staged \in Kept
      BY DEF TailInv, KeptInv, Shapes
    <3>3. Follows(staged', fd') /\ fd'.epoch # mem'.tele.epoch
      BY <1>4, <1>14, <3>1, <3>2
    <3>4. rd.epoch <= fd.epoch => rd'.epoch <= fd'.epoch /\ rd'.epoch # fd'.epoch
      BY <1>5, <1>6, <1>8, <1>10, <3>1
    <3>5. QED
      BY <1>4, <1>5, <1>10, <3>1, <3>3, <3>4 DEF TailInv, ReadInv, Reading
  <2>2. CASE fd.inode # file.inode
    <3>1. fd' = fd /\ rd'.truncated = rd.truncated
      BY <1>4, <1>5, <1>8, <1>10, <2>2
    <3>2. QED
      BY <1>4, <1>5, <1>10, <3>1 DEF TailInv, ReadInv, Reading, Segment
  <2>3. QED
    BY <2>1, <2>2
<1>17. QED
  BY <1>11, <1>13, <1>15, <1>16 DEF TailInv

\* Another log, or none, under the path; the open one stays as it is.
LEMMA ReplaceStep ==
  ASSUME TailInv, Rotate \/ MoveAway
  PROVE  TailInv'
<1>1. UNCHANGED <<now, ckpt, mem, pc, staged, fd, rd>>
  BY DEF Rotate, MoveAway
<1>2. file \in File /\ fd \in File /\ rd \in Local
  BY DEF TailInv, Shapes
<1>3. file.epoch \in Nat /\ fd.epoch \in Nat
  BY <1>2, FileParts
<1>4. /\ file' \in File
      /\ \/ file'.inode = 0 /\ file'.epoch = file.epoch
         \/ /\ file'.inode # 0 /\ file'.inode # fd.inode
            /\ file'.epoch = file.epoch + 1
  <2>1. CASE Rotate
    <3>1. PICK i \in Inodes \ {fd.inode} :
            file' = [inode |-> i, epoch |-> file.epoch + 1, bytes |-> <<>>]
      BY <2>1 DEF Rotate
    <3>2. QED
      BY <1>3, <3>1, Numbers, EmptySeq DEF File
  <2>2. CASE MoveAway
    <3>1. file' = [inode |-> 0, epoch |-> file.epoch, bytes |-> <<>>]
      BY <2>2 DEF MoveAway, NoFile
    <3>2. QED
      BY <1>3, <3>1, EmptySeq DEF File
  <2>3. QED
    BY <2>1, <2>2
<1>5. Shapes'
  <2>1. mem' \in Kept /\ ckpt' \in Kept /\ staged' \in Kept /\ fd' \in File /\ rd' \in Local
    BY <1>1 DEF TailInv, Shapes
  <2>2. pc' \in {"down", "poll", "check", "read", "mark", "apply", "save"}
    BY <1>1 DEF TailInv, Shapes
  <2>3. QED
    BY <1>1, <1>4, <2>1, <2>2 DEF TailInv, Shapes
<1>6. HandleInv'
  BY <1>1, <1>3, <1>4 DEF TailInv, HandleInv, Reading
<1>7. ASSUME NEW k \in Kept, k.tele.epoch <= file.epoch
      PROVE  k.tele.epoch <= file'.epoch /\ Follows(k, file')
  BY <1>3, <1>4, <1>7, KeptParts, FollowsNewer
<1>8. KeptInv(mem)' /\ KeptInv(ckpt)' /\ KeptInv(staged)'
  BY <1>1, <1>7 DEF TailInv, Shapes, KeptInv
<1>9. ReadInv'
  BY <1>1 DEF TailInv, ReadInv, Reading, Segment
<1>10. QED
  BY <1>5, <1>6, <1>8, <1>9 DEF TailInv

-----------------------------------------------------------------------------
(* The steps of a cycle *)

LEMMA TickStep ==
  ASSUME TailInv, Tick
  PROVE  TailInv'
<1>1. UNCHANGED <<file, ckpt, mem, pc, staged, fd, rd>> /\ now' = now + 1
  BY DEF Tick
<1>2. QED
  BY <1>1 DEF TailInv, Shapes, HandleInv, KeptInv, ReadInv, Reading, Segment

\* A read that failed, what is done with a cycle, and a crash.
LEMMA CycleStep ==
  ASSUME TailInv, ReadFails \/ Commit \/ Discard \/ Save \/ SaveFails \/ Crash
  PROVE  TailInv'
<1>1. /\ UNCHANGED <<file, now, staged, rd>>
      /\ mem' = mem \/ mem' = staged
      /\ ckpt' = ckpt \/ ckpt' = mem
      /\ pc' \in {"apply", "save", "poll", "down"}
  BY DEF ReadFails, Commit, Discard, Save, SaveFails, Crash
<1>2. fd' \in File /\ fd'.inode = 0
  <2>1. CASE ReadFails \/ Crash
    <3>1. fd' = [inode |-> 0, epoch |-> 0, bytes |-> <<>>]
      BY <2>1 DEF ReadFails, Crash, NoFile
    <3>2. QED
      BY <3>1, EmptySeq DEF File
  <2>2. CASE Commit \/ Discard \/ Save \/ SaveFails
    <3>1. fd' = fd /\ pc \in {"apply", "save"}
      BY <2>2 DEF Commit, Discard, Save, SaveFails
    <3>2. QED
      BY <3>1 DEF TailInv, Shapes, HandleInv, Reading
  <2>3. QED
    BY <2>1, <2>2
<1>3. ~Reading'
  BY <1>1 DEF Reading
<1>4. /\ mem \in Kept /\ ckpt \in Kept /\ staged \in Kept
      /\ KeptInv(mem) /\ KeptInv(ckpt) /\ KeptInv(staged)
  BY DEF TailInv, Shapes
<1>5. mem' \in Kept /\ ckpt' \in Kept /\ staged' \in Kept
  BY <1>1, <1>4
<1>6. Shapes'
  <2>1. file' \in File /\ rd' \in Local
    BY <1>1 DEF TailInv, Shapes
  <2>2. pc' \in {"down", "poll", "check", "read", "mark", "apply", "save"}
    BY <1>1
  <2>3. QED
    BY <1>1, <1>2, <1>5, <2>1, <2>2 DEF TailInv, Shapes
<1>7. HandleInv'
  BY <1>1, <1>2, <1>3 DEF TailInv, HandleInv
<1>8. KeptInv(mem)' /\ KeptInv(ckpt)' /\ KeptInv(staged)'
  BY <1>1, <1>4 DEF KeptInv
<1>9. ReadInv'
  BY <1>3 DEF ReadInv
<1>10. QED
  BY <1>6, <1>7, <1>8, <1>9 DEF TailInv

\* A restart loses the timestamps and nothing else.
LEMMA RestoredParts ==
  ASSUME NEW k \in Kept, NEW r, r = Restored(k)
  PROVE  /\ r \in Kept
         /\ r.tele.epoch = k.tele.epoch /\ r.status.quarantined = k.status.quarantined
         /\ \A f : Follows(k, f) => Follows(r, f)
         /\ Faithful(k) => Faithful(r)
<1>1. DEFINE s == [offset |-> k.status.offset, inode |-> k.status.inode,
                   prefixLength |-> k.status.prefixLength, prefix |-> k.status.prefix,
                   boundaryStart |-> k.status.boundaryStart, boundary |-> k.status.boundary,
                   stamps |-> <<>>, quarantined |-> k.status.quarantined]
             t == [parsed |-> k.tele.parsed, epoch |-> k.tele.epoch, noticed |-> <<>>,
                   shaken |-> k.tele.shaken, blind |-> k.tele.blind]
<1>2. r = [k EXCEPT !.status.stamps = <<>>, !.tele.noticed = <<>>]
  BY DEF Restored
<1>3. r = [status |-> s, tele |-> t]
  BY <1>2, Zenon DEF Kept, Status, Telemetry
<1>4. r.status = s /\ r.tele = t
  BY <1>3
<1>5. r \in Kept
  BY <1>3, <1>4, EmptySeq, KeptParts DEF Kept, Status, Telemetry
<1>6. /\ r.status.offset = k.status.offset /\ r.status.inode = k.status.inode
      /\ r.status.prefixLength = k.status.prefixLength /\ r.status.prefix = k.status.prefix
      /\ r.status.boundaryStart = k.status.boundaryStart
      /\ r.status.boundary = k.status.boundary
      /\ r.status.quarantined = k.status.quarantined
      /\ r.tele.parsed = k.tele.parsed /\ r.tele.epoch = k.tele.epoch
      /\ r.tele.shaken = k.tele.shaken /\ r.tele.blind = k.tele.blind
  BY <1>4
<1> HIDE DEF s, t
<1>7. ASSUME NEW b, Recognised(k.status, b) PROVE Recognised(r.status, b)
  BY <1>6, <1>7 DEF Recognised
<1>8. ASSUME NEW f, Follows(k, f) PROVE Follows(r, f)
  BY <1>6, <1>7, <1>8, Zenon DEF Follows
<1>9. Faithful(k) => Faithful(r)
  BY <1>6, Zenon DEF Faithful
<1>10. QED
  BY <1>5, <1>6, <1>8, <1>9

LEMMA StartStep ==
  ASSUME TailInv, Start
  PROVE  TailInv'
<1>1. /\ UNCHANGED <<file, now, ckpt, fd>> /\ pc = "down" /\ pc' = "poll"
      /\ mem' = Restored(ckpt) /\ staged' = mem' /\ rd' = NoLocal
  BY DEF Start
<1>2. ckpt \in Kept /\ KeptInv(ckpt)
  BY DEF TailInv, Shapes
<1>3. mem' \in Kept /\ staged' \in Kept
  BY <1>1, <1>2, RestoredParts
<1>4. KeptInv(mem)' /\ KeptInv(staged)' /\ KeptInv(ckpt)'
  BY <1>1, <1>2, RestoredParts DEF KeptInv
<1>5. rd' \in Local
  BY <1>1, EmptySeq DEF NoLocal, Local
<1>6. Shapes'
  <2>1. file' \in File /\ fd' \in File /\ ckpt' \in Kept
    BY <1>1 DEF TailInv, Shapes
  <2>2. pc' \in {"down", "poll", "check", "read", "mark", "apply", "save"}
    BY <1>1
  <2>3. QED
    BY <1>1, <1>3, <1>5, <2>1, <2>2 DEF TailInv, Shapes
<1>7. ~Reading /\ ~Reading'
  BY <1>1 DEF Reading
<1>8. HandleInv'
  BY <1>1, <1>7 DEF TailInv, HandleInv
<1>9. ReadInv'
  BY <1>7 DEF ReadInv
<1>10. QED
  BY <1>4, <1>6, <1>8, <1>9 DEF TailInv

LEMMA OpenStep ==
  ASSUME TailInv, Open
  PROVE  TailInv'
<1>1. /\ UNCHANGED <<file, now, ckpt, mem>> /\ pc = "poll" /\ staged' = mem
  BY DEF Open
<1>2. /\ mem \in Kept /\ ckpt \in Kept /\ KeptInv(mem) /\ KeptInv(ckpt)
      /\ file \in File /\ fd \in File /\ rd \in Local
  BY DEF TailInv, Shapes
<1>3. mem' \in Kept /\ ckpt' \in Kept /\ staged' \in Kept /\ file' \in File
  BY <1>1, <1>2
<1>4. KeptInv(mem)' /\ KeptInv(ckpt)' /\ KeptInv(staged)'
  BY <1>1, <1>2 DEF KeptInv
<1>5. fd.inode = 0
  BY <1>1 DEF TailInv, HandleInv, Reading
<1>6. CASE mem.status.quarantined \/ file.inode = 0
  <2>1. pc' = "apply" /\ fd' = fd /\ rd' = rd
    BY <1>6 DEF Open
  <2>2. Shapes'
    <3>1. pc' \in {"down", "poll", "check", "read", "mark", "apply", "save"}
      BY <2>1
    <3>2. fd' \in File /\ rd' \in Local
      BY <1>2, <2>1
    <3>3. QED
      BY <1>1, <1>3, <3>1, <3>2 DEF TailInv, Shapes
  <2>3. ~Reading'
    BY <2>1 DEF Reading
  <2>4. HandleInv' /\ ReadInv'
    BY <1>1, <1>5, <2>1, <2>3 DEF TailInv, HandleInv, ReadInv
  <2>5. QED
    BY <1>4, <2>2, <2>4 DEF TailInv
<1>7. CASE ~(mem.status.quarantined \/ file.inode = 0)
  <2>1. DEFINE replay == \/ mem.status.inode # 0 /\ mem.status.inode # file.inode
                         \/ Len(file.bytes) < mem.status.offset
                         \/ mem.status.offset > 0 /\ mem.status.inode = 0
               r == [size |-> Len(file.bytes), replay |-> replay, start |-> 0,
                     complete |-> <<>>, epoch |-> 0, truncated |-> FALSE]
  <2>2. /\ fd' = file /\ pc' = "check"
        /\ rd' = [NoLocal EXCEPT !.size = Len(file.bytes), !.replay = replay]
    BY <1>7, Zenon DEF Open
  <2>3. rd' = r
    BY <2>2, Zenon DEF NoLocal
  <2>4. Len(file.bytes) \in Nat /\ replay \in BOOLEAN
    BY <1>2, FileParts, LenProperties
  <2>5. r \in Local
    BY <2>4, EmptySeq DEF Local
  <2>6. r.size = Len(file.bytes) /\ r.replay = replay /\ r.truncated = FALSE
    OBVIOUS
  <2> HIDE DEF r
  <2>7. Shapes'
    <3>1. pc' \in {"down", "poll", "check", "read", "mark", "apply", "save"}
      BY <2>2
    <3>2. fd' \in File /\ rd' \in Local
      BY <1>2, <2>2, <2>3, <2>5
    <3>3. QED
      BY <1>1, <1>3, <3>1, <3>2 DEF TailInv, Shapes
  <2>8. Reading'
    BY <2>2 DEF Reading
  <2>9. file.inode # 0 /\ file.epoch > 0 /\ file.epoch \in Nat
    BY <1>2, <1>7, FileParts DEF TailInv, HandleInv
  <2>10. HandleInv'
    BY <1>1, <2>2, <2>8, <2>9 DEF HandleInv
  <2>11. Follows(mem, file)
    BY <1>2 DEF KeptInv
  <2>12. replay => \/ file.epoch # mem.tele.epoch \/ mem.tele.shaken \/ mem.status.inode = 0
    <3>1. mem.status.offset \in Nat
      BY <1>2, KeptParts
    <3>2. QED
      BY <2>4, <2>9, <2>11, <3>1 DEF Follows
  <2>13. ~replay /\ mem.status.offset > 0 => mem.status.inode # 0
    OBVIOUS
  <2>14. rd'.size <= Len(fd'.bytes)
    BY <2>2, <2>3, <2>4, <2>6
  <2> HIDE DEF replay
  <2>15. ReadInv'
    BY <1>1, <2>2, <2>3, <2>6, <2>8, <2>11, <2>12, <2>13, <2>14 DEF ReadInv
  <2>16. QED
    BY <1>4, <2>7, <2>10, <2>15 DEF TailInv
<1>8. QED
  BY <1>6, <1>7

\* Check and ReadChunk change nothing but locals.
LEMMA LocalStep ==
  ASSUME TailInv, UNCHANGED <<file, now, ckpt, mem, staged, fd>>, rd' \in Local,
         Reading, pc' \in {"read", "mark"}, ReadInv'
  PROVE  TailInv'
<1>1. Shapes'
  <2>1. mem' \in Kept /\ ckpt' \in Kept /\ staged' \in Kept /\ fd' \in File /\ file' \in File
    BY DEF TailInv, Shapes
  <2>2. pc' \in {"down", "poll", "check", "read", "mark", "apply", "save"}
    OBVIOUS
  <2>3. QED
    BY <2>1, <2>2 DEF TailInv, Shapes
<1>2. HandleInv'
  BY DEF TailInv, HandleInv, Reading
<1>3. KeptInv(mem)' /\ KeptInv(ckpt)' /\ KeptInv(staged)'
  BY DEF TailInv, KeptInv
<1>4. QED
  BY <1>1, <1>2, <1>3 DEF TailInv

LEMMA LocalParts ==
  ASSUME NEW r \in Local
  PROVE  /\ r.size \in Nat /\ r.replay \in BOOLEAN /\ r.start \in Nat
         /\ r.complete \in Seq(Byte) /\ r.epoch \in Nat /\ r.truncated \in BOOLEAN
BY Zenon DEF Local

LEMMA CheckStep ==
  ASSUME TailInv, Check
  PROVE  /\ TailInv'
         /\ rd'.replay => \/ fd.epoch # mem.tele.epoch
                          \/ mem.tele.shaken
                          \/ mem.status.inode = 0
<1>1. DEFINE replay == rd.replay \/ ~Recognised(staged.status, fd.bytes)
             r == [size |-> rd.size, replay |-> replay, start |-> rd.start,
                   complete |-> rd.complete, epoch |-> rd.epoch, truncated |-> rd.truncated]
<1>2. /\ UNCHANGED <<file, now, ckpt, mem, staged, fd>> /\ pc = "check" /\ pc' = "read"
      /\ rd' = [rd EXCEPT !.replay = replay]
  BY DEF Check
<1>3. rd \in Local
  BY DEF TailInv, Shapes
<1>4. rd' = r
  BY <1>2, <1>3, Zenon DEF Local
<1>5. replay \in BOOLEAN
  OBVIOUS
<1>6. r \in Local
  BY <1>3, <1>5, LocalParts DEF Local
<1>7. r.size = rd.size /\ r.replay = replay /\ r.truncated = rd.truncated
  OBVIOUS
<1> HIDE DEF r
<1>8. /\ staged = mem /\ Follows(staged, fd) /\ fd.inode # 0 /\ fd.epoch # 0
      /\ ~rd.truncated => rd.size <= Len(fd.bytes)
      /\ ~rd.replay /\ staged.status.offset > 0 => staged.status.inode # 0
      /\ rd.replay => \/ fd.epoch # mem.tele.epoch \/ mem.tele.shaken \/ mem.status.inode = 0
  <2>1. Reading
    BY <1>2 DEF Reading
  <2>2. fd.inode # 0 /\ fd.epoch > 0 /\ fd.epoch \in Nat
    BY <2>1, FileParts DEF TailInv, HandleInv, Shapes
  <2>3. QED
    BY <1>2, <2>1, <2>2 DEF TailInv, ReadInv
<1>9. replay => \/ fd.epoch # mem.tele.epoch \/ mem.tele.shaken \/ mem.status.inode = 0
  BY <1>8 DEF Follows
<1>10. ~replay => ~rd.replay /\ Recognised(staged.status, fd.bytes)
  OBVIOUS
<1> HIDE DEF replay
<1>11. ReadInv'
  BY <1>2, <1>4, <1>7, <1>8, <1>10 DEF ReadInv, Reading
<1>12. TailInv'
  BY <1>2, <1>4, <1>6, <1>11, LocalStep DEF Reading
<1>13. QED
  BY <1>4, <1>7, <1>9, <1>12

LEMMA ReadChunkStep ==
  ASSUME TailInv, ReadChunk
  PROVE  TailInv'
<1>1. DEFINE start == IF rd.replay THEN 0 ELSE staged.status.offset
             lines == Complete(Region(fd.bytes, start, start + Chunk))
             r == [size |-> rd.size, replay |-> rd.replay, start |-> start,
                   complete |-> lines, epoch |-> fd.epoch, truncated |-> rd.truncated]
<1>2. /\ UNCHANGED <<file, now, ckpt, mem, staged, fd>> /\ pc = "read" /\ pc' = "mark"
      /\ rd' = [rd EXCEPT !.start = start, !.epoch = fd.epoch, !.complete = lines]
  BY DEF ReadChunk
<1>3. rd \in Local /\ fd \in File /\ staged \in Kept
  BY DEF TailInv, Shapes
<1>4. rd' = r
  BY <1>2, <1>3, Zenon DEF Local
<1>5. start \in Nat /\ fd.epoch \in Nat /\ fd.bytes \in Seq(Byte)
  BY <1>3, KeptParts, FileParts
<1>6. start > 0 => ~rd.replay /\ start = staged.status.offset
  OBVIOUS
<1> HIDE DEF start
<1>7. /\ lines \in Seq(Byte)
      /\ lines # <<>> => /\ start + Len(lines) <= Len(fd.bytes)
                         /\ lines = SubSeq(fd.bytes, start + 1, start + Len(lines))
                         /\ fd.bytes[start + Len(lines)] = "n"
  BY <1>5, ChunkIsSegment
<1> HIDE DEF lines
<1>8. r \in Local
  BY <1>3, <1>5, <1>7, LocalParts DEF Local
<1>9. /\ r.size = rd.size /\ r.replay = rd.replay /\ r.start = start
      /\ r.complete = lines /\ r.epoch = fd.epoch /\ r.truncated = rd.truncated
  OBVIOUS
<1> HIDE DEF r
<1>10. /\ staged = mem /\ Follows(staged, fd)
       /\ ~rd.truncated => rd.size <= Len(fd.bytes)
       /\ ~rd.replay /\ staged.status.offset > 0 => staged.status.inode # 0
       /\ ~rd.replay /\ ~rd.truncated => Recognised(staged.status, fd.bytes)
  BY <1>2 DEF TailInv, ReadInv, Reading
<1>11. Segment'
  BY <1>2, <1>4, <1>7, <1>9 DEF Segment
<1>12. ReadInv'
  BY <1>2, <1>4, <1>5, <1>6, <1>9, <1>10, <1>11 DEF ReadInv, Reading
<1>13. QED
  BY <1>2, <1>4, <1>8, <1>12, LocalStep DEF Reading

-----------------------------------------------------------------------------
(* Malformed lines and when they were met *)

LEMMA FirstOfBounded ==
  ASSUME NEW n \in Nat, NEW T \in SUBSET (1..n), T # {}
  PROVE  \E i \in T : \A j \in T : i <= j
<1>1. T \subseteq Nat
  OBVIOUS
<1>2. PICK x \in T : \A y \in T : <<y, x>> \notin OpToRel(<, Nat)
  BY <1>1, NatLessThanWellFounded, WFMin
<1>3. x \in T /\ \A y \in T : y \in Nat /\ ~(y < x)
  BY <1>1, <1>2 DEF OpToRel
<1>4. QED
  BY <1>3

LEMMA MalformedCount ==
  ASSUME NEW lines \in Seq(Byte)
  PROVE  Malformed(lines) \in Nat /\ (lines = <<>> => Malformed(lines) = 0)
<1>1. DEFINE M == {i \in DOMAIN lines :
                     /\ lines[i] = "n"
                     /\ \E j \in 1..i : /\ lines[j] = "x"
                                        /\ \A k \in j..(i - 1) : lines[k] # "n"}
<1>2. DOMAIN lines = 1..Len(lines) /\ Len(lines) \in Nat /\ (lines = <<>> => Len(lines) = 0)
  BY LenProperties, EmptySeq
<1>3. M \subseteq 1..Len(lines)
  BY <1>2
<1>4. lines = <<>> => M = {}
  BY <1>2, <1>3
<1>5. Malformed(lines) = Cardinality(M)
  BY DEF Malformed
<1> HIDE DEF M
<1>6. IsFiniteSet(1..Len(lines))
  BY <1>2, FS_Interval
<1>7. IsFiniteSet(M)
  BY <1>3, <1>6, FS_Subset
<1>8. Cardinality(M) \in Nat /\ Cardinality({}) = 0
  BY <1>7, FS_CardinalityType, FS_EmptySet
<1>9. QED
  BY <1>4, <1>5, <1>8

\* Entries appended now.
LEMMA JoinedProperties ==
  ASSUME now \in Nat, NEW t \in Seq(Nat), NEW n \in Nat
  PROVE  /\ t \o Times(n) \in Seq(Nat)
         /\ Len(t) \in Nat /\ Len(t \o Times(n)) = Len(t) + n
         /\ \A i \in 1..Len(t) : (t \o Times(n))[i] = t[i]
         /\ \A i \in (Len(t) + 1)..(Len(t) + n) : (t \o Times(n))[i] = now
         /\ n = 0 => t \o Times(n) = t
<1>1. \A i \in 1..n : now \in Nat
  OBVIOUS
<1>2. Times(n) \in Seq(Nat) /\ Len(Times(n)) = n /\ \A i \in 1..n : Times(n)[i] = now
  <2>1. Times(n) \in Seq(Nat)
    <3>1. Times(n) \in [1..n -> Nat]
      BY <1>1 DEF Times
    <3>2. QED
      BY <3>1, SeqDef
  <2>2. DOMAIN Times(n) = 1..n
    BY DEF Times
  <2>3. QED
    BY <2>1, <2>2, LenProperties DEF Times
<1>3. Len(t) \in Nat
  BY LenProperties
<1>4. /\ t \o Times(n) \in Seq(Nat) /\ Len(t \o Times(n)) = Len(t) + n
      /\ \A i \in 1..(Len(t) + n) :
           (t \o Times(n))[i] = IF i <= Len(t) THEN t[i] ELSE Times(n)[i - Len(t)]
  BY <1>2, ConcatProperties
<1>5. \A i \in 1..Len(t) : (t \o Times(n))[i] = t[i]
  BY <1>3, <1>4
<1>6. \A i \in (Len(t) + 1)..(Len(t) + n) : (t \o Times(n))[i] = now
  BY <1>2, <1>3, <1>4
<1>7. n = 0 => t \o Times(n) = t
  BY <1>3, <1>4, <1>5, SeqEqual
<1>8. QED
  BY <1>3, <1>4, <1>5, <1>6, <1>7

LEMMA TailOf ==
  ASSUME NEW q \in Seq(Nat), NEW d \in Nat, d <= Len(q)
  PROVE  /\ SubSeq(q, 1 + d, Len(q)) \in Seq(Nat)
         /\ Len(SubSeq(q, 1 + d, Len(q))) = Len(q) - d
         /\ \A i \in 1..(Len(q) - d) : SubSeq(q, 1 + d, Len(q))[i] = q[d + i]
<1>1. Len(q) \in Nat
  BY LenProperties
<1>2. \A i \in (1 + d)..Len(q) : q[i] \in Nat
  BY <1>1, ElementOfSeq
<1>3. /\ SubSeq(q, 1 + d, Len(q)) \in Seq(Nat)
      /\ Len(SubSeq(q, 1 + d, Len(q))) = IF 1 + d <= Len(q) THEN Len(q) - (1 + d) + 1 ELSE 0
      /\ \A i \in 1..(Len(q) - (1 + d) + 1) : SubSeq(q, 1 + d, Len(q))[i] = q[(1 + d) + i - 1]
  BY <1>1, <1>2, SubSeqProperties
<1>4. /\ Len(q) - (1 + d) + 1 = Len(q) - d
      /\ \A i \in 1..(Len(q) - d) : (1 + d) + i - 1 = d + i
      /\ ~(1 + d <= Len(q)) => Len(q) - d = 0
  BY <1>1
<1>5. QED
  BY <1>3, <1>4

LEMMA NewestProperties ==
  ASSUME NEW q \in Seq(Nat)
  PROVE  \E d \in 0..Len(q) :
           /\ Newest(q) = SubSeq(q, 1 + d, Len(q))
           /\ Len(q) - d <= QueueLimit
           /\ d > 0 => Len(q) - d = QueueLimit
<1>1. Len(q) \in Nat /\ QueueLimit \in Nat
  BY LenProperties, LogAssumption
<1>2. DEFINE d == Larger(0, Len(q) - QueueLimit)
<1>3. d \in 0..Len(q) /\ Len(q) - d <= QueueLimit /\ (d > 0 => Len(q) - d = QueueLimit)
  BY <1>1 DEF Larger
<1>4. Newest(q) = SubSeq(q, 1 + d, Len(q))
  BY DEF Newest
<1>5. QED
  BY <1>3, <1>4

LEMMA PrunedProperties ==
  ASSUME now \in Nat, NEW q \in Seq(Nat)
  PROVE  \E p \in 0..Len(q) :
           /\ Pruned(q) = SubSeq(q, 1 + p, Len(q))
           /\ \A i \in 1..p : q[i] < now - Period
<1>1. DEFINE young == {i \in DOMAIN q : q[i] >= now - Period}
<1>2. Len(q) \in Nat /\ DOMAIN q = 1..Len(q) /\ Period \in Nat
  BY LenProperties, LogAssumption
<1>3. \A i \in 1..Len(q) : q[i] \in Nat
  BY <1>2, ElementOfSeq
<1>4. young \in SUBSET (1..Len(q))
  BY <1>2
<1>5. CASE young = {}
  <2>1. \A i \in 1..Len(q) : q[i] < now - Period
    BY <1>2, <1>3, <1>5
  <2>2. Pruned(q) = <<>>
    BY <1>5 DEF Pruned
  <2>3. SubSeq(q, 1 + Len(q), Len(q)) = <<>>
    <3>1. /\ SubSeq(q, 1 + Len(q), Len(q)) \in Seq(Nat)
          /\ Len(SubSeq(q, 1 + Len(q), Len(q))) = 0
      BY <1>2, TailOf
    <3>2. QED
      BY <3>1, EmptySeq
  <2>4. QED
    BY <1>2, <2>1, <2>2, <2>3
<1>6. CASE young # {}
  <2>1. DEFINE first == CHOOSE i \in young : \A j \in young : i <= j
  <2>2. first \in young /\ \A j \in young : first <= j
    <3> HIDE DEF young
    <3>1. \E i \in young : \A j \in young : i <= j
      BY <1>2, <1>4, <1>6, FirstOfBounded
    <3>2. QED
      BY <3>1
  <2>3. Pruned(q) = SubSeq(q, first, Len(q))
    BY <1>6 DEF Pruned
  <2> HIDE DEF first
  <2>4. first - 1 \in 0..Len(q) /\ 1 + (first - 1) = first
    BY <1>2, <1>4, <2>2
  <2>5. \A i \in 1..(first - 1) : q[i] < now - Period
    <3>1. \A i \in 1..(first - 1) : i \in 1..Len(q) /\ ~(first <= i)
      BY <2>4
    <3>2. \A i \in 1..(first - 1) : ~(q[i] >= now - Period)
      BY <1>2, <2>2, <3>1
    <3>3. QED
      BY <1>2, <1>3, <3>1, <3>2
  <2>6. QED
    BY <2>3, <2>4, <2>5
<1>7. QED
  BY <1>5, <1>6

\* What stays in the queue is the end of what was appended.
LEMMA QueueProperties ==
  ASSUME now \in Nat, NEW q \in Seq(Nat)
  PROVE  /\ Pruned(Newest(q)) \in Seq(Nat)
         /\ \E d \in 0..Len(q) :
              /\ Pruned(Newest(q)) = SubSeq(q, 1 + d, Len(q))
              /\ Len(q) - d <= QueueLimit
              /\ \/ d > 0 /\ q[d] < now - Period
                 \/ d > 0 /\ Len(q) - d = QueueLimit
                 \/ d = 0
<1>1. Len(q) \in Nat
  BY LenProperties
<1>2. PICK e \in 0..Len(q) :
        /\ Newest(q) = SubSeq(q, 1 + e, Len(q))
        /\ Len(q) - e <= QueueLimit
        /\ e > 0 => Len(q) - e = QueueLimit
  BY NewestProperties
<1>3. DEFINE r == SubSeq(q, 1 + e, Len(q))
<1>4. r \in Seq(Nat) /\ Len(r) = Len(q) - e /\ \A i \in 1..(Len(q) - e) : r[i] = q[e + i]
  <2>1. e \in Nat /\ e <= Len(q)
    BY <1>1
  <2>2. QED
    BY <2>1, TailOf, Zenon
<1> HIDE DEF r
<1>5. PICK p \in 0..Len(r) :
        Pruned(r) = SubSeq(r, 1 + p, Len(r)) /\ \A i \in 1..p : r[i] < now - Period
  BY <1>4, PrunedProperties
<1>6. e + p \in 0..Len(q) /\ Len(q) - (e + p) = Len(r) - p
  BY <1>1, <1>4
<1>7. /\ Pruned(r) \in Seq(Nat) /\ Len(Pruned(r)) = Len(r) - p
      /\ \A i \in 1..(Len(r) - p) : Pruned(r)[i] = r[p + i]
  <2>1. p \in Nat /\ p <= Len(r)
    BY <1>1, <1>4
  <2>2. /\ SubSeq(r, 1 + p, Len(r)) \in Seq(Nat) /\ Len(SubSeq(r, 1 + p, Len(r))) = Len(r) - p
        /\ \A i \in 1..(Len(r) - p) : SubSeq(r, 1 + p, Len(r))[i] = r[p + i]
    BY <1>4, <2>1, TailOf, Zenon
  <2>3. QED
    BY <1>5, <2>2, Zenon
<1>8. /\ SubSeq(q, 1 + (e + p), Len(q)) \in Seq(Nat)
      /\ Len(SubSeq(q, 1 + (e + p), Len(q))) = Len(q) - (e + p)
      /\ \A i \in 1..(Len(q) - (e + p)) : SubSeq(q, 1 + (e + p), Len(q))[i] = q[(e + p) + i]
  <2>1. e + p \in Nat /\ e + p <= Len(q)
    BY <1>1, <1>6
  <2>2. QED
    BY <2>1, TailOf, Zenon
<1>9. Pruned(r) = SubSeq(q, 1 + (e + p), Len(q))
  <2>1. DEFINE a == Pruned(r)
               b == SubSeq(q, 1 + (e + p), Len(q))
  <2>2. /\ a \in Seq(Nat) /\ b \in Seq(Nat) /\ Len(a) = Len(b) /\ Len(a) = Len(r) - p
        /\ \A i \in 1..(Len(r) - p) : a[i] = r[p + i] /\ b[i] = q[(e + p) + i]
    BY <1>6, <1>7, <1>8
  <2> HIDE DEF a, b
  <2>3. \A i \in 1..(Len(r) - p) : p + i \in 1..(Len(q) - e) /\ e + (p + i) = (e + p) + i
    BY <1>1, <1>4
  <2>4. ASSUME NEW i \in 1..Len(a)
        PROVE  a[i] = b[i]
    <3>1. i \in 1..(Len(r) - p)
      BY <2>2
    <3>2. a[i] = r[p + i] /\ b[i] = q[(e + p) + i]
      BY <2>2, <3>1, Zenon
    <3>3. p + i \in 1..(Len(q) - e) /\ e + (p + i) = (e + p) + i
      BY <2>3, <3>1, Zenon
    <3>4. r[p + i] = q[e + (p + i)]
      BY <1>4, <3>3, Zenon
    <3>5. QED
      BY <3>2, <3>3, <3>4, Zenon
  <2>5. a = b
    BY <2>2, <2>4, SeqEqual
  <2>6. QED
    BY <2>5 DEF a, b
<1>10. \/ e + p > 0 /\ q[e + p] < now - Period
       \/ e + p > 0 /\ Len(q) - (e + p) = QueueLimit
       \/ e + p = 0
  <2>1. CASE p > 0
    <3>1. r[p] < now - Period /\ r[p] = q[e + p]
      BY <1>4, <1>5, <2>1
    <3>2. QED
      BY <1>2, <2>1, <3>1
  <2>2. CASE ~(p > 0)
    BY <1>2, <1>4, <2>2
  <2>3. QED
    BY <2>1, <2>2
<1>11. Len(q) - (e + p) <= QueueLimit
  BY <1>1, <1>2, <1>4, LogAssumption
<1>12. Pruned(Newest(q)) = Pruned(r)
  BY <1>2 DEF r
<1>13. QED
  BY <1>6, <1>7, <1>9, <1>10, <1>11, <1>12

\* n entries w are appended to the b entries of t.
Joins(t, tn, b, n, w) ==
  /\ \A i \in 1..b : tn[i] = t[i]
  /\ \A i \in (b + 1)..(b + n) : tn[i] = w

LEMMA OrderKept ==
  ASSUME NEW w \in Nat, NEW b \in Nat, NEW n \in Nat, NEW t, NEW tn,
         InOrder(t, b, w), Joins(t, tn, b, n, w)
  PROVE  InOrder(tn, b + n, w)
<1>1. \A i \in 1..(b + n) : i \in 1..b \/ i \in (b + 1)..(b + n)
  OBVIOUS
<1>2. \A i \in 1..(b + n) : tn[i] \in Nat /\ tn[i] <= w
  BY <1>1 DEF InOrder, Joins
<1>3. ASSUME NEW i \in 1..(b + n), NEW m \in 1..(b + n), i <= m PROVE tn[i] <= tn[m]
  <2>1. CASE m \in 1..b
    <3>1. i \in 1..b
      BY <1>3, <2>1
    <3>2. QED
      BY <1>3, <2>1, <3>1 DEF InOrder, Joins
  <2>2. CASE m \in (b + 1)..(b + n)
    BY <1>2, <2>2 DEF Joins
  <2>3. QED
    BY <1>1, <2>1, <2>2
<1>4. QED
  BY <1>2, <1>3 DEF InOrder

\* When both have grown by the same entries, the end may lose d entries at its
\* front, the last of them old.
LEMMA EndKept ==
  ASSUME NEW a \in Nat, NEW b \in Nat, NEW n \in Nat, NEW d \in 0..(a + n),
         NEW w \in Nat, NEW c \in Int, NEW s, NEW t, NEW sn, NEW tn, NEW r,
         Joins(s, sn, a, n, w), Joins(t, tn, b, n, w),
         InOrder(tn, b + n, w), EndOf(s, a, t, b, c),
         d > 0 => sn[d] < c,
         \A i \in 1..(a + n - d) : r[i] = sn[d + i]
  PROVE  EndOf(r, a + n - d, tn, b + n, c)
<1>1. /\ a <= b
      /\ \A i \in 1..a : s[i] = t[b - a + i]
      /\ \A i \in 1..(b - a) : t[i] < c
  BY DEF EndOf
<1>2. ASSUME NEW m \in 1..(a + n) PROVE sn[m] = tn[b - a + m] /\ b - a + m \in 1..(b + n)
  <2>1. CASE m \in 1..a
    <3>1. b - a + m \in 1..b /\ b - a + m \in 1..(b + n)
      BY <1>1, <2>1
    <3>2. QED
      BY <1>1, <2>1, <3>1 DEF Joins
  <2>2. CASE ~(m \in 1..a)
    <3>1. /\ m \in (a + 1)..(a + n) /\ b - a + m \in (b + 1)..(b + n)
          /\ b - a + m \in 1..(b + n)
      BY <1>1, <2>2
    <3>2. QED
      BY <3>1 DEF Joins
  <2>3. QED
    BY <2>1, <2>2
<1>3. a + n - d <= b + n /\ (b + n) - (a + n - d) = b - a + d
  BY <1>1
<1>4. ASSUME NEW i \in 1..(a + n - d) PROVE r[i] = tn[(b + n) - (a + n - d) + i]
  <2>1. d + i \in 1..(a + n) /\ b - a + (d + i) = (b + n) - (a + n - d) + i
    BY <1>1
  <2>2. QED
    BY <1>2, <2>1
<1>5. ASSUME NEW i \in 1..(b - a + d) PROVE tn[i] < c
  <2>1. CASE d = 0
    <3>1. i \in 1..(b - a) /\ i \in 1..b
      BY <1>1, <2>1
    <3>2. QED
      BY <1>1, <3>1 DEF Joins
  <2>2. CASE d # 0
    <3>1. d \in 1..(a + n) /\ d > 0
      BY <2>2
    <3>2. tn[b - a + d] < c /\ b - a + d \in 1..(b + n)
      BY <1>2, <3>1
    <3>3. i \in 1..(b + n) /\ i <= b - a + d
      BY <3>2
    <3>4. tn[i] <= tn[b - a + d] /\ tn[i] \in Nat /\ tn[b - a + d] \in Nat
      BY <3>2, <3>3 DEF InOrder
    <3>5. QED
      BY <3>2, <3>4
  <2>3. QED
    BY <2>1, <2>2
<1>6. QED
  BY <1>3, <1>4, <1>5 DEF EndOf

LEMMA CountsMarked ==
  ASSUME now \in Nat, NEW k \in Kept, Counts(k), NEW n \in Nat, NEW j \in Kept,
         j.tele.noticed = k.tele.noticed \o Times(n),
         j.status.stamps = Pruned(Newest(k.status.stamps \o Times(n))),
         j.status.quarantined <=>
           (k.status.quarantined \/ Len(j.status.stamps) >= Threshold)
  PROVE  Counts(j)
<1>1. DEFINE s == k.status.stamps  t == k.tele.noticed
             sn == s \o Times(n)  tn == t \o Times(n)
             r == j.status.stamps
             a == Len(s)  b == Len(t)  c == now - Period
<1>2. /\ s \in Seq(Nat) /\ t \in Seq(Nat)
      /\ Threshold \in Nat /\ QueueLimit \in Nat /\ Period \in Nat /\ c \in Int
  BY KeptParts, LogAssumption
<1>3. sn \in Seq(Nat) /\ a \in Nat /\ Len(sn) = a + n /\ Joins(s, sn, a, n, now)
  BY <1>2, JoinedProperties DEF Joins
<1>4. tn \in Seq(Nat) /\ b \in Nat /\ Len(tn) = b + n /\ Joins(t, tn, b, n, now)
  BY <1>2, JoinedProperties DEF Joins
<1>5. /\ InOrder(t, b, now)
      /\ Threshold <= QueueLimit /\ ~k.status.quarantined => EndOf(s, a, t, b, c)
  BY DEF Counts
<1>6. /\ r = Pruned(Newest(sn)) /\ j.tele.noticed = tn /\ j.status.stamps = r
      /\ j.status.quarantined <=> (k.status.quarantined \/ Len(r) >= Threshold)
  OBVIOUS
<1>7. PICK d \in 0..Len(sn) :
        /\ r = SubSeq(sn, 1 + d, Len(sn))
        /\ Len(sn) - d <= QueueLimit
        /\ \/ d > 0 /\ sn[d] < c
           \/ d > 0 /\ Len(sn) - d = QueueLimit
           \/ d = 0
  <2> HIDE DEF sn, r
  <2>1. QED
    BY <1>3, <1>6, QueueProperties
<1> HIDE DEF sn, tn, r, a, b, c, s, t
<1>8. Len(r) = a + n - d /\ d \in 0..(a + n) /\ \A i \in 1..(a + n - d) : r[i] = sn[d + i]
  <2>1. d \in Nat /\ d <= Len(sn) /\ d \in 0..(a + n)
    BY <1>3
  <2>2. /\ Len(SubSeq(sn, 1 + d, Len(sn))) = Len(sn) - d
        /\ \A i \in 1..(Len(sn) - d) : SubSeq(sn, 1 + d, Len(sn))[i] = sn[d + i]
    BY <1>3, <2>1, TailOf, Zenon
  <2>3. Len(r) = Len(sn) - d /\ \A i \in 1..(Len(sn) - d) : r[i] = sn[d + i]
    BY <1>7, <2>2, Zenon
  <2>4. Len(sn) - d = a + n - d
    BY <1>3
  <2>5. QED
    BY <2>1, <2>3, <2>4, Zenon
<1>9. InOrder(tn, Len(tn), now)
  BY <1>4, <1>5, OrderKept, Zenon
<1>10. ASSUME Threshold <= QueueLimit, ~j.status.quarantined
       PROVE  Len(r) < Threshold /\ EndOf(r, Len(r), tn, Len(tn), c)
  <2>1. ~k.status.quarantined /\ ~(Len(r) >= Threshold)
    BY <1>6, <1>10
  <2>2. Len(r) < Threshold
    BY <1>2, <1>3, <1>8, <2>1
  <2>3. EndOf(s, a, t, b, c)
    BY <1>5, <1>10, <2>1
  <2>4. d > 0 => sn[d] < c
    <3>1. ~(Len(sn) - d = QueueLimit)
      BY <1>2, <1>3, <1>8, <1>10, <2>2
    <3>2. QED
      BY <1>7, <3>1
  <2>5. EndOf(r, a + n - d, tn, b + n, c)
    <3>1. InOrder(tn, b + n, now)
      BY <1>4, <1>9, Zenon
    <3>2. QED
      BY <1>2, <1>3, <1>4, <1>8, <2>3, <2>4, <3>1, EndKept, Zenon
  <2>6. QED
    BY <1>4, <1>8, <2>2, <2>5, Zenon
<1>11. Len(r) <= QueueLimit
  <2>1. Len(sn) - d <= QueueLimit /\ Len(sn) - d = a + n - d
    BY <1>3, <1>7
  <2>2. QED
    BY <1>8, <2>1, Zenon
<1>12. QED
  BY <1>6, <1>9, <1>10, <1>11, Zenon DEF Counts, c

\* As long as there is no quarantine, everything recent is in the queue.
LEMMA RecentBounded ==
  ASSUME now \in Nat, NEW k \in Kept, Counts(k), Threshold <= QueueLimit,
         ~k.status.quarantined
  PROVE  ~(Recent(k.tele) >= Threshold)
<1>1. DEFINE s == k.status.stamps  t == k.tele.noticed
             R == {i \in DOMAIN t : t[i] >= now - Period}
<1>2. /\ s \in Seq(Nat) /\ t \in Seq(Nat) /\ Threshold \in Nat /\ Period \in Nat
      /\ Len(s) \in Nat /\ Len(t) \in Nat /\ DOMAIN t = 1..Len(t)
  BY KeptParts, LenProperties, LogAssumption
<1>3. \A i \in 1..Len(t) : t[i] \in Nat
  BY <1>2, ElementOfSeq
<1>4. /\ Len(s) < Threshold /\ Len(s) <= Len(t)
      /\ \A i \in 1..(Len(t) - Len(s)) : t[i] < now - Period
  BY DEF Counts, EndOf
<1>5. Recent(k.tele) = Cardinality(R)
  BY DEF Recent
<1>6. R \in SUBSET ((Len(t) - Len(s) + 1)..Len(t))
  <2>1. \A i \in R : i \in 1..Len(t) /\ t[i] >= now - Period /\ t[i] \in Nat
    BY <1>2, <1>3
  <2>2. ASSUME NEW a \in Nat, NEW b \in Nat, NEW c \in Int, NEW f, NEW i \in 1..b,
               f[i] \in Nat, f[i] >= c, \A j \in 1..(b - a) : f[j] < c
        PROVE  i \in (b - a + 1)..b
    <3>1. ~(i \in 1..(b - a))
      BY <2>2
    <3>2. QED
      BY <3>1
  <2>3. now - Period \in Int
    BY <1>2
  <2> HIDE DEF R, s, t
  <2>4. ASSUME NEW i \in R PROVE i \in (Len(t) - Len(s) + 1)..Len(t)
    BY <1>2, <1>4, <2>1, <2>2, <2>3
  <2>5. QED
    BY <2>4
<1> HIDE DEF R, s, t
<1>7. DEFINE I == (Len(t) - Len(s) + 1)..Len(t)
<1>8. IsFiniteSet(I) /\ Cardinality(I) = Len(s)
  <2>1. Len(t) - Len(s) + 1 \in Int /\ Len(t) \in Int
    BY <1>2
  <2>2. /\ IsFiniteSet(I)
        /\ Cardinality(I) = IF Len(t) - Len(s) + 1 > Len(t) THEN 0
                            ELSE Len(t) - (Len(t) - Len(s) + 1) + 1
    BY <2>1, FS_Interval
  <2>3. QED
    BY <1>2, <2>2
<1> HIDE DEF I
<1>9. IsFiniteSet(R) /\ Cardinality(R) <= Len(s)
  BY <1>6, <1>8, FS_Subset DEF I
<1>10. Cardinality(R) \in Nat
  BY <1>9, FS_CardinalityType
<1>11. QED
  BY <1>2, <1>4, <1>5, <1>9, <1>10

-----------------------------------------------------------------------------
(* The end of a read *)

NewOffset == rd.start + Len(rd.complete)
NewStart == Larger(0, NewOffset - Window)

LEMMA MarkParts ==
  ASSUME TailInv, Mark
  PROVE  /\ staged' \in Kept
         /\ staged'.status.offset = NewOffset /\ staged'.status.inode = fd.inode
         /\ staged'.status.prefixLength = PrefixSpan(rd.size)
         /\ staged'.status.prefix = Region(fd.bytes, 0, PrefixSpan(rd.size))
         /\ staged'.status.boundaryStart = NewStart
         /\ staged'.status.boundary = Region(fd.bytes, NewStart, NewOffset)
         /\ staged'.status.stamps =
              IF rd.complete = <<>> THEN staged.status.stamps
              ELSE Pruned(Newest(staged.status.stamps \o Times(Malformed(rd.complete))))
         /\ staged'.status.quarantined <=>
              \/ staged.status.quarantined
              \/ rd.complete # <<>> /\ Len(staged'.status.stamps) >= Threshold
         /\ staged'.tele.noticed = staged.tele.noticed \o Times(Malformed(rd.complete))
         /\ staged'.tele.parsed =
              IF rd.start = 0 THEN rd.complete ELSE staged.tele.parsed \o rd.complete
         /\ staged'.tele.epoch =
              IF rd.start = 0 \/ staged.tele.epoch = rd.epoch THEN rd.epoch ELSE 0
         /\ rd.truncated => staged'.tele.shaken
         /\ Blind(staged.status, staged.tele) => staged'.tele.blind
<1>1. DEFINE s == staged.status  t == staged.tele
             stamps == Pruned(Newest(s.stamps \o Times(Malformed(rd.complete))))
             quarantined == \/ s.quarantined
                            \/ rd.complete # <<>> /\ Len(stamps) >= Threshold
             shaken == rd.truncated \/ (rd.start > 0 /\ t.shaken)
             status == [offset |-> NewOffset, inode |-> fd.inode,
                        prefixLength |-> PrefixSpan(rd.size),
                        prefix |-> Region(fd.bytes, 0, PrefixSpan(rd.size)),
                        boundaryStart |-> NewStart,
                        boundary |-> Region(fd.bytes, NewStart, NewOffset),
                        stamps |-> IF rd.complete = <<>> THEN s.stamps ELSE stamps,
                        quarantined |-> quarantined]
             tele == [parsed |-> IF rd.start = 0 THEN rd.complete ELSE t.parsed \o rd.complete,
                      epoch |-> IF rd.start = 0 \/ t.epoch = rd.epoch THEN rd.epoch ELSE 0,
                      noticed |-> t.noticed \o Times(Malformed(rd.complete)),
                      shaken |-> shaken, blind |-> Blind(s, t)]
<1>2. rd \in Local /\ fd \in File /\ staged \in Kept
  BY DEF TailInv, Shapes
<1>3. NextStatus(s) = status /\ NextTelemetry(s, t) = tele
  BY Zenon DEF NextStatus, NextTelemetry, NewOffset, NewStart
<1>4. staged' = [status |-> status, tele |-> tele]
  <2>1. staged' = [status |-> NextStatus(s), tele |-> NextTelemetry(s, t)]
    BY DEF Mark
  <2>2. QED
    BY <1>3, <2>1, Zenon
<1>5. staged'.status = status /\ staged'.tele = tele
  BY <1>4, Zenon
<1>6. /\ status.offset = NewOffset /\ status.inode = fd.inode
      /\ status.prefixLength = PrefixSpan(rd.size)
      /\ status.prefix = Region(fd.bytes, 0, PrefixSpan(rd.size))
      /\ status.boundaryStart = NewStart
      /\ status.boundary = Region(fd.bytes, NewStart, NewOffset)
      /\ status.stamps = IF rd.complete = <<>> THEN s.stamps ELSE stamps
      /\ status.quarantined = quarantined
      /\ tele.noticed = t.noticed \o Times(Malformed(rd.complete))
      /\ tele.parsed = IF rd.start = 0 THEN rd.complete ELSE t.parsed \o rd.complete
      /\ tele.epoch = IF rd.start = 0 \/ t.epoch = rd.epoch THEN rd.epoch ELSE 0
      /\ tele.shaken = shaken /\ tele.blind = Blind(s, t)
  BY Zenon
<1>7. /\ rd.size \in Nat /\ rd.start \in Nat /\ rd.complete \in Seq(Byte) /\ rd.epoch \in Nat
      /\ Len(rd.complete) \in Nat
  BY <1>2, LocalParts, LenProperties
<1>8. NewOffset \in Nat /\ NewStart \in Nat /\ PrefixSpan(rd.size) \in Nat
  BY <1>7, Numbers DEF NewOffset, NewStart, PrefixSpan, Smaller, Larger
<1>9. fd.inode \in Inodes \cup {0} /\ fd.bytes \in Seq(Byte)
  BY <1>2, FileParts
<1>10. /\ Region(fd.bytes, 0, PrefixSpan(rd.size)) \in Seq(Byte)
       /\ Region(fd.bytes, NewStart, NewOffset) \in Seq(Byte)
  BY <1>8, <1>9, RegionProperties
<1>11. tele.parsed \in Seq(Byte) /\ tele.epoch \in Nat
  <2>1. t.parsed \in Seq(Byte) /\ t.epoch \in Nat
    BY <1>2, KeptParts
  <2>2. t.parsed \o rd.complete \in Seq(Byte)
    BY <1>7, <2>1, ConcatProperties
  <2>3. QED
    BY <1>6, <1>7, <2>1, <2>2
<1>12. quarantined \in BOOLEAN /\ shaken \in BOOLEAN /\ Blind(s, t) \in BOOLEAN
  BY DEF Blind
<1>13. staged' \in Kept
  <2>1. /\ s.stamps \in Seq(Nat) /\ stamps \in Seq(Nat)
        /\ t.noticed \o Times(Malformed(rd.complete)) \in Seq(Nat)
    <3>1. now \in Nat /\ s.stamps \in Seq(Nat) /\ t.noticed \in Seq(Nat)
      BY <1>2, KeptParts DEF TailInv, Shapes
    <3>2. QED
      BY <1>7, <3>1, MalformedCount, JoinedProperties, QueueProperties
  <2>2. status \in Status
    <3> HIDE DEF quarantined, stamps
    <3>1. QED
      BY <1>8, <1>9, <1>10, <1>12, <2>1 DEF Status
  <2>3. tele \in Telemetry
    <3> HIDE DEF shaken
    <3>1. QED
      BY <1>6, <1>11, <1>12, <2>1 DEF Telemetry
  <2> HIDE DEF status, tele
  <2>4. QED
    BY <1>4, <2>2, <2>3 DEF Kept
<1>14. QED
  <2> HIDE DEF status, tele
  <2>1. quarantined <=> \/ staged.status.quarantined
                        \/ rd.complete # <<>> /\ Len(status.stamps) >= Threshold
    BY <1>6
  <2>2. rd.truncated => shaken
    OBVIOUS
  <2> HIDE DEF quarantined, shaken
  <2>3. QED
    BY <1>5, <1>6, <1>13, <2>1, <2>2, Zenon

\* What is known of the open log and of the lines read from it.
LEMMA MarkFacts ==
  ASSUME TailInv, Mark
  PROVE  /\ rd.size \in Nat /\ rd.start \in Nat /\ rd.complete \in Seq(Byte)
         /\ rd.epoch \in Nat /\ fd.bytes \in Seq(Byte) /\ fd.epoch \in Nat /\ fd.epoch > 0
         /\ fd.inode # 0 /\ fd.epoch <= file.epoch /\ Follows(staged, fd)
         /\ ~rd.truncated => rd.size <= Len(fd.bytes)
         /\ rd.epoch <= fd.epoch
         /\ ~rd.truncated => rd.epoch = fd.epoch
         /\ rd.epoch = fd.epoch => Segment
         /\ rd.start > 0 => /\ rd.start = staged.status.offset
                            /\ staged.status.inode # 0
                            /\ ~rd.truncated => Recognised(staged.status, fd.bytes)
<1>1. pc = "mark" /\ Reading
  BY DEF Mark, Reading
<1>2. rd \in Local /\ fd \in File
  BY DEF TailInv, Shapes
<1>3. /\ rd.size \in Nat /\ rd.start \in Nat /\ rd.complete \in Seq(Byte) /\ rd.epoch \in Nat
      /\ fd.bytes \in Seq(Byte) /\ fd.epoch \in Nat
  BY <1>2, LocalParts, FileParts
<1>4. fd.inode # 0 /\ fd.epoch > 0 /\ fd.epoch <= file.epoch
  BY <1>1 DEF TailInv, HandleInv
<1>5. QED
  BY <1>1, <1>3, <1>4 DEF TailInv, ReadInv

\* The lines read extend what was parsed of the same log.
LEMMA MarkExtends ==
  ASSUME TailInv, Mark, Segment,
         rd.start > 0 => /\ rd.start <= Len(fd.bytes)
                         /\ staged.tele.parsed = SubSeq(fd.bytes, 1, rd.start)
  PROVE  /\ NewOffset <= Len(fd.bytes)
         /\ staged'.tele.parsed = SubSeq(fd.bytes, 1, NewOffset)
<1>1. rd.start \in Nat /\ rd.complete \in Seq(Byte) /\ fd.bytes \in Seq(Byte)
  BY MarkFacts
<1>2. Len(fd.bytes) \in Nat /\ Len(rd.complete) \in Nat
  BY <1>1, LenProperties
<1>3. rd.complete # <<>> =>
        /\ rd.start + Len(rd.complete) <= Len(fd.bytes)
        /\ rd.complete = SubSeq(fd.bytes, rd.start + 1, rd.start + Len(rd.complete))
  BY DEF Segment
<1>4. staged'.tele.parsed =
        IF rd.start = 0 THEN rd.complete ELSE staged.tele.parsed \o rd.complete
  BY MarkParts
<1>5. rd.start <= Len(fd.bytes)
  BY <1>1, <1>2
<1>6. DEFINE before == SubSeq(fd.bytes, 1, rd.start)
<1>7. /\ rd.start + Len(rd.complete) <= Len(fd.bytes)
      /\ before \o rd.complete = SubSeq(fd.bytes, 1, rd.start + Len(rd.complete))
      /\ rd.start = 0 => rd.complete = SubSeq(fd.bytes, 1, Len(rd.complete))
  BY <1>1, <1>3, <1>5, Extended
<1>8. CASE rd.start = 0
  <2>1. rd.start + Len(rd.complete) = Len(rd.complete)
    BY <1>2, <1>8
  <2>2. QED
    BY <1>4, <1>7, <1>8, <2>1, Zenon DEF NewOffset
<1>9. CASE rd.start # 0
  <2>1. staged.tele.parsed = before
    BY <1>1, <1>9
  <2>2. QED
    BY <1>4, <1>7, <1>9, <2>1, Zenon DEF NewOffset
<1>10. QED
  BY <1>8, <1>9

LEMMA MarkExact ==
  ASSUME TailInv, Mark, ~rd.truncated, ~staged'.tele.blind
  PROVE  /\ NewOffset <= Len(fd.bytes)
         /\ staged'.tele.parsed = SubSeq(fd.bytes, 1, NewOffset)
<1>1. Segment /\ rd.epoch = fd.epoch
  BY MarkFacts
<1>2. ~Blind(staged.status, staged.tele)
  BY MarkParts
<1>3. ASSUME rd.start > 0
      PROVE  /\ rd.start <= Len(fd.bytes)
             /\ staged.tele.parsed = SubSeq(fd.bytes, 1, rd.start)
  <2>1. /\ rd.start = staged.status.offset /\ staged.status.inode # 0
        /\ Recognised(staged.status, fd.bytes)
        /\ fd.bytes \in Seq(Byte) /\ fd.epoch > 0 /\ fd.epoch \in Nat /\ fd.inode # 0
        /\ Follows(staged, fd)
    BY <1>3, MarkFacts
  <2>2. /\ ~staged.tele.blind
        /\ staged.tele.epoch = rd.epoch
             \/ ~(staged.status.prefixLength < staged.status.boundaryStart)
    BY <1>2, <1>3 DEF Blind
  <2>3. staged \in Kept /\ Faithful(staged)
    BY DEF TailInv, Shapes, KeptInv
  <2>4. rd.start <= Len(fd.bytes)
    BY <1>3, <2>1 DEF Recognised
  <2>5. CASE staged.tele.epoch = rd.epoch
    BY <1>1, <2>1, <2>4, <2>5 DEF Follows
  <2>6. CASE ~(staged.status.prefixLength < staged.status.boundaryStart)
    <3>1. staged.status.boundaryStart <= staged.status.prefixLength /\ staged.status.offset > 0
      BY <1>3, <2>1, <2>3, <2>6, KeptParts
    <3>2. staged.tele.parsed = SubSeq(fd.bytes, 1, staged.status.offset)
      BY <2>1, <2>2, <2>3, <3>1, CoveredIsParsed
    <3>3. QED
      BY <2>1, <2>4, <3>2
  <2>7. QED
    BY <2>2, <2>5, <2>6
<1>4. QED
  BY <1>1, <1>3, MarkExtends

\* The fingerprints taken at the end of a read are those of the log.
LEMMA MarkRecognises ==
  ASSUME TailInv, Mark, ~rd.truncated, NewOffset <= Len(fd.bytes)
  PROVE  Recognised(staged'.status, fd.bytes)
<1>1. /\ staged'.status.offset = NewOffset
      /\ staged'.status.prefixLength = PrefixSpan(rd.size)
      /\ staged'.status.prefix = Region(fd.bytes, 0, PrefixSpan(rd.size))
      /\ staged'.status.boundaryStart = NewStart
      /\ staged'.status.boundary = Region(fd.bytes, NewStart, NewOffset)
  BY MarkParts
<1>2. PrefixSpan(rd.size) <= Len(fd.bytes)
  <2>1. rd.size \in Nat /\ rd.size <= Len(fd.bytes) /\ Len(fd.bytes) \in Nat
    BY MarkFacts, LenProperties
  <2>2. QED
    BY <2>1, Numbers DEF PrefixSpan, Smaller
<1>3. QED
  BY <1>1, <1>2 DEF Recognised

LEMMA MarkFollows ==
  ASSUME TailInv, Mark
  PROVE  staged'.tele.epoch <= file.epoch /\ Follows(staged', file)
<1>1. /\ rd.epoch \in Nat /\ fd.epoch \in Nat /\ rd.epoch <= fd.epoch
      /\ fd.epoch <= file.epoch /\ fd.inode # 0 /\ file.epoch \in Nat
      /\ rd.start \in Nat /\ rd.complete \in Seq(Byte) /\ fd.bytes \in Seq(Byte)
  BY MarkFacts, FileParts DEF TailInv, Shapes
<1>2. staged'.tele.epoch =
        IF rd.start = 0 \/ staged.tele.epoch = rd.epoch THEN rd.epoch ELSE 0
  BY MarkParts
<1>3. staged'.tele.epoch <= file.epoch
  BY <1>1, <1>2
<1>4. ASSUME staged'.tele.epoch = file.epoch, file.inode # 0, file.epoch # 0
      PROVE  /\ staged'.status.offset <= Len(file.bytes)
             /\ staged'.tele.parsed = SubSeq(file.bytes, 1, staged'.status.offset)
             /\ staged'.status.offset > 0 => file.bytes[staged'.status.offset] = "n"
             /\ ~staged'.tele.shaken => /\ staged'.status.inode = file.inode
                                        /\ Recognised(staged'.status, file.bytes)
  <2>1. /\ rd.epoch = fd.epoch /\ fd.epoch = file.epoch
        /\ rd.start = 0 \/ staged.tele.epoch = rd.epoch
    BY <1>1, <1>2, <1>4
  <2>2. fd = file
    BY <1>1, <1>4, <2>1 DEF TailInv, HandleInv
  <2>3. Segment
    BY <2>1, MarkFacts
  <2>4. ASSUME rd.start > 0
        PROVE  /\ rd.start <= Len(fd.bytes)
               /\ staged.tele.parsed = SubSeq(fd.bytes, 1, rd.start)
               /\ fd.bytes[rd.start] = "n"
    <3>1. rd.start = staged.status.offset /\ Follows(staged, fd)
      BY <2>4, MarkFacts
    <3>2. staged.tele.epoch = fd.epoch /\ fd.inode # 0 /\ fd.epoch # 0
      BY <1>1, <1>4, <2>1, <2>4
    <3>3. QED
      BY <2>4, <3>1, <3>2 DEF Follows
  <2>5. /\ NewOffset <= Len(fd.bytes)
        /\ staged'.tele.parsed = SubSeq(fd.bytes, 1, NewOffset)
    BY <2>3, <2>4, MarkExtends
  <2>6. NewOffset > 0 => fd.bytes[NewOffset] = "n"
    <3>1. CASE rd.complete = <<>>
      <4>1. NewOffset = rd.start
        BY <1>1, <3>1 DEF NewOffset
      <4>2. QED
        BY <1>1, <2>4, <4>1
    <3>2. CASE rd.complete # <<>>
      BY <2>3, <3>2 DEF Segment, NewOffset
    <3>3. QED
      BY <3>1, <3>2
  <2>7. staged'.status.offset = NewOffset /\ staged'.status.inode = fd.inode
    BY MarkParts
  <2>8. ~staged'.tele.shaken => Recognised(staged'.status, fd.bytes)
    BY <2>5, MarkParts, MarkRecognises
  <2>9. QED
    BY <2>2, <2>5, <2>6, <2>7, <2>8, Zenon
<1>5. QED
  BY <1>3, <1>4 DEF Follows

LEMMA MarkFaithful ==
  ASSUME TailInv, Mark
  PROVE  Faithful(staged')
<1>1. /\ staged'.status.offset = NewOffset
      /\ staged'.status.prefixLength = PrefixSpan(rd.size)
      /\ staged'.status.prefix = Region(fd.bytes, 0, PrefixSpan(rd.size))
      /\ staged'.status.boundaryStart = NewStart
      /\ staged'.status.boundary = Region(fd.bytes, NewStart, NewOffset)
  BY MarkParts
<1>2. SUFFICES ASSUME ~staged'.tele.blind, NewOffset > 0
      PROVE  \/ Len(staged'.status.boundary) < NewOffset - NewStart
             \/ /\ Len(staged'.tele.parsed) = NewOffset
                /\ staged'.status.boundary = SubSeq(staged'.tele.parsed, NewStart + 1, NewOffset)
                /\ \A i \in 1..NewOffset :
                     i <= PrefixSpan(rd.size) =>
                       staged'.status.prefix[i] = staged'.tele.parsed[i]
  BY <1>1 DEF Faithful
<1>3. /\ rd.start \in Nat /\ rd.complete \in Seq(Byte) /\ fd.bytes \in Seq(Byte)
      /\ rd.size \in Nat
  BY MarkFacts
<1>4. Len(fd.bytes) \in Nat /\ Len(rd.complete) \in Nat
  BY <1>3, LenProperties
<1>5. NewOffset \in Nat /\ NewStart \in Nat /\ NewStart < NewOffset
  BY <1>2, <1>3, <1>4, Numbers DEF NewOffset, NewStart, Larger
<1>6. CASE rd.truncated
  <2>1. Len(fd.bytes) < NewOffset
    <3>1. ~Blind(staged.status, staged.tele)
      BY <1>2, MarkParts
    <3>2. ~(Len(fd.bytes) >= NewOffset)
      BY <1>2, <1>6, <3>1 DEF Blind, NewOffset
    <3>3. QED
      BY <1>4, <1>5, <3>2
  <2>2. Smaller(NewOffset, Len(fd.bytes)) = Len(fd.bytes)
    BY <1>4, <1>5, <2>1 DEF Smaller
  <2>3. Len(Region(fd.bytes, NewStart, NewOffset)) =
          IF NewStart < Len(fd.bytes) THEN Len(fd.bytes) - NewStart ELSE 0
    BY <1>3, <1>5, <2>2, RegionProperties
  <2>4. Len(Region(fd.bytes, NewStart, NewOffset)) < NewOffset - NewStart
    BY <1>4, <1>5, <2>1, <2>3
  <2>5. QED
    BY <1>1, <2>4
<1>7. CASE ~rd.truncated
  <2>1. /\ NewOffset <= Len(fd.bytes)
        /\ staged'.tele.parsed = SubSeq(fd.bytes, 1, NewOffset)
    BY <1>2, <1>7, MarkExact
  <2>2. DEFINE p == SubSeq(fd.bytes, 1, NewOffset)
               span == PrefixSpan(rd.size)
  <2>3. \A i \in 1..NewOffset : fd.bytes[i] \in Byte
    BY <1>3, <1>4, <1>5, <2>1, ElementOfSeq
  <2>4. /\ p \in Seq(Byte)
        /\ Len(p) = IF 1 <= NewOffset THEN NewOffset - 1 + 1 ELSE 0
        /\ \A i \in 1..(NewOffset - 1 + 1) : p[i] = fd.bytes[1 + i - 1]
    BY <1>5, <2>3, SubSeqProperties
  <2> HIDE DEF p
  <2>5. Len(p) = NewOffset /\ \A i \in 1..NewOffset : p[i] = fd.bytes[i]
    <3>1. /\ NewOffset >= 1 /\ NewOffset - 1 + 1 = NewOffset
          /\ \A i \in 1..NewOffset : 1 + i - 1 = i
      BY <1>2, <1>5
    <3>2. QED
      BY <2>4, <3>1
  <2>6. Region(fd.bytes, NewStart, NewOffset) = SubSeq(p, NewStart + 1, NewOffset)
    <3>1. Smaller(NewOffset, Len(fd.bytes)) = NewOffset
      BY <2>1 DEF Smaller
    <3>2. NewOffset \in 1..Len(fd.bytes) /\ NewStart + 1 \in 1..NewOffset
      BY <1>4, <1>5, <2>1
    <3>3. SubSeq(p, NewStart + 1, NewOffset) = SubSeq(fd.bytes, NewStart + 1, NewOffset)
      BY <1>3, <3>2, EndOfBeginning DEF p
    <3>4. QED
      BY <3>1, <3>3, Zenon DEF Region
  <2>7. ASSUME NEW i \in 1..NewOffset, i <= span
        PROVE  Region(fd.bytes, 0, span)[i] = p[i]
    <3>1. span \in Nat /\ span <= Len(fd.bytes)
      <4>1. rd.size <= Len(fd.bytes)
        BY <1>7, MarkFacts
      <4>2. QED
        BY <1>3, <1>4, <4>1, Numbers DEF PrefixSpan, Smaller
    <3>2. Smaller(span, Len(fd.bytes)) = span
      BY <3>1 DEF Smaller
    <3> HIDE DEF span
    <3> 0 \in Nat
      OBVIOUS
    <3>3. /\ Len(Region(fd.bytes, 0, span)) =
               IF 0 < Smaller(span, Len(fd.bytes)) THEN Smaller(span, Len(fd.bytes)) - 0 ELSE 0
          /\ \A j \in 1..Len(Region(fd.bytes, 0, span)) :
               Region(fd.bytes, 0, span)[j] = fd.bytes[0 + j]
      BY <1>3, <3>1, RegionProperties, Zenon
    <3>4. i \in 1..Len(Region(fd.bytes, 0, span)) /\ 0 + i = i
      BY <1>5, <2>7, <3>1, <3>2, <3>3
    <3>5. QED
      BY <2>5, <3>3, <3>4
  <2>8. staged'.tele.parsed = p
    BY <2>1 DEF p
  <2>9. QED
    BY <1>1, <2>5, <2>6, <2>7, <2>8
<1>8. QED
  BY <1>6, <1>7

LEMMA MarkStep ==
  ASSUME TailInv, Mark
  PROVE  TailInv'
<1>1. UNCHANGED <<file, now, ckpt, mem, rd>> /\ pc' = "apply" /\ fd' = NoFile
  BY DEF Mark
<1>2. Shapes'
  <2>1. fd' \in File
    BY <1>1, EmptySeq DEF NoFile, File
  <2>2. mem' \in Kept /\ ckpt' \in Kept /\ file' \in File /\ rd' \in Local
    BY <1>1 DEF TailInv, Shapes
  <2>3. staged' \in Kept
    BY MarkParts
  <2>4. pc' \in {"down", "poll", "check", "read", "mark", "apply", "save"}
    BY <1>1
  <2>5. QED
    BY <1>1, <2>1, <2>2, <2>3, <2>4 DEF TailInv, Shapes
<1>3. fd'.inode = 0 /\ ~Reading'
  BY <1>1 DEF NoFile, Reading
<1>4. HandleInv' /\ ReadInv'
  BY <1>1, <1>3 DEF TailInv, HandleInv, ReadInv
<1>5. KeptInv(mem)' /\ KeptInv(ckpt)'
  BY <1>1 DEF TailInv, KeptInv
<1>6. KeptInv(staged)'
  BY <1>1, MarkFollows, MarkFaithful DEF KeptInv
<1>7. QED
  BY <1>2, <1>4, <1>5, <1>6 DEF TailInv

-----------------------------------------------------------------------------
(* Theorems *)

LEMMA InitTail ==
  ASSUME Init
  PROVE  TailInv
<1>1. /\ file = [inode |-> 0, epoch |-> 0, bytes |-> <<>>]
      /\ fd = [inode |-> 0, epoch |-> 0, bytes |-> <<>>]
      /\ pc = "down" /\ rd = NoLocal /\ staged = mem /\ now = 0
      /\ mem = [status |-> NewStatus, tele |-> NoTelemetry]
  BY DEF Init, NoFile
<1>2. PICK offset \in LegacyOffsets \cup {0} :
        ckpt = [status |-> [NewStatus EXCEPT !.offset = offset], tele |-> NoTelemetry]
  BY DEF Init
<1>3. ckpt = [status |-> [offset |-> offset, inode |-> 0, prefixLength |-> 0, prefix |-> <<>>,
                          boundaryStart |-> 0, boundary |-> <<>>, stamps |-> <<>>,
                          quarantined |-> FALSE],
              tele |-> NoTelemetry]
  BY <1>2, Zenon DEF NewStatus
<1>4. offset \in Nat
  BY LogAssumption
<1>5. mem \in Kept /\ mem.tele.epoch = 0 /\ mem.status.inode = 0
  BY <1>1, EmptySeq DEF Kept, Status, Telemetry, NewStatus, NoTelemetry
<1>6. ckpt \in Kept /\ ckpt.tele.epoch = 0 /\ ckpt.status.inode = 0
  BY <1>3, <1>4, EmptySeq DEF Kept, Status, Telemetry, NoTelemetry
<1>7. file \in File /\ fd \in File /\ rd \in Local /\ file.inode = 0 /\ fd.inode = 0 /\ file.epoch = 0
  BY <1>1, EmptySeq DEF File, Local, NoLocal
<1>8. Shapes
  <2>1. staged \in Kept
    BY <1>1, <1>5
  <2>2. pc \in {"down", "poll", "check", "read", "mark", "apply", "save"}
    BY <1>1
  <2>3. QED
    BY <1>1, <1>5, <1>6, <1>7, <2>1, <2>2 DEF Shapes
<1>9. KeptInv(mem) /\ KeptInv(ckpt) /\ KeptInv(staged)
  BY <1>1, <1>5, <1>6, <1>7 DEF KeptInv, Follows, Faithful
<1>10. HandleInv /\ ReadInv
  BY <1>1, <1>7 DEF HandleInv, ReadInv, Reading
<1>11. QED
  BY <1>8, <1>9, <1>10 DEF TailInv

LEMMA StepTail ==
  ASSUME TailInv, [Next]_vars
  PROVE  TailInv'
<1>1. CASE UNCHANGED vars
  BY <1>1 DEF vars, TailInv, Shapes, HandleInv, KeptInv, ReadInv, Reading, Segment
<1>2. CASE Next
  BY <1>2, OpenStep, CheckStep, ReadChunkStep, MarkStep, StartStep, CycleStep, TickStep,
     WriteStep, TruncateStep, ReplaceStep DEF Next, Step, Bot
<1>3. QED
  BY <1>1, <1>2

\* Memory, checkpoint and the copy of the cycle each follow the log they are of,
\* and their fingerprints vouch for what was parsed, between any two steps of a
\* read and of the bot.
THEOREM TailInvariant == Spec => []TailInv
BY InitTail, StepTail, PTL DEF Spec

\* The offset that is kept is the end of a line, and telemetry accounts for
\* exactly the bytes before it, in memory and in the checkpoint.
THEOREM OffsetMatchesTelemetryHolds == Spec => []OffsetMatchesTelemetry
<1>1. TailInv => OffsetMatchesTelemetry
  BY DEF TailInv, KeptInv, Follows, OffsetMatchesTelemetry, Exact
<1>2. QED
  BY <1>1, TailInvariant, PTL

\* Apart from what Blind names, what was parsed when a read ends is the beginning
\* of the log that was read, whatever replaced it before.
THEOREM ReplacementIsNoticedHolds == Spec => ReplacementIsNoticed
<1>1. TailInv =>
        (Mark /\ ~rd.truncated /\ ~staged'.tele.blind =>
           staged'.tele.parsed = SubSeq(fd.bytes, 1, staged'.status.offset))
  BY MarkExact, MarkParts
<1>2. QED
  BY <1>1, TailInvariant, PTL DEF ReplacementIsNoticed

\* A log that has only grown since its fingerprints were taken is not read again
\* from the beginning.
THEOREM NoNeedlessReplayHolds == Spec => NoNeedlessReplay
<1>1. TailInv =>
        (Check /\ rd'.replay =>
           \/ fd.epoch # mem.tele.epoch
           \/ mem.tele.shaken
           \/ mem.status.inode = 0)
  BY CheckStep
<1>2. QED
  BY <1>1, TailInvariant, PTL DEF NoNeedlessReplay

\* Time only makes more of them old.
LEMMA StampsLater ==
  ASSUME NEW k \in Kept, NEW n \in Nat, now \in Nat, Counts(k), now' = n, now <= n
  PROVE  /\ Len(k.status.stamps) <= QueueLimit
         /\ InOrder(k.tele.noticed, Len(k.tele.noticed), n)
         /\ Threshold <= QueueLimit /\ ~k.status.quarantined =>
              /\ Len(k.status.stamps) < Threshold
              /\ EndOf(k.status.stamps, Len(k.status.stamps), k.tele.noticed,
                       Len(k.tele.noticed), n - Period)
<1>1. /\ k.status.stamps \in Seq(Nat) /\ k.tele.noticed \in Seq(Nat) /\ Period \in Nat
      /\ Len(k.status.stamps) \in Nat /\ Len(k.tele.noticed) \in Nat
  BY KeptParts, LenProperties, LogAssumption
<1>2. ASSUME NEW t, NEW b \in Nat, InOrder(t, b, now) PROVE InOrder(t, b, n)
  BY <1>2 DEF InOrder
<1>3. ASSUME NEW s, NEW a \in Nat, NEW t, NEW b \in Nat,
             InOrder(t, b, now), EndOf(s, a, t, b, now - Period)
      PROVE  EndOf(s, a, t, b, n - Period)
  <2>1. ASSUME NEW i \in 1..(b - a) PROVE t[i] < n - Period
    <3>1. i \in 1..b /\ t[i] \in Nat /\ t[i] < now - Period
      BY <1>3 DEF InOrder, EndOf
    <3>2. QED
      BY <1>1, <3>1
  <2>2. QED
    BY <1>3, <2>1 DEF EndOf
<1>4. QED
  BY <1>1, <1>2, <1>3 DEF Counts

LEMMA InitStamps ==
  ASSUME Init
  PROVE  StampsInv
<1>1. now = 0 /\ faults = 0 /\ MaxTime \in Nat /\ MaxFaults \in Nat
  BY LogAssumption DEF Init
<1>2. ASSUME NEW k, k.status.stamps = <<>>, k.tele.noticed = <<>> PROVE Counts(k)
  <2>1. Len(k.status.stamps) = 0 /\ Len(k.tele.noticed) = 0
    BY <1>2, EmptySeq
  <2>2. QueueLimit \in Nat /\ Threshold \in Nat \ {0}
    BY LogAssumption
  <2>3. QED
    BY <2>1, <2>2 DEF Counts, InOrder, EndOf
<1>3. mem.status.stamps = <<>> /\ mem.tele.noticed = <<>> /\ staged = mem
  BY DEF Init, NewStatus, NoTelemetry
<1>4. ckpt.status.stamps = <<>> /\ ckpt.tele.noticed = <<>>
  <2>1. PICK offset \in LegacyOffsets \cup {0} :
          ckpt = [status |-> [NewStatus EXCEPT !.offset = offset], tele |-> NoTelemetry]
    BY DEF Init
  <2>2. QED
    BY <2>1 DEF NewStatus, NoTelemetry
<1>5. QED
  BY <1>1, <1>2, <1>3, <1>4 DEF StampsInv

\* The end of a read leaves the count of the copy right.
LEMMA MarkCounts ==
  ASSUME TailInv, StampsInv, Mark
  PROVE  Counts(staged')
<1>1. now \in Nat /\ staged \in Kept /\ rd \in Local /\ Counts(staged) /\ staged' \in Kept
  BY MarkParts DEF TailInv, Shapes, StampsInv
<1>2. rd.complete \in Seq(Byte) /\ staged.status.stamps \in Seq(Nat)
        /\ staged.tele.noticed \in Seq(Nat)
  BY <1>1, LocalParts, KeptParts
<1>3. DEFINE n == Malformed(rd.complete)
<1>4. n \in Nat /\ (rd.complete = <<>> => n = 0)
  BY <1>2, MalformedCount
<1> HIDE DEF n
<1>5. /\ staged'.status.stamps = IF rd.complete = <<>> THEN staged.status.stamps
                                 ELSE Pruned(Newest(staged.status.stamps \o Times(n)))
      /\ staged'.status.quarantined <=>
              \/ staged.status.quarantined
              \/ rd.complete # <<>> /\ Len(staged'.status.stamps) >= Threshold
      /\ staged'.tele.noticed = staged.tele.noticed \o Times(n)
  BY MarkParts DEF n
<1>6. CASE rd.complete = <<>>
  <2>1. staged'.tele.noticed = staged.tele.noticed
    BY <1>1, <1>2, <1>4, <1>5, <1>6, JoinedProperties
  <2>2. QED
    BY <1>1, <1>5, <1>6, <2>1, Zenon DEF Counts
<1>7. CASE rd.complete # <<>>
  <2>1. /\ staged'.status.stamps = Pruned(Newest(staged.status.stamps \o Times(n)))
        /\ staged'.status.quarantined <=>
             (staged.status.quarantined \/ Len(staged'.status.stamps) >= Threshold)
    BY <1>5, <1>7
  <2>2. QED
    BY <1>1, <1>4, <1>5, <2>1, CountsMarked, Zenon
<1>8. QED
  BY <1>6, <1>7

LEMMA StepStamps ==
  ASSUME TailInv, StampsInv, [Next]_vars
  PROVE  StampsInv'
<1>1. /\ mem \in Kept /\ ckpt \in Kept /\ staged \in Kept /\ now \in Nat
      /\ now \in 0..MaxTime /\ faults \in 0..MaxFaults
      /\ MaxTime \in Nat /\ MaxFaults \in Nat
      /\ Counts(mem) /\ Counts(ckpt) /\ Counts(staged)
  BY LogAssumption DEF TailInv, Shapes, StampsInv
<1>2. faults' \in 0..MaxFaults
  <2>1. faults' = faults \/ (faults < MaxFaults /\ faults' = faults + 1)
    BY DEF Next, Step, Bot, Open, Check, ReadChunk, Mark, Commit, Save, Start, WriteByte,
       Truncate, Rotate, MoveAway, Tick, ReadFails, Discard, SaveFails, Crash, Fault, vars
  <2>2. QED
    BY <1>1, <2>1
<1>3. CASE Tick
  <2>1. now' = now + 1 /\ now' \in 0..MaxTime /\ UNCHANGED <<mem, ckpt, staged>>
    BY <1>1, <1>3 DEF Tick
  <2>2. now + 1 \in Nat /\ now <= now + 1
    BY <1>1
  <2>3. ASSUME NEW k \in Kept, Counts(k)
        PROVE  /\ Len(k.status.stamps) <= QueueLimit
               /\ InOrder(k.tele.noticed, Len(k.tele.noticed), now')
               /\ Threshold <= QueueLimit /\ ~k.status.quarantined =>
                    /\ Len(k.status.stamps) < Threshold
                    /\ EndOf(k.status.stamps, Len(k.status.stamps), k.tele.noticed,
                             Len(k.tele.noticed), now' - Period)
    BY <1>1, <2>1, <2>2, <2>3, StampsLater
  <2>4. QED
    BY <1>1, <1>2, <2>1, <2>3 DEF StampsInv, Counts
<1>4. CASE ~Tick
  <2>1. now' = now
    BY <1>4 DEF Next, Step, Bot, Open, Check, ReadChunk, Mark, Commit, Save, Start, WriteByte,
       Truncate, Rotate, MoveAway, ReadFails, Discard, SaveFails, Crash, vars
  <2>2. Counts(mem') /\ Counts(ckpt') /\ Counts(staged')
    <3>1. CASE Mark
      <4>1. UNCHANGED <<mem, ckpt>>
        BY <3>1 DEF Mark
      <4>2. QED
        BY <1>1, <3>1, <4>1, MarkCounts
    <3>2. CASE Start
      <4>1. mem' = Restored(ckpt) /\ staged' = mem' /\ ckpt' = ckpt
        BY <3>2 DEF Start
      <4>2. mem'.status.stamps = <<>> /\ mem'.tele.noticed = <<>>
        <5>1. mem' = [ckpt EXCEPT !.status.stamps = <<>>, !.tele.noticed = <<>>]
          BY <4>1 DEF Restored
        <5>2. QED
          BY <1>1, <5>1, Zenon DEF Kept, Status, Telemetry
      <4>3. Len(mem'.status.stamps) = 0 /\ Len(mem'.tele.noticed) = 0
        BY <4>2, EmptySeq
      <4>4. QueueLimit \in Nat /\ Threshold \in Nat \ {0}
        BY LogAssumption
      <4>5. Counts(mem')
        BY <4>3, <4>4 DEF Counts, InOrder, EndOf
      <4>6. QED
        BY <1>1, <4>1, <4>5
    <3>3. CASE ~Mark /\ ~Start
      <4>1. /\ mem' \in {mem, staged} /\ ckpt' \in {ckpt, mem} /\ staged' \in {staged, mem}
        BY <1>4, <3>3 DEF Next, Step, Bot, Open, Check, ReadChunk, Commit, Save, WriteByte,
           Truncate, Rotate, MoveAway, ReadFails, Discard, SaveFails, Crash, vars
      <4>2. QED
        BY <1>1, <4>1
    <3>4. QED
      BY <3>1, <3>2, <3>3
  <2>3. QED
    BY <1>1, <1>2, <2>1, <2>2 DEF StampsInv, Counts
<1>5. QED
  BY <1>3, <1>4

\* As long as a strategy is not in quarantine, its queue holds every malformed
\* line of the last period, in memory, in the checkpoint and in the copy of the
\* cycle.
THEOREM StampsInvariant == Spec => []StampsInv
<1>1. TailInv /\ StampsInv /\ [Next]_vars => StampsInv'
  BY StepStamps
<1>2. QED
  BY <1>1, InitStamps, TailInvariant, PTL DEF Spec

\* Types, and the bound of the queue.
THEOREM TypeCorrect == Spec => []TypeOK
<1>1. TailInv /\ StampsInv => TypeOK
  BY DEF TailInv, Shapes, StampsInv, Counts, TypeOK
<1>2. QED
  BY <1>1, TailInvariant, StampsInvariant, PTL

\* A strategy with as many malformed lines in the last period as the threshold is
\* in quarantine when a read ends, however they were spread over cycles.
THEOREM QuarantineIsDueHolds == Spec => QuarantineIsDue
<1>1. TailInv /\ StampsInv =>
        (Mark /\ Threshold <= QueueLimit /\ Recent(staged'.tele) >= Threshold =>
           staged'.status.quarantined)
  <2> SUFFICES ASSUME TailInv, StampsInv, Mark, Threshold <= QueueLimit,
                      ~staged'.status.quarantined
               PROVE  ~(Recent(staged'.tele) >= Threshold)
    OBVIOUS
  <2>1. Counts(staged') /\ staged' \in Kept /\ now \in Nat
    BY MarkCounts, MarkParts DEF TailInv, Shapes
  <2>2. QED
    BY <2>1, RecentBounded
<1>2. QED
  BY <1>1, TailInvariant, StampsInvariant, PTL DEF QuarantineIsDue

LEMMA StepQuarantine ==
  ASSUME TailInv, QuarantineInv, [Next]_vars
  PROVE  QuarantineInv'
<1>1. CASE Start
  <2>1. mem' = Restored(ckpt) /\ ckpt' = ckpt /\ pc' = "poll" /\ ckpt \in Kept
    BY <1>1 DEF Start, TailInv, Shapes
  <2>2. mem'.status.quarantined = ckpt.status.quarantined
    BY <2>1, RestoredParts
  <2>3. QED
    BY <2>1, <2>2 DEF QuarantineInv, Reading
<1>2. CASE Mark
  <2>1. staged.status.quarantined => staged'.status.quarantined
    BY <1>2, MarkParts
  <2>2. UNCHANGED <<ckpt, mem>> /\ pc = "mark" /\ pc' = "apply"
    BY <1>2 DEF Mark
  <2>3. QED
    BY <2>1, <2>2 DEF QuarantineInv, Reading
<1>3. CASE Open
  <2>1. UNCHANGED <<ckpt, mem>> /\ pc = "poll" /\ staged' = mem
    BY <1>3 DEF Open
  <2>2. QED
    BY <2>1 DEF QuarantineInv, Reading
<1>4. CASE Check \/ ReadChunk \/ ReadFails
  BY <1>4 DEF Check, ReadChunk, ReadFails, QuarantineInv, Reading
<1>5. CASE Commit \/ Discard \/ Save \/ SaveFails \/ Crash
  BY <1>5 DEF Commit, Discard, Save, SaveFails, Crash, QuarantineInv, Reading
<1>6. CASE Bot \/ Tick \/ UNCHANGED vars
  BY <1>6 DEF Bot, WriteByte, Truncate, Rotate, MoveAway, Tick, vars, QuarantineInv, Reading
<1>7. QED
  BY <1>1, <1>2, <1>3, <1>4, <1>5, <1>6 DEF Next, Step

\* A quarantine that was saved is in memory whenever the aggregator runs, and in
\* the copy that the running cycle may commit.
THEOREM QuarantineSurvivesHolds == Spec => []QuarantineSurvives
<1>1. Init => QuarantineInv
  BY DEF Init, QuarantineInv
<1>2. TailInv /\ QuarantineInv /\ [Next]_vars => QuarantineInv'
  BY StepQuarantine
<1>3. QuarantineInv => QuarantineSurvives
  BY DEF QuarantineInv, QuarantineSurvives
<1>4. QED
  BY <1>1, <1>2, <1>3, TailInvariant, PTL DEF Spec
=============================================================================

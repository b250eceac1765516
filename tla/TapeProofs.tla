------------------------------- MODULE TapeProofs -------------------------------
(***************************************************************************)
(* Proofs about Tape: for every size of record, page and mapping, any file *)
(* and any number of runs, what ReplayEngine gives its callback and what   *)
(* is_running, pause and stop promise, and that a replay goes through what *)
(* the recorder left.                                                      *)
(***************************************************************************)
EXTENDS Tape, SequenceTheorems, FiniteSetsExt, TLAPS

(* The engine.  Records read in this run, the one in the callback included. *)
Reads == messages_replayed + (IF replay = "callback" THEN 1 ELSE 0)

EngineTypeOK ==
  /\ file_size \in Int
  /\ running \in BOOLEAN /\ paused \in BOOLEAN /\ joinable \in BOOLEAN
  /\ mapped \in BOOLEAN /\ callback \in BOOLEAN /\ equipped \in BOOLEAN
  /\ terminated \in BOOLEAN /\ interrupted \in BOOLEAN
  /\ messages_replayed \in Nat
  /\ offset \in Nat
  /\ starts \in Nat
  /\ client \in {"idle", "stopping", "destroying", "gone"}
  /\ replay \in {"none", "open", "test", "wait", "recheck", "read", "callback", "finish",
                 "exited"}
  /\ delivered \in Seq(Nat)

(* The reader is as far as the records read, which are never more than the    *)
(* file has; the last of them are those delivered, and a run that is over     *)
(* without having been stopped has read them all.                             *)
Progress ==
  ~ terminated =>
    /\ offset = Reads * RecordSize
    /\ Reads <= Records
    /\ Len(delivered) <= Reads
    /\ \A i \in 1 .. Len(delivered) : delivered[i] = Reads - Len(delivered) + i - 1
    /\ delivered # << >> => callback
    /\ equipped => callback /\ Len(delivered) = Reads
    /\ replay \in {"none", "open"} => messages_replayed = 0
    /\ replay \notin {"none", "open"} => file_size >= 0
    /\ replay \in {"finish", "exited"} /\ ~ interrupted => messages_replayed = Records

(* A thread at work is one that can be joined, and one that running_ tells    *)
(* of, unless it has been told to stop.                                       *)
Control ==
  ~ terminated =>
    /\ running => ThreadReads
    /\ ThreadReads => joinable
    /\ client = "idle" /\ ThreadReads => running
    /\ ThreadReads /\ ~ running => interrupted

(* A thread that has read a record since pause() reads no other: to get to    *)
(* the next it has to see running_ set, and then paused_ as well.             *)
Pausing ==
  /\ overrun \in 0 .. 1
  /\ ~ paused => overrun = 0
  /\ ~ terminated /\ overrun = 1 => replay # "read" /\ (replay = "recheck" => ~ running)

EngineInv == EngineTypeOK /\ Progress /\ Control /\ Pausing
-------------------------------------------------------------------------------
(* The recorder.  Its variables have their types.                           *)
RecorderTypeOK ==
  /\ use_mmap \in BOOLEAN /\ stream_open \in BOOLEAN /\ pending \in BOOLEAN
  /\ troubled \in BOOLEAN /\ flushed \in BOOLEAN /\ resumed \in BOOLEAN
  /\ mapped_ptr \in {"null", "failed", "mapped"}
  /\ mapped_size \in Nat
  /\ record_count \in 0 .. MaxWrites
  /\ content \in [Recorder!Places -> Nat]
  /\ process \in {"running", "killed", "fault", "closed"}
  /\ file_size \in Int

(* As long as all goes well, what was recorded is where it belongs and there  *)
(* are zeros behind; until it is flushed the file is as long as the mapping,  *)
(* and no shorter than what was recorded.                                     *)
Written ==
  Recorder!Orderly =>
    /\ process # "fault"
    /\ \A i \in Recorder!Places : content[i] = IF i < record_count THEN i + 1 ELSE 0
    /\ ~ use_mmap => stream_open
    /\ use_mmap => /\ mapped_ptr # "failed"
                   /\ mapped_size > 0 => mapped_ptr = "mapped"
                   /\ file_size = IF flushed THEN record_count * RecordSize ELSE mapped_size
                   /\ record_count * RecordSize <= mapped_size
    /\ process = "closed" => file_size = record_count * RecordSize

(* The engine is not used while the recorder is. *)
Waiting == process = "running" => Unused

TapeInv == RecorderTypeOK /\ Written /\ Waiting /\ EngineInv
-------------------------------------------------------------------------------
(* Whole records in a number of bytes.                                      *)

\* More records are more bytes.
LEMMA MoreBytes ==
  ASSUME NEW m \in Nat, NEW n \in Nat
  PROVE  /\ m * RecordSize \in Nat
         /\ (m + 1) * RecordSize = m * RecordSize + RecordSize
         /\ m <= n => m * RecordSize <= n * RecordSize
<1>1. RecordSize \in Nat \ {0}
  BY ReplayAssumption DEF ReplayAssumption
<1>2. m * RecordSize \in Nat /\ (m + 1) * RecordSize = m * RecordSize + RecordSize
  BY <1>1
<1>3. ASSUME m <= n PROVE m * RecordSize <= n * RecordSize
  <2>1. PICK k \in Nat : n = m + k
    <3>1. n - m \in Nat /\ n = m + (n - m)
      BY <1>3
    <3> QED
      BY <3>1
  <2>2. n * RecordSize = m * RecordSize + k * RecordSize /\ k * RecordSize \in Nat
    BY <1>1, <2>1
  <2> QED
    BY <1>2, <2>2
<1> QED
  BY <1>2, <1>3

\* A file of s bytes has n records if n records fit in it.
LEMMA Fits ==
  ASSUME NEW n \in Nat, NEW s \in Nat
  PROVE  /\ s \div RecordSize \in Nat
         /\ n <= s \div RecordSize <=> n * RecordSize <= s
<1> DEFINE q == s \div RecordSize
<1>1. RecordSize \in Nat \ {0}
  BY ReplayAssumption DEF ReplayAssumption
<1>2. q \in Nat /\ q * RecordSize <= s /\ s < q * RecordSize + RecordSize
  BY <1>1, SMTT(20)
<1> HIDE DEF q
<1>3. /\ q * RecordSize \in Nat /\ n * RecordSize \in Nat
      /\ (q + 1) * RecordSize = q * RecordSize + RecordSize
      /\ n <= q => n * RecordSize <= q * RecordSize
      /\ q + 1 <= n => (q + 1) * RecordSize <= n * RecordSize
  BY <1>2, MoreBytes
<1> DEFINE a == q * RecordSize
           b == n * RecordSize
           c == (q + 1) * RecordSize
<1>4. /\ a \in Nat /\ b \in Nat /\ c = a + RecordSize /\ a <= s /\ s < a + RecordSize
      /\ (n <= q => a >= b) /\ (q + 1 <= n => c <= b)
  BY <1>1, <1>2, <1>3
<1> HIDE DEF a, b, c
<1>5. n <= q <=> b <= s
  BY <1>1, <1>2, <1>4
<1> QED
  BY <1>2, <1>5 DEF q, b

\* A file of n records has n of them.
LEMMA WholeRecords ==
  ASSUME NEW n \in Nat
  PROVE  (n * RecordSize) \div RecordSize = n
<1> DEFINE s == n * RecordSize
           q == s \div RecordSize
<1>1. s \in Nat /\ (n + 1) * RecordSize = s + RecordSize /\ RecordSize \in Nat \ {0}
  BY MoreBytes, ReplayAssumption DEF ReplayAssumption
<1> HIDE DEF s
<1>2. /\ q \in Nat
      /\ n <= q <=> n * RecordSize <= s
      /\ n + 1 <= q <=> (n + 1) * RecordSize <= s
  BY <1>1, Fits
<1>3. n * RecordSize = s
  BY DEF s
<1> HIDE DEF q
<1>4. n <= q /\ ~ n + 1 <= q
  BY <1>1, <1>2, <1>3
<1>5. q = n
  BY <1>2, <1>4
<1> QED
  BY <1>5 DEF q, s
-------------------------------------------------------------------------------
(* The engine.                                                              *)

\* An engine nobody has used, for any file.
LEMMA UnusedInv == Unused /\ file_size \in Int => EngineInv
<1> SUFFICES ASSUME Unused, file_size \in Int PROVE EngineInv
  OBVIOUS
<1>1. Reads = 0 /\ Records \in Nat
  <2>1. file_size >= 0 => file_size \div RecordSize \in Nat
    BY Fits
  <2>2. Reads = 0
    BY DEF Unused, Reads
  <2> QED
    BY <2>1, <2>2 DEF Records
<1>2. offset = Reads * RecordSize
  BY <1>1, ReplayAssumption DEF Unused, ReplayAssumption
<1>3. delivered = << >> /\ Len(delivered) = 0 /\ delivered \in Seq(Nat)
  BY DEF Unused
<1>4. EngineTypeOK
  BY <1>3 DEF Unused, EngineTypeOK
<1>5. Progress
  BY <1>1, <1>2, <1>3 DEF Unused, Progress
<1>6. Control /\ Pausing
  BY DEF Unused, Control, Pausing, ThreadReads
<1> QED
  BY <1>4, <1>5, <1>6 DEF EngineInv

\* A step that reads nothing and moves on between two records, or does not move.
LEMMA NothingRead ==
  ASSUME EngineInv, ~ terminated,
         UNCHANGED <<file_size, offset, delivered, messages_replayed, equipped>>,
         callback => callback',
         interrupted => interrupted',
         replay' = "callback" <=> replay = "callback",
         replay' \in {"none", "open"} => replay \in {"none", "open"},
         replay' \notin {"none", "open"} => file_size >= 0 \/ terminated',
         replay' \in {"finish", "exited"} /\ ~ interrupted'
           => messages_replayed = Records \/ terminated'
  PROVE  Progress'
<1>1. Reads' = Reads /\ Records' = Records
  BY DEF Reads, Records
<1> QED
  BY <1>1 DEF EngineInv, Progress

\* What the client does.
LEMMA ClientStep == EngineInv /\ Client => EngineInv'
<1> SUFFICES ASSUME EngineInv, Client PROVE EngineInv'
  OBVIOUS
<1>1. EngineTypeOK /\ Progress /\ Control /\ Pausing
  BY DEF EngineInv
<1>2. CASE StartAgain \/ SetSpeed
  <2>1. UNCHANGED vars
    BY <1>2 DEF StartAgain, SetSpeed
  <2> QED
    BY <1>1, <2>1 DEF vars, control, progress, reading, EngineInv, EngineTypeOK, Progress,
                      Control, Pausing, Reads, Records, ThreadReads
<1>3. CASE Start
  <2>1. /\ client = "idle" /\ ~ terminated /\ running' = TRUE /\ paused' = FALSE
        /\ messages_replayed' = 0 /\ overrun' = 0
        /\ UNCHANGED <<file_size, client, callback>>
    BY <1>3 DEF Start, Idle
  <2>2. CASE joinable
    <3>1. terminated' = TRUE /\ UNCHANGED <<joinable, replay, offset, mapped, delivered,
                                            interrupted, equipped, starts>>
      BY <1>3, <2>2 DEF Start, reading
    <3>2. EngineTypeOK'
      <4>1. running' \in BOOLEAN /\ paused' \in BOOLEAN /\ terminated' \in BOOLEAN
        BY <2>1, <3>1
      <4> QED
        BY <1>1, <2>1, <3>1, <4>1 DEF EngineTypeOK
    <3>3. Progress' /\ Control' /\ Pausing'
      BY <2>1, <3>1 DEF Progress, Control, Pausing
    <3> QED
      BY <3>2, <3>3 DEF EngineInv
  <2>3. CASE ~ joinable
    <3>1. /\ joinable' = TRUE /\ replay' = "open" /\ offset' = 0 /\ delivered' = << >>
          /\ interrupted' = FALSE /\ equipped' = callback /\ starts' = starts + 1
          /\ terminated' = terminated /\ mapped' = mapped
      BY <1>3, <2>3 DEF Start
    <3>2. Reads' = 0 /\ Records' \in Nat /\ 0 * RecordSize = 0
      <4>1. file_size >= 0 => file_size \div RecordSize \in Nat
        BY <1>1, Fits DEF EngineTypeOK
      <4>2. Records' \in Nat
        BY <1>1, <2>1, <4>1 DEF Records, EngineTypeOK
      <4>3. Reads' = 0
        BY <2>1, <3>1 DEF Reads
      <4> QED
        BY <4>2, <4>3, ReplayAssumption DEF ReplayAssumption
    <3>3. Len(delivered') = 0 /\ delivered' \in Seq(Nat)
      BY <3>1
    <3>4. EngineTypeOK'
      <4>1. file_size' \in Int /\ messages_replayed' \in Nat /\ offset' \in Nat /\ starts' \in Nat
        BY <1>1, <2>1, <3>1 DEF EngineTypeOK
      <4>2. client' \in {"idle", "stopping", "destroying", "gone"} /\ replay' = "open"
        BY <1>1, <2>1, <3>1 DEF EngineTypeOK
      <4>3. running' \in BOOLEAN /\ paused' \in BOOLEAN /\ joinable' \in BOOLEAN /\ interrupted' \in BOOLEAN
        BY <2>1, <3>1
      <4>4. mapped' \in BOOLEAN /\ callback' \in BOOLEAN /\ equipped' \in BOOLEAN /\ terminated' \in BOOLEAN
        BY <1>1, <2>1, <3>1 DEF EngineTypeOK
      <4> QED
        BY <3>3, <4>1, <4>2, <4>3, <4>4 DEF EngineTypeOK
    <3>5. Progress'
      BY <2>1, <3>1, <3>2, <3>3 DEF Progress
    <3>6. Control' /\ Pausing'
      BY <2>1, <3>1 DEF Control, Pausing, ThreadReads
    <3> QED
      BY <3>4, <3>5, <3>6 DEF EngineInv
  <2> QED
    BY <2>2, <2>3
<1>4. CASE StopJoin
  <2>1. /\ client \in {"stopping", "destroying"} /\ ~ terminated /\ replay = "exited"
        /\ joinable' = FALSE /\ client' \in {"idle", "gone"}
        /\ UNCHANGED <<file_size, running, paused, callback, terminated, interrupted, equipped,
                       starts, replay, messages_replayed, offset, mapped, delivered, overrun>>
    BY <1>4 DEF StopJoin, progress, reading
  <2>2. EngineTypeOK' /\ Control' /\ Pausing'
    BY <1>1, <2>1 DEF EngineTypeOK, Control, Pausing, ThreadReads
  <2>3. Progress'
    BY <1>1, <2>1 DEF Progress, Reads, Records
  <2> QED
    BY <2>2, <2>3 DEF EngineInv
<1>5. ASSUME NEW last \in BOOLEAN, StopBegin(last) PROVE EngineInv'
  <2>1. /\ client = "idle" /\ ~ terminated /\ running' = FALSE /\ interrupted' = TRUE
        /\ client' \in {"idle", "stopping", "destroying", "gone"}
        /\ joinable => client' \in {"stopping", "destroying"}
        /\ UNCHANGED <<file_size, paused, joinable, callback, terminated, equipped, starts,
                       replay, messages_replayed, offset, mapped, delivered, overrun>>
    BY <1>5 DEF StopBegin, Idle, progress, reading
  <2>2. EngineTypeOK' /\ Control' /\ Pausing'
    BY <1>1, <2>1 DEF EngineTypeOK, Control, Pausing, ThreadReads
  <2>3. Progress'
    BY <1>1, <2>1 DEF Progress, Reads, Records
  <2> QED
    BY <2>2, <2>3 DEF EngineInv
<1>6. CASE Pause \/ Resume
  <2>1. /\ \/ paused' = TRUE /\ overrun' = overrun
           \/ paused' = FALSE /\ overrun' = 0
        /\ UNCHANGED <<file_size, running, joinable, client, callback, terminated, interrupted,
                       equipped, starts, replay, messages_replayed, offset, mapped, delivered>>
    BY <1>6 DEF Pause, Resume, progress, reading
  <2>2. EngineTypeOK'
    <3>1. paused' \in BOOLEAN
      BY <2>1
    <3> QED
      BY <1>1, <2>1, <3>1 DEF EngineTypeOK
  <2>3. Control' /\ Pausing'
    BY <1>1, <2>1 DEF Control, Pausing, ThreadReads
  <2>4. Progress'
    BY <1>1, <2>1 DEF Progress, Reads, Records
  <2> QED
    BY <2>2, <2>3, <2>4 DEF EngineInv
<1>7. CASE SetCallback
  <2>1. /\ ~ terminated /\ callback' = TRUE /\ terminated' \in BOOLEAN
        /\ UNCHANGED <<file_size, running, paused, joinable, client, interrupted, equipped,
                       starts, replay, messages_replayed, offset, mapped, delivered, overrun>>
    BY <1>7 DEF SetCallback, Idle, progress, reading
  <2>2. EngineTypeOK' /\ Control' /\ Pausing'
    BY <1>1, <2>1 DEF EngineTypeOK, Control, Pausing, ThreadReads
  <2>3. Progress'
    BY <1>1, <2>1 DEF Progress, Reads, Records
  <2> QED
    BY <2>2, <2>3 DEF EngineInv
<1> QED
  BY <1>2, <1>3, <1>4, <1>5, <1>6, <1>7 DEF Client

\* When no whole record is left, all have been read.
LEMMA AllRead ==
  ASSUME EngineInv, ~ terminated, file_size >= 0, replay # "callback", ~ CanRead
  PROVE  messages_replayed = Records
<1>1. /\ file_size \in Nat /\ messages_replayed \in Nat /\ RecordSize \in Nat \ {0}
      /\ Records = file_size \div RecordSize /\ Reads = messages_replayed
  BY ReplayAssumption DEF ReplayAssumption, EngineInv, EngineTypeOK, Records, Reads
<1>2. /\ offset = messages_replayed * RecordSize /\ messages_replayed <= Records
      /\ ~ offset + RecordSize <= file_size
  BY <1>1 DEF EngineInv, Progress, CanRead
<1>3. (messages_replayed + 1) * RecordSize = offset + RecordSize
  BY <1>1, <1>2, MoreBytes
<1>4. Records \in Nat /\ (messages_replayed + 1 <= Records
                           <=> (messages_replayed + 1) * RecordSize <= file_size)
  BY <1>1, Fits
<1>5. ~ messages_replayed + 1 <= Records
  BY <1>2, <1>3, <1>4
<1> QED
  BY <1>1, <1>2, <1>4, <1>5

\* Reading a record: it is the next one.
LEMMA ReadStep == EngineInv /\ Read => EngineInv'
<1> SUFFICES ASSUME EngineInv, Read PROVE EngineInv'
  OBVIOUS
<1>1. EngineTypeOK /\ Progress /\ Control /\ Pausing
  BY DEF EngineInv
<1> DEFINE m == messages_replayed
           n == Len(delivered)
<1>2. /\ replay = "read" /\ ~ terminated
      /\ UNCHANGED <<file_size, running, paused, joinable, client, callback, terminated,
                     interrupted, equipped, starts, messages_replayed, mapped>>
  BY DEF Read, At, control
<1>3. /\ m \in Nat /\ n \in Nat /\ delivered \in Seq(Nat) /\ Reads = m
      /\ offset = m * RecordSize /\ file_size >= 0 /\ file_size \in Int
      /\ RecordSize \in Nat \ {0}
  BY <1>1, <1>2, LenProperties, ReplayAssumption
     DEF ReplayAssumption, EngineTypeOK, Reads, Progress
<1>4. CASE CanRead /\ mapped
  <2>1. offset' = offset + RecordSize /\ Deliver /\ replay' = "callback"
    BY <1>4 DEF Read, Goto
  <2>2. Reads' = m + 1 /\ offset' = (m + 1) * RecordSize /\ Records' = Records
    BY <1>2, <1>3, <2>1, MoreBytes DEF Reads, Records
  <2>3. m + 1 <= Records
    <3>1. (m + 1) * RecordSize <= file_size
      BY <1>3, <1>4, <2>1, <2>2 DEF CanRead
    <3>2. m + 1 \in Nat /\ file_size \in Nat /\ Records = file_size \div RecordSize
      BY <1>3 DEF Records
    <3> QED
      BY <3>1, <3>2, Fits
  <2>4. offset \div RecordSize = m
    BY <1>3, WholeRecords
  <2>5. /\ n <= m
        /\ \A i \in 1 .. n : delivered[i] = m - n + i - 1
        /\ equipped => callback /\ n = m
        /\ delivered # << >> => callback
    BY <1>1, <1>2, <1>3 DEF Progress
  <2>6. /\ delivered' \in Seq(Nat)
        /\ Len(delivered') <= m + 1
        /\ \A i \in 1 .. Len(delivered') : delivered'[i] = (m + 1) - Len(delivered') + i - 1
        /\ delivered' # << >> => callback
        /\ equipped => callback /\ Len(delivered') = m + 1
    <3>1. CASE callback
      <4>1. delivered' = Append(delivered, m)
        BY <2>1, <2>4, <3>1 DEF Deliver
      <4>2. /\ delivered' \in Seq(Nat)
            /\ Len(delivered') = n + 1
            /\ \A i \in 1 .. n : delivered'[i] = delivered[i]
            /\ delivered'[n + 1] = m
        BY <1>3, <4>1, AppendProperties
      <4> HIDE DEF m, n
      <4>3. ASSUME NEW i \in 1 .. n + 1 PROVE delivered'[i] = (m + 1) - (n + 1) + i - 1
        <5>1. CASE i = n + 1
          BY <1>3, <4>2, <5>1
        <5>2. CASE i # n + 1
          <6>1. i \in 1 .. n
            BY <1>3, <5>2
          <6> QED
            BY <1>3, <2>5, <4>2, <6>1
        <5> QED
          BY <5>1, <5>2
      <4>4. n + 1 <= m + 1 /\ (equipped => n + 1 = m + 1)
        BY <1>3, <2>5
      <4> QED
        BY <3>1, <4>2, <4>3, <4>4
    <3>2. CASE ~ callback
      <4>0. delivered' = delivered /\ delivered = << >> /\ ~ equipped
        <5>1. delivered' = delivered
          BY <2>1, <3>2, Zenon DEF Deliver
        <5> HIDE DEF m, n
        <5>2. delivered = << >> /\ ~ equipped
          BY <2>5, <3>2, Zenon
        <5> QED
          BY <5>1, <5>2
      <4>1. delivered' = << >> /\ delivered' \in Seq(Nat) /\ Len(delivered') = 0 /\ ~ equipped
        BY <4>0
      <4> QED
        BY <1>3, <4>1
    <3> QED
      BY <3>1, <3>2
  <2>7. overrun' = (IF paused THEN overrun + 1 ELSE overrun) /\ overrun = 0
    <3>1. overrun = 0
      BY <1>1, <1>2 DEF Pausing
    <3> QED
      BY <2>1, <3>1 DEF Deliver
  <2>8. EngineTypeOK'
    <3>1. offset' \in Nat
      BY <1>3, <2>2, MoreBytes
    <3> QED
      BY <1>1, <1>2, <2>1, <2>6, <3>1 DEF EngineTypeOK
  <2>9. Progress'
    BY <1>2, <1>3, <2>1, <2>2, <2>3, <2>6 DEF Progress
  <2>10. Control'
    BY <1>1, <1>2, <2>1 DEF Control, ThreadReads
  <2>11. Pausing'
    BY <1>1, <1>2, <2>1, <2>7 DEF Pausing
  <2> QED
    BY <2>8, <2>9, <2>10, <2>11 DEF EngineInv
<1>5. CASE ~ CanRead
  <2>1. replay' = "finish" /\ UNCHANGED <<offset, delivered, overrun>>
    BY <1>5 DEF Read, Goto
  <2>2. messages_replayed = Records
    BY <1>2, <1>3, <1>5, AllRead
  <2>3. EngineTypeOK' /\ Control' /\ Pausing'
    BY <1>1, <1>2, <2>1 DEF EngineTypeOK, Control, Pausing, ThreadReads
  <2>4. Progress'
    BY <1>2, <1>3, <2>1, <2>2, NothingRead
  <2> QED
    BY <2>3, <2>4 DEF EngineInv
<1> QED
  BY <1>4, <1>5 DEF Read

\* What the replay thread does between two records, and what callbacks do.
LEMMA ReplayStep == EngineInv /\ Replay => EngineInv'
<1> SUFFICES ASSUME EngineInv, Replay PROVE EngineInv'
  OBVIOUS
<1>1. EngineTypeOK /\ Progress /\ Control /\ Pausing
  BY DEF EngineInv
<1>2. CASE OpenFile
  <2>1. /\ replay = "open" /\ ~ terminated /\ terminated' = (file_size < 0)
        /\ mapped' \in BOOLEAN /\ replay' = "test"
        /\ UNCHANGED <<file_size, running, paused, joinable, client, callback, interrupted,
                       equipped, starts, messages_replayed, offset, delivered, overrun>>
    BY <1>2 DEF OpenFile, At, Goto
  <2>2. EngineTypeOK'
    <3>1. terminated' \in BOOLEAN
      BY <2>1
    <3> QED
      BY <1>1, <2>1, <3>1 DEF EngineTypeOK
  <2>3. Control' /\ Pausing'
    BY <1>1, <2>1 DEF Control, Pausing, ThreadReads
  <2>4. Progress'
    <3>1. file_size >= 0 \/ terminated'
      <4>1. CASE file_size < 0
        BY <2>1, <4>1, Zenon
      <4>2. CASE ~ file_size < 0
        BY <1>1, <4>2 DEF EngineTypeOK
      <4> QED
        BY <4>1, <4>2
    <3> QED
      BY <2>1, <3>1, NothingRead
  <2> QED
    BY <2>2, <2>3, <2>4 DEF EngineInv
<1>3. CASE TestMore
  <2>1. /\ replay = "test" /\ ~ terminated
        /\ replay' = IF running /\ HasMore THEN "wait" ELSE "finish"
        /\ UNCHANGED <<file_size, running, paused, joinable, client, callback, terminated,
                       interrupted, equipped, starts, messages_replayed, offset, mapped,
                       delivered, overrun>>
    BY <1>3 DEF TestMore, At, Goto, control, reading
  <2>2. EngineTypeOK' /\ Control' /\ Pausing'
    BY <1>1, <2>1 DEF EngineTypeOK, Control, Pausing, ThreadReads
  <2>3. file_size >= 0
    BY <1>1, <2>1 DEF Progress
  <2>4. replay' = "finish" /\ ~ interrupted => messages_replayed = Records
    <3> SUFFICES ASSUME replay' = "finish", ~ interrupted PROVE messages_replayed = Records
      OBVIOUS
    <3>1. running
      BY <1>1, <2>1 DEF Control, ThreadReads
    <3>2. ~ HasMore
      BY <2>1, <3>1
    <3>3. ~ CanRead
      BY <1>1, <3>2, ReplayAssumption DEF ReplayAssumption, EngineTypeOK, HasMore, CanRead
    <3> QED
      BY <2>1, <2>3, <3>3, AllRead
  <2>5. Progress'
    BY <2>1, <2>3, <2>4, NothingRead
  <2> QED
    BY <2>2, <2>5 DEF EngineInv
<1>4. CASE LeaveWait \/ Recheck \/ Finish
  <2>1. /\ ~ terminated
        /\ \/ replay = "wait" /\ replay' = "recheck" /\ ~ (paused /\ running) /\ running' = running
           \/ replay = "recheck" /\ replay' = (IF running THEN "read" ELSE "finish") /\ running' = running
           \/ replay = "finish" /\ replay' = "exited" /\ running' = FALSE
        /\ UNCHANGED <<file_size, paused, joinable, client, callback, terminated,
                       interrupted, equipped, starts, messages_replayed, offset, mapped,
                       delivered, overrun>>
    BY <1>4 DEF LeaveWait, Recheck, Finish, At, Goto, control, reading
  <2>2. EngineTypeOK'
    <3>1. running' \in BOOLEAN
      BY <1>1, <2>1 DEF EngineTypeOK
    <3> QED
      BY <1>1, <2>1, <3>1 DEF EngineTypeOK
  <2>3. Control' /\ Pausing'
    BY <1>1, <2>1 DEF Control, Pausing, ThreadReads
  <2>4. /\ file_size >= 0
        /\ replay' \in {"finish", "exited"} /\ ~ interrupted => messages_replayed = Records
    BY <1>1, <2>1 DEF Progress, Control, ThreadReads
  <2>5. Progress'
    BY <2>1, <2>4, NothingRead
  <2> QED
    BY <2>2, <2>3, <2>5 DEF EngineInv
<1>5. CASE ReadFault \/ CallbackStop
  <2>1. /\ ~ terminated /\ terminated' = TRUE
        /\ running' \in {running, FALSE} /\ interrupted' \in {interrupted, TRUE}
        /\ UNCHANGED <<file_size, paused, joinable, client, callback, equipped, starts,
                       replay, messages_replayed, offset, mapped, delivered, overrun>>
    BY <1>5 DEF ReadFault, CallbackStop, At, progress, reading
  <2>2. EngineTypeOK'
    <3>1. running' \in BOOLEAN /\ interrupted' \in BOOLEAN /\ terminated' \in BOOLEAN
      BY <1>1, <2>1 DEF EngineTypeOK
    <3> QED
      BY <1>1, <2>1, <3>1 DEF EngineTypeOK
  <2>3. Progress' /\ Control' /\ Pausing'
    BY <1>1, <2>1 DEF Progress, Control, Pausing
  <2> QED
    BY <2>2, <2>3 DEF EngineInv
<1>6. CASE CallbackPause
  <2>1. /\ replay = "callback" /\ ~ terminated /\ ~ paused /\ paused' = TRUE
        /\ UNCHANGED <<file_size, running, joinable, client, callback, terminated, interrupted,
                       equipped, starts, replay, messages_replayed, offset, mapped, delivered,
                       overrun>>
    BY <1>6 DEF CallbackPause, At, progress, reading
  <2>2. EngineTypeOK'
    <3>1. paused' \in BOOLEAN
      BY <2>1
    <3> QED
      BY <1>1, <2>1, <3>1 DEF EngineTypeOK
  <2>3. Control' /\ Pausing'
    BY <1>1, <2>1 DEF Control, Pausing, ThreadReads
  <2>4. Progress'
    BY <1>1, <2>1 DEF Progress, Reads, Records
  <2> QED
    BY <2>2, <2>3, <2>4 DEF EngineInv
<1>7. CASE CountRecord
  <2>1. /\ replay = "callback" /\ ~ terminated /\ replay' = "test"
        /\ messages_replayed' = messages_replayed + 1
        /\ UNCHANGED <<file_size, running, paused, joinable, client, callback, terminated,
                       interrupted, equipped, starts, offset, mapped, delivered, overrun>>
    BY <1>7 DEF CountRecord, At, Goto, control, reading
  <2>2. EngineTypeOK' /\ Control' /\ Pausing'
    BY <1>1, <2>1 DEF EngineTypeOK, Control, Pausing, ThreadReads
  <2>3. Reads' = Reads /\ Records' = Records
    BY <1>1, <2>1 DEF Reads, Records, EngineTypeOK
  <2>4. Progress'
    BY <1>1, <2>1, <2>3 DEF Progress
  <2> QED
    BY <2>2, <2>4 DEF EngineInv
<1> QED
  BY <1>2, <1>3, <1>4, <1>5, <1>6, <1>7, ReadStep DEF Replay, Thread

\* Nor does standing still break it.
LEMMA EngineStill ==
  ASSUME EngineInv, UNCHANGED vars
  PROVE  EngineInv'
<1>1. UNCHANGED <<file_size, running, paused, joinable, client, callback, terminated,
                  interrupted, equipped, starts, replay, messages_replayed, offset, mapped,
                  delivered, overrun>>
  BY DEF vars, control, progress, reading
<1>2. EngineTypeOK' /\ Control' /\ Pausing'
  BY <1>1 DEF EngineInv, EngineTypeOK, Control, Pausing, ThreadReads
<1>3. Progress'
  BY <1>1 DEF EngineInv, Progress, Reads, Records
<1> QED
  BY <1>2, <1>3 DEF EngineInv

LEMMA EngineStep == EngineInv /\ [Next]_vars => EngineInv'
BY ClientStep, ReplayStep, EngineStill DEF Next
-------------------------------------------------------------------------------
(* The recorder.                                                            *)

\* Sizes are numbers of bytes.
LEMMA Sizes == /\ RecordSize \in Nat \ {0} /\ PageSize \in Nat \ {0}
               /\ MinimumMap \in Nat \ {0} /\ MaxWrites \in Nat
BY TapeAssumption DEF TapeAssumption, Recorder!RecorderAssumption

\* The last page of a file holds all of the file.
LEMMA PageHolds ==
  ASSUME NEW s \in Nat
  PROVE  Recorder!PageEnd(s) \in Nat /\ s <= Recorder!PageEnd(s)
<1> DEFINE t == s + PageSize - 1
           q == t \div PageSize
<1>1. t \in Nat /\ PageSize \in Nat \ {0}
  BY Sizes
<1>2. q \in Nat /\ q * PageSize \in Nat /\ t < q * PageSize + PageSize
  <2> HIDE DEF t
  <2> QED
    BY <1>1, SMTT(20)
<1> DEFINE e == q * PageSize
<1>3. e \in Nat /\ s + PageSize - 1 < e + PageSize
  BY <1>2
<1> HIDE DEF e
<1>4. e \in Nat /\ s <= e
  BY <1>1, <1>3
<1> QED
  BY <1>4 DEF e, Recorder!PageEnd

\* A mapping that is made has room for the next record.
LEMMA RoomForNext ==
  ASSUME record_count \in Nat
  PROVE  /\ Recorder!Needed \in Nat /\ Recorder!Needed > 0
         /\ Recorder!NewSize \in Nat /\ Recorder!Needed <= Recorder!NewSize
<1> DEFINE a == Recorder!Needed
<1>1. a \in Nat /\ a > 0
  <2>1. a = record_count * RecordSize + RecordSize /\ record_count * RecordSize \in Nat
    BY MoreBytes DEF Recorder!Needed
  <2> QED
    BY <2>1, Sizes
<1> HIDE DEF a
<1>2. PICK x \in {a * 2, MinimumMap} : \A y \in {a * 2, MinimumMap} : x >= y
  <2>1. a * 2 \in Nat /\ MinimumMap \in Nat
    BY <1>1, Sizes
  <2>2. CASE a * 2 >= MinimumMap
    BY <2>1, <2>2
  <2>3. CASE ~ a * 2 >= MinimumMap
    BY <2>1, <2>3
  <2> QED
    BY <2>2, <2>3
<1>3. /\ Recorder!Max({a * 2, MinimumMap}) \in {a * 2, MinimumMap}
      /\ \A y \in {a * 2, MinimumMap} : Recorder!Max({a * 2, MinimumMap}) >= y
  BY <1>2 DEF Recorder!Max
<1> DEFINE b == Recorder!Max({a * 2, MinimumMap})
<1>4. b \in Nat /\ a <= b
  <2>1. b \in {a * 2, MinimumMap} /\ b >= a * 2
    BY <1>3
  <2> HIDE DEF b
  <2> QED
    BY <1>1, <2>1, Sizes
<1>5. Recorder!NewSize = b
  BY DEF Recorder!NewSize, a, b
<1> QED
  BY <1>1, <1>4, <1>5 DEF a

\* An empty recording.
LEMMA RecorderInit == Recorder!Init => RecorderTypeOK /\ Written
<1> SUFFICES ASSUME Recorder!Init PROVE RecorderTypeOK /\ Written
  OBVIOUS
<1>1. 0 \in 0 .. MaxWrites /\ 0 * RecordSize = 0
  BY Sizes
<1>2. content = [i \in Recorder!Places |-> 0] /\ content \in [Recorder!Places -> Nat]
  BY DEF Recorder!Init
<1>3. \/ use_mmap = TRUE /\ stream_open = FALSE /\ troubled = FALSE /\ file_size = 0
      \/ use_mmap = FALSE /\ stream_open = TRUE /\ troubled = FALSE /\ file_size = 0
      \/ use_mmap = FALSE /\ stream_open = FALSE /\ troubled = TRUE /\ file_size = -1
  <2>1. CASE use_mmap = TRUE
    <3>1. stream_open = FALSE /\ file_size = 0
      BY <2>1 DEF Recorder!Init
    <3>2. troubled = FALSE
      BY <2>1 DEF Recorder!Init
    <3> QED
      BY <2>1, <3>1, <3>2
  <2>2. CASE use_mmap = FALSE
    <3>1. CASE stream_open = TRUE
      <4>1. file_size = 0
        BY <2>2, <3>1 DEF Recorder!Init
      <4>2. troubled = FALSE
        BY <2>2, <3>1 DEF Recorder!Init
      <4> QED
        BY <2>2, <3>1, <4>1, <4>2
    <3>2. CASE stream_open = FALSE
      <4>1. file_size = -1
        BY <2>2, <3>2 DEF Recorder!Init
      <4>2. troubled = TRUE
        BY <2>2, <3>2 DEF Recorder!Init
      <4> QED
        BY <2>2, <3>2, <4>1, <4>2
    <3>3. stream_open \in BOOLEAN
      BY <2>2 DEF Recorder!Init
    <3> QED
      BY <3>1, <3>2, <3>3
  <2> QED
    BY <2>1, <2>2 DEF Recorder!Init
<1>4. /\ mapped_ptr = "null" /\ mapped_size = 0 /\ record_count = 0 /\ pending = FALSE
      /\ process = "running" /\ flushed = FALSE /\ resumed = FALSE
  BY DEF Recorder!Init
<1>5. RecorderTypeOK
  <2>1. /\ use_mmap \in BOOLEAN
        /\ stream_open \in BOOLEAN
        /\ troubled \in BOOLEAN
        /\ file_size \in Int
    <3>1. use_mmap \in BOOLEAN
      BY <1>3, Zenon
    <3>2. stream_open \in BOOLEAN
      BY <1>3, Zenon
    <3>3. troubled \in BOOLEAN
      BY <1>3, Zenon
    <3>4. file_size \in {0, -1}
      BY <1>3, Zenon
    <3> QED
      BY <3>1, <3>2, <3>3, <3>4
  <2>2. pending \in BOOLEAN /\ flushed \in BOOLEAN /\ resumed \in BOOLEAN
    BY <1>4
  <2> QED
    BY <1>1, <1>2, <1>4, <2>1, <2>2 DEF RecorderTypeOK
<1>6. Written
  <2> SUFFICES ASSUME Recorder!Orderly PROVE Written
    BY DEF Written
  <2>1. ~ troubled
    BY DEF Recorder!Orderly
  <2>2. \A i \in Recorder!Places : i \in Int /\ 0 <= i
    BY DEF Recorder!Places
  <2>3. \A i \in Recorder!Places : content[i] = IF i < record_count THEN i + 1 ELSE 0
    BY <1>2, <1>4, <2>2
  <2>4. /\ ~ use_mmap => stream_open
        /\ use_mmap => file_size = 0
    BY <1>3, <2>1
  <2> QED
    BY <1>1, <1>4, <2>3, <2>4 DEF Written
<1> QED
  BY <1>5, <1>6

\* The place after the last record takes the next.
LEMMA OneMore ==
  ASSUME record_count \in Nat, record_count < MaxWrites, content \in [Recorder!Places -> Nat]
  PROVE  /\ record_count \in Recorder!Places
         /\ record_count + 1 \in 0 .. MaxWrites
         /\ [content EXCEPT ![record_count] = record_count + 1] \in [Recorder!Places -> Nat]
         /\ (\A i \in Recorder!Places : content[i] = IF i < record_count THEN i + 1 ELSE 0)
            => \A i \in Recorder!Places :
                 [content EXCEPT ![record_count] = record_count + 1][i]
                   = IF i < record_count + 1 THEN i + 1 ELSE 0
<1>1. record_count \in Recorder!Places /\ record_count + 1 \in 0 .. MaxWrites
  BY Sizes DEF Recorder!Places
<1>2. \A i \in Recorder!Places : i \in Int
  BY DEF Recorder!Places
<1> QED
  BY <1>1, <1>2

\* What a record written through the mapping leaves.
LEMMA MappedStep ==
  ASSUME RecorderTypeOK, Written, Recorder!WriteRecord, Recorder!WriteMapped,
         pending' \in BOOLEAN
  PROVE  RecorderTypeOK' /\ Written'
<1>1. /\ process = "running" /\ record_count < MaxWrites /\ use_mmap
      /\ use_mmap' = use_mmap /\ stream_open' = stream_open /\ flushed' = flushed
      /\ resumed' = (resumed \/ flushed) /\ record_count' = record_count + 1
  BY DEF Recorder!WriteRecord, Recorder!WriteMapped
<1>2. /\ record_count \in Nat /\ content \in [Recorder!Places -> Nat] /\ file_size \in Int
      /\ mapped_size \in Nat /\ mapped_ptr \in {"null", "failed", "mapped"}
      /\ use_mmap \in BOOLEAN /\ stream_open \in BOOLEAN /\ troubled \in BOOLEAN
      /\ flushed \in BOOLEAN /\ resumed \in BOOLEAN
  BY Sizes DEF RecorderTypeOK
<1> DEFINE needed == Recorder!Needed
           stored == [content EXCEPT ![record_count] = record_count + 1]
<1>3. /\ needed \in Nat /\ needed > 0 /\ Recorder!NewSize \in Nat
      /\ needed <= Recorder!NewSize
  BY <1>2, RoomForNext
<1>4. PICK map \in Recorder!Remaps :
        /\ mapped_ptr' = map.ptr
        /\ mapped_size' = map.size
        /\ file_size' = map.file
        /\ troubled' = (troubled \/ map.failed)
        /\ \/ Recorder!Stored(map) /\ content' = stored /\ UNCHANGED process
           \/ Recorder!StoredBeyond(map) /\ content' \in {content, stored} /\ UNCHANGED process
           \/ Recorder!Faults(map) /\ process' = "fault" /\ UNCHANGED content
           \/ map.ptr = "null" /\ UNCHANGED <<content, process>>
  BY DEF Recorder!WriteMapped
<1>5. stored \in [Recorder!Places -> Nat] /\ record_count + 1 \in 0 .. MaxWrites
  BY <1>1, <1>2, OneMore
<1>6. \/ /\ needed <= mapped_size /\ mapped_ptr' = mapped_ptr /\ mapped_size' = mapped_size
         /\ file_size' = file_size /\ troubled' = troubled
      \/ /\ mapped_ptr' = "mapped" /\ mapped_size' = Recorder!NewSize
         /\ file_size' = Recorder!NewSize /\ troubled' = troubled
      \/ /\ mapped_ptr' \in {"failed", "null", mapped_ptr} /\ mapped_size' = mapped_size
         /\ file_size' \in {file_size, Recorder!NewSize} /\ troubled' = TRUE
  <2>1. CASE needed <= mapped_size
    <3>1. map = Recorder!Unchanged
      BY <2>1 DEF Recorder!Remaps
    <3>2. /\ map.ptr = mapped_ptr /\ map.size = mapped_size /\ map.file = file_size
          /\ map.failed = FALSE
      BY <3>1 DEF Recorder!Unchanged
    <3> QED
      BY <1>2, <1>4, <2>1, <3>2
  <2>2. CASE ~ needed <= mapped_size
    <3>1. map \in { [ptr |-> "mapped", size |-> Recorder!NewSize, file |-> Recorder!NewSize,
                     failed |-> FALSE],
                    [ptr |-> "failed", size |-> mapped_size, file |-> Recorder!NewSize,
                     failed |-> TRUE],
                    [ptr |-> Recorder!Unmapped, size |-> mapped_size, file |-> file_size,
                     failed |-> TRUE] }
      BY <2>2 DEF Recorder!Remaps
    <3>2. Recorder!Unmapped \in {"null", mapped_ptr}
      BY DEF Recorder!Unmapped
    <3>3. CASE map = [ptr |-> "mapped", size |-> Recorder!NewSize,
                      file |-> Recorder!NewSize, failed |-> FALSE]
      BY <1>2, <1>4, <3>3
    <3>4. CASE map = [ptr |-> "failed", size |-> mapped_size,
                      file |-> Recorder!NewSize, failed |-> TRUE]
      BY <1>4, <3>4
    <3>5. CASE map = [ptr |-> Recorder!Unmapped, size |-> mapped_size,
                      file |-> file_size, failed |-> TRUE]
      BY <1>4, <3>2, <3>5
    <3> QED
      BY <3>1, <3>3, <3>4, <3>5
  <2> QED
    BY <2>1, <2>2
<1>7. RecorderTypeOK'
  <2>1. content' \in [Recorder!Places -> Nat] /\ process' \in {"running", "fault"}
    BY <1>1, <1>2, <1>4, <1>5
  <2>2. /\ mapped_ptr' \in {"null", "failed", "mapped"} /\ mapped_size' \in Nat
        /\ file_size' \in Int
    BY <1>2, <1>3, <1>6
  <2>3. troubled' \in BOOLEAN
    BY <1>2, <1>6
  <2>4. use_mmap' \in BOOLEAN /\ stream_open' \in BOOLEAN /\ flushed' \in BOOLEAN
    BY <1>1, <1>2
  <2>5. resumed' \in BOOLEAN
    BY <1>1, <1>2
  <2>6. record_count' \in 0 .. MaxWrites
    BY <1>1, <1>5
  <2> QED
    BY <2>1, <2>2, <2>3, <2>4, <2>5, <2>6 DEF RecorderTypeOK
<1>8. Written'
  <2> SUFFICES ASSUME Recorder!Orderly' PROVE Written'
    BY DEF Written
  <2>1. ~ troubled' /\ ~ flushed /\ ~ resumed
    BY <1>1 DEF Recorder!Orderly
  <2>2. ~ troubled /\ Recorder!Orderly
    BY <1>2, <1>6, <2>1 DEF Recorder!Orderly
  <2>3. /\ \A i \in Recorder!Places : content[i] = IF i < record_count THEN i + 1 ELSE 0
        /\ mapped_size > 0 => mapped_ptr = "mapped"
        /\ file_size = mapped_size
    BY <1>1, <2>1, <2>2 DEF Written
  <2>4. mapped_ptr' = "mapped" /\ file_size' = mapped_size' /\ needed <= mapped_size'
    BY <1>2, <1>3, <1>6, <2>1, <2>3
  <2>5. mapped_size' \in Nat
    BY <1>2, <1>3, <1>6
  <2>6. map.ptr = "mapped" /\ needed <= map.file /\ map.file \in Nat
    BY <1>4, <2>4, <2>5
  <2>7. ~ Recorder!StoredBeyond(map)
    BY <1>3, <2>6 DEF Recorder!StoredBeyond
  <2>8. ~ Recorder!Faults(map)
    BY <1>3, <2>6, PageHolds DEF Recorder!Faults
  <2>9. content' = stored /\ process' = "running"
    BY <1>1, <1>4, <2>6, <2>7, <2>8
  <2>10. \A i \in Recorder!Places : content'[i] = IF i < record_count' THEN i + 1 ELSE 0
    BY <1>1, <1>2, <2>3, <2>9, OneMore
  <2>11. record_count' * RecordSize = needed
    BY <1>1 DEF Recorder!Needed
  <2> QED
    BY <1>1, <2>1, <2>4, <2>9, <2>10, <2>11 DEF Written
<1> QED
  BY <1>7, <1>8

\* What a record written through the stream leaves.
LEMMA StreamStep ==
  ASSUME RecorderTypeOK, Written, Recorder!WriteRecord, Recorder!WriteStream,
         pending' \in BOOLEAN
  PROVE  RecorderTypeOK' /\ Written'
<1>1. /\ process = "running" /\ record_count < MaxWrites /\ ~ use_mmap
      /\ UNCHANGED <<use_mmap, stream_open, mapped_ptr, mapped_size, process, troubled, flushed>>
      /\ resumed' = (resumed \/ flushed) /\ record_count' = record_count + 1
  BY DEF Recorder!WriteRecord, Recorder!WriteStream
<1>2. /\ record_count \in Nat /\ content \in [Recorder!Places -> Nat] /\ file_size \in Int
      /\ flushed \in BOOLEAN /\ resumed \in BOOLEAN
  BY Sizes DEF RecorderTypeOK
<1> DEFINE stored == [content EXCEPT ![record_count] = record_count + 1]
<1>3. /\ content' = IF stream_open THEN stored ELSE content
      /\ file_size' \in Int
  <2>1. Recorder!Needed \in Nat
    BY <1>2, RoomForNext
  <2> QED
    BY <1>2, <2>1 DEF Recorder!WriteStream
<1>4. stored \in [Recorder!Places -> Nat] /\ record_count + 1 \in 0 .. MaxWrites
  BY <1>1, <1>2, OneMore
<1>5. RecorderTypeOK'
  <2>1. content' \in [Recorder!Places -> Nat] /\ record_count' \in 0 .. MaxWrites
    BY <1>1, <1>2, <1>3, <1>4
  <2>2. resumed' \in BOOLEAN
    BY <1>1, <1>2
  <2> QED
    BY <1>1, <1>3, <2>1, <2>2 DEF RecorderTypeOK
<1>6. Written'
  <2> SUFFICES ASSUME Recorder!Orderly' PROVE Written'
    BY DEF Written
  <2>1. Recorder!Orderly
    BY <1>1 DEF Recorder!Orderly
  <2>2. /\ stream_open
        /\ \A i \in Recorder!Places : content[i] = IF i < record_count THEN i + 1 ELSE 0
    BY <1>1, <2>1 DEF Written
  <2>3. content' = stored
    BY <1>3, <2>2
  <2>4. \A i \in Recorder!Places : content'[i] = IF i < record_count' THEN i + 1 ELSE 0
    BY <1>1, <1>2, <2>2, <2>3, OneMore
  <2> QED
    BY <1>1, <2>2, <2>4 DEF Written
<1> QED
  BY <1>5, <1>6

\* What flush leaves, and the destructor.
LEMMA FlushStep ==
  ASSUME RecorderTypeOK, Written, Recorder!FlushFile, process' \in {process, "closed"}
  PROVE  RecorderTypeOK' /\ Written'
<1>1. /\ process = "running" /\ flushed' = TRUE
      /\ UNCHANGED <<use_mmap, stream_open, mapped_ptr, mapped_size, record_count, pending,
                     content, resumed>>
      /\ troubled' = (troubled \/ file_size' # Recorder!Trim)
  BY DEF Recorder!FlushFile
<1>2. record_count \in Nat /\ Recorder!Trim = record_count * RecordSize /\ Recorder!Trim \in Nat
  <2>1. record_count \in Nat
    BY Sizes DEF RecorderTypeOK
  <2> QED
    BY <2>1, MoreBytes DEF Recorder!Trim
<1>3. file_size' \in {Recorder!Trim, file_size}
  BY DEF Recorder!FlushFile
<1>4. RecorderTypeOK'
  <2>1. troubled' \in BOOLEAN
    BY <1>1
  <2>2. flushed' \in BOOLEAN
    BY <1>1
  <2>3. file_size' \in Int
    BY <1>2, <1>3 DEF RecorderTypeOK
  <2>4. process' \in {"running", "killed", "fault", "closed"}
    BY <1>1
  <2> QED
    BY <1>1, <2>1, <2>2, <2>3, <2>4 DEF RecorderTypeOK
<1>5. Written'
  <2> SUFFICES ASSUME Recorder!Orderly' PROVE Written'
    BY DEF Written
  <2>1. Recorder!Orderly /\ file_size' = Recorder!Trim
    BY <1>1 DEF Recorder!Orderly
  <2>2. process' # "fault"
    BY <1>1
  <2> QED
    BY <1>1, <1>2, <2>1, <2>2 DEF Written
<1> QED
  BY <1>4, <1>5

\* Every step of the recorder.
LEMMA RecorderStep == RecorderTypeOK /\ Written /\ Recorder!Next => RecorderTypeOK' /\ Written'
<1> SUFFICES ASSUME RecorderTypeOK, Written, Recorder!Next PROVE RecorderTypeOK' /\ Written'
  OBVIOUS
<1>1. CASE Recorder!RecordTrade \/ Recorder!QuoteBid \/ Recorder!QuoteAsk
  <2>1. Recorder!WriteRecord /\ pending' \in BOOLEAN
    BY <1>1 DEF Recorder!RecordTrade, Recorder!QuoteBid, Recorder!QuoteAsk, RecorderTypeOK
  <2>2. Recorder!WriteMapped \/ Recorder!WriteStream
    BY <2>1 DEF Recorder!WriteRecord
  <2> QED
    BY <2>1, <2>2, MappedStep, StreamStep
<1>2. CASE Recorder!Flush \/ Recorder!Close
  <2>1. Recorder!FlushFile /\ process' \in {process, "closed"}
    BY <1>2 DEF Recorder!Flush, Recorder!Close
  <2> QED
    BY <2>1, FlushStep
<1>3. CASE Recorder!Kill
  <2>1. /\ process' = "killed"
        /\ UNCHANGED <<use_mmap, stream_open, mapped_ptr, mapped_size, record_count, pending,
                       file_size, content, troubled, flushed, resumed>>
    BY <1>3 DEF Recorder!Kill
  <2>2. RecorderTypeOK'
    BY <2>1 DEF RecorderTypeOK
  <2>3. Written'
    BY <2>1 DEF Written, Recorder!Orderly
  <2> QED
    BY <2>2, <2>3
<1> QED
  BY <1>1, <1>2, <1>3 DEF Recorder!Next

\* A recorder that stands still, in front of a file that does.
LEMMA RecorderStill ==
  ASSUME RecorderTypeOK, Written, UNCHANGED <<recorderVars, file_size>>
  PROVE  RecorderTypeOK' /\ Written'
<1>1. UNCHANGED <<use_mmap, stream_open, mapped_ptr, mapped_size, record_count, pending,
                  content, process, troubled, flushed, resumed, file_size>>
  BY DEF recorderVars
<1>2. RecorderTypeOK'
  BY <1>1 DEF RecorderTypeOK
<1>3. Written'
  BY <1>1 DEF Written, Recorder!Orderly
<1> QED
  BY <1>2, <1>3
-------------------------------------------------------------------------------
(* The recording and its replay.                                            *)

LEMMA TapeInitInv == TapeInit => TapeInv
<1> SUFFICES ASSUME TapeInit PROVE TapeInv
  OBVIOUS
<1>1. RecorderTypeOK /\ Written
  BY RecorderInit DEF TapeInit
<1>2. EngineInv
  BY <1>1, UnusedInv DEF TapeInit, RecorderTypeOK
<1> QED
  BY <1>1, <1>2 DEF TapeInit, TapeInv, Waiting

\* The engine only looks at the file.
LEMMA FileKept == Client \/ Replay => UNCHANGED file_size
BY DEF Client, StartAgain, Start, Pause, Resume, SetCallback, SetSpeed, StopJoin, StopBegin,
       Replay, Thread, OpenFile, TestMore, LeaveWait, Recheck, Read, ReadFault, CountRecord,
       Finish, CallbackPause, CallbackStop, vars

LEMMA TapeStep == TapeInv /\ [TapeNext]_tapeVars => TapeInv'
<1> SUFFICES ASSUME TapeInv, [TapeNext]_tapeVars PROVE TapeInv'
  OBVIOUS
<1>1. RecorderTypeOK /\ Written /\ Waiting /\ EngineInv
  BY DEF TapeInv
<1>2. CASE Record
  <2>1. process = "running"
    BY <1>2 DEF Record, Recorder!Next, Recorder!RecordTrade, Recorder!QuoteBid,
                Recorder!QuoteAsk, Recorder!WriteRecord, Recorder!Flush, Recorder!Close,
                Recorder!FlushFile, Recorder!Kill
  <2>2. RecorderTypeOK' /\ Written'
    BY <1>1, <1>2, RecorderStep DEF Record
  <2>3. Unused'
    BY <1>1, <1>2, <2>1 DEF Record, Waiting, Unused, control, progress, reading
  <2>4. (Unused /\ file_size \in Int => EngineInv)'
    BY UnusedInv, PTL
  <2>5. EngineInv'
    BY <2>2, <2>3, <2>4 DEF RecorderTypeOK
  <2> QED
    BY <2>2, <2>3, <2>5 DEF TapeInv, Waiting
<1>3. CASE Play(Client) \/ Play(Replay)
  <2>1. /\ process \in {"closed", "killed"} /\ Next
        /\ UNCHANGED recorderVars /\ UNCHANGED file_size
    BY <1>3, FileKept DEF Play, Gone, Next
  <2>2. RecorderTypeOK' /\ Written'
    BY <1>1, <2>1, RecorderStill
  <2>3. EngineInv'
    BY <1>1, <2>1, EngineStep
  <2>4. Waiting'
    BY <2>1 DEF Waiting, recorderVars
  <2> QED
    BY <2>2, <2>3, <2>4 DEF TapeInv
<1>4. CASE UNCHANGED tapeVars
  <2>1. UNCHANGED recorderVars /\ UNCHANGED vars /\ UNCHANGED file_size
    BY <1>4 DEF tapeVars, vars
  <2>2. RecorderTypeOK' /\ Written' /\ EngineInv'
    BY <1>1, <2>1, RecorderStill, EngineStill
  <2>3. Waiting'
    BY <1>1, <2>1 DEF Waiting, Unused, recorderVars, vars, control, progress, reading
  <2> QED
    BY <2>2, <2>3 DEF TapeInv
<1> QED
  BY <1>2, <1>3, <1>4 DEF TapeNext

LEMMA TapeInvariant == TapeSpec => []TapeInv
BY TapeInitInv, TapeStep, PTL DEF TapeSpec
-------------------------------------------------------------------------------
(* What the engine promises, whatever was recorded.                         *)

\* The records given are those in front of the reader.
LEMMA InOrder == EngineInv => DeliveredInOrder
<1> SUFFICES ASSUME EngineInv, ~ terminated PROVE DeliveredInOrder
  BY DEF DeliveredInOrder
<1>1. EngineTypeOK /\ Progress
  BY DEF EngineInv
<1> DEFINE m == messages_replayed
           n == Len(delivered)
           r == Reads
           b == r * RecordSize
<1>2. /\ m \in Nat /\ n \in Nat /\ r \in Nat /\ offset = b /\ r <= Records
      /\ r = m + (IF replay = "callback" THEN 1 ELSE 0)
      /\ DOMAIN delivered = 1 .. n
  BY <1>1, LenProperties DEF EngineTypeOK, Progress, Reads
<1>3. b \div RecordSize = r
  BY <1>2, WholeRecords
<1>4. Records \in Nat
  <2>1. file_size >= 0 => file_size \div RecordSize \in Nat
    BY <1>1, Fits DEF EngineTypeOK
  <2> QED
    BY <1>1, <2>1 DEF Records, EngineTypeOK
<1>5. m * RecordSize + (IF replay = "callback" THEN RecordSize ELSE 0) = offset
  <2>1. (m + 1) * RecordSize = m * RecordSize + RecordSize /\ m * RecordSize \in Nat
    BY <1>2, MoreBytes
  <2>2. CASE replay = "callback"
    BY <1>2, <2>1, <2>2
  <2>3. CASE replay # "callback"
    <3>1. r = m
      BY <1>2, <2>3
    <3> QED
      BY <1>2, <2>1, <2>3, <3>1
  <2> QED
    BY <2>2, <2>3
<1>6. /\ \A i \in 1 .. n : delivered[i] = r - n + i - 1
      /\ equipped => n = r
      /\ replay = "exited" /\ ~ interrupted => m = Records
  BY <1>1 DEF Progress
<1>7. equipped => n * RecordSize = offset
  BY <1>2, <1>6
<1>8. ASSUME NEW i \in DOMAIN delivered
      PROVE  delivered[i] = offset \div RecordSize - n + i - 1 /\ delivered[i] < Records
  <2>1. i \in 1 .. n /\ offset \div RecordSize = r
    BY <1>2, <1>3
  <2> HIDE DEF n, r, b
  <2>2. delivered[i] = r - n + i - 1
    BY <1>6, <2>1
  <2>3. delivered[i] < Records
    BY <1>2, <1>4, <2>1, <2>2
  <2> QED
    BY <2>1, <2>2, <2>3
<1> QED
  BY <1>5, <1>6, <1>7, <1>8 DEF DeliveredInOrder

(* Whatever the file, however often it was started, paused and stopped, the   *)
(* callback gets consecutive records, each once and none that the file does   *)
(* not hold whole, and a run that ends of itself has gone through them all    *)
(* (replay_loop, replay_engine.cpp:49-105).                                   *)
THEOREM ReplayIsInOrder == TapeSpec => []DeliveredInOrder
<1>1. TapeInv => DeliveredInOrder
  BY InOrder DEF TapeInv
<1> QED
  BY <1>1, TapeInvariant, PTL

(* To an idle client is_running() is true exactly as long as the thread may    *)
(* look at callback_ and speed_ (replay_engine.cpp:72,104).                   *)
THEOREM RunningIsTrue == TapeSpec => []RunningTellsThread
<1>1. TapeInv => RunningTellsThread
  BY DEF TapeInv, EngineInv, Control, RunningTellsThread
<1> QED
  BY <1>1, TapeInvariant, PTL

(* After pause() at most one record is read until resume(): paused_ is looked  *)
(* at before every record, and running_ once more (replay_engine.cpp:58-62).   *)
THEOREM PauseIsHeard == TapeSpec => []PauseTakesHold
<1>1. TapeInv => PauseTakesHold
  BY DEF TapeInv, EngineInv, Pausing, PauseTakesHold
<1> QED
  BY <1>1, TapeInvariant, PTL

(* While there is no thread to join, nothing is read or handed over: stop      *)
(* joins the thread before it returns (replay_engine.cpp:33-39).               *)
THEOREM StopIsQuiet == TapeSpec => QuietAfterStop
<1> DEFINE Quiet == ~ joinable /\ ~ joinable' => UNCHANGED <<delivered, messages_replayed>>
<1>1. TapeInv /\ [TapeNext]_tapeVars => [Quiet]_vars
  <2> SUFFICES ASSUME EngineInv, [TapeNext]_tapeVars, ~ joinable, ~ joinable'
               PROVE  UNCHANGED <<delivered, messages_replayed>>
    BY DEF TapeInv
  <2>1. ~ terminated => replay \in {"none", "exited"}
    BY DEF EngineInv, EngineTypeOK, Control, ThreadReads
  <2>2. CASE Record \/ UNCHANGED tapeVars
    BY <2>2 DEF Record, tapeVars, vars, progress
  <2>3. CASE Play(Client)
    <3>1. Client
      BY <2>3 DEF Play
    <3>2. ~ Start
      BY DEF Start
    <3> QED
      BY <3>1, <3>2 DEF Client, StartAgain, Pause, Resume, SetCallback, SetSpeed, StopJoin,
                        StopBegin, vars, progress
  <2>4. CASE Play(Replay)
    BY <2>1, <2>4 DEF Play, Replay, Thread, OpenFile, TestMore, LeaveWait, Recheck, Read,
                      ReadFault, CountRecord, Finish, CallbackPause, CallbackStop, At
  <2> QED
    BY <2>2, <2>3, <2>4 DEF TapeNext
<1> QED
  BY <1>1, TapeInvariant, PTL DEF TapeSpec, QuietAfterStop

(* The same of a file that no TickRecorder has left, of any size or none: the  *)
(* engine by itself (replay_engine.cpp).                                       *)
THEOREM AnyFileIsReplayed ==
  Spec => [](DeliveredInOrder /\ RunningTellsThread /\ PauseTakesHold)
<1>1. Init => EngineInv
  BY UnusedInv DEF Init
<1>2. EngineInv => DeliveredInOrder /\ RunningTellsThread /\ PauseTakesHold
  BY InOrder DEF EngineInv, Control, RunningTellsThread, Pausing, PauseTakesHold
<1> QED
  BY <1>1, <1>2, EngineStep, PTL DEF Spec
-------------------------------------------------------------------------------
(* What a replay finds of what was recorded.                                *)

\* A replay that went through the file.
LEMMA EndedAll ==
  ASSUME TapeInv, Ended
  PROVE  /\ file_size \in Nat /\ messages_replayed \in Nat
         /\ messages_replayed = file_size \div RecordSize
         /\ DOMAIN Played = 1 .. messages_replayed
         /\ \A i \in 1 .. messages_replayed : Played[i] = Recorder!TickAt(i - 1)
<1>1. /\ ~ terminated /\ replay = "exited" /\ ~ interrupted
      /\ EngineTypeOK /\ Progress
  BY DEF Ended, TapeInv, EngineInv
<1>2. file_size >= 0 /\ file_size \in Int /\ messages_replayed = Records /\ messages_replayed \in Nat
  BY <1>1 DEF Progress, EngineTypeOK
<1>3. Records = file_size \div RecordSize /\ file_size \in Nat
  BY <1>2 DEF Records
<1>4. Played = [i \in 1 .. messages_replayed |-> Recorder!TickAt(i - 1)]
  BY DEF Played
<1>5. /\ DOMAIN Played = 1 .. messages_replayed
      /\ \A i \in 1 .. messages_replayed : Played[i] = Recorder!TickAt(i - 1)
  BY <1>4
<1> QED
  BY <1>2, <1>3, <1>5

\* What a reader finds in an orderly recording.
LEMMA TickFound ==
  ASSUME TapeInv, Recorder!Orderly, NEW i \in Nat, i > 0
  PROVE  Recorder!TickAt(i - 1) = IF i <= record_count THEN i ELSE 0
<1>1. /\ record_count \in 0 .. MaxWrites /\ record_count \in Nat /\ MaxWrites \in Nat
      /\ \A p \in Recorder!Places : content[p] = IF p < record_count THEN p + 1 ELSE 0
  BY Sizes DEF TapeInv, RecorderTypeOK, Written
<1>2. CASE i - 1 \in Recorder!Places
  <2>1. Recorder!TickAt(i - 1) = IF i - 1 < record_count THEN (i - 1) + 1 ELSE 0
    BY <1>1, <1>2 DEF Recorder!TickAt
  <2> QED
    BY <1>1, <2>1
<1>3. CASE i - 1 \notin Recorder!Places
  <2>1. ~ i <= record_count
    BY <1>1, <1>3 DEF Recorder!Places
  <2> QED
    BY <1>3, <2>1 DEF Recorder!TickAt
<1> QED
  BY <1>2, <1>3

(* A recorder whose calls succeed and that writes nothing after a flush never  *)
(* faults, and what it recorded is what a replay of its file to the end goes   *)
(* through, however the mapping grew (write_record and remap_if_needed,        *)
(* tick_recorder.cpp:99-159).                                                  *)
THEOREM RecordingIsReplayed == TapeSpec => []ReplaysRecording
<1>1. TapeInv => ReplaysRecording
  <2> SUFFICES ASSUME TapeInv, Recorder!Orderly PROVE ReplaysRecording
    BY DEF ReplaysRecording
  <2>1. Written /\ record_count \in Nat
    BY Sizes DEF TapeInv, RecorderTypeOK
  <2>2. process # "fault"
    BY <2>1 DEF Written
  <2>3. ASSUME process = "closed", Ended PROVE Played = [i \in 1 .. record_count |-> i]
    <3>1. file_size = record_count * RecordSize
      BY <2>1, <2>3 DEF Written
    <3>2. messages_replayed = record_count
      BY <2>1, <2>3, <3>1, EndedAll, WholeRecords
    <3>3. Played = [i \in 1 .. record_count |-> Recorder!TickAt(i - 1)]
      BY <3>2 DEF Played
    <3>4. ASSUME NEW i \in 1 .. record_count PROVE Recorder!TickAt(i - 1) = i
      <4>1. i \in Nat /\ i > 0 /\ i <= record_count
        BY <2>1
      <4> QED
        BY <4>1, TickFound
    <3> QED
      BY <3>3, <3>4
  <2> QED
    BY <2>2, <2>3 DEF ReplaysRecording
<1> QED
  BY <1>1, TapeInvariant, PTL

(* Of a recorder that was killed a replay goes through the first records, all   *)
(* of them if they went through the mapping, and then through zeros for the     *)
(* rest of what the file was grown to (tick_recorder.cpp:114-159).              *)
THEOREM KilledRecordingIsReplayed == TapeSpec => []ReplaysKilledRecording
<1>1. TapeInv => ReplaysKilledRecording
  <2> SUFFICES ASSUME TapeInv, Recorder!Orderly, process = "killed", Ended
               PROVE  ReplaysKilledRecording
    BY DEF ReplaysKilledRecording
  <2>1. /\ file_size \in Nat /\ messages_replayed \in Nat
        /\ messages_replayed = file_size \div RecordSize
        /\ DOMAIN Played = 1 .. messages_replayed
        /\ \A i \in 1 .. messages_replayed : Played[i] = Recorder!TickAt(i - 1)
    BY EndedAll
  <2>2. ASSUME NEW i \in DOMAIN Played PROVE Played[i] = IF i <= record_count THEN i ELSE 0
    <3>1. i \in 1 .. messages_replayed /\ i \in Nat /\ i > 0
      BY <2>1
    <3> QED
      BY <2>1, <3>1, TickFound
  <2>3. ASSUME use_mmap PROVE record_count <= messages_replayed
    <3>1. record_count \in Nat /\ mapped_size \in Nat /\ record_count * RecordSize \in Nat
      BY Sizes, MoreBytes DEF TapeInv, RecorderTypeOK
    <3>2. /\ record_count * RecordSize <= mapped_size
          /\ file_size = IF flushed THEN record_count * RecordSize ELSE mapped_size
      BY <2>3 DEF TapeInv, Written
    <3>3. record_count * RecordSize <= file_size
      <4> DEFINE b == record_count * RecordSize
      <4> HIDE DEF b
      <4>1. b \in Nat /\ b <= mapped_size /\ file_size = IF flushed THEN b ELSE mapped_size
        BY <3>1, <3>2 DEF b
      <4>2. b <= file_size
        BY <3>1, <4>1
      <4> QED
        BY <4>2 DEF b
    <3> QED
      BY <2>1, <3>1, <3>3, Fits
  <2> QED
    BY <2>2, <2>3 DEF ReplaysKilledRecording
<1> QED
  BY <1>1, TapeInvariant, PTL
===============================================================================

------------------------------- MODULE PoolProofs -------------------------------
(***************************************************************************)
(* Proofs about MemoryPool: for every size of chunk and any depth of       *)
(* nesting a slot has one owner, and the count is that of the objects.     *)
(***************************************************************************)
EXTENDS MemoryPool, FiniteSetTheorems, SequenceTheorems, TLAPS

(* OneOwner is inductive once the types are known. *)
Owned == TypeOK /\ OneOwner
-------------------------------------------------------------------------------
(* Lists in which nothing occurs twice.                                     *)
Distinct(s) == \A i, j \in DOMAIN s : s[i] = s[j] => i = j

(* Taking the first of such a list takes it out (lines 70-71). *)
LEMMA TakeFirst ==
  ASSUME NEW S, NEW s \in Seq(S), s # << >>, Distinct(s)
  PROVE  /\ Head(s) \in Range(s)
         /\ Tail(s) \in Seq(S)
         /\ Distinct(Tail(s))
         /\ Range(Tail(s)) = Range(s) \ {Head(s)}
<1>1. /\ Len(s) \in Nat \ {0}
      /\ DOMAIN s = 1 .. Len(s)
      /\ Head(s) = s[1]
  BY EmptySeq, LenProperties
<1>2. /\ Tail(s) \in Seq(S)
      /\ Len(Tail(s)) = Len(s) - 1
      /\ \A i \in 1 .. Len(Tail(s)) : Tail(s)[i] = s[i + 1]
  BY HeadTailProperties
<1>3. DOMAIN Tail(s) = 1 .. Len(s) - 1
  BY <1>2, LenProperties
<1>4. Distinct(Tail(s))
  BY <1>1, <1>2, <1>3 DEF Distinct
<1>5. ASSUME NEW x \in Range(s), x # Head(s) PROVE x \in Range(Tail(s))
  <2>1. PICK i \in 1 .. Len(s) : s[i] = x
    BY <1>1 DEF Range
  <2>2. i # 1 /\ i - 1 \in 1 .. Len(s) - 1
    BY <1>1, <1>5, <2>1
  <2>3. Tail(s)[i - 1] = x
    BY <1>1, <1>2, <2>1, <2>2
  <2> QED
    BY <1>3, <2>2, <2>3 DEF Range
<1>6. ASSUME NEW x \in Range(Tail(s)) PROVE x \in Range(s) /\ x # Head(s)
  <2>1. PICK i \in 1 .. Len(s) - 1 : Tail(s)[i] = x
    BY <1>3 DEF Range
  <2>2. i + 1 \in 1 .. Len(s) /\ s[i + 1] = x /\ 1 \in 1 .. Len(s) /\ i + 1 # 1
    BY <1>1, <1>2, <2>1
  <2> QED
    BY <1>1, <2>2 DEF Range, Distinct
<1>7. Head(s) \in Range(s)
  BY <1>1 DEF Range
<1> QED
  BY <1>2, <1>4, <1>5, <1>6, <1>7

(* Putting something new before it keeps it such a list (lines 83-84). *)
LEMMA PutFirst ==
  ASSUME NEW S, NEW s \in Seq(S), NEW x \in S, x \notin Range(s), Distinct(s)
  PROVE  /\ <<x>> \o s \in Seq(S)
         /\ Distinct(<<x>> \o s)
         /\ Range(<<x>> \o s) = Range(s) \cup {x}
<1> DEFINE t == <<x>> \o s
<1>1. /\ Len(s) \in Nat
      /\ DOMAIN s = 1 .. Len(s)
  BY LenProperties
<1>2. /\ <<x>> \in Seq(S)
      /\ Len(<<x>>) = 1
      /\ <<x>>[1] = x
  OBVIOUS
<1>3. /\ t \in Seq(S)
      /\ Len(t) = 1 + Len(s)
      /\ \A i \in 1 .. 1 + Len(s) : t[i] = IF i <= 1 THEN <<x>>[i] ELSE s[i - 1]
  BY <1>2, ConcatProperties
<1>4. DOMAIN t = 1 .. 1 + Len(s)
  BY <1>3, LenProperties
<1> HIDE DEF t
<1>5. 1 \in 1 .. 1 + Len(s) /\ t[1] = x
  BY <1>1, <1>2, <1>3
<1>6. \A i \in 2 .. 1 + Len(s) : i - 1 \in 1 .. Len(s) /\ t[i] = s[i - 1]
  BY <1>1, <1>3
<1>7. \A i \in 2 .. 1 + Len(s) : t[i] # x
  BY <1>1, <1>6 DEF Range
<1>8. Distinct(t)
  <2> SUFFICES ASSUME NEW i \in 1 .. 1 + Len(s), NEW j \in 1 .. 1 + Len(s), t[i] = t[j]
               PROVE  i = j
    BY <1>4 DEF Distinct
  <2>1. CASE i = 1 \/ j = 1
    BY <1>1, <1>5, <1>7, <2>1
  <2>2. CASE i # 1 /\ j # 1
    <3>1. i \in 2 .. 1 + Len(s) /\ j \in 2 .. 1 + Len(s)
      BY <1>1, <2>2
    <3>2. s[i - 1] = s[j - 1] /\ i - 1 \in DOMAIN s /\ j - 1 \in DOMAIN s
      BY <1>1, <1>6, <3>1
    <3>3. i - 1 = j - 1
      BY <3>2 DEF Distinct
    <3> QED
      BY <3>3
  <2> QED
    BY <2>1, <2>2
<1>9. ASSUME NEW y \in Range(s) PROVE y \in Range(t)
  <2>1. PICK i \in 1 .. Len(s) : s[i] = y
    BY <1>1 DEF Range
  <2>2. i + 1 \in 2 .. 1 + Len(s) /\ i + 1 \in 1 .. 1 + Len(s) /\ (i + 1) - 1 = i
    BY <1>1
  <2>3. t[i + 1] = y
    BY <1>6, <2>1, <2>2
  <2> QED
    BY <1>4, <2>2, <2>3 DEF Range
<1>10. ASSUME NEW y \in Range(t), y # x PROVE y \in Range(s)
  <2>1. PICK i \in 1 .. 1 + Len(s) : t[i] = y
    BY <1>4 DEF Range
  <2>2. i \in 2 .. 1 + Len(s)
    BY <1>1, <1>5, <1>10, <2>1
  <2> QED
    BY <1>1, <1>6, <2>1, <2>2 DEF Range
<1>11. x \in Range(t)
  BY <1>4, <1>5 DEF Range
<1> QED
  BY <1>3, <1>8, <1>9, <1>10, <1>11 DEF t
-------------------------------------------------------------------------------
(* The calls under way.                                                     *)
Calls == [call : {"allocate", "deallocate"}, slot : Slots]

SlotsDiffer == \A i, j \in DOMAIN stack : stack[i].slot = stack[j].slot => i = j

(* A call begins with a slot no other call has. *)
LEMMA CallBegins ==
  ASSUME stack \in Seq(Calls), SlotsDiffer,
         NEW c \in Calls, c.slot \notin Worked,
         stack' = Append(stack, c)
  PROVE  /\ stack' \in Seq(Calls)
         /\ SlotsDiffer'
         /\ Worked' = Worked \cup {c.slot}
<1>1. /\ Len(stack) \in Nat
      /\ DOMAIN stack = 1 .. Len(stack)
  BY LenProperties
<1>2. /\ stack' \in Seq(Calls)
      /\ Len(stack') = Len(stack) + 1
      /\ \A i \in 1 .. Len(stack) : stack'[i] = stack[i]
      /\ stack'[Len(stack) + 1] = c
  BY <1>1, AppendProperties
<1>3. DOMAIN stack' = 1 .. Len(stack) + 1
  BY <1>2, LenProperties
<1>4. \A i \in 1 .. Len(stack) : stack'[i].slot # c.slot
  BY <1>1, <1>2 DEF Worked
<1>5. SlotsDiffer'
  BY <1>1, <1>2, <1>3, <1>4 DEF SlotsDiffer
<1>6. Worked' = Worked \cup {c.slot}
  <2>1. ASSUME NEW x \in Worked' PROVE x \in Worked \cup {c.slot}
    <3>1. PICK i \in 1 .. Len(stack) + 1 : stack'[i].slot = x
      BY <1>3 DEF Worked
    <3> QED
      BY <1>1, <1>2, <3>1 DEF Worked
  <2>2. ASSUME NEW x \in Worked PROVE x \in Worked'
    <3>1. PICK i \in 1 .. Len(stack) : stack[i].slot = x
      BY <1>1 DEF Worked
    <3>2. i \in DOMAIN stack' /\ stack'[i].slot = x
      BY <1>1, <1>2, <1>3, <3>1
    <3> QED
      BY <3>2 DEF Worked
  <2>3. c.slot \in Worked'
    <3>1. Len(stack) + 1 \in DOMAIN stack'
      BY <1>1, <1>3
    <3> QED
      BY <1>2, <3>1 DEF Worked
  <2> QED
    BY <2>1, <2>2, <2>3
<1> QED
  BY <1>2, <1>5, <1>6

(* The innermost call ends, and its slot is in no other call's hands. *)
LEMMA CallEnds ==
  ASSUME stack \in Seq(Calls), SlotsDiffer, stack # << >>,
         stack' = Front(stack)
  PROVE  /\ Last(stack) \in Calls
         /\ Last(stack).slot \in Worked
         /\ stack' \in Seq(Calls)
         /\ SlotsDiffer'
         /\ Worked' = Worked \ {Last(stack).slot}
<1> DEFINE n == Len(stack)
           c == stack[n]
<1>1. n \in Nat \ {0} /\ DOMAIN stack = 1 .. n
  BY EmptySeq, LenProperties
<1>2. Last(stack) = c /\ stack' = SubSeq(stack, 1, n - 1)
  BY DEF Last, Front
<1>3. n \in 1 .. n /\ c \in Calls
  BY <1>1, ElementOfSeq
<1>4. \A i \in 1 .. n - 1 : stack[i] \in Calls
  BY <1>1, ElementOfSeq
<1>5. /\ stack' \in Seq(Calls)
      /\ Len(stack') = IF 1 <= n - 1 THEN (n - 1) - 1 + 1 ELSE 0
      /\ \A i \in 1 .. (n - 1) - 1 + 1 : stack'[i] = stack[1 + i - 1]
  <2>1. 1 \in Int /\ n - 1 \in Int
    BY <1>1
  <2> HIDE DEF n
  <2> QED
    BY <1>2, <1>4, <2>1, SubSeqProperties
<1> HIDE DEF n
<1>6. Len(stack') = n - 1 /\ \A i \in 1 .. n - 1 : stack'[i] = stack[i]
  BY <1>1, <1>5
<1>7. DOMAIN stack' = 1 .. n - 1
  BY <1>5, <1>6, LenProperties
<1>8. SlotsDiffer'
  BY <1>1, <1>6, <1>7 DEF SlotsDiffer
<1>9. c.slot \in Worked
  BY <1>1, <1>3 DEF Worked
<1>10. Worked' = Worked \ {c.slot}
  <2>1. ASSUME NEW x \in Worked' PROVE x \in Worked /\ x # c.slot
    <3>1. PICK i \in 1 .. n - 1 : stack'[i].slot = x
      BY <1>7 DEF Worked
    <3>2. i \in 1 .. n /\ i # n /\ stack[i].slot = x
      BY <1>1, <1>6, <3>1
    <3> QED
      BY <1>1, <1>3, <3>2 DEF Worked, SlotsDiffer
  <2>2. ASSUME NEW x \in Worked, x # c.slot PROVE x \in Worked'
    <3>1. PICK i \in 1 .. n : stack[i].slot = x
      BY <1>1 DEF Worked
    <3>2. i \in 1 .. n - 1
      BY <1>1, <2>2, <3>1
    <3> QED
      BY <1>6, <1>7, <3>1, <3>2 DEF Worked
  <2> QED
    BY <2>1, <2>2
<1> QED
  BY <1>2, <1>3, <1>5, <1>8, <1>9, <1>10
-------------------------------------------------------------------------------
(* Slots that chunks numbered 1 to n have. *)
SlotsOf(n) == 1 .. ChunkSize * n

(* allocate_chunk links all slots of the chunk, each once, and none of        *)
(* another chunk (lines 41-45).                                               *)
LEMMA ChunkLinked ==
  ASSUME NEW n \in 0 .. MaxChunks - 1
  PROVE  /\ Chunk(n + 1) \in Seq(Slots)
         /\ Chunk(n + 1) # << >>
         /\ Distinct(Chunk(n + 1))
         /\ Range(Chunk(n + 1)) \cap SlotsOf(n) = {}
         /\ Range(Chunk(n + 1)) \cup SlotsOf(n) = SlotsOf(n + 1)
<1> DEFINE base == n * ChunkSize
           all == MaxChunks * ChunkSize
           s == Chunk(n + 1)
<1>1. ChunkSize \in Nat \ {0} /\ MaxChunks \in Nat \ {0} /\ n \in Nat
  BY PoolAssumption DEF PoolAssumption
<1>2. base \in Nat /\ all \in Nat /\ base + ChunkSize <= all
  <2>1. PICK rest \in Nat : MaxChunks = n + 1 + rest
    <3>1. MaxChunks - n - 1 \in Nat /\ MaxChunks = n + 1 + (MaxChunks - n - 1)
      BY <1>1
    <3> QED
      BY <3>1
  <2>2. rest * ChunkSize \in Nat /\ n * ChunkSize \in Nat
    BY <1>1, <2>1
  <2>3. (n + 1 + rest) * ChunkSize = n * ChunkSize + ChunkSize + rest * ChunkSize
    BY <1>1, <2>1
  <2> QED
    BY <1>1, <2>1, <2>2, <2>3
<1>3. /\ SlotsOf(n) = 1 .. base
      /\ SlotsOf(n + 1) = 1 .. base + ChunkSize
  <2>1. ChunkSize * n = base /\ ChunkSize * (n + 1) = base + ChunkSize
    BY <1>1
  <2> QED
    BY <2>1 DEF SlotsOf
<1>4. s = [i \in 1 .. ChunkSize |-> base + i]
  <2>1. (n + 1) - 1 = n
    BY <1>1
  <2> QED
    BY <2>1 DEF Chunk
<1>5. Slots = 1 .. all
  BY DEF Slots
<1> HIDE DEF base, all, s
<1>6. DOMAIN s = 1 .. ChunkSize /\ \A i \in 1 .. ChunkSize : s[i] = base + i
  BY <1>4
<1>7. \A i \in 1 .. ChunkSize : base + i \in Slots
  BY <1>1, <1>2, <1>5
<1>8. s \in Seq(Slots) /\ Len(s) = ChunkSize
  <2>1. s \in [1 .. ChunkSize -> Slots]
    BY <1>4, <1>7
  <2> QED
    BY <1>1, <2>1
<1>9. s # << >>
  BY <1>1, <1>8
<1>10. Distinct(s)
  BY <1>1, <1>2, <1>6 DEF Distinct
<1>11. Range(s) = base + 1 .. base + ChunkSize
  <2>1. ASSUME NEW x \in Range(s) PROVE x \in base + 1 .. base + ChunkSize
    BY <1>1, <1>2, <1>6 DEF Range
  <2>2. ASSUME NEW x \in base + 1 .. base + ChunkSize PROVE x \in Range(s)
    <3>1. x - base \in 1 .. ChunkSize /\ base + (x - base) = x
      BY <1>1, <1>2
    <3>2. s[x - base] = x
      BY <1>6, <3>1
    <3> QED
      BY <1>6, <3>1, <3>2 DEF Range
  <2> QED
    BY <2>1, <2>2
<1>12. Range(s) \cap SlotsOf(n) = {}
  BY <1>1, <1>2, <1>3, <1>11
<1>13. Range(s) \cup SlotsOf(n) = SlotsOf(n + 1)
  BY <1>1, <1>2, <1>3, <1>11
<1> QED
  BY <1>8, <1>9, <1>10, <1>12, <1>13 DEF s

(* The list allocate takes its slot from: what was free, or a new chunk. *)
LEMMA AvailableList ==
  ASSUME Owned, Exhausted => chunks < MaxChunks,
         NEW total, total = IF Exhausted THEN chunks + 1 ELSE chunks
  PROVE  /\ Available \in Seq(Slots)
         /\ Available # << >>
         /\ Distinct(Available)
         /\ Range(Available) \cap (Worked \cup live \cup lost) = {}
         /\ Range(Available) \cup Worked \cup live \cup lost = SlotsOf(total)
<1>1. CASE ~ Exhausted
  <2>1. Available = free_list /\ total = chunks
    BY <1>1 DEF Available
  <2> QED
    BY <1>1, <2>1 DEF Exhausted, Owned, TypeOK, OneOwner, Distinct, Free, SlotsOf
<1>2. CASE Exhausted
  <2>1. chunks \in 0 .. MaxChunks - 1
    BY <1>2, PoolAssumption DEF PoolAssumption, Owned, TypeOK
  <2>2. free_list = << >> /\ total = chunks + 1
    BY <1>2 DEF Exhausted
  <2>3. Available = Chunk(chunks + 1)
    <3>1. Chunk(chunks + 1) \o << >> = Chunk(chunks + 1)
      BY <2>1, ChunkLinked, ConcatEmptySeq
    <3> QED
      BY <1>2, <2>2, <3>1 DEF Available
  <2>4. Free = {}
    BY <2>2 DEF Free, Range
  <2>5. Worked \cup live \cup lost = SlotsOf(chunks)
    BY <2>4 DEF Owned, OneOwner, SlotsOf
  <2> QED
    BY <2>1, <2>2, <2>3, <2>5, ChunkLinked
<1> QED
  BY <1>1, <1>2
-------------------------------------------------------------------------------
(* A pool that has just been made: one chunk, all of it free (line 50). *)
LEMMA InitOwned == Init => Owned
<1> SUFFICES ASSUME Init PROVE Owned
  OBVIOUS
<1>1. 0 \in 0 .. MaxChunks - 1 /\ 1 \in 0 .. MaxChunks /\ 0 + 1 = 1
  BY PoolAssumption DEF PoolAssumption
<1>2. /\ free_list = Chunk(1)
      /\ chunks = 1
      /\ stack = << >>
      /\ live = {} /\ lost = {} /\ allocated_count = 0
  BY DEF Init
<1>3. /\ free_list \in Seq(Slots)
      /\ Distinct(free_list)
      /\ Free \cup SlotsOf(0) = SlotsOf(1)
  BY <1>1, <1>2, ChunkLinked DEF Free
<1>4. SlotsOf(0) = {}
  BY PoolAssumption DEF PoolAssumption, SlotsOf
<1>5. Worked = {} /\ stack \in Seq(Calls) /\ DOMAIN stack = {}
  BY <1>2, EmptySeq DEF Worked
<1>6. TypeOK
  BY <1>1, <1>2, <1>3, <1>5 DEF TypeOK, Calls
<1>7. OneOwner
  BY <1>2, <1>3, <1>4, <1>5 DEF OneOwner, Distinct, SlotsOf
<1> QED
  BY <1>6, <1>7 DEF Owned

(* Each call, and each end of one, keeps every slot with one owner. *)
LEMMA StepOwned == Owned /\ [Next]_vars => Owned'
<1> SUFFICES ASSUME Owned, [Next]_vars PROVE Owned'
  OBVIOUS
<1>1. /\ TypeOK
      /\ free_list \in Seq(Slots) /\ Distinct(free_list)
      /\ stack \in Seq(Calls) /\ SlotsDiffer
      /\ Free \cap Worked = {}
      /\ live \cap (Free \cup Worked) = {}
      /\ lost \cap (Free \cup Worked \cup live) = {}
      /\ Free \cup Worked \cup live \cup lost = SlotsOf(chunks)
  BY DEF Owned, TypeOK, OneOwner, Distinct, SlotsDiffer, Calls, SlotsOf
<1>2. CASE AllocateBegin
  <2> DEFINE slot == Head(Available)
             c == [call |-> "allocate", slot |-> slot]
  <2>1. /\ Available \in Seq(Slots)
        /\ Available # << >>
        /\ Distinct(Available)
        /\ Range(Available) \cap (Worked \cup live \cup lost) = {}
        /\ Range(Available) \cup Worked \cup live \cup lost = SlotsOf(chunks')
    BY <1>2, AvailableList DEF AllocateBegin
  <2>2. slot \in Slots /\ slot \in Range(Available) /\ c \in Calls
    <3>1. Head(Available) \in Slots
      BY <2>1, HeadTailProperties
    <3> QED
      BY <2>1, <3>1, TakeFirst DEF Calls
  <2>3. /\ free_list' \in Seq(Slots)
        /\ Distinct(free_list')
        /\ Range(free_list') = Range(Available) \ {slot}
    BY <1>2, <2>1, TakeFirst DEF AllocateBegin
  <2>4. stack' = Append(stack, c) /\ live' = live /\ lost' = lost
    BY <1>2 DEF AllocateBegin
  <2>5. c.slot = slot
    OBVIOUS
  <2> HIDE DEF c, slot
  <2>6. stack' \in Seq(Calls) /\ SlotsDiffer' /\ Worked' = Worked \cup {slot}
    BY <1>1, <2>1, <2>2, <2>4, <2>5, CallBegins
  <2>7. chunks' \in 0 .. MaxChunks /\ allocated_count' \in Int
    BY <1>1, <1>2, PoolAssumption DEF AllocateBegin, TypeOK, PoolAssumption
  <2>9. TypeOK'
    BY <1>1, <2>3, <2>4, <2>6, <2>7 DEF TypeOK, Calls
  <2>10. OneOwner'
    BY <1>1, <2>1, <2>2, <2>3, <2>4, <2>6 DEF OneOwner, Distinct, SlotsDiffer, Free, SlotsOf
  <2> QED
    BY <2>9, <2>10 DEF Owned
<1>3. CASE AllocateEnd \/ AllocateThrow
  <2>1. /\ stack # << >> /\ stack' = Front(stack)
        /\ free_list' = free_list /\ chunks' = chunks
        /\ allocated_count' = allocated_count
        /\ \/ live' = live \cup {Last(stack).slot} /\ lost' = lost
           \/ live' = live /\ lost' = lost \cup {Last(stack).slot}
    BY <1>3 DEF AllocateEnd, AllocateThrow, Innermost
  <2>2. /\ Last(stack) \in Calls
        /\ Last(stack).slot \in Worked
        /\ stack' \in Seq(Calls)
        /\ SlotsDiffer'
        /\ Worked' = Worked \ {Last(stack).slot}
    BY <1>1, <2>1, CallEnds
  <2>3. Last(stack).slot \in Slots /\ Free' = Free /\ SlotsOf(chunks') = SlotsOf(chunks)
    BY <2>1, <2>2 DEF Calls, Free
  <2>4. TypeOK'
    BY <1>1, <2>1, <2>2, <2>3 DEF TypeOK, Calls
  <2>5. OneOwner'
    BY <1>1, <2>1, <2>2, <2>3 DEF OneOwner, Distinct, SlotsDiffer, SlotsOf
  <2> QED
    BY <2>4, <2>5 DEF Owned
<1>4. ASSUME NEW slot \in Slots, DeallocateBegin(slot) PROVE Owned'
  <2> DEFINE c == [call |-> "deallocate", slot |-> slot]
  <2>1. /\ slot \in live /\ live' = live \ {slot}
        /\ stack' = Append(stack, c)
        /\ free_list' = free_list /\ chunks' = chunks /\ lost' = lost
        /\ allocated_count' = allocated_count
    BY <1>4 DEF DeallocateBegin
  <2>2. c \in Calls /\ c.slot = slot
    BY DEF Calls
  <2> HIDE DEF c
  <2>3. stack' \in Seq(Calls) /\ SlotsDiffer' /\ Worked' = Worked \cup {slot}
    BY <1>1, <2>1, <2>2, CallBegins
  <2>4. Free' = Free
    BY <2>1 DEF Free
  <2>5. TypeOK'
    BY <1>1, <2>1, <2>3 DEF TypeOK, Calls
  <2>6. OneOwner'
    BY <1>1, <2>1, <2>3, <2>4 DEF OneOwner, Distinct, SlotsDiffer, SlotsOf
  <2> QED
    BY <2>5, <2>6 DEF Owned
<1>5. CASE DeallocateEnd
  <2> DEFINE slot == Last(stack).slot
  <2>1. /\ stack # << >> /\ stack' = Front(stack)
        /\ free_list' = <<slot>> \o free_list
        /\ chunks' = chunks /\ live' = live /\ lost' = lost
        /\ allocated_count' = allocated_count - 1
    BY <1>5 DEF DeallocateEnd, Innermost
  <2>2. /\ slot \in Slots
        /\ slot \in Worked
        /\ stack' \in Seq(Calls)
        /\ SlotsDiffer'
        /\ Worked' = Worked \ {slot}
    BY <1>1, <2>1, CallEnds DEF Calls
  <2>3. slot \notin Range(free_list)
    BY <1>1, <2>2 DEF Free
  <2>4. /\ free_list' \in Seq(Slots)
        /\ Distinct(free_list')
        /\ Free' = Free \cup {slot}
    <3> HIDE DEF slot
    <3> QED
      BY <1>1, <2>1, <2>2, <2>3, PutFirst DEF Free
  <2> HIDE DEF slot
  <2>5. TypeOK'
    BY <1>1, <2>1, <2>2, <2>4 DEF TypeOK, Calls
  <2>6. OneOwner'
    BY <1>1, <2>1, <2>2, <2>4 DEF OneOwner, Distinct, SlotsDiffer, SlotsOf
  <2> QED
    BY <2>5, <2>6 DEF Owned
<1>6. CASE Destroy
  <2>1. /\ stack = << >> /\ stack' = << >> /\ free_list' = << >>
        /\ chunks' = 0 /\ live' = {} /\ lost' = {}
        /\ allocated_count' = allocated_count
    BY <1>6 DEF Destroy
  <2>2. 0 \in 0 .. MaxChunks /\ ChunkSize * 0 = 0
    BY PoolAssumption DEF PoolAssumption
  <2>3. Free' = {} /\ Worked' = {} /\ DOMAIN stack' = {} /\ DOMAIN free_list' = {}
    BY <2>1 DEF Free, Worked, Range
  <2>4. TypeOK'
    BY <1>1, <2>1, <2>2 DEF TypeOK
  <2>5. OneOwner'
    BY <2>1, <2>2, <2>3 DEF OneOwner
  <2> QED
    BY <2>4, <2>5 DEF Owned
<1>7. CASE UNCHANGED vars
  BY <1>7 DEF vars, Owned, TypeOK, OneOwner, Free, Worked
<1> QED
  BY <1>2, <1>3, <1>4, <1>5, <1>6, <1>7 DEF Next

(* No slot is handed out twice, freed twice or forgotten but by a constructor *)
(* that throws, whatever constructors and destructors do with the pool.       *)
THEOREM SlotsHaveOneOwner == Spec => []OneOwner
<1>1. Owned => OneOwner
  BY DEF Owned
<1> QED
  BY InitOwned, StepOwned, <1>1, PTL DEF Spec

(* Every variable keeps its type. *)
THEOREM PoolTypes == Spec => []TypeOK
<1>1. Owned => TypeOK
  BY DEF Owned
<1> QED
  BY InitOwned, StepOwned, <1>1, PTL DEF Spec
-------------------------------------------------------------------------------
(* The count needs to know that a slot has one owner, so that no set it adds  *)
(* up gains what it already has, and that a destroyed pool is used no more.   *)
Counted ==
  /\ Owned
  /\ CountOfObjects
  /\ chunks = 0 => stack = << >> /\ live = {}

\* There are as many slots as the chunks have: the sets of them are finite.
LEMMA SlotsFinite ==
  ASSUME NEW S, S \subseteq Slots
  PROVE  /\ IsFiniteSet(S)
         /\ Cardinality(S) \in Nat
<1>1. MaxChunks * ChunkSize \in Int
  BY PoolAssumption DEF PoolAssumption
<1>2. IsFiniteSet(Slots)
  BY <1>1, FS_Interval DEF Slots
<1>3. IsFiniteSet(S)
  BY <1>2, FS_Subset
<1> QED
  BY <1>3, FS_CardinalityType

(* Each step counts what it does to the objects, the calls and the lost slots. *)
LEMMA StepCounted == Counted /\ [Next]_vars => Counted'
<1> SUFFICES ASSUME Counted, [Next]_vars PROVE Counted'
  OBVIOUS
<1> DEFINE a == Cardinality(live)
           b == Cardinality(lost)
           n == Len(stack)
           aa == Cardinality(live')
           bb == Cardinality(lost')
           nn == Len(stack')
<1>1. Owned'
  BY StepOwned DEF Counted
<1>2. /\ stack \in Seq(Calls)
      /\ live \subseteq Slots /\ lost \subseteq Slots
      /\ chunks \in Nat /\ chunks' \in Nat /\ allocated_count \in Int
      /\ chunks = 0 => stack = << >> /\ live = {}
  BY <1>1, PoolAssumption DEF PoolAssumption, Counted, Owned, TypeOK, Calls
<1>3. /\ IsFiniteSet(live) /\ a \in Nat
      /\ IsFiniteSet(lost) /\ b \in Nat
      /\ n \in Nat
  BY <1>2, SlotsFinite, LenProperties
<1>4. chunks > 0 => allocated_count = a + n + b
  BY DEF Counted, CountOfObjects
<1>5. (chunks' > 0 => allocated_count' = aa + nn + bb) /\ chunks' > 0 => Counted'
  BY <1>1, <1>2 DEF Counted, CountOfObjects
<1>6. stack # << >> => n \in Nat \ {0} /\ chunks > 0
  BY <1>2, EmptySeq
<1>7. stack # << >> => Last(stack).slot \notin live \cup lost
  <2> SUFFICES ASSUME stack # << >> PROVE Last(stack).slot \notin live \cup lost
    OBVIOUS
  <2>1. Len(stack) \in DOMAIN stack
    BY <1>2, EmptySeq, LenProperties
  <2>2. Last(stack).slot \in Worked
    BY <2>1 DEF Worked, Last
  <2> QED
    BY <2>2 DEF Counted, Owned, OneOwner
<1>8. stack # << >> /\ stack' = Front(stack) => nn = n - 1
  <2> SUFFICES ASSUME stack # << >>, stack' = Front(stack) PROVE nn = n - 1
    OBVIOUS
  <2>1. stack' = SubSeq(stack, 1, n - 1) /\ \A i \in 1 .. n - 1 : stack[i] \in Calls
    BY <1>2, <1>3, ElementOfSeq DEF Front
  <2>2. 1 \in Int /\ n - 1 \in Int /\ n \in Nat \ {0}
    BY <1>3, <1>6
  <2> HIDE DEF n
  <2>3. nn = IF 1 <= n - 1 THEN (n - 1) - 1 + 1 ELSE 0
    BY <2>1, <2>2, SubSeqProperties
  <2> QED
    BY <2>2, <2>3
<1>9. CASE AllocateBegin
  <2>1. /\ chunks > 0 /\ chunks' \in {chunks, chunks + 1}
        /\ allocated_count' = allocated_count + 1
        /\ stack' = Append(stack, [call |-> "allocate", slot |-> Head(Available)])
    BY <1>9 DEF AllocateBegin
  <2>2. nn = n + 1 /\ aa = a /\ bb = b
    BY <1>2, <1>9, <2>1 DEF AllocateBegin
  <2> HIDE DEF a, b, n, aa, bb, nn
  <2> QED
    BY <1>2, <1>3, <1>4, <1>5, <2>1, <2>2
<1>10. CASE AllocateEnd
  <2>1. /\ stack # << >> /\ stack' = Front(stack)
        /\ chunks' = chunks /\ allocated_count' = allocated_count
        /\ live' = live \cup {Last(stack).slot} /\ lost' = lost
    BY <1>10 DEF AllocateEnd, Innermost
  <2>2. aa = a + 1 /\ bb = b
    BY <1>3, <1>7, <2>1, FS_AddElement
  <2> HIDE DEF a, b, n, aa, bb, nn
  <2> QED
    BY <1>3, <1>4, <1>5, <1>6, <1>8, <2>1, <2>2
<1>11. CASE AllocateThrow
  <2>1. /\ stack # << >> /\ stack' = Front(stack)
        /\ chunks' = chunks /\ allocated_count' = allocated_count
        /\ live' = live /\ lost' = lost \cup {Last(stack).slot}
    BY <1>11 DEF AllocateThrow, Innermost
  <2>2. aa = a /\ bb = b + 1
    BY <1>3, <1>7, <2>1, FS_AddElement
  <2> HIDE DEF a, b, n, aa, bb, nn
  <2> QED
    BY <1>3, <1>4, <1>5, <1>6, <1>8, <2>1, <2>2
<1>12. ASSUME NEW slot \in Slots, DeallocateBegin(slot) PROVE Counted'
  <2>1. /\ slot \in live /\ live' = live \ {slot}
        /\ stack' = Append(stack, [call |-> "deallocate", slot |-> slot])
        /\ chunks' = chunks /\ lost' = lost /\ allocated_count' = allocated_count
    BY <1>12 DEF DeallocateBegin
  <2>2. aa = a - 1 /\ bb = b /\ nn = n + 1
    <3>1. aa = a - 1 /\ bb = b
      BY <1>3, <2>1, FS_RemoveElement
    <3>2. nn = n + 1
      BY <1>2, <2>1
    <3> QED
      BY <3>1, <3>2
  <2>3. chunks > 0 /\ chunks' = chunks /\ allocated_count' = allocated_count
    BY <1>2, <2>1
  <2> HIDE DEF a, b, n, aa, bb, nn
  <2> QED
    BY <1>3, <1>4, <1>5, <2>2, <2>3
<1>13. CASE DeallocateEnd
  <2>1. /\ stack # << >> /\ stack' = Front(stack)
        /\ chunks' = chunks /\ live' = live /\ lost' = lost
        /\ allocated_count' = allocated_count - 1
    BY <1>13 DEF DeallocateEnd, Innermost
  <2>2. aa = a /\ bb = b
    BY <2>1
  <2> HIDE DEF a, b, n, aa, bb, nn
  <2> QED
    BY <1>3, <1>4, <1>5, <1>6, <1>8, <2>1, <2>2
<1>14. CASE Destroy
  <2>1. chunks' = 0 /\ stack' = << >> /\ live' = {}
    BY <1>14 DEF Destroy
  <2> QED
    BY <1>1, <2>1 DEF Counted, CountOfObjects
<1>15. CASE UNCHANGED vars
  BY <1>1, <1>15 DEF vars, Counted, CountOfObjects
<1> QED
  BY <1>9, <1>10, <1>11, <1>12, <1>13, <1>14, <1>15 DEF Next

(* allocated() is the number of objects, of calls under way and of slots lost *)
(* to constructors that threw, however calls nest.                            *)
THEOREM CountIsOfObjects == Spec => []CountOfObjects
<1>1. Init => Counted
  <2> SUFFICES ASSUME Init PROVE Counted
    OBVIOUS
  <2>1. chunks = 1 /\ stack = << >> /\ live = {} /\ lost = {} /\ allocated_count = 0
    BY DEF Init
  <2>2. Cardinality(live) = 0 /\ Cardinality(lost) = 0 /\ Len(stack) = 0
    BY <2>1, FS_EmptySet
  <2> QED
    BY <2>1, <2>2, InitOwned DEF Counted, CountOfObjects
<1>2. Counted => CountOfObjects
  BY DEF Counted
<1> QED
  BY <1>1, <1>2, StepCounted, PTL DEF Spec
===============================================================================

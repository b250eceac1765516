------------------------------ MODULE SPSCProofs -------------------------------
(***************************************************************************)
(* Proofs about SPSCQueue, for every capacity that is a power of two and   *)
(* at least 2, every set of values and any number of pushes.               *)
(*                                                                         *)
(* A ring of one slot is excluded because the queue is wrong there: the    *)
(* number a push leaves in the slot, head + 1, is then the one that tells  *)
(* the next push that the slot is free (run spsc_one_slot).                *)
(***************************************************************************)
EXTENDS SPSCQueue, SequenceTheorems, TLAPS
-------------------------------------------------------------------------------
(* Arithmetic of the slots.                                                 *)

\* What the constructor's test leaves of its argument, as far as arithmetic goes.
LEMMA CapacityNat == Capacity \in Nat \ {0}
  BY CapacityAssumption

\* The code's position & mask_ is a quotient's remainder, and never leaves the buffer.
LEMMA Division ==
  ASSUME NEW i \in Nat
  PROVE  /\ i = Capacity * (i \div Capacity) + Slot(i)
         /\ i \div Capacity \in Nat
         /\ Slot(i) \in Slots
  BY CapacityNat, SMTT(20) DEF Slot, Slots

\* A quotient and a remainder determine each other.
LEMMA UniqueRemainder ==
  ASSUME NEW q \in Int, NEW r \in Slots, NEW p \in Int, NEW s \in Slots,
         Capacity * q + r = Capacity * p + s
  PROVE  r = s
  BY CapacityNat, SMTT(20) DEF Slots

\* Line 105 hands a slot to the producer for the position Capacity further on.
LEMMA SlotRecurs ==
  ASSUME NEW i \in Nat
  PROVE  Slot(i + Capacity) = Slot(i)
<1> DEFINE q == i \div Capacity
           p == (i + Capacity) \div Capacity
<1>1. i + Capacity \in Nat
  BY CapacityNat
<1>2. i = Capacity * q + Slot(i) /\ q \in Nat /\ Slot(i) \in Slots
  BY Division
<1>3. /\ i + Capacity = Capacity * p + Slot(i + Capacity)
      /\ p \in Nat
      /\ Slot(i + Capacity) \in Slots
  BY <1>1, Division
<1> HIDE DEF q, p
<1>4. Slots \subseteq Nat
  BY CapacityNat DEF Slots
<1>5. Capacity * (q + 1) + Slot(i) = Capacity * p + Slot(i + Capacity)
  <2> DEFINE before == Capacity * q
             after == Capacity * p
  <2>1. Capacity * (q + 1) = before + Capacity /\ before \in Nat /\ after \in Nat
    BY <1>2, <1>3, CapacityNat
  <2>2. i = before + Slot(i) /\ i + Capacity = after + Slot(i + Capacity)
    BY <1>2, <1>3
  <2> HIDE DEF before, after
  <2>3. Slot(i) \in Nat /\ Slot(i + Capacity) \in Nat
    BY <1>2, <1>3, <1>4
  <2>4. before + Capacity + Slot(i) = after + Slot(i + Capacity)
    <3>1. before \in Nat /\ after \in Nat
      BY <2>1
    <3> QED BY <3>1, <2>2, <2>3, CapacityNat
  <2> QED BY <2>1, <2>4 DEF after
<1> QED BY <1>2, <1>3, <1>5, UniqueRemainder, q + 1 \in Int, p \in Int

\* Positions less than a round apart have slots of their own.
LEMMA SlotsDistinct ==
  ASSUME NEW i \in Nat, NEW j \in Nat, i < j, j < i + Capacity
  PROVE  Slot(i) # Slot(j)
<1> DEFINE q == i \div Capacity
           p == j \div Capacity
<1>1. /\ i = Capacity * q + Slot(i) /\ q \in Nat /\ Slot(i) \in Nat
      /\ j = Capacity * p + Slot(j) /\ p \in Nat /\ Slot(j) \in Nat
  <2>1. Slots \subseteq Nat
    BY CapacityNat DEF Slots
  <2> QED BY <2>1, Division
<1> HIDE DEF q, p
<1> SUFFICES ASSUME Slot(i) = Slot(j) PROVE FALSE
  OBVIOUS
<1>2. Capacity * (p - q) = j - i
  BY <1>1, CapacityNat
<1>3. p - q \in Int /\ j - i \in 1 .. Capacity - 1
  BY <1>1, CapacityNat
<1>4. \A k \in Int : Capacity * k \notin 1 .. Capacity - 1
  BY CapacityNat, SMTT(20)
<1> QED BY <1>2, <1>3, <1>4
-------------------------------------------------------------------------------
(* Type correctness.                                                        *)

\* Line 114 subtracts in uint64_t: whatever the two samples, the result is a word.
LEMMA Wraps ==
  ASSUME NEW n \in Int
  PROVE  n % WordSize \in 0 .. WordSize - 1
  BY BoundAssumption, SMTT(20)

\* Where the two histories stand, for the lemmas below to cite.
LEMMA Positions ==
  ASSUME IInv
  PROVE  /\ head \in Nat /\ tail \in Nat /\ Pushed \in Nat /\ Popped \in Nat
         /\ Popped <= Pushed /\ Pushed <= Popped + Capacity
         /\ Slot(head) \in Slots /\ Slot(tail) \in Slots
<1>1. /\ head \in Nat /\ tail \in Nat /\ Pushed \in Nat /\ Popped \in Nat
  BY DEF IInv, TypeOK, Pushed, Popped
<1> QED
  BY <1>1, Division, CapacityNat DEF IInv, FIFO

\* The constructor's queue satisfies the invariant (lines 47-50).
LEMMA Establish == Init => IInv
<1> SUFFICES ASSUME Init PROVE IInv
  OBVIOUS
<1>1. TypeOK
  BY CapacityNat, BoundAssumption DEF Init, TypeOK, Slots, Items
<1>2. Pushed = 0 /\ Popped = 0
  BY DEF Init, Pushed, Popped
<1>3. FIFO
  BY <1>2, CapacityNat DEF FIFO, InOrder
<1>4. ASSUME NEW i \in 0 .. Capacity - 1 PROVE seq[Slot(i)] = i
  <2>1. Slot(i) = i
    BY CapacityNat, SMTT(20) DEF Slot
  <2> QED BY <2>1, CapacityNat DEF Init, Slots
<1>5. Protocol
  BY <1>2, <1>4, CapacityNat DEF Init, Protocol, Unread
<1> QED BY <1>1, <1>3, <1>5 DEF IInv
-------------------------------------------------------------------------------
(* Each action preserves the invariant.                                     *)

\* Lines 64-70: a slot that carries the producer's position is free.  The test
\* can tell a full ring from one with room only if it has two slots.
LEMMA PushBeginSafe ==
  ASSUME IInv, Capacity >= 2, NEW v \in Values, PushBegin(v)
  PROVE  IInv'
<1> USE DEF PushBegin, producerVars, consumerVars, monitorVars
<1>1. TypeOK'
  BY DEF IInv, TypeOK, Items
<1>2. FIFO'
  BY DEF IInv, FIFO, InOrder, Pushed, Popped
<1>3. head < Popped + Capacity
  <2> SUFFICES ASSUME head = Popped + Capacity PROVE FALSE
    BY Positions, CapacityNat DEF IInv, Protocol
  <2>1. Popped \in Unread
    BY Positions, CapacityNat DEF IInv, Protocol, Unread
  <2>2. seq[Slot(Popped)] = Popped + 1
    BY <2>1 DEF IInv, Protocol
  <2>3. Slot(head) = Slot(Popped)
    BY SlotRecurs, Positions
  <2> QED BY <2>2, <2>3, Positions, CapacityNat
<1>4. Protocol'
  BY <1>3 DEF IInv, Protocol, Unread, Pushed, Popped
<1> QED BY <1>1, <1>2, <1>4 DEF IInv

\* Line 72: the slot written is none of the unread ones.
LEMMA PushWriteSafe ==
  ASSUME IInv, PushWrite
  PROVE  IInv'
<1> USE DEF PushWrite, producerVars, consumerVars, monitorVars
<1>1. TypeOK'
  BY DEF IInv, TypeOK
<1>2. FIFO'
  BY DEF IInv, FIFO, InOrder, Pushed, Popped
<1>3. head = Pushed /\ head < Popped + Capacity
  BY DEF IInv, Protocol
<1>4. ASSUME NEW i \in Unread PROVE data'[Slot(i)] = data[Slot(i)]
  <2>1. i \in Nat /\ i < head /\ head < i + Capacity
    BY <1>3, Positions, CapacityNat DEF Unread
  <2>2. Slot(i) # Slot(head)
    BY <2>1, SlotsDistinct, Positions
  <2> QED BY <2>1, <2>2, Division, Positions DEF IInv, TypeOK
<1>5. data'[Slot(head)] = item
  BY Positions DEF IInv, TypeOK
<1>6. Protocol'
  BY <1>4, <1>5 DEF IInv, Protocol, Unread, Pushed, Popped
<1> QED BY <1>1, <1>2, <1>6 DEF IInv

\* Line 73: the slot written becomes the newest unread one.
LEMMA PushPublishSafe ==
  ASSUME IInv, PushPublish
  PROVE  IInv'
<1> USE DEF PushPublish, producerVars, consumerVars, monitorVars
<1>1. head = Pushed /\ head < Popped + Capacity /\ item \in Values
  BY DEF IInv, Protocol
<1>2. TypeOK'
  BY <1>1, Positions DEF IInv, TypeOK
<1>3. /\ Pushed' = head + 1 /\ Popped' = Popped
      /\ sent'[head + 1] = item
      /\ \A i \in 1 .. head : sent'[i] = sent[i]
  BY <1>1 DEF IInv, TypeOK, Pushed, Popped
<1>4. FIFO'
  <2>1. Popped' \in Pushed' - Capacity .. Pushed'
    BY <1>1, <1>3, Positions, CapacityNat
  <2>2. ASSUME NEW i \in 1 .. Popped PROVE received'[i] = sent'[i]
    <3>1. i \in 1 .. head /\ received[i] = sent[i]
      BY <1>1, Positions DEF IInv, FIFO, InOrder
    <3> QED BY <3>1, <1>3
  <2> QED BY <2>1, <2>2, <1>3 DEF FIFO, InOrder
<1>5. seq'[Slot(head)] = head + 1
  BY Positions DEF IInv, TypeOK
<1>6. ASSUME NEW i \in Nat, i # head, i < head + Capacity, head < i + Capacity
      PROVE  seq'[Slot(i)] = seq[Slot(i)]
  <2>1. Slot(i) # Slot(head)
    BY <1>6, SlotsDistinct, Positions
  <2> QED BY <2>1, Division, Positions DEF IInv, TypeOK
<1>7. ASSUME NEW i \in Popped .. head
      PROVE  seq'[Slot(i)] = i + 1 /\ data'[Slot(i)] = sent'[i + 1]
  <2>1. CASE i = head
    BY <2>1, <1>3, <1>5 DEF IInv, Protocol
  <2>2. CASE i # head
    <3>1. i \in Unread /\ i \in Nat /\ i + 1 \in 1 .. head
      BY <2>2, <1>1, Positions DEF Unread
    <3>2. seq'[Slot(i)] = seq[Slot(i)]
      BY <2>2, <3>1, <1>1, <1>6, Positions, CapacityNat
    <3> QED BY <3>1, <3>2, <1>3 DEF IInv, Protocol
  <2> QED BY <2>1, <2>2
<1>8. ASSUME NEW i \in head + 1 .. Popped + Capacity - 1
      PROVE  seq'[Slot(i)] = i
  <2>1. i \in Nat /\ i \in Pushed .. Popped + Capacity - 1
    BY <1>1, Positions, CapacityNat
  <2>2. seq'[Slot(i)] = seq[Slot(i)]
    BY <2>1, <1>1, <1>6, Positions, CapacityNat
  <2> QED BY <2>1, <2>2 DEF IInv, Protocol
<1>9. cpc = "free" => result = sent'[tail + 1]
  <2> SUFFICES ASSUME cpc = "free" PROVE result = sent'[tail + 1]
    OBVIOUS
  <2>1. tail < Pushed /\ result = sent[tail + 1]
    BY DEF IInv, Protocol
  <2>2. tail + 1 \in 1 .. head
    BY <2>1, <1>1, Positions
  <2> QED BY <2>1, <2>2, <1>3
<1>10. Protocol'
  <2>1. Unread' = Popped .. head
    BY <1>3, Positions DEF Unread
  <2>2. /\ Pushed' = (IF ppc' = "advance" THEN head' + 1 ELSE head')
        /\ Popped' = (IF cpc' = "advance" THEN tail' + 1 ELSE tail')
    BY <1>3 DEF IInv, Protocol
  <2>3. cpc' \in {"read", "free"} => tail' < Pushed'
    BY <1>1, <1>3, Positions DEF IInv, Protocol
  <2>4. \A i \in Unread' : seq'[Slot(i)] = i + 1 /\ data'[Slot(i)] = sent'[i + 1]
    BY <2>1, <1>7
  <2>5. \A i \in Pushed' .. Popped' + Capacity - 1 : seq'[Slot(i)] = i
    BY <1>3, <1>8
  <2> QED BY <2>2, <2>3, <2>4, <2>5, <1>9 DEF Protocol
<1> QED BY <1>2, <1>4, <1>10 DEF IInv

\* Line 74: the counter catches up with the slot.
LEMMA PushAdvanceSafe ==
  ASSUME IInv, PushAdvance
  PROVE  IInv'
<1> USE DEF PushAdvance, consumerVars, monitorVars
<1>1. TypeOK'
  BY DEF IInv, TypeOK
<1>2. FIFO'
  BY DEF IInv, FIFO, InOrder, Pushed, Popped
<1>3. Protocol'
  BY DEF IInv, Protocol, Unread, Pushed, Popped
<1> QED BY <1>1, <1>2, <1>3 DEF IInv

\* Lines 96-102: a slot that carries the number after the consumer's position
\* holds an unread item.
LEMMA PopBeginSafe ==
  ASSUME IInv, PopBegin
  PROVE  IInv'
<1> USE DEF PopBegin, producerVars, monitorVars
<1>1. TypeOK'
  BY DEF IInv, TypeOK
<1>2. FIFO'
  BY DEF IInv, FIFO, InOrder, Pushed, Popped
<1>3. tail < Pushed
  <2> SUFFICES ASSUME tail = Pushed PROVE FALSE
    BY Positions DEF IInv, Protocol
  <2>1. tail \in Pushed .. Popped + Capacity - 1
    BY Positions, CapacityNat DEF IInv, Protocol
  <2> QED BY <2>1, Positions DEF IInv, Protocol
<1>4. Protocol'
  BY <1>3 DEF IInv, Protocol, Unread, Pushed, Popped
<1> QED BY <1>1, <1>2, <1>4 DEF IInv

\* Line 104: the item read is the oldest unread one.
LEMMA PopReadSafe ==
  ASSUME IInv, PopRead
  PROVE  IInv'
<1> USE DEF PopRead, producerVars, monitorVars
<1>1. TypeOK'
  BY Positions DEF IInv, TypeOK
<1>2. FIFO'
  BY DEF IInv, FIFO, InOrder, Pushed, Popped
<1>3. tail \in Unread
  BY Positions DEF IInv, Protocol, Unread
<1>4. result' = sent[tail + 1]
  BY <1>3 DEF IInv, Protocol
<1>5. Protocol'
  BY <1>4 DEF IInv, Protocol, Unread, Pushed, Popped
<1> QED BY <1>1, <1>2, <1>5 DEF IInv

\* Line 105: the slot read becomes the last free one.
LEMMA PopFreeSafe ==
  ASSUME IInv, PopFree
  PROVE  IInv'
<1> USE DEF PopFree, producerVars, monitorVars
<1>1. tail = Popped /\ tail < Pushed /\ result = sent[tail + 1]
  BY DEF IInv, Protocol
<1>2. result \in Values
  BY <1>1, Positions DEF IInv, TypeOK, Pushed
<1>3. TypeOK'
  BY <1>2, Positions, CapacityNat DEF IInv, TypeOK
<1>4. /\ Popped' = tail + 1 /\ Pushed' = Pushed
      /\ received'[tail + 1] = result
      /\ \A i \in 1 .. tail : received'[i] = received[i]
  BY <1>1 DEF IInv, TypeOK, Pushed, Popped
<1>5. FIFO'
  <2>1. Popped' \in Pushed' - Capacity .. Pushed'
    BY <1>1, <1>4, Positions, CapacityNat
  <2>2. ASSUME NEW i \in 1 .. tail + 1 PROVE received'[i] = sent'[i]
    <3>1. CASE i = tail + 1
      BY <3>1, <1>1, <1>4
    <3>2. CASE i # tail + 1
      <4>1. i \in 1 .. tail
        BY <3>2, Positions
      <4> QED BY <4>1, <1>1, <1>4 DEF IInv, FIFO, InOrder
    <3> QED BY <3>1, <3>2
  <2> QED BY <2>1, <2>2, <1>4 DEF FIFO, InOrder
<1>6. seq'[Slot(tail)] = tail + Capacity
  BY Positions DEF IInv, TypeOK
<1>7. ASSUME NEW i \in tail + 1 .. tail + Capacity - 1
      PROVE  i \in Nat /\ seq'[Slot(i)] = seq[Slot(i)]
  <2>1. i \in Nat /\ tail < i /\ i < tail + Capacity
    BY Positions, CapacityNat
  <2>2. Slot(tail) # Slot(i)
    BY <2>1, SlotsDistinct, Positions
  <2> QED BY <2>1, <2>2, Division, Positions DEF IInv, TypeOK
<1>8. ASSUME NEW i \in tail + 1 .. Pushed - 1
      PROVE  seq'[Slot(i)] = i + 1 /\ data'[Slot(i)] = sent'[i + 1]
  <2>1. i \in Unread /\ i \in tail + 1 .. tail + Capacity - 1
    BY <1>1, Positions, CapacityNat DEF Unread
  <2> QED BY <2>1, <1>7 DEF IInv, Protocol
<1>9. ASSUME NEW i \in Pushed .. tail + Capacity
      PROVE  seq'[Slot(i)] = i
  <2>1. CASE i = tail + Capacity
    BY <2>1, <1>6, SlotRecurs, Positions
  <2>2. CASE i # tail + Capacity
    <3>1. i \in Int /\ Pushed <= i /\ i < tail + Capacity
      BY <2>2, Positions, CapacityNat
    <3>2. /\ i \in Pushed .. Popped + Capacity - 1
          /\ i \in tail + 1 .. tail + Capacity - 1
      BY <3>1, <1>1, Positions, CapacityNat
    <3> QED BY <3>2, <1>7 DEF IInv, Protocol
  <2> QED BY <2>1, <2>2
<1>10. Protocol'
  <2>1. Unread' = tail + 1 .. Pushed - 1
    BY <1>4 DEF Unread
  <2>2. /\ Pushed' = (IF ppc' = "advance" THEN head' + 1 ELSE head')
        /\ Popped' = (IF cpc' = "advance" THEN tail' + 1 ELSE tail')
    BY <1>4 DEF IInv, Protocol
  <2>3. ppc' \in {"write", "publish"} => head' < Popped' + Capacity /\ item' \in Values
    BY <1>1, <1>4, Positions, CapacityNat DEF IInv, Protocol
  <2>4. \A i \in Unread' : seq'[Slot(i)] = i + 1 /\ data'[Slot(i)] = sent'[i + 1]
    BY <2>1, <1>8
  <2>5. \A i \in Pushed' .. Popped' + Capacity - 1 : seq'[Slot(i)] = i
    BY <1>4, <1>9, Positions, CapacityNat
  <2>6. ppc' = "publish" => data'[Slot(head')] = item'
    BY DEF IInv, Protocol
  <2> QED BY <2>2, <2>3, <2>4, <2>5, <2>6 DEF Protocol
<1> QED BY <1>3, <1>5, <1>10 DEF IInv

\* Line 106: the counter catches up with the slot.
LEMMA PopAdvanceSafe ==
  ASSUME IInv, PopAdvance
  PROVE  IInv'
<1> USE DEF PopAdvance, producerVars, monitorVars
<1>1. TypeOK'
  BY DEF IInv, TypeOK
<1>2. FIFO'
  BY DEF IInv, FIFO, InOrder, Pushed, Popped
<1>3. Protocol'
  BY DEF IInv, Protocol, Unread, Pushed, Popped
<1> QED BY <1>1, <1>2, <1>3 DEF IInv

\* Lines 111-115 and calls that return at once: nothing but size()'s locals change.
LEMMA OtherStepsSafe ==
  ASSUME IInv, Monitor \/ PushFull \/ PopEmpty \/ UNCHANGED vars
  PROVE  IInv'
<1>1. UNCHANGED <<head, tail, seq, data, ppc, item, cpc, result, sent, received>>
  BY DEF Monitor, SizeLoadHead, SizeLoadTail, PushFull, PopEmpty, vars,
         producerVars, consumerVars
<1>2. TypeOK'
  <2>1. mpc' \in {"idle", "tail"} /\ sampled' \in Nat /\ reported' \in 0 .. WordSize - 1
    <3>1. CASE SizeLoadHead
      BY <3>1 DEF SizeLoadHead, IInv, TypeOK
    <3>2. CASE SizeLoadTail
      <4>1. sampled - tail \in Int
        BY DEF IInv, TypeOK
      <4> QED BY <3>2, <4>1, Wraps DEF SizeLoadTail, IInv, TypeOK
    <3>3. CASE PushFull \/ PopEmpty \/ UNCHANGED vars
      BY <3>3 DEF PushFull, PopEmpty, vars, monitorVars, IInv, TypeOK
    <3> QED BY <3>1, <3>2, <3>3 DEF Monitor
  <2> QED BY <1>1, <2>1 DEF IInv, TypeOK
<1>3. FIFO'
  BY <1>1 DEF IInv, FIFO, InOrder, Pushed, Popped
<1>4. Protocol'
  BY <1>1 DEF IInv, Protocol, Unread, Pushed, Popped
<1> QED BY <1>2, <1>3, <1>4 DEF IInv
-------------------------------------------------------------------------------
(* The sequence numbers mean what the two clients take them to mean, in      *)
(* every reachable state, whatever the capacity from 2 up.                   *)
THEOREM Invariance == ASSUME Capacity >= 2 PROVE Spec => []IInv
<1>1. Init => IInv
  BY Establish
<1>2. IInv /\ [Next]_vars => IInv'
  <2> SUFFICES ASSUME IInv, [Next]_vars PROVE IInv'
    OBVIOUS
  <2>1. ASSUME NEW v \in Values, PushBegin(v) PROVE IInv'
    BY <2>1, PushBeginSafe
  <2>2. CASE PushWrite
    BY <2>2, PushWriteSafe
  <2>3. CASE PushPublish
    BY <2>3, PushPublishSafe
  <2>4. CASE PushAdvance
    BY <2>4, PushAdvanceSafe
  <2>5. CASE PopBegin
    BY <2>5, PopBeginSafe
  <2>6. CASE PopRead
    BY <2>6, PopReadSafe
  <2>7. CASE PopFree
    BY <2>7, PopFreeSafe
  <2>8. CASE PopAdvance
    BY <2>8, PopAdvanceSafe
  <2>9. CASE Monitor \/ PushFull \/ PopEmpty \/ UNCHANGED vars
    BY <2>9, OtherStepsSafe
  <2> QED
    BY <2>1, <2>2, <2>3, <2>4, <2>5, <2>6, <2>7, <2>8, <2>9
       DEF Next, Producer, Consumer
<1> QED BY <1>1, <1>2, PTL DEF Spec

(* Variables have their types in every reachable state. *)
THEOREM TypeCorrect == ASSUME Capacity >= 2 PROVE Spec => []TypeOK
<1>1. IInv => TypeOK
  BY DEF IInv
<1> QED BY <1>1, Invariance, PTL

(* The consumer receives what the producer sends, in order, and at most       *)
(* Capacity items are waiting (lines 63-109).                               *)
THEOREM FirstInFirstOut == ASSUME Capacity >= 2 PROVE Spec => []FIFO
<1>1. IInv => FIFO
  BY DEF IInv
<1> QED BY <1>1, Invariance, PTL

(* Lines 72 and 104 never touch one slot at the same time.                  *)
THEOREM RaceFree == ASSUME Capacity >= 2 PROVE Spec => []NoDataRace
<1>1. IInv => NoDataRace
  <2> SUFFICES ASSUME IInv, ppc = "write", cpc = "read", Slot(head) = Slot(tail)
               PROVE  FALSE
    BY DEF NoDataRace
  <2>1. tail < head /\ head < tail + Capacity
    BY DEF IInv, Protocol
  <2> QED BY <2>1, SlotsDistinct, Positions
<1> QED BY <1>1, Invariance, PTL

(* What size() can be off by, and when it is exact (lines 111-115).         *)
THEOREM SizeAccuracy == ASSUME Capacity >= 2 PROVE Spec => []SizeSkew
<1>1. IInv => SizeSkew
  BY Positions, CapacityNat DEF IInv, Protocol, TypeOK, SizeSkew
<1> QED BY <1>1, Invariance, PTL

\* A difference that is not above Capacity + 1, as the word of line 114 shows it.
LEMMA WrapsDownwards ==
  ASSUME NEW n \in Int, n <= Capacity + 1, -MaxPushes <= n
  PROVE  n % WordSize <= Capacity + 1 \/ n % WordSize >= WordSize - MaxPushes
<1> DEFINE r == n % WordSize
           q == n \div WordSize
<1>1. WordSize \in Nat \ {0} /\ MaxPushes \in Nat /\ Capacity \in Nat
  BY BoundAssumption, CapacityNat
<1>2. q \in Int /\ r \in 0 .. WordSize - 1 /\ n = WordSize * q + r
  BY <1>1, SMTT(20)
<1> HIDE DEF q, r
<1>3. CASE q >= 0
  <2>1. WordSize * q >= 0 /\ WordSize * q \in Int
    BY <1>1, <1>2, <1>3
  <2> DEFINE b == WordSize * q
  <2>2. b \in Int /\ b >= 0 /\ n = b + r
    BY <1>2, <2>1
  <2> HIDE DEF b
  <2>3. r <= Capacity + 1
    BY <1>1, <1>2, <2>2
  <2> QED
    BY <2>3 DEF r
<1>4. CASE ~ q >= 0
  <2>1. PICK k \in Nat : q = -1 - k
    <3>1. -1 - q \in Nat /\ q = -1 - (-1 - q)
      BY <1>2, <1>4
    <3> QED
      BY <3>1
  <2> DEFINE b == WordSize * k
  <2>2. b \in Nat /\ WordSize * q = -WordSize - b
    BY <1>1, <1>2, <2>1
  <2>3. n = -WordSize - b + r
    BY <1>2, <2>2
  <2> HIDE DEF b
  <2>4. r >= WordSize - MaxPushes
    BY <1>1, <1>2, <2>2, <2>3
  <2> QED
    BY <2>4 DEF r
<1> QED
  BY <1>3, <1>4

(* What size() has loaded of head_ is never ahead of it, and tail_ never ahead *)
(* of the pushes there were: what MonitorSizeBound needs to hold at the second *)
(* load, whatever the clients did since the first.                             *)
Sampling ==
  /\ Pushed <= MaxPushes
  /\ ppc \in {"write", "publish"} => Pushed < MaxPushes
  /\ mpc = "tail" => sampled <= head
  /\ MonitorSizeBound

\* A step of the clients.
LEMMA ClientsSampled ==
  ASSUME IInv, IInv', Sampling, Producer \/ Consumer \/ UNCHANGED vars
  PROVE  Sampling'
<1>1. UNCHANGED <<mpc, sampled, reported>>
  BY DEF Producer, PushBegin, PushFull, PushWrite, PushPublish, PushAdvance, Consumer,
         PopBegin, PopEmpty, PopRead, PopFree, PopAdvance, vars, monitorVars
<1>2. head \in Nat /\ sampled \in Nat /\ Len(sent) \in Nat /\ sent \in Seq(Values) /\ MaxPushes \in Nat
  BY LenProperties, BoundAssumption DEF IInv, TypeOK
<1>3. head' = head \/ head' = head + 1
  BY DEF Producer, PushBegin, PushFull, PushWrite, PushPublish, PushAdvance, Consumer,
         PopBegin, PopEmpty, PopRead, PopFree, PopAdvance, vars, producerVars
<1>4. Pushed' <= MaxPushes /\ (ppc' \in {"write", "publish"} => Pushed' < MaxPushes)
  <2>1. CASE \E v \in Values : PushBegin(v)
    BY <2>1, <1>2 DEF PushBegin, Sampling, Pushed
  <2>2. CASE PushPublish
    <3>1. item \in Values /\ ppc = "publish" /\ ppc' = "advance" /\ sent' = Append(sent, item)
      BY <2>2 DEF PushPublish, IInv, Protocol
    <3>2. Len(sent') = Len(sent) + 1
      BY <1>2, <3>1, AppendProperties
    <3> QED
      BY <1>2, <3>1, <3>2 DEF Sampling, Pushed
  <2>3. CASE PushFull \/ PushWrite \/ PushAdvance \/ Consumer \/ UNCHANGED vars
    <3>1. sent' = sent
      BY <2>3 DEF PushFull, PushWrite, PushAdvance, Consumer, PopBegin, PopEmpty, PopRead,
                  PopFree, PopAdvance, vars, producerVars
    <3>2. ppc' \in {"write", "publish"} => ppc \in {"write", "publish"}
      BY <2>3 DEF PushFull, PushWrite, PushAdvance, Consumer, PopBegin, PopEmpty, PopRead,
                  PopFree, PopAdvance, vars, producerVars
    <3> QED
      BY <3>1, <3>2 DEF Sampling, Pushed
  <2> QED
    BY <2>1, <2>2, <2>3 DEF Producer
<1>5. mpc' = "tail" => sampled' <= head'
  BY <1>1, <1>2, <1>3 DEF Sampling
<1>6. MonitorSizeBound'
  BY <1>1 DEF Sampling, MonitorSizeBound
<1> QED
  BY <1>4, <1>5, <1>6 DEF Sampling

\* A step of size().
LEMMA MonitorSampled ==
  ASSUME IInv, Sampling, Monitor
  PROVE  Sampling'
<1>1. UNCHANGED <<head, tail, ppc, sent>>
  BY DEF Monitor, SizeLoadHead, SizeLoadTail, producerVars, consumerVars
<1>2. /\ head \in Nat /\ tail \in Nat /\ Pushed \in Nat /\ Popped \in Nat /\ Popped <= Pushed
      /\ Capacity \in Nat
  BY Positions, CapacityNat
<1>3. CASE SizeLoadHead
  <2>1. sampled' = head /\ reported' = reported
    BY <1>3 DEF SizeLoadHead
  <2> QED
    BY <1>1, <1>2, <2>1 DEF Sampling, MonitorSizeBound, Pushed
<1>4. CASE SizeLoadTail
  <2>1. mpc = "tail" /\ mpc' = "idle" /\ reported' = (sampled - tail) % WordSize
    BY <1>4 DEF SizeLoadTail
  <2>2. sampled \in Nat /\ sampled <= head /\ Pushed <= MaxPushes /\ MaxPushes \in Nat
    BY <2>1, BoundAssumption DEF Sampling, IInv, TypeOK
  <2>3. head - tail <= Capacity + 1 /\ tail <= Popped
    BY Positions, CapacityNat DEF IInv, Protocol, TypeOK
  <2>4. sampled - tail \in Int /\ sampled - tail <= Capacity + 1 /\ -MaxPushes <= sampled - tail
    BY <1>2, <2>2, <2>3
  <2>5. MonitorSizeBound'
    <3> DEFINE d == sampled - tail
    <3> HIDE DEF d
    <3>1. d \in Int /\ d <= Capacity + 1 /\ -MaxPushes <= d /\ reported' = d % WordSize
      BY <2>1, <2>4 DEF d
    <3> QED
      BY <3>1, WrapsDownwards DEF MonitorSizeBound
  <2> QED
    BY <1>1, <2>1, <2>5 DEF Sampling, Pushed
<1> QED
  BY <1>3, <1>4 DEF Monitor

(* A thread that watches the queue never sees it fuller than one item above    *)
(* the capacity: what it sees instead is close below zero, wrapped around      *)
(* (line 114).                                                                 *)
THEOREM MonitorIsBounded == ASSUME Capacity >= 2 PROVE Spec => []MonitorSizeBound
<1>1. Init => Sampling
  BY CapacityNat, BoundAssumption DEF Init, Sampling, Pushed, MonitorSizeBound
<1>2. IInv /\ IInv' /\ Sampling /\ [Next]_vars => Sampling'
  BY ClientsSampled, MonitorSampled DEF Next
<1>3. Sampling => MonitorSizeBound
  BY DEF Sampling
<1> QED
  BY <1>1, <1>2, <1>3, Invariance, PTL DEF Spec
-------------------------------------------------------------------------------
(* The ring implements the abstract queue.                                  *)

\* The constructor's queue is the empty queue.
LEMMA RefinesInit == Init => Abstract!Init
  BY DEF Init, Abstract!Init, Popped, Pushed

\* Appending to a sequence appends to each of its suffixes.
LEMMA SuffixOfAppend ==
  ASSUME NEW S, NEW s \in Seq(S), NEW e \in S, NEW m \in 0 .. Len(s)
  PROVE  SubSeq(Append(s, e), m + 1, Len(s) + 1) = Append(SubSeq(s, m + 1, Len(s)), e)
<1> DEFINE t == Append(s, e)
           n == Len(s)
           left == SubSeq(t, m + 1, n + 1)
           suffix == SubSeq(s, m + 1, n)
           right == Append(suffix, e)
<1>1. t \in Seq(S) /\ Len(t) = n + 1 /\ n \in Nat /\ t[n + 1] = e
      /\ \A i \in 1 .. n : t[i] = s[i]
  OBVIOUS
<1> HIDE DEF t
<1>2. /\ suffix \in Seq(S) /\ Len(suffix) = n - m
      /\ \A i \in 1 .. n - m : suffix[i] = s[m + i]
  BY SubSeqProperties, m + 1 \in Int, n \in Int, \A i \in m + 1 .. n : s[i] \in S
<1>3. /\ left \in Seq(S) /\ Len(left) = n - m + 1
      /\ \A i \in 1 .. n - m + 1 : left[i] = t[m + i]
  BY <1>1, SubSeqProperties, m + 1 \in Int, n + 1 \in Int,
     \A i \in m + 1 .. n + 1 : t[i] \in S
<1> HIDE DEF suffix, left
<1>4. /\ right \in Seq(S) /\ Len(right) = n - m + 1 /\ right[n - m + 1] = e
      /\ \A i \in 1 .. n - m : right[i] = suffix[i]
  BY <1>2
<1>5. ASSUME NEW i \in 1 .. n - m + 1 PROVE left[i] = right[i]
  <2>1. CASE i = n - m + 1
    BY <2>1, <1>1, <1>3, <1>4
  <2>2. CASE i # n - m + 1
    <3>1. i \in 1 .. n - m /\ m + i \in 1 .. n
      BY <2>2, <1>1
    <3> QED BY <3>1, <1>1, <1>2, <1>3, <1>4
  <2> QED BY <2>1, <2>2
<1> HIDE DEF right
<1>6. left = right
  BY <1>3, <1>4, <1>5, SeqEqual
<1> QED BY <1>6 DEF left, right, suffix, t

\* The item published goes to the end of the queue.
LEMMA RefinesPut ==
  ASSUME IInv, PushPublish
  PROVE  Abstract!Put(item) /\ item \in Values
<1>1. Popped \in 0 .. Pushed /\ Pushed < Popped + Capacity /\ item \in Values
  BY Positions DEF IInv, Protocol, PushPublish
<1>2. sent \in Seq(Values) /\ received \in Seq(Values)
  BY DEF IInv, TypeOK
<1>3. /\ sent' = Append(sent, item)
      /\ received' = received
  BY DEF PushPublish, consumerVars
<1>4. Len(SubSeq(sent, Popped + 1, Pushed)) < Capacity
  BY <1>1, <1>2, CapacityNat DEF Popped, Pushed
<1>5. SubSeq(sent', Popped' + 1, Pushed') = Append(SubSeq(sent, Popped + 1, Pushed), item)
  <2>1. Popped \in 0 .. Len(sent) /\ Pushed = Len(sent)
    BY <1>1 DEF Pushed
  <2>2. Pushed' = Len(sent) + 1 /\ Popped' = Popped
    BY <1>2, <1>3 DEF Popped, Pushed
  <2> QED BY <2>1, <2>2, <1>1, <1>2, <1>3, SuffixOfAppend
<1> QED BY <1>1, <1>3, <1>4, <1>5 DEF Abstract!Put

\* The item popped comes from its head.
LEMMA RefinesGet ==
  ASSUME IInv, PopFree
  PROVE  Abstract!Get
<1>1. Popped \in 0 .. Pushed - 1 /\ result = sent[Popped + 1]
  BY Positions DEF IInv, Protocol, PopFree
<1>2. sent \in Seq(Values) /\ received \in Seq(Values)
  BY DEF IInv, TypeOK
<1>3. /\ received' = Append(received, result)
      /\ sent' = sent
  BY DEF PopFree, producerVars
<1> DEFINE queue == SubSeq(sent, Popped + 1, Pushed)
<1>4. Popped + 1 \in 1 .. Len(sent) /\ Pushed \in Popped + 1 .. Len(sent)
  BY <1>1, <1>2 DEF Pushed
<1>5. Head(queue) = result /\ Tail(queue) = SubSeq(sent, Popped + 1 + 1, Pushed)
  BY <1>1, <1>2, <1>4, HeadTailOfSubSeq
<1>6. Pushed' = Pushed /\ Popped' = Popped + 1
  BY <1>2, <1>3 DEF Popped, Pushed
<1>7. SubSeq(sent', Popped' + 1, Pushed') = Tail(queue)
  BY <1>3, <1>5, <1>6
<1>8. queue # << >>
  <2>1. Len(queue) = Pushed - (Popped + 1) + 1
    BY <1>2, <1>4, SubSeqProperties
  <2> QED BY <2>1, <1>4
<1> QED BY <1>3, <1>5, <1>7, <1>8 DEF Abstract!Get

(* Every behaviour of the ring, seen from its clients, is one of a bounded    *)
(* first-in first-out queue (lines 63-109).                                 *)
THEOREM Refinement == ASSUME Capacity >= 2 PROVE Spec => ImplementsFIFO
<1>1. Init => Abstract!Init
  BY RefinesInit
<1>2. IInv /\ [Next]_vars
        => [Abstract!Next]_<<SubSeq(sent, Popped + 1, Pushed), received>>
  <2> SUFFICES ASSUME IInv, [Next]_vars
               PROVE  [Abstract!Next]_<<SubSeq(sent, Popped + 1, Pushed), received>>
    OBVIOUS
  <2>1. CASE PushPublish
    BY <2>1, RefinesPut DEF Abstract!Next
  <2>2. CASE PopFree
    BY <2>2, RefinesGet DEF Abstract!Next
  <2>3. CASE UNCHANGED <<sent, received>>
    BY <2>3 DEF Popped, Pushed
  <2>4. PushPublish \/ PopFree \/ UNCHANGED <<sent, received>>
    BY DEF Next, Producer, Consumer, Monitor, PushBegin, PushFull, PushWrite,
           PushAdvance, PopBegin, PopEmpty, PopRead, PopAdvance, SizeLoadHead,
           SizeLoadTail, vars, producerVars, consumerVars, monitorVars
  <2> QED BY <2>1, <2>2, <2>3, <2>4
<1> QED
  BY <1>1, <1>2, Invariance, PTL DEF Spec, ImplementsFIFO, Abstract!Spec
===============================================================================

------------------------------- MODULE SPSCQueue -------------------------------
(***************************************************************************)
(* SPSCQueue<T>, the single-producer single-consumer ring of               *)
(* include/lock_free_queue.hpp:18-120, one action per access to shared     *)
(* memory.                                                                 *)
(*                                                                         *)
(* One thread calls try_push, one thread calls try_pop, and any thread may *)
(* call size(), which loads head_ and tail_ one after the other.  A call's *)
(* accesses interleave with the other threads' in every order; each atomic *)
(* access takes effect at once.  head_ is written by the producer alone and*)
(* tail_ by the consumer alone, so a thread's load of its own counter and  *)
(* the load of the slot's sequence that follows are one action.            *)
(*                                                                         *)
(* The counters are the code's uint64_t before they wrap (2^64 pushes);    *)
(* only size(), whose subtraction can wrap at once, is taken modulo        *)
(* WordSize.                                                               *)
(***************************************************************************)
EXTENDS Integers, Sequences

CONSTANTS Values,     \* the items a client may push
          Capacity,   \* the constructor's argument
          NoItem,     \* what a freshly constructed T holds: nobody pushes it
          MaxPushes,  \* bound: pushes that succeed in a behaviour
          WordSize    \* 2^64 in the code: what size()'s subtraction wraps at

\* What the constructor lets through (line 39).  It also lets 0 through, for
\* which there is no slot to speak of.
ASSUME CapacityAssumption ==
  /\ Capacity \in Nat \ {0}
  /\ \E k \in 0 .. Capacity : Capacity = 2^k

ASSUME ItemAssumption == NoItem \notin Values

ASSUME BoundAssumption ==
  /\ MaxPushes \in Nat
  /\ WordSize \in Nat \ {0}

VARIABLES head,      \* head_: next position to push
          tail,      \* tail_: next position to pop
          seq,       \* buffer_[i].sequence
          data,      \* buffer_[i].data
          ppc,       \* where the producer is in try_push
          item,      \* the argument of the try_push under way
          cpc,       \* where the consumer is in try_pop
          result,    \* try_pop's local result
          mpc,       \* where a monitoring thread is in size()
          sampled,   \* size()'s local head
          reported,  \* what the last size() returned
          sent,      \* history: items accepted by try_push, in order
          received   \* history: items returned by try_pop, in order

producerVars == <<head, ppc, item, sent>>
consumerVars == <<tail, cpc, result, received>>
monitorVars == <<mpc, sampled, reported>>
vars == <<head, tail, seq, data, ppc, item, cpc, result, mpc, sampled, reported,
          sent, received>>
-------------------------------------------------------------------------------
Slots == 0 .. Capacity - 1

\* head & mask_ and tail & mask_: the capacity is a power of two.
Slot(position) == position % Capacity

Items == Values \cup {NoItem}

Init == /\ head = 0
        /\ tail = 0
        /\ seq = [i \in Slots |-> i]
        /\ data = [i \in Slots |-> NoItem]
        /\ ppc = "idle"
        /\ item = NoItem
        /\ cpc = "idle"
        /\ result = NoItem
        /\ mpc = "idle"
        /\ sampled = 0
        /\ reported = 0
        /\ sent = << >>
        /\ received = << >>
-------------------------------------------------------------------------------
\* Faulty variants of PushBegin: no test of the slot's sequence, and a slot
\* published before it is written.
PushBeginUnchecked(v) ==
  /\ ppc = "idle"
  /\ Len(sent) < MaxPushes
  /\ item' = v
  /\ ppc' = "write"
  /\ UNCHANGED <<head, seq, data, sent, consumerVars, monitorVars>>

PushBeginPublishing(v) ==
  /\ ppc = "idle"
  /\ Len(sent) < MaxPushes
  /\ seq[Slot(head)] = head
  /\ seq' = [seq EXCEPT ![Slot(head)] = head + 1]
  /\ item' = v
  /\ ppc' = "write"
  /\ UNCHANGED <<head, data, sent, consumerVars, monitorVars>>

(* try_push, by the producer: load head_ and the slot's sequence ...        *)
PushBegin(v) ==
  /\ ppc = "idle"
  /\ Len(sent) < MaxPushes
  /\ seq[Slot(head)] = head
  /\ item' = v
  /\ ppc' = "write"
  /\ UNCHANGED <<head, seq, data, sent, consumerVars, monitorVars>>

\* ... and return false when the slot's sequence is not the position.
PushFull ==
  /\ ppc = "idle"
  /\ seq[Slot(head)] # head
  /\ UNCHANGED vars

\* node->data = item
PushWrite ==
  /\ ppc = "write"
  /\ data' = [data EXCEPT ![Slot(head)] = item]
  /\ ppc' = "publish"
  /\ UNCHANGED <<head, seq, item, sent, consumerVars, monitorVars>>

\* node->sequence.store(head + 1, release): from here try_pop can see the item.
PushPublish ==
  /\ ppc = "publish"
  /\ seq' = [seq EXCEPT ![Slot(head)] = head + 1]
  /\ sent' = Append(sent, item)
  /\ ppc' = "advance"
  /\ UNCHANGED <<head, data, item, consumerVars, monitorVars>>

\* head_.store(head + 1, relaxed); return true
PushAdvance ==
  /\ ppc = "advance"
  /\ head' = head + 1
  /\ ppc' = "idle"
  /\ UNCHANGED <<seq, data, item, sent, consumerVars, monitorVars>>
-------------------------------------------------------------------------------
\* Faulty variants of PopBegin: takes the slot whatever its sequence says, and
\* hands it back before reading it.
PopBeginUnchecked ==
  /\ cpc = "idle"
  /\ cpc' = "read"
  /\ UNCHANGED <<tail, seq, data, result, received, producerVars, monitorVars>>

PopBeginFreeing ==
  /\ cpc = "idle"
  /\ seq[Slot(tail)] = tail + 1
  /\ seq' = [seq EXCEPT ![Slot(tail)] = tail + Capacity]
  /\ cpc' = "read"
  /\ UNCHANGED <<tail, data, result, received, producerVars, monitorVars>>

(* try_pop, by the consumer: load tail_ and the slot's sequence ...         *)
PopBegin ==
  /\ cpc = "idle"
  /\ seq[Slot(tail)] = tail + 1
  /\ cpc' = "read"
  /\ UNCHANGED <<tail, seq, data, result, received, producerVars, monitorVars>>

\* ... and return nullopt when the slot holds no item of this round.
PopEmpty ==
  /\ cpc = "idle"
  /\ seq[Slot(tail)] # tail + 1
  /\ UNCHANGED vars

\* T result = std::move(node->data)
PopRead ==
  /\ cpc = "read"
  /\ result' = data[Slot(tail)]
  /\ cpc' = "free"
  /\ UNCHANGED <<tail, seq, data, received, producerVars, monitorVars>>

\* Faulty variant of PopFree: the slot is handed back for the wrong round.
PopFreeShort ==
  /\ cpc = "free"
  /\ seq' = [seq EXCEPT ![Slot(tail)] = tail + 1]
  /\ received' = Append(received, result)
  /\ cpc' = "advance"
  /\ UNCHANGED <<tail, data, result, producerVars, monitorVars>>

\* node->sequence.store(tail + capacity_, release): from here try_push can reuse
\* the slot.
PopFree ==
  /\ cpc = "free"
  /\ seq' = [seq EXCEPT ![Slot(tail)] = tail + Capacity]
  /\ received' = Append(received, result)
  /\ cpc' = "advance"
  /\ UNCHANGED <<tail, data, result, producerVars, monitorVars>>

\* tail_.store(tail + 1, relaxed); return result
PopAdvance ==
  /\ cpc = "advance"
  /\ tail' = tail + 1
  /\ cpc' = "idle"
  /\ UNCHANGED <<seq, data, result, received, producerVars, monitorVars>>
-------------------------------------------------------------------------------
(* size() by a thread that is neither client: load head_ ...                *)
SizeLoadHead ==
  /\ mpc = "idle"
  /\ sampled' = head
  /\ mpc' = "tail"
  /\ UNCHANGED <<seq, data, reported, producerVars, consumerVars>>

\* ... then tail_, and subtract in uint64_t.
SizeLoadTail ==
  /\ mpc = "tail"
  /\ reported' = (sampled - tail) % WordSize
  /\ mpc' = "idle"
  /\ UNCHANGED <<seq, data, sampled, producerVars, consumerVars>>
-------------------------------------------------------------------------------
Producer == \/ \E v \in Values : PushBegin(v)
            \/ PushFull
            \/ PushWrite
            \/ PushPublish
            \/ PushAdvance

Consumer == PopBegin \/ PopEmpty \/ PopRead \/ PopFree \/ PopAdvance

Monitor == SizeLoadHead \/ SizeLoadTail

Next == Producer \/ Consumer \/ Monitor

Spec == Init /\ [][Next]_vars

\* Both clients call again until they succeed, as the threads of
\* tests/test_lock_free_queue.cpp:54-70 do, and the scheduler runs every thread.
FairSpec == Spec /\ WF_vars(Producer) /\ WF_vars(Consumer)
-------------------------------------------------------------------------------
Pushed == Len(sent)
Popped == Len(received)
\* The slots of the positions pushed and not yet popped.
Unread == Popped .. Pushed - 1

(* Every variable has its type. *)
TypeOK ==
  /\ head \in Nat
  /\ tail \in Nat
  /\ seq \in [Slots -> Nat]
  /\ data \in [Slots -> Items]
  /\ ppc \in {"idle", "write", "publish", "advance"}
  /\ item \in Items
  /\ cpc \in {"idle", "read", "free", "advance"}
  /\ result \in Items
  /\ mpc \in {"idle", "tail"}
  /\ sampled \in Nat
  /\ reported \in 0 .. WordSize - 1
  /\ sent \in Seq(Values)
  /\ received \in Seq(Values)

(* The consumer has received what the producer sent, in order, nothing lost, *)
(* torn or repeated: what the loop of tests/test_lock_free_queue.cpp:63-70   *)
(* asserts item by item.  And no more than Capacity items are waiting.       *)
InOrder == \A i \in 1 .. Popped : received[i] = sent[i]

FIFO == Popped \in Pushed - Capacity .. Pushed /\ InOrder

(* data is not atomic: the two threads never access one slot's data at the   *)
(* same time, which is what the sequence numbers are there to ensure.        *)
NoDataRace ==
  ~ (ppc = "write" /\ cpc = "read" /\ Slot(head) = Slot(tail))

(* The counters lag behind the slots, each by at most the call under way: a  *)
(* client that calls size() itself never sees its own half as missing, and   *)
(* once both are out of their calls (the join before                         *)
(* tests/test_lock_free_queue.cpp:75 asks empty()) the answer is exact.      *)
SizeSkew ==
  /\ head - tail \in -1 .. Capacity + 1
  /\ ppc = "idle" => head - tail >= 0
  /\ cpc = "idle" => head - tail <= Capacity
  /\ ppc = "idle" /\ cpc = "idle" => head - tail = Pushed - Popped

(* A third thread that calls size() never sees more than one item above the  *)
(* capacity: because head_ is loaded first, the answer errs downwards.  What *)
(* it may see instead is a difference below zero, wrapped to the top of the  *)
(* word (line 114).                                                          *)
MonitorSizeBound ==
  reported <= Capacity + 1 \/ reported >= WordSize - MaxPushes

(* What the sequence numbers mean: a slot's number tells whether it holds an *)
(* unread item of this round or is free for the next, and a client that has  *)
(* passed its test owns the slot until it stores the next number.            *)
Protocol ==
  /\ Pushed = IF ppc = "advance" THEN head + 1 ELSE head
  /\ Popped = IF cpc = "advance" THEN tail + 1 ELSE tail
  /\ \A i \in Unread : seq[Slot(i)] = i + 1 /\ data[Slot(i)] = sent[i + 1]
  /\ \A i \in Pushed .. Popped + Capacity - 1 : seq[Slot(i)] = i
  /\ ppc \in {"write", "publish"} => head < Popped + Capacity /\ item \in Values
  /\ ppc = "publish" => data[Slot(head)] = item
  /\ cpc \in {"read", "free"} => tail < Pushed
  /\ cpc = "free" => result = sent[tail + 1]

IInv == TypeOK /\ FIFO /\ Protocol

Abstract == INSTANCE BoundedFIFO
              WITH queue <- SubSeq(sent, Popped + 1, Pushed)

(* Seen from its clients, the ring is a bounded first-in first-out queue: a  *)
(* push happens at the release store of line 73, a pop at that of line 105.  *)
ImplementsFIFO == Abstract!Spec

(* Neither client is ever stuck: with both retrying, every item the producer *)
(* has to push goes through.                                                 *)
AllDelivered == <>(Popped = MaxPushes)
=============================================================================

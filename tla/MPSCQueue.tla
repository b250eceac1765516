------------------------------- MODULE MPSCQueue -------------------------------
(***************************************************************************)
(* MPSCQueue<T>, the unbounded linked queue of                             *)
(* include/lock_free_queue.hpp:122-178, one action per access to shared    *)
(* memory.                                                                 *)
(*                                                                         *)
(* Any number of threads call push, one thread calls try_pop and destroys  *)
(* the queue once the producers are done.  A push exchanges head_ and then *)
(* links the node it found there to its own: between the two the list is   *)
(* cut, and everything pushed after the cut is out of the consumer's reach.*)
(* The consumer deletes nodes that producers have held pointers to, and the*)
(* allocator hands the same addresses out again.                           *)
(***************************************************************************)
EXTENDS Integers, Sequences, FiniteSets

CONSTANTS Producers,
          Nodes,      \* bound: the addresses the allocator hands out
          Null,       \* the null pointer
          MaxPushes   \* bound: pushes per producer

ASSUME NodeAssumption == Null \notin Nodes

ASSUME PushAssumption == MaxPushes \in Nat

\* Threads of one process.
ASSUME ProducerAssumption == IsFiniteSet(Producers)

VARIABLES head,       \* head_: the node pushed last
          tail,       \* tail_: the node popped last, or the first sentinel
          next,       \* node->next
          data,       \* node->data
          allocated,  \* nodes that are allocated
          ppc,        \* where each producer is in push
          node,       \* push's local node
          prev,       \* push's local prev
          cpc,        \* where the consumer is in try_pop
          popped,     \* try_pop's local tail
          found,      \* try_pop's local next
          result,     \* try_pop's local result
          phase,      \* whether the destructor has started, and ended
          sent,       \* history: items in the order head_ was exchanged
          received    \* history: items returned by try_pop, in order

producerVars == <<ppc, node, prev>>
consumerVars == <<cpc, popped, found, result>>
vars == <<head, tail, next, data, allocated, ppc, node, prev, cpc, popped,
          found, result, phase, sent, received>>
-------------------------------------------------------------------------------
\* A producer's i-th item.
Items == Producers \X (1 .. MaxPushes)
NoItem == <<Null, 0>>

PushedBy(p) == {i \in DOMAIN sent : sent[i][1] = p}
NextItem(p) == <<p, Cardinality(PushedBy(p)) + 1>>

\* The constructor: one sentinel, which carries no item.
Init == /\ head \in Nodes
        /\ tail = head
        /\ next = [n \in Nodes |-> Null]
        /\ data = [n \in Nodes |-> NoItem]
        /\ allocated = {head}
        /\ ppc = [p \in Producers |-> "idle"]
        /\ node = [p \in Producers |-> Null]
        /\ prev = [p \in Producers |-> Null]
        /\ cpc = "idle"
        /\ popped = Null
        /\ found = Null
        /\ result = NoItem
        /\ phase = "open"
        /\ sent = << >>
        /\ received = << >>
-------------------------------------------------------------------------------
(* push, by producer p: new Node(item), which sets next to null ...         *)
PushNew(p) ==
  /\ phase = "open"
  /\ ppc[p] = "idle"
  /\ Cardinality(PushedBy(p)) < MaxPushes
  /\ \E n \in Nodes \ allocated :
       /\ allocated' = allocated \cup {n}
       /\ next' = [next EXCEPT ![n] = Null]
       /\ data' = [data EXCEPT ![n] = NextItem(p)]
       /\ node' = [node EXCEPT ![p] = n]
  /\ ppc' = [ppc EXCEPT ![p] = "exchange"]
  /\ UNCHANGED <<head, tail, prev, consumerVars, phase, sent, received>>

\* ... prev = head_.exchange(node): the push takes its place in the order ...
PushExchange(p) ==
  /\ ppc[p] = "exchange"
  /\ prev' = [prev EXCEPT ![p] = head]
  /\ head' = node[p]
  /\ sent' = Append(sent, data[node[p]])
  /\ ppc' = [ppc EXCEPT ![p] = "link"]
  /\ UNCHANGED <<tail, next, data, allocated, node, consumerVars, phase, received>>

\* Faulty variant of PushLink: links to the head there is now.
PushLinkAtHead(p) ==
  /\ ppc[p] = "link"
  /\ next' = [next EXCEPT ![head] = node[p]]
  /\ ppc' = [ppc EXCEPT ![p] = "idle"]
  /\ node' = [node EXCEPT ![p] = Null]
  /\ prev' = [prev EXCEPT ![p] = Null]
  /\ UNCHANGED <<head, tail, data, allocated, consumerVars, phase, sent, received>>

\* ... prev->next.store(node): the consumer can now reach it.
PushLink(p) ==
  /\ ppc[p] = "link"
  /\ next' = [next EXCEPT ![prev[p]] = node[p]]
  /\ ppc' = [ppc EXCEPT ![p] = "idle"]
  /\ node' = [node EXCEPT ![p] = Null]
  /\ prev' = [prev EXCEPT ![p] = Null]
  /\ UNCHANGED <<head, tail, data, allocated, consumerVars, phase, sent, received>>
-------------------------------------------------------------------------------
(* try_pop, by the consumer: load tail_ and tail->next ...                  *)
PopLoad ==
  /\ phase # "destroyed"
  /\ cpc = "idle"
  /\ next[tail] # Null
  /\ popped' = tail
  /\ found' = next[tail]
  /\ cpc' = "take"
  /\ UNCHANGED <<head, tail, next, data, allocated, result, producerVars, phase,
                 sent, received>>

\* ... and return nullopt when there is no next.
PopEmpty ==
  /\ phase = "open"
  /\ cpc = "idle"
  /\ next[tail] = Null
  /\ UNCHANGED vars

\* Faulty variant of PopTake: takes the item of the old sentinel.
PopTakeSentinel ==
  /\ cpc = "take"
  /\ result' = data[popped]
  /\ cpc' = "advance"
  /\ UNCHANGED <<head, tail, next, data, allocated, popped, found, producerVars,
                 phase, sent, received>>

\* T result = std::move(next->data)
PopTake ==
  /\ cpc = "take"
  /\ result' = data[found]
  /\ cpc' = "advance"
  /\ UNCHANGED <<head, tail, next, data, allocated, popped, found, producerVars,
                 phase, sent, received>>

\* tail_.store(next): the node taken is the new sentinel.
PopAdvance ==
  /\ cpc = "advance"
  /\ tail' = found
  /\ received' = Append(received, result)
  /\ cpc' = "delete"
  /\ UNCHANGED <<head, next, data, allocated, popped, found, result, producerVars,
                 phase, sent>>

\* Faulty variants of PopDelete: deletes the new sentinel, and deletes nothing.
PopDeleteNew ==
  /\ cpc = "delete"
  /\ allocated' = allocated \ {found}
  /\ cpc' = "idle"
  /\ popped' = Null
  /\ found' = Null
  /\ UNCHANGED <<head, tail, next, data, result, producerVars, phase, sent, received>>

PopDeleteNothing ==
  /\ cpc = "delete"
  /\ cpc' = "idle"
  /\ popped' = Null
  /\ found' = Null
  /\ UNCHANGED <<head, tail, next, data, allocated, result, producerVars, phase, sent,
                 received>>

\* delete tail; return result
PopDelete ==
  /\ cpc = "delete"
  /\ allocated' = allocated \ {popped}
  /\ cpc' = "idle"
  /\ popped' = Null
  /\ found' = Null
  /\ UNCHANGED <<head, tail, next, data, result, producerVars, phase, sent, received>>
-------------------------------------------------------------------------------
(* The destructor, when no producer is in push: pop until empty ...         *)
DestroyBegin ==
  /\ phase = "open"
  /\ cpc = "idle"
  /\ \A p \in Producers : ppc[p] = "idle"
  /\ phase' = "closing"
  /\ UNCHANGED <<head, tail, next, data, allocated, producerVars, consumerVars,
                 sent, received>>

\* ... and delete head_.
DestroyEnd ==
  /\ phase = "closing"
  /\ cpc = "idle"
  /\ next[tail] = Null
  /\ allocated' = allocated \ {head}
  /\ phase' = "destroyed"
  /\ UNCHANGED <<head, tail, next, data, producerVars, consumerVars, sent, received>>
-------------------------------------------------------------------------------
Push(p) == PushNew(p) \/ PushExchange(p) \/ PushLink(p)

Pop == PopLoad \/ PopEmpty \/ PopTake \/ PopAdvance \/ PopDelete

Destroy == DestroyBegin \/ DestroyEnd

Next == (\E p \in Producers : Push(p)) \/ Pop \/ Destroy

Spec == Init /\ [][Next]_vars

\* A thread inside push gets out of it, and the consumer calls try_pop again and
\* again, as the loop of tests/test_lock_free_queue.cpp:108 does until it is empty.
FairSpec ==
  /\ Spec
  /\ \A p \in Producers : WF_vars(PushExchange(p) \/ PushLink(p))
  /\ WF_vars(Pop)
-------------------------------------------------------------------------------
Linking(p) == ppc[p] = "link"
Exchanging(p) == ppc[p] = "exchange"

\* The queue of BoundedFIFO: what is in the order and not yet received.  Its bound
\* is out of reach, since no push is ever refused.
FIFOQueue == INSTANCE BoundedFIFO WITH
               Values <- Items,
               Capacity <- Cardinality(Producers) * MaxPushes + 1,
               queue <- SubSeq(sent, Len(received) + 1, Len(sent))

(* The linked queue is a first-in first-out queue which an item enters when   *)
(* head_ is exchanged, whatever the link that is still missing, and leaves when *)
(* tail_ is stored: nothing is lost, doubled or overtaken, however pushes     *)
(* overlap and addresses are used again.                                      *)
ImplementsQueue == FIFOQueue!Spec

(* No thread reads, writes or deletes a node that is not allocated, although  *)
(* the consumer deletes nodes while producers hold pointers to them.          *)
NoUseAfterFree ==
  /\ phase # "destroyed" => {head, tail} \subseteq allocated
  /\ \A p \in Producers : /\ Exchanging(p) => node[p] \in allocated
                          /\ Linking(p) => {node[p], prev[p]} \subseteq allocated
  /\ cpc # "idle" => popped \in allocated
  /\ cpc \in {"take", "advance"} => found \in allocated

(* try_pop answers that the queue is empty while it is not only if a producer *)
(* stands between the exchange and the store that would link the consumer's   *)
(* node: the one window in which a finished push can be invisible.            *)
EmptyOnlyWhenCut ==
  cpc = "idle" /\ next[tail] = Null /\ Len(received) < Len(sent)
    => \E p \in Producers : Linking(p) /\ prev[p] = tail

(* The nodes in use are the items waiting, one sentinel, those a producer has *)
(* not yet put in the order and one the consumer is about to delete: nothing  *)
(* leaks, and after the destructor nothing is left.                           *)
MemoryInUse ==
  Cardinality(allocated) =
    Len(sent) - Len(received)
      + (IF phase = "destroyed" THEN 0 ELSE 1)
      + Cardinality({p \in Producers : Exchanging(p)})
      + (IF cpc = "delete" THEN 1 ELSE 0)

(* Whatever has entered the order is received in the end, whoever was stopped *)
(* in the middle of a push before it.                                         *)
AllReceived ==
  \A n \in 1 .. Cardinality(Producers) * MaxPushes :
    (Len(sent) >= n) ~> (Len(received) >= n)
===============================================================================

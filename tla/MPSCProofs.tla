------------------------------- MODULE MPSCProofs -------------------------------
(***************************************************************************)
(* Proofs about MPSCQueue: for any producers, any number of pushes and any *)
(* addresses, nobody touches a deleted node, the queue looks empty only    *)
(* while a push cuts it, nothing leaks, and the list is a first-in         *)
(* first-out queue.                                                        *)
(*                                                                         *)
(* The argument is about the node of each push.  at[i] is the node that    *)
(* brought the i-th item into the order, at[0] the first sentinel: the     *)
(* nodes from at[Taken] to at[Pushed] are the list, whether linked or not, *)
(* and a link that is missing is some producer's to make.                  *)
(***************************************************************************)
EXTENDS MPSCQueue, FiniteSetTheorems, SequenceTheorems, TLAPS

Taken == Len(received)
Pushed == Len(sent)

PTypeOK ==
  /\ head \in Nodes /\ tail \in Nodes
  /\ next \in [Nodes -> Nodes \cup {Null}]
  /\ data \in [Nodes -> Items \cup {NoItem}]
  /\ allocated \subseteq Nodes
  /\ ppc \in [Producers -> {"idle", "exchange", "link"}]
  /\ node \in [Producers -> Nodes \cup {Null}]
  /\ prev \in [Producers -> Nodes \cup {Null}]
  /\ cpc \in {"idle", "take", "advance", "delete"}
  /\ popped \in Nodes \cup {Null}
  /\ found \in Nodes \cup {Null}
  /\ result \in Items \cup {NoItem}
  /\ phase \in {"open", "closing", "destroyed"}
  /\ sent \in Seq(Items)
  /\ received \in Seq(Items)
  /\ Taken <= Pushed

(* No item is pushed twice: a producer's items carry numbers it has reached. *)
Numbered ==
  /\ \A p \in Producers : \A i \in PushedBy(p) : sent[i][2] <= Cardinality(PushedBy(p))
  /\ \A i, j \in 1 .. Pushed : sent[i] = sent[j] => i = j

(* The list, from the sentinel to the node pushed last. *)
Chain(at) ==
  /\ at[Taken] = tail
  /\ at[Pushed] = head
  /\ \A i, j \in Taken .. Pushed : at[i] = at[j] => i = j
  /\ \A i \in Taken + 1 .. Pushed : data[at[i]] = sent[i]

(* A node leads to the next one, unless a producer is about to link them. *)
Links(at) ==
  /\ next[at[Pushed]] = Null
  /\ \A i \in Taken .. Pushed - 1 :
       \/ next[at[i]] = at[i + 1]
       \/ /\ next[at[i]] = Null
          /\ \E p \in Producers : Linking(p) /\ prev[p] = at[i]

(* Every producer that has exchanged is to make one missing link. *)
Linkers(at) ==
  /\ \A p \in Producers : Linking(p) =>
       \E i \in Taken .. Pushed - 1 :
         prev[p] = at[i] /\ node[p] = at[i + 1] /\ next[at[i]] = Null
  /\ \A p, q \in Producers : Linking(p) /\ Linking(q) /\ prev[p] = prev[q] => p = q

(* Every producer that is to exchange has a node of its own, outside the list. *)
Exchangers(at) ==
  /\ \A p \in Producers : Exchanging(p) =>
       /\ node[p] \in Nodes
       /\ next[node[p]] = Null
       /\ data[node[p]] = NextItem(p)
       /\ Cardinality(PushedBy(p)) < MaxPushes
       /\ \A i \in Taken .. Pushed : node[p] # at[i]
  /\ \A p, q \in Producers : Exchanging(p) /\ Exchanging(q) /\ node[p] = node[q] => p = q

(* What the consumer holds is the sentinel and the node behind it, and then *)
(* the old sentinel, which nobody else has.                                 *)
Consumer(at) ==
  /\ cpc \in {"take", "advance"} =>
       /\ Taken < Pushed
       /\ popped = tail
       /\ found = at[Taken + 1]
       /\ next[tail] = found
  /\ cpc = "advance" => result = sent[Taken + 1]
  /\ cpc = "delete" =>
       /\ popped \in Nodes
       /\ \A i \in Taken .. Pushed : popped # at[i]
       /\ \A p \in Producers : Exchanging(p) => popped # node[p]

(* The nodes in use are the list, the exchangers' nodes and the one to delete. *)
InUse(at) ==
  \A n \in Nodes :
    n \in allocated <=> \/ phase # "destroyed" /\ \E i \in Taken .. Pushed : n = at[i]
                        \/ \E p \in Producers : Exchanging(p) /\ n = node[p]
                        \/ cpc = "delete" /\ n = popped

(* The destructor starts when no producer is in push, and ends with an empty list. *)
Closing ==
  /\ phase # "open" => \A p \in Producers : ppc[p] = "idle"
  /\ phase = "destroyed" => cpc = "idle" /\ Taken = Pushed

Shape(at) == Chain(at) /\ Links(at) /\ Linkers(at) /\ Exchangers(at) /\ Consumer(at)
             /\ InUse(at)

QInv == /\ PTypeOK
        /\ Numbered
        /\ Closing
        /\ \E at \in [Nat -> Nodes] : Shape(at)
-------------------------------------------------------------------------------
(* The constructor's sentinel is the whole list (lines 137-141). *)
LEMMA InitQInv == Init => QInv
<1> SUFFICES ASSUME Init PROVE QInv
  OBVIOUS
<1> DEFINE at == [i \in Nat |-> head]
<1>1. Taken = 0 /\ Pushed = 0 /\ sent = << >> /\ received = << >>
  BY DEF Init, Taken, Pushed
<1>2. PTypeOK
  BY <1>1, EmptySeq DEF Init, PTypeOK
<1>3. Numbered
  BY <1>1 DEF Numbered, PushedBy
<1>4. Closing
  BY DEF Init, Closing
<1>5. at \in [Nat -> Nodes] /\ at[0] = head
  BY DEF Init
<1> HIDE DEF at
<1>6. Chain(at) /\ Links(at) /\ InUse(at)
  BY <1>1, <1>5 DEF Init, Chain, Links, InUse, Exchanging
<1>7. Linkers(at) /\ Exchangers(at) /\ Consumer(at)
  BY DEF Init, Linkers, Exchangers, Consumer, Linking, Exchanging
<1> QED
  BY <1>2, <1>3, <1>4, <1>5, <1>6, <1>7 DEF QInv, Shape

\* Both counts are natural numbers, and the positions are those of the items.
LEMMA Counts ==
  ASSUME PTypeOK
  PROVE  /\ Taken \in Nat /\ Pushed \in Nat /\ Taken <= Pushed
         /\ DOMAIN sent = 1 .. Pushed
         /\ \A i \in 1 .. Pushed : sent[i] \in Items
BY LenProperties, ElementOfSeq DEF PTypeOK, Taken, Pushed

\* A producer has pushed finitely often.
LEMMA PushesCounted ==
  ASSUME PTypeOK, NEW p
  PROVE  /\ IsFiniteSet(PushedBy(p))
         /\ Cardinality(PushedBy(p)) \in Nat
<1>1. 1 \in Int /\ Pushed \in Int /\ PushedBy(p) \subseteq 1 .. Pushed
  BY Counts DEF PushedBy
<1>2. IsFiniteSet(PushedBy(p))
  BY <1>1, FS_Interval, FS_Subset
<1> QED
  BY <1>2, FS_CardinalityType

(* A new node is in nobody's hands (lines 153, 159). *)
LEMMA PushNewStep ==
  ASSUME QInv, NEW p \in Producers, PushNew(p)
  PROVE  QInv'
<1>1. PICK at \in [Nat -> Nodes] : Shape(at)
  BY DEF QInv
<1>2. PICK n \in Nodes \ allocated :
        /\ allocated' = allocated \cup {n}
        /\ next' = [next EXCEPT ![n] = Null]
        /\ data' = [data EXCEPT ![n] = NextItem(p)]
        /\ node' = [node EXCEPT ![p] = n]
  BY DEF PushNew
<1>3. /\ phase = "open" /\ ppc[p] = "idle" /\ Cardinality(PushedBy(p)) < MaxPushes
      /\ ppc' = [ppc EXCEPT ![p] = "exchange"]
      /\ head' = head /\ tail' = tail /\ prev' = prev /\ cpc' = cpc
      /\ popped' = popped /\ found' = found /\ result' = result
      /\ phase' = phase /\ sent' = sent /\ received' = received
  BY DEF PushNew, consumerVars
<1>4. PTypeOK /\ Numbered /\ Closing
  BY DEF QInv
<1>5. Taken' = Taken /\ Pushed' = Pushed /\ \A q : PushedBy(q)' = PushedBy(q) /\ NextItem(q)' = NextItem(q)
  BY <1>3 DEF Taken, Pushed, PushedBy, NextItem
<1>6. Taken \in Nat /\ Pushed \in Nat /\ Taken <= Pushed
  BY <1>4, Counts
<1>7. \A i \in Taken .. Pushed : at[i] \in Nodes /\ at[i] # n
  BY <1>1, <1>2, <1>3, <1>6 DEF Shape, InUse
<1>8. \A q \in Producers : Exchanging(q) => node[q] # n
  BY <1>1, <1>2 DEF Shape, InUse
<1>9. cpc = "delete" => popped # n
  BY <1>1, <1>2 DEF Shape, InUse
<1>10. /\ \A m \in Nodes : m # n => next'[m] = next[m] /\ data'[m] = data[m]
       /\ next'[n] = Null /\ data'[n] = NextItem(p)
  BY <1>2, <1>4 DEF PTypeOK
<1>11. /\ \A q \in Producers : q # p => node'[q] = node[q] /\ ppc'[q] = ppc[q]
       /\ node'[p] = n /\ ppc'[p] = "exchange"
  BY <1>2, <1>3, <1>4 DEF PTypeOK
<1>12. NextItem(p) \in Items
  BY <1>3, <1>4, PushesCounted, PushAssumption DEF NextItem, Items, PushAssumption
<1>13. PTypeOK'
  BY <1>2, <1>3, <1>4, <1>5, <1>12 DEF PTypeOK
<1>14. Numbered'
  BY <1>3, <1>4, <1>5 DEF Numbered
<1>15. Closing'
  BY <1>3 DEF Closing
<1>16. Chain(at)'
  BY <1>1, <1>3, <1>5, <1>6, <1>7, <1>10 DEF Shape, Chain
<1>17. Links(at)'
  BY <1>1, <1>3, <1>5, <1>6, <1>7, <1>10, <1>11 DEF Shape, Links, Linking
<1>18. Linkers(at)'
  BY <1>1, <1>3, <1>5, <1>6, <1>7, <1>10, <1>11 DEF Shape, Linkers, Linking
<1>19. Exchangers(at)'
  BY <1>1, <1>2, <1>3, <1>5, <1>6, <1>7, <1>8, <1>10, <1>11 DEF Shape, Exchangers, Exchanging
<1>20. Consumer(at)'
  BY <1>1, <1>3, <1>5, <1>6, <1>7, <1>9, <1>10, <1>11 DEF Shape, Chain, Consumer, Exchanging
<1>21. InUse(at)'
  BY <1>1, <1>2, <1>3, <1>5, <1>11 DEF Shape, InUse, Exchanging
<1> QED
  BY <1>13, <1>14, <1>15, <1>16, <1>17, <1>18, <1>19, <1>20, <1>21 DEF QInv, Shape

(* The node takes the next place, and the link to it is this producer's to    *)
(* make (line 154).                                                           *)
LEMMA PushExchangeStep ==
  ASSUME QInv, NEW p \in Producers, PushExchange(p)
  PROVE  QInv'
<1>1. PICK old \in [Nat -> Nodes] : Shape(old)
  BY DEF QInv
<1> DEFINE item == data[node[p]]
<1>2. /\ ppc[p] = "exchange"
      /\ prev' = [prev EXCEPT ![p] = head]
      /\ head' = node[p]
      /\ sent' = Append(sent, item)
      /\ ppc' = [ppc EXCEPT ![p] = "link"]
      /\ tail' = tail /\ next' = next /\ data' = data /\ allocated' = allocated
      /\ node' = node /\ cpc' = cpc /\ popped' = popped /\ found' = found
      /\ result' = result /\ phase' = phase /\ received' = received
  BY DEF PushExchange, consumerVars
<1>3. PTypeOK /\ Numbered /\ Closing
  BY DEF QInv
<1>4. Taken \in Nat /\ Pushed \in Nat /\ Taken <= Pushed
  BY <1>3, Counts
<1>5. /\ node[p] \in Nodes
      /\ next[node[p]] = Null
      /\ item = NextItem(p)
      /\ Cardinality(PushedBy(p)) < MaxPushes
      /\ \A i \in Taken .. Pushed : node[p] # old[i]
      /\ \A q \in Producers : Exchanging(q) /\ node[p] = node[q] => p = q
  BY <1>1, <1>2 DEF Shape, Exchangers, Exchanging
<1>6. item \in Items /\ item[1] = p /\ item[2] = Cardinality(PushedBy(p)) + 1
  BY <1>3, <1>5, PushesCounted, PushAssumption DEF NextItem, Items, PushAssumption
<1> HIDE DEF item
<1>7. /\ sent' \in Seq(Items)
      /\ Pushed' = Pushed + 1 /\ Taken' = Taken
      /\ \A i \in 1 .. Pushed : sent'[i] = sent[i]
      /\ sent'[Pushed + 1] = item
      /\ DOMAIN sent' = 1 .. Pushed + 1
  <2>1. /\ sent' \in Seq(Items)
        /\ Len(sent') = Len(sent) + 1
        /\ \A i \in 1 .. Len(sent) : sent'[i] = sent[i]
        /\ sent'[Len(sent) + 1] = item
    BY <1>2, <1>3, <1>6, AppendProperties DEF PTypeOK
  <2> QED
    BY <1>2, <2>1, LenProperties DEF Pushed, Taken
<1>8. PushedBy(p)' = PushedBy(p) \cup {Pushed + 1}
  BY <1>3, <1>4, <1>6, <1>7, Counts DEF PushedBy
<1>9. ASSUME NEW q, q # p
      PROVE  PushedBy(q)' = PushedBy(q) /\ NextItem(q)' = NextItem(q)
  <2>1. PushedBy(q)' = PushedBy(q)
    BY <1>3, <1>4, <1>6, <1>7, <1>9, Counts DEF PushedBy
  <2> QED
    BY <2>1 DEF NextItem
<1>10. Cardinality(PushedBy(p))' = Cardinality(PushedBy(p)) + 1
  <2>1. Pushed + 1 \notin PushedBy(p)
    BY <1>3, <1>4, Counts DEF PushedBy
  <2> QED
    BY <1>3, <1>8, <2>1, PushesCounted, FS_AddElement
<1>11. PICK at \in [Nat -> Nodes] :
         /\ at[Pushed + 1] = node[p]
         /\ \A i \in Taken .. Pushed : at[i] = old[i] /\ at[i] # node[p]
  <2> DEFINE new == [old EXCEPT ![Pushed + 1] = node[p]]
  <2>1. new \in [Nat -> Nodes]
    BY <1>5
  <2>2. new[Pushed + 1] = node[p] /\ \A i \in Nat : i # Pushed + 1 => new[i] = old[i]
    BY <1>4
  <2>3. \A i \in Taken .. Pushed : i \in Nat /\ i # Pushed + 1
    BY <1>4
  <2> HIDE DEF new
  <2> QED
    BY <1>5, <2>1, <2>2, <2>3
<1>12. /\ \A q \in Producers : q # p => ppc'[q] = ppc[q] /\ prev'[q] = prev[q]
       /\ ppc'[p] = "link" /\ prev'[p] = head
  BY <1>2, <1>3 DEF PTypeOK
<1>13. head = old[Pushed] /\ next[head] = Null /\ tail = old[Taken]
  BY <1>1 DEF Shape, Chain, Links
<1>14. PTypeOK'
  BY <1>2, <1>3, <1>4, <1>5, <1>7 DEF PTypeOK
<1>15. Numbered'
  <2>1. ASSUME NEW q \in Producers, NEW i \in PushedBy(q)'
        PROVE  sent'[i][2] <= Cardinality(PushedBy(q))'
    <3>1. CASE q # p
      <4>1. i \in PushedBy(q) /\ i \in 1 .. Pushed
        BY <1>3, <1>9, <3>1, Counts DEF PushedBy
      <4>2. sent'[i] = sent[i] /\ PushedBy(q)' = PushedBy(q)
        BY <1>7, <1>9, <3>1, <4>1
      <4> QED
        BY <1>3, <4>1, <4>2 DEF Numbered
    <3>2. CASE q = p /\ i # Pushed + 1
      <4>1. i \in PushedBy(p) /\ i \in 1 .. Pushed
        BY <1>3, <1>8, <3>2, Counts DEF PushedBy
      <4>2. sent'[i] = sent[i] /\ sent[i][2] \in Nat
        BY <1>3, <1>7, <4>1, Counts DEF Items
      <4>3. sent[i][2] <= Cardinality(PushedBy(p))
        BY <1>3, <4>1 DEF Numbered
      <4> QED
        BY <1>3, <1>10, <3>2, <4>2, <4>3, PushesCounted
    <3>3. CASE q = p /\ i = Pushed + 1
      <4>1. sent'[i][2] = Cardinality(PushedBy(p)) + 1
        BY <1>6, <1>7, <3>3
      <4> QED
        BY <1>3, <1>10, <3>3, <4>1, PushesCounted
    <3> QED
      BY <3>1, <3>2, <3>3
  <2>2. \A i \in 1 .. Pushed : sent[i] # item
    <3> SUFFICES ASSUME NEW i \in 1 .. Pushed, sent[i] = item PROVE FALSE
      OBVIOUS
    <3>1. i \in PushedBy(p)
      BY <1>3, <1>6, Counts DEF PushedBy
    <3>2. Cardinality(PushedBy(p)) + 1 <= Cardinality(PushedBy(p))
      BY <1>3, <1>6, <3>1 DEF Numbered
    <3> QED
      BY <1>3, <3>2, PushesCounted
  <2>3. \A i, j \in 1 .. Pushed + 1 : sent'[i] = sent'[j] => i = j
    <3>1. \A i \in 1 .. Pushed + 1 : i \in 1 .. Pushed \/ i = Pushed + 1
      BY <1>4
    <3> QED
      BY <1>3, <1>7, <2>2, <3>1 DEF Numbered
  <2> QED
    <3>1. \A q \in Producers : \A i \in PushedBy(q)' : sent'[i][2] <= Cardinality(PushedBy(q))'
      BY <2>1
    <3> QED
      BY <1>7, <2>3, <3>1 DEF Numbered
<1>16. Closing'
  BY <1>2, <1>3 DEF Closing
<1>17. Chain(at)'
  <2>1. at[Taken] = tail /\ at[Pushed + 1] = node[p]
    BY <1>4, <1>11, <1>13
  <2>2. \A i \in Taken .. Pushed + 1 : i \in Taken .. Pushed \/ i = Pushed + 1
    BY <1>4
  <2>3. \A i, j \in Taken .. Pushed + 1 : at[i] = at[j] => i = j
    BY <1>1, <1>11, <2>2 DEF Shape, Chain
  <2>4. \A i \in Taken + 1 .. Pushed + 1 : data[at[i]] = sent'[i]
    <3>1. ASSUME NEW i \in Taken + 1 .. Pushed PROVE data[at[i]] = sent'[i]
      <4>1. i \in Taken .. Pushed /\ i \in 1 .. Pushed
        BY <1>4
      <4> QED
        BY <1>1, <1>7, <1>11, <4>1 DEF Shape, Chain
    <3>2. data[at[Pushed + 1]] = sent'[Pushed + 1]
      BY <1>7, <1>11 DEF item
    <3> QED
      BY <1>4, <3>1, <3>2
  <2> QED
    BY <1>2, <1>7, <2>1, <2>3, <2>4 DEF Chain
<1>18. Links(at)'
  <2>1. next[at[Pushed + 1]] = Null
    BY <1>5, <1>11
  <2>2. ASSUME NEW i \in Taken .. Pushed
        PROVE  \/ next[at[i]] = at[i + 1]
               \/ /\ next[at[i]] = Null
                  /\ \E q \in Producers : Linking(q)' /\ prev'[q] = at[i]
    <3>1. CASE i = Pushed
      BY <1>11, <1>12, <1>13, <3>1 DEF Linking
    <3>2. CASE i # Pushed
      <4>1. i \in Taken .. Pushed - 1 /\ i + 1 \in Taken .. Pushed
        BY <1>4, <3>2
      <4>2. \A q \in Producers : Linking(q) => q # p /\ Linking(q)' /\ prev'[q] = prev[q]
        BY <1>2, <1>12 DEF Linking
      <4> QED
        BY <1>1, <1>11, <4>1, <4>2 DEF Shape, Links
    <3> QED
      BY <3>1, <3>2
  <2>3. (Pushed + 1) - 1 = Pushed
    BY <1>4
  <2> QED
    BY <1>2, <1>7, <2>1, <2>2, <2>3 DEF Links
<1>19. Linkers(at)'
  <2>1. \A q \in Producers : Linking(q)' /\ q # p => Linking(q) /\ prev'[q] = prev[q]
    BY <1>12 DEF Linking
  <2>2. ASSUME NEW q \in Producers, Linking(q)'
        PROVE  \E i \in Taken .. Pushed :
                 prev'[q] = at[i] /\ node[q] = at[i + 1] /\ next[at[i]] = Null
    <3>1. CASE q = p
      <4>1. Pushed \in Taken .. Pushed
        BY <1>4
      <4> QED
        BY <1>11, <1>12, <1>13, <3>1, <4>1
    <3>2. CASE q # p
      <4>1. PICK i \in Taken .. Pushed - 1 :
              prev[q] = old[i] /\ node[q] = old[i + 1] /\ next[old[i]] = Null
        BY <1>1, <2>1, <2>2, <3>2 DEF Shape, Linkers
      <4>2. i \in Taken .. Pushed /\ i + 1 \in Taken .. Pushed
        BY <1>4
      <4> QED
        BY <1>11, <2>1, <2>2, <3>2, <4>1, <4>2
    <3> QED
      BY <3>1, <3>2
  <2>3. \A q \in Producers : Linking(q) => prev[q] # head
    <3> SUFFICES ASSUME NEW q \in Producers, Linking(q) PROVE prev[q] # head
      OBVIOUS
    <3>1. PICK i \in Taken .. Pushed - 1 : prev[q] = old[i]
      BY <1>1 DEF Shape, Linkers
    <3>2. i \in Taken .. Pushed /\ Pushed \in Taken .. Pushed /\ i # Pushed
      BY <1>4
    <3> QED
      BY <1>1, <1>13, <3>1, <3>2 DEF Shape, Chain
  <2>4. \A q, r \in Producers : Linking(q)' /\ Linking(r)' /\ prev'[q] = prev'[r] => q = r
    BY <1>1, <1>12, <2>1, <2>3 DEF Shape, Linkers
  <2>5. (Pushed + 1) - 1 = Pushed
    BY <1>4
  <2> QED
    BY <1>2, <1>7, <2>2, <2>4, <2>5 DEF Linkers
<1>20. Exchangers(at)'
  <2>1. \A q \in Producers : Exchanging(q)' => q # p /\ Exchanging(q)
    BY <1>12 DEF Exchanging
  <2>2. \A i \in Taken .. Pushed + 1 : i \in Taken .. Pushed \/ i = Pushed + 1
    BY <1>4
  <2>3. ASSUME NEW q \in Producers, Exchanging(q)'
        PROVE  /\ node[q] \in Nodes
               /\ next[node[q]] = Null
               /\ data[node[q]] = NextItem(q)'
               /\ Cardinality(PushedBy(q))' < MaxPushes
               /\ \A i \in Taken .. Pushed + 1 : node[q] # at[i]
    <3>1. q # p /\ Exchanging(q)
      BY <2>1, <2>3
    <3>2. NextItem(q)' = NextItem(q) /\ PushedBy(q)' = PushedBy(q)
      BY <1>9, <3>1
    <3> QED
      BY <1>1, <1>5, <1>11, <2>2, <3>1, <3>2 DEF Shape, Exchangers
  <2>4. \A q, r \in Producers : Exchanging(q)' /\ Exchanging(r)' /\ node[q] = node[r] => q = r
    BY <1>1, <2>1 DEF Shape, Exchangers
  <2> QED
    BY <1>2, <1>7, <2>3, <2>4 DEF Exchangers
<1>21. Consumer(at)'
  <2>1. cpc \in {"take", "advance"} =>
          Taken < Pushed + 1 /\ popped = tail /\ found = at[Taken + 1] /\ next[tail] = found
    <3> SUFFICES ASSUME cpc \in {"take", "advance"}
                 PROVE  Taken < Pushed + 1 /\ popped = tail /\ found = at[Taken + 1]
                        /\ next[tail] = found
      OBVIOUS
    <3>1. Taken < Pushed /\ popped = tail /\ found = old[Taken + 1] /\ next[tail] = found
      BY <1>1 DEF Shape, Consumer
    <3>2. Taken + 1 \in Taken .. Pushed
      BY <1>4, <3>1
    <3> QED
      BY <1>4, <1>11, <3>1, <3>2
  <2>2. cpc = "advance" => result = sent'[Taken + 1]
    <3> SUFFICES ASSUME cpc = "advance" PROVE result = sent'[Taken + 1]
      OBVIOUS
    <3>1. Taken < Pushed /\ result = sent[Taken + 1]
      BY <1>1 DEF Shape, Consumer
    <3>2. Taken + 1 \in 1 .. Pushed
      BY <1>4, <3>1
    <3> QED
      BY <1>7, <3>1, <3>2
  <2>3. cpc = "delete" =>
          /\ popped \in Nodes
          /\ \A i \in Taken .. Pushed + 1 : popped # at[i]
          /\ \A q \in Producers : Exchanging(q)' => popped # node[q]
    <3>1. \A i \in Taken .. Pushed + 1 : i \in Taken .. Pushed \/ i = Pushed + 1
      BY <1>4
    <3>2. \A q \in Producers : Exchanging(q)' => Exchanging(q)
      BY <1>12 DEF Exchanging
    <3>3. Exchanging(p)
      BY <1>2 DEF Exchanging
    <3> QED
      BY <1>1, <1>11, <3>1, <3>2, <3>3 DEF Shape, Consumer
  <2> QED
    BY <1>2, <1>7, <2>1, <2>2, <2>3 DEF Consumer
<1>22. InUse(at)'
  <2>1. phase = "open"
    BY <1>2, <1>3 DEF Closing
  <2>2. \A i \in Taken .. Pushed + 1 : i \in Taken .. Pushed \/ i = Pushed + 1
    BY <1>4
  <2>3. \A i \in Taken .. Pushed : i \in Taken .. Pushed + 1
    BY <1>4
  <2>4. Pushed + 1 \in Taken .. Pushed + 1
    BY <1>4
  <2>5. \A q \in Producers : Exchanging(q)' <=> q # p /\ Exchanging(q)
    BY <1>12 DEF Exchanging
  <2>6. Exchanging(p)
    BY <1>2 DEF Exchanging
  <2>7. ASSUME NEW n \in Nodes
        PROVE  (\E i \in Taken .. Pushed + 1 : n = at[i])
                 <=> (\E i \in Taken .. Pushed : n = old[i]) \/ n = node[p]
    BY <1>11, <2>2, <2>3, <2>4
  <2>8. ASSUME NEW n \in Nodes
        PROVE  (\E q \in Producers : Exchanging(q) /\ n = node[q])
                 <=> (\E q \in Producers : Exchanging(q)' /\ n = node[q]) \/ n = node[p]
    BY <2>5, <2>6
  <2>9. ASSUME NEW n \in Nodes
        PROVE  n \in allocated <=> \/ \E i \in Taken .. Pushed + 1 : n = at[i]
                                   \/ \E q \in Producers : Exchanging(q)' /\ n = node[q]
                                   \/ cpc = "delete" /\ n = popped
    BY <1>1, <2>1, <2>7, <2>8 DEF Shape, InUse
  <2> QED
    BY <1>2, <1>7, <2>1, <2>9 DEF InUse
<1> QED
  BY <1>11, <1>14, <1>15, <1>16, <1>17, <1>18, <1>19, <1>20, <1>21, <1>22 DEF QInv, Shape

(* The link a producer makes is the one that is missing behind the node it    *)
(* found (line 155).                                                          *)
LEMMA PushLinkStep ==
  ASSUME QInv, NEW p \in Producers, PushLink(p)
  PROVE  QInv'
<1>1. PICK at \in [Nat -> Nodes] : Shape(at)
  BY DEF QInv
<1>2. /\ ppc[p] = "link"
      /\ next' = [next EXCEPT ![prev[p]] = node[p]]
      /\ ppc' = [ppc EXCEPT ![p] = "idle"]
      /\ node' = [node EXCEPT ![p] = Null]
      /\ prev' = [prev EXCEPT ![p] = Null]
      /\ head' = head /\ tail' = tail /\ data' = data /\ allocated' = allocated
      /\ cpc' = cpc /\ popped' = popped /\ found' = found /\ result' = result
      /\ phase' = phase /\ sent' = sent /\ received' = received
  BY DEF PushLink, consumerVars
<1>3. PTypeOK /\ Numbered /\ Closing
  BY DEF QInv
<1>4. Taken \in Nat /\ Pushed \in Nat /\ Taken <= Pushed
  BY <1>3, Counts
<1>5. Taken' = Taken /\ Pushed' = Pushed /\ \A q : PushedBy(q)' = PushedBy(q) /\ NextItem(q)' = NextItem(q)
  BY <1>2 DEF Taken, Pushed, PushedBy, NextItem
<1>6. PICK k \in Taken .. Pushed - 1 :
        prev[p] = at[k] /\ node[p] = at[k + 1] /\ next[at[k]] = Null
  BY <1>1, <1>2 DEF Shape, Linkers, Linking
<1>7. /\ k \in Taken .. Pushed /\ k + 1 \in Taken .. Pushed
      /\ k \in Nat /\ k + 1 \in Nat /\ k # Pushed
  BY <1>4, <1>6
<1>8. at[k] \in Nodes /\ at[k + 1] \in Nodes
  BY <1>7
<1>9. /\ next'[at[k]] = at[k + 1]
      /\ \A n \in Nodes : n # at[k] => next'[n] = next[n]
  BY <1>2, <1>3, <1>6, <1>8 DEF PTypeOK
<1>10. /\ \A q \in Producers : q # p => ppc'[q] = ppc[q] /\ node'[q] = node[q] /\ prev'[q] = prev[q]
       /\ ppc'[p] = "idle"
  BY <1>2, <1>3 DEF PTypeOK
<1>11. \A i \in Taken .. Pushed : at[i] \in Nodes /\ (i # k => at[i] # at[k])
  BY <1>1, <1>4, <1>7 DEF Shape, Chain
<1>12. \A q \in Producers : Linking(q)' <=> q # p /\ Linking(q)
  BY <1>10 DEF Linking
<1>13. \A q \in Producers : Exchanging(q)' => q # p /\ Exchanging(q) /\ node'[q] = node[q]
  BY <1>10 DEF Exchanging
<1>14. PTypeOK'
  BY <1>2, <1>3, <1>5, <1>6, <1>8 DEF PTypeOK
<1>15. Numbered' /\ Closing'
  BY <1>2, <1>3, <1>5 DEF Numbered, Closing
<1>16. Chain(at)'
  BY <1>1, <1>2, <1>5 DEF Shape, Chain
<1>17. Links(at)'
  <2>1. next'[at[Pushed]] = Null
    BY <1>1, <1>4, <1>7, <1>9, <1>11 DEF Shape, Links
  <2>2. ASSUME NEW i \in Taken .. Pushed - 1
        PROVE  \/ next'[at[i]] = at[i + 1]
               \/ /\ next'[at[i]] = Null
                  /\ \E q \in Producers : Linking(q)' /\ prev'[q] = at[i]
    <3>1. CASE i = k
      BY <1>9, <3>1
    <3>2. CASE i # k
      <4>1. next'[at[i]] = next[at[i]] /\ at[i] # at[k]
        BY <1>4, <1>9, <1>11, <3>2
      <4>2. \A q \in Producers : Linking(q) /\ prev[q] = at[i] => Linking(q)' /\ prev'[q] = at[i]
        BY <1>6, <1>10, <1>12, <4>1
      <4> QED
        BY <1>1, <4>1, <4>2 DEF Shape, Links
    <3> QED
      BY <3>1, <3>2
  <2> QED
    BY <1>5, <2>1, <2>2 DEF Links
<1>18. Linkers(at)'
  <2>1. ASSUME NEW q \in Producers, Linking(q)'
        PROVE  \E i \in Taken .. Pushed - 1 :
                 prev'[q] = at[i] /\ node'[q] = at[i + 1] /\ next'[at[i]] = Null
    <3>1. q # p /\ Linking(q) /\ Linking(p)
      BY <1>2, <1>12, <2>1 DEF Linking
    <3>2. PICK i \in Taken .. Pushed - 1 :
            prev[q] = at[i] /\ node[q] = at[i + 1] /\ next[at[i]] = Null
      BY <1>1, <3>1 DEF Shape, Linkers
    <3>3. at[i] # at[k]
      BY <1>1, <1>6, <3>1, <3>2 DEF Shape, Linkers
    <3>4. next'[at[i]] = next[at[i]]
      BY <1>4, <1>9, <1>11, <3>3
    <3> QED
      BY <1>10, <3>1, <3>2, <3>4
  <2>2. \A q, r \in Producers : Linking(q)' /\ Linking(r)' /\ prev'[q] = prev'[r] => q = r
    BY <1>1, <1>10, <1>12 DEF Shape, Linkers
  <2> QED
    BY <1>5, <2>1, <2>2 DEF Linkers
<1>19. Exchangers(at)'
  BY <1>1, <1>2, <1>5, <1>7, <1>9, <1>13 DEF Shape, Exchangers
<1>20. Consumer(at)'
  <2>1. cpc \in {"take", "advance"} => next'[tail] = found
    <3> SUFFICES ASSUME cpc \in {"take", "advance"} PROVE next'[tail] = found
      OBVIOUS
    <3>1. Taken < Pushed /\ tail = at[Taken] /\ found = at[Taken + 1] /\ next[tail] = found
      BY <1>1 DEF Shape, Chain, Consumer
    <3>2. Taken \in Taken .. Pushed /\ Taken + 1 \in Taken .. Pushed
      BY <1>4, <3>1
    <3>3. found # Null
      BY <1>11, <3>1, <3>2, NodeAssumption DEF NodeAssumption
    <3> QED
      BY <1>6, <1>9, <1>11, <3>1, <3>2, <3>3
  <2> QED
    BY <1>1, <1>2, <1>5, <1>13, <2>1 DEF Shape, Consumer
<1>21. InUse(at)'
  <2>1. \A q \in Producers : Exchanging(q)' <=> Exchanging(q)
    BY <1>2, <1>10 DEF Exchanging
  <2> QED
    BY <1>1, <1>2, <1>5, <1>13, <2>1 DEF Shape, InUse
<1> QED
  BY <1>14, <1>15, <1>16, <1>17, <1>18, <1>19, <1>20, <1>21 DEF QInv, Shape
-------------------------------------------------------------------------------
\* The conjuncts that speak of producers only hold on while they stand still.
LEMMA ProducersStill ==
  ASSUME NEW at, Numbered, Linkers(at), Exchangers(at),
         UNCHANGED <<next, data, producerVars, sent, received>>
  PROVE  Numbered' /\ Linkers(at)' /\ Exchangers(at)'
BY DEF producerVars, Numbered, Linkers, Exchangers, Linking, Exchanging, PushedBy, NextItem,
       Taken, Pushed

(* What the consumer finds behind the sentinel is the next node (lines 165-170). *)
LEMMA PopLoadStep ==
  ASSUME QInv, PopLoad
  PROVE  QInv'
<1>1. PICK at \in [Nat -> Nodes] : Shape(at)
  BY DEF QInv
<1>2. /\ phase # "destroyed" /\ cpc = "idle" /\ next[tail] # Null
      /\ popped' = tail /\ found' = next[tail] /\ cpc' = "take"
      /\ UNCHANGED <<head, tail, next, data, allocated, result, ppc, node, prev, phase,
                     sent, received>>
  BY DEF PopLoad, producerVars
<1>3. PTypeOK /\ Numbered /\ Closing
  BY DEF QInv
<1>4. Taken \in Nat /\ Pushed \in Nat /\ Taken <= Pushed
  BY <1>3, Counts
<1>5. Taken' = Taken /\ Pushed' = Pushed
  BY <1>2 DEF Taken, Pushed
<1>6. tail = at[Taken] /\ Taken < Pushed
  <2>1. tail = at[Taken] /\ next[at[Pushed]] = Null
    BY <1>1 DEF Shape, Chain, Links
  <2> QED
    BY <1>2, <1>4, <2>1
<1>7. next[tail] = at[Taken + 1]
  <2>1. Taken \in Taken .. Pushed - 1
    BY <1>4, <1>6
  <2> QED
    BY <1>1, <1>2, <1>6, <2>1 DEF Shape, Links
<1>8. PTypeOK' /\ Closing'
  BY <1>2, <1>3, <1>5 DEF PTypeOK, Closing
<1>9. Chain(at)' /\ Links(at)' /\ InUse(at)'
  BY <1>1, <1>2, <1>5 DEF Shape, Chain, Links, InUse, Linking, Exchanging
<1>10. Numbered' /\ Linkers(at)' /\ Exchangers(at)'
  BY <1>1, <1>2, <1>3, ProducersStill DEF Shape, producerVars
<1>11. Consumer(at)'
  BY <1>2, <1>5, <1>6, <1>7 DEF Consumer
<1> QED
  BY <1>8, <1>9, <1>10, <1>11 DEF QInv, Shape

(* The item taken is the next one in the order (line 172). *)
LEMMA PopTakeStep ==
  ASSUME QInv, PopTake
  PROVE  QInv'
<1>1. PICK at \in [Nat -> Nodes] : Shape(at)
  BY DEF QInv
<1>2. /\ cpc = "take" /\ result' = data[found] /\ cpc' = "advance"
      /\ UNCHANGED <<head, tail, next, data, allocated, popped, found, ppc, node, prev,
                     phase, sent, received>>
  BY DEF PopTake, producerVars
<1>3. PTypeOK /\ Numbered /\ Closing
  BY DEF QInv
<1>4. Taken \in Nat /\ Pushed \in Nat /\ Taken <= Pushed
  BY <1>3, Counts
<1>5. Taken' = Taken /\ Pushed' = Pushed
  BY <1>2 DEF Taken, Pushed
<1>6. Taken < Pushed /\ popped = tail /\ found = at[Taken + 1] /\ next[tail] = found
  BY <1>1, <1>2 DEF Shape, Consumer
<1>7. Taken + 1 \in Taken + 1 .. Pushed /\ Taken + 1 \in Nat
  BY <1>4, <1>6
<1>8. data[found] = sent[Taken + 1] /\ found \in Nodes
  BY <1>1, <1>6, <1>7 DEF Shape, Chain
<1>9. PTypeOK' /\ Closing'
  BY <1>2, <1>3, <1>5, <1>8 DEF PTypeOK, Closing
<1>10. Chain(at)' /\ Links(at)' /\ InUse(at)'
  BY <1>1, <1>2, <1>5 DEF Shape, Chain, Links, InUse, Linking, Exchanging
<1>11. Numbered' /\ Linkers(at)' /\ Exchangers(at)'
  BY <1>1, <1>2, <1>3, ProducersStill DEF Shape, producerVars
<1>12. Consumer(at)'
  BY <1>2, <1>5, <1>6, <1>8 DEF Consumer
<1> QED
  BY <1>9, <1>10, <1>11, <1>12 DEF QInv, Shape

(* The list loses its sentinel, which nobody else holds: no producer is to    *)
(* link it, for its link was there (line 173).                                *)
LEMMA PopAdvanceStep ==
  ASSUME QInv, PopAdvance
  PROVE  QInv'
<1>1. PICK at \in [Nat -> Nodes] : Shape(at)
  BY DEF QInv
<1>2. /\ cpc = "advance" /\ tail' = found /\ cpc' = "delete"
      /\ received' = Append(received, result)
      /\ UNCHANGED <<head, next, data, allocated, popped, found, result, ppc, node, prev,
                     phase, sent>>
  BY DEF PopAdvance, producerVars
<1>3. PTypeOK /\ Numbered /\ Closing
  BY DEF QInv
<1>4. Taken \in Nat /\ Pushed \in Nat /\ Taken <= Pushed
  BY <1>3, Counts
<1>5. /\ Taken < Pushed /\ popped = tail /\ found = at[Taken + 1] /\ next[tail] = found
      /\ result = sent[Taken + 1] /\ tail = at[Taken]
  BY <1>1, <1>2 DEF Shape, Chain, Consumer
<1>6. result \in Items
  <2>1. Taken + 1 \in 1 .. Pushed
    BY <1>4, <1>5
  <2> QED
    BY <1>3, <1>5, <2>1, Counts
<1>7. received' \in Seq(Items) /\ Taken' = Taken + 1 /\ Pushed' = Pushed
  BY <1>2, <1>3, <1>6, AppendProperties DEF PTypeOK, Taken, Pushed
<1>8. /\ \A i \in Taken + 1 .. Pushed : i \in Taken .. Pushed /\ i # Taken
      /\ \A i \in Taken + 1 .. Pushed - 1 : i \in Taken .. Pushed - 1
      /\ \A i \in (Taken + 1) + 1 .. Pushed : i \in Taken + 1 .. Pushed
      /\ \A i \in Taken .. Pushed : i = Taken \/ i \in Taken + 1 .. Pushed
      /\ \A i \in Taken .. Pushed - 1 : i = Taken \/ i \in Taken + 1 .. Pushed - 1
      /\ Taken \in Taken .. Pushed
      /\ Taken + 1 \in Taken .. Pushed
  BY <1>4, <1>5
<1>9. \A i \in Taken + 1 .. Pushed : at[i] # tail
  BY <1>1, <1>5, <1>8 DEF Shape, Chain
<1>10. popped \in Nodes /\ found \in Nodes /\ found # Null
  BY <1>1, <1>4, <1>5, NodeAssumption DEF NodeAssumption
<1>11. PTypeOK' /\ Closing'
  <2>1. PTypeOK'
    BY <1>2, <1>3, <1>4, <1>5, <1>7, <1>10 DEF PTypeOK
  <2>2. Closing'
    BY <1>2, <1>3 DEF Closing
  <2> QED
    BY <2>1, <2>2
<1>12. Numbered'
  BY <1>2, <1>3, <1>7 DEF Numbered, PushedBy
<1>13. Chain(at)'
  BY <1>1, <1>2, <1>5, <1>7, <1>8 DEF Shape, Chain
<1>14. Links(at)'
  BY <1>1, <1>2, <1>7, <1>8 DEF Shape, Links, Linking
<1>15. Linkers(at)'
  <2>1. ASSUME NEW p \in Producers, Linking(p)
        PROVE  \E i \in Taken + 1 .. Pushed - 1 :
                 prev[p] = at[i] /\ node[p] = at[i + 1] /\ next[at[i]] = Null
    <3>1. PICK i \in Taken .. Pushed - 1 :
            prev[p] = at[i] /\ node[p] = at[i + 1] /\ next[at[i]] = Null
      BY <1>1, <2>1 DEF Shape, Linkers
    <3>2. i # Taken
      BY <1>5, <1>10, <3>1
    <3> QED
      BY <1>8, <3>1, <3>2
  <2> QED
    BY <1>1, <1>2, <1>7, <2>1 DEF Shape, Linkers, Linking
<1>16. Exchangers(at)'
  BY <1>1, <1>2, <1>7, <1>8 DEF Shape, Exchangers, Exchanging, PushedBy, NextItem
<1>17. Consumer(at)'
  BY <1>1, <1>2, <1>5, <1>7, <1>8, <1>9, <1>10 DEF Shape, Consumer, Exchangers, Exchanging
<1>18. InUse(at)'
  <2>1. phase # "destroyed"
    BY <1>2, <1>3 DEF Closing
  <2>2. \A n \in Nodes : (\E i \in Taken .. Pushed : n = at[i])
                            <=> (\E i \in Taken + 1 .. Pushed : n = at[i]) \/ n = popped
    BY <1>5, <1>8
  <2> QED
    BY <1>1, <1>2, <1>7, <2>1, <2>2 DEF Shape, InUse, Exchanging
<1> QED
  BY <1>11, <1>12, <1>13, <1>14, <1>15, <1>16, <1>17, <1>18 DEF QInv, Shape

(* The old sentinel is given back (line 174). *)
LEMMA PopDeleteStep ==
  ASSUME QInv, PopDelete
  PROVE  QInv'
<1>1. PICK at \in [Nat -> Nodes] : Shape(at)
  BY DEF QInv
<1>2. /\ cpc = "delete" /\ allocated' = allocated \ {popped} /\ cpc' = "idle"
      /\ popped' = Null /\ found' = Null
      /\ UNCHANGED <<head, tail, next, data, result, ppc, node, prev, phase, sent, received>>
  BY DEF PopDelete, producerVars
<1>3. PTypeOK /\ Numbered /\ Closing
  BY DEF QInv
<1>4. Taken' = Taken /\ Pushed' = Pushed
  BY <1>2 DEF Taken, Pushed
<1>5. PTypeOK' /\ Closing'
  BY <1>2, <1>3, <1>4 DEF PTypeOK, Closing
<1>6. Chain(at)' /\ Links(at)'
  BY <1>1, <1>2, <1>4 DEF Shape, Chain, Links, Linking
<1>7. Numbered' /\ Linkers(at)' /\ Exchangers(at)'
  BY <1>1, <1>2, <1>3, ProducersStill DEF Shape, producerVars
<1>8. Consumer(at)'
  BY <1>2 DEF Consumer
<1>9. InUse(at)'
  BY <1>1, <1>2, <1>4 DEF Shape, Consumer, InUse, Exchanging
<1> QED
  BY <1>5, <1>6, <1>7, <1>8, <1>9 DEF QInv, Shape

(* The destructor finds no producer in push, empties the list and deletes the *)
(* last node of it (lines 143-147).                                           *)
LEMMA DestroyStep ==
  ASSUME QInv, Destroy
  PROVE  QInv'
<1>1. PICK at \in [Nat -> Nodes] : Shape(at)
  BY DEF QInv
<1>2. /\ cpc = "idle"
      /\ UNCHANGED <<head, tail, next, data, ppc, node, prev, cpc, popped, found, result,
                     sent, received>>
  BY DEF Destroy, DestroyBegin, DestroyEnd, producerVars, consumerVars
<1>3. PTypeOK /\ Numbered /\ Closing
  BY DEF QInv
<1>4. Taken' = Taken /\ Pushed' = Pushed
  BY <1>2 DEF Taken, Pushed
<1>5. Chain(at)' /\ Links(at)'
  BY <1>1, <1>2, <1>4 DEF Shape, Chain, Links, Linking
<1>6. Numbered' /\ Linkers(at)' /\ Exchangers(at)'
  BY <1>1, <1>2, <1>3, ProducersStill DEF Shape, producerVars
<1>7. Consumer(at)'
  BY <1>2 DEF Consumer
<1>8. CASE DestroyBegin
  <2>1. /\ phase = "open" /\ phase' = "closing" /\ allocated' = allocated
        /\ \A p \in Producers : ppc[p] = "idle"
    BY <1>8 DEF DestroyBegin
  <2>2. PTypeOK' /\ Closing'
    BY <1>2, <1>3, <1>4, <2>1 DEF PTypeOK, Closing
  <2>3. InUse(at)'
    BY <1>1, <1>2, <1>4, <2>1 DEF Shape, InUse, Exchanging
  <2> QED
    BY <1>5, <1>6, <1>7, <2>2, <2>3 DEF QInv, Shape
<1>9. CASE DestroyEnd
  <2>1. /\ phase = "closing" /\ phase' = "destroyed" /\ allocated' = allocated \ {head}
        /\ next[tail] = Null
    BY <1>9 DEF DestroyEnd
  <2>2. Taken \in Nat /\ Pushed \in Nat /\ Taken <= Pushed
    BY <1>3, Counts
  <2>3. \A p \in Producers : ~ Linking(p) /\ ~ Exchanging(p)
    BY <1>3, <2>1 DEF Closing, Linking, Exchanging
  <2>4. Taken = Pushed
    <3> SUFFICES ASSUME Taken # Pushed PROVE FALSE
      OBVIOUS
    <3>1. Taken \in Taken .. Pushed - 1 /\ Taken + 1 \in Nat
      BY <2>2
    <3>2. next[at[Taken]] = at[Taken + 1]
      BY <1>1, <2>3, <3>1 DEF Shape, Links
    <3> QED
      BY <1>1, <2>1, <3>1, <3>2, NodeAssumption DEF Shape, Chain, NodeAssumption
  <2>5. PTypeOK' /\ Closing'
    BY <1>2, <1>3, <1>4, <2>1, <2>4 DEF PTypeOK, Closing
  <2>6. \A i \in Taken .. Pushed : at[i] = head
    BY <1>1, <2>2, <2>4 DEF Shape, Chain
  <2>7. InUse(at)'
    BY <1>1, <1>2, <1>4, <2>1, <2>3, <2>6 DEF Shape, InUse, Exchanging
  <2> QED
    BY <1>5, <1>6, <1>7, <2>5, <2>7 DEF QInv, Shape
<1> QED
  BY <1>8, <1>9 DEF Destroy

LEMMA StepQInv == QInv /\ [Next]_vars => QInv'
<1> SUFFICES ASSUME QInv, [Next]_vars PROVE QInv'
  OBVIOUS
<1>1. ASSUME NEW p \in Producers, Push(p) PROVE QInv'
  BY <1>1, PushNewStep, PushExchangeStep, PushLinkStep DEF Push
<1>2. CASE UNCHANGED vars
  <2>1. PICK at \in [Nat -> Nodes] : Shape(at)
    BY DEF QInv
  <2>2. PTypeOK /\ Numbered /\ Closing
    BY DEF QInv
  <2>3. Taken' = Taken /\ Pushed' = Pushed
    BY <1>2 DEF vars, Taken, Pushed
  <2>4. PTypeOK' /\ Closing'
    BY <1>2, <2>2, <2>3 DEF vars, PTypeOK, Closing
  <2>5. Numbered' /\ Linkers(at)' /\ Exchangers(at)'
    BY <1>2, <2>1, <2>2, ProducersStill DEF vars, producerVars, Shape
  <2>6. Chain(at)' /\ Links(at)' /\ Consumer(at)' /\ InUse(at)'
    BY <1>2, <2>1, <2>3 DEF vars, Shape, Chain, Links, Consumer, InUse, Linking, Exchanging
  <2> QED
    BY <2>1, <2>4, <2>5, <2>6 DEF QInv, Shape
<1>3. CASE Pop
  BY <1>2, <1>3, PopLoadStep, PopTakeStep, PopAdvanceStep, PopDeleteStep DEF Pop, PopEmpty
<1> QED
  BY <1>1, <1>2, <1>3, DestroyStep DEF Next

LEMMA QInvHolds == Spec => []QInv
BY InitQInv, StepQInv, PTL DEF Spec
-------------------------------------------------------------------------------
(* Every variable keeps its type. *)
THEOREM QueueTypes == Spec => []PTypeOK
<1>1. QInv => PTypeOK
  BY DEF QInv
<1> QED
  BY QInvHolds, <1>1, PTL

(* No thread ever holds a node that is deleted, although the consumer deletes *)
(* nodes that producers have found at the head (lines 154-155 against 174).   *)
THEOREM NoNodeUsedAfterFree == Spec => []NoUseAfterFree
<1>1. QInv => NoUseAfterFree
  <2> SUFFICES ASSUME QInv PROVE NoUseAfterFree
    OBVIOUS
  <2>1. PICK at \in [Nat -> Nodes] : Shape(at)
    BY DEF QInv
  <2>2. Taken \in Nat /\ Pushed \in Nat /\ Taken <= Pushed /\ Closing
    BY Counts DEF QInv
  <2>3. phase # "destroyed" => \A i \in Taken .. Pushed : at[i] \in allocated
    BY <2>1, <2>2 DEF Shape, InUse
  <2>4. phase # "destroyed" => {head, tail} \subseteq allocated
    <3>1. Taken \in Taken .. Pushed /\ Pushed \in Taken .. Pushed
      BY <2>2
    <3> QED
      BY <2>1, <2>3, <3>1 DEF Shape, Chain
  <2>5. ASSUME NEW p \in Producers, Exchanging(p) PROVE node[p] \in allocated
    BY <2>1, <2>5 DEF Shape, Exchangers, InUse
  <2>6. ASSUME NEW p \in Producers, Linking(p) PROVE {node[p], prev[p]} \subseteq allocated
    <3>1. phase # "destroyed"
      BY <2>2, <2>6 DEF Closing, Linking
    <3>2. PICK i \in Taken .. Pushed - 1 : prev[p] = at[i] /\ node[p] = at[i + 1]
      BY <2>1, <2>6 DEF Shape, Linkers
    <3>3. i \in Taken .. Pushed /\ i + 1 \in Taken .. Pushed
      BY <2>2
    <3> QED
      BY <2>3, <3>1, <3>2, <3>3
  <2>7. ASSUME cpc \in {"take", "advance"} PROVE popped \in allocated /\ found \in allocated
    <3>1. phase # "destroyed" /\ Taken < Pushed /\ popped = tail /\ found = at[Taken + 1]
      BY <2>1, <2>2, <2>7 DEF Closing, Shape, Consumer
    <3>2. Taken + 1 \in Taken .. Pushed
      BY <2>2, <3>1
    <3> QED
      BY <2>3, <2>4, <3>1, <3>2
  <2>8. cpc = "delete" => popped \in allocated
    BY <2>1 DEF Shape, Consumer, InUse
  <2> QED
    BY <2>4, <2>5, <2>6, <2>7, <2>8 DEF NoUseAfterFree, QInv, PTypeOK
<1> QED
  BY QInvHolds, <1>1, PTL

(* A consumer that finds nothing although something has entered the order     *)
(* stands before a link that a producer is about to make (lines 154-155).     *)
THEOREM LooksEmptyOnlyWhenCut == Spec => []EmptyOnlyWhenCut
<1>1. QInv => EmptyOnlyWhenCut
  <2> SUFFICES ASSUME QInv, next[tail] = Null, Taken < Pushed
               PROVE  \E p \in Producers : Linking(p) /\ prev[p] = tail
    BY DEF EmptyOnlyWhenCut, Taken, Pushed
  <2>1. PICK at \in [Nat -> Nodes] : Shape(at)
    BY DEF QInv
  <2>2. Taken \in Taken .. Pushed - 1 /\ Taken + 1 \in Nat
    BY Counts DEF QInv
  <2>3. at[Taken] = tail /\ at[Taken + 1] # Null
    BY <2>1, <2>2, NodeAssumption DEF Shape, Chain, NodeAssumption
  <2> QED
    BY <2>1, <2>2, <2>3 DEF Shape, Links
<1> QED
  BY QInvHolds, <1>1, PTL
-------------------------------------------------------------------------------
\* A function that tells the members of a finite set apart has as many values.
LEMMA ImageSize ==
  ASSUME NEW S, IsFiniteSet(S), NEW f, \A x, y \in S : f[x] = f[y] => x = y
  PROVE  /\ IsFiniteSet({f[x] : x \in S})
         /\ Cardinality({f[x] : x \in S}) = Cardinality(S)
<1> DEFINE T == {f[x] : x \in S}
           g == [x \in S |-> f[x]]
<1>1. g \in [S -> T] /\ IsInjective(g) /\ \A t \in T : \E x \in S : g[x] = t
  <2>1. \A x \in S : f[x] \in T /\ g[x] = f[x]
    OBVIOUS
  <2>2. g \in [S -> T]
    BY <2>1
  <2>3. \A t \in T : \E x \in S : g[x] = t
    BY <2>1
  <2>4. \A x, y \in DOMAIN g : g[x] = g[y] => x = y
    BY <2>1
  <2> HIDE DEF g
  <2> QED
    BY <2>2, <2>3, <2>4 DEF IsInjective
<1> HIDE DEF g, T
<1>2. g \in Bijection(S, T)
  <2>1. g \in Injection(S, T)
    BY <1>1 DEF Injection
  <2>2. g \in Surjection(S, T)
    BY <1>1 DEF Surjection
  <2> QED
    BY <2>1, <2>2 DEF Bijection
<1>3. ExistsBijection(S, T)
  BY <1>2 DEF ExistsBijection
<1> QED
  BY <1>3, FS_Bijection DEF T

\* Sets with nothing in common add up.
LEMMA DisjointSizes ==
  ASSUME NEW S, IsFiniteSet(S), NEW T, IsFiniteSet(T), S \cap T = {}
  PROVE  /\ IsFiniteSet(S \cup T)
         /\ Cardinality(S \cup T) = Cardinality(S) + Cardinality(T)
<1>1. Cardinality(S \cap T) = 0
  BY FS_EmptySet
<1>2. Cardinality(S) \in Nat /\ Cardinality(T) \in Nat
  BY FS_CardinalityType
<1>3. /\ IsFiniteSet(S \cup T)
      /\ Cardinality(S \cup T) = Cardinality(S) + Cardinality(T) - Cardinality(S \cap T)
  BY Zenon, FS_Union
<1> DEFINE a == Cardinality(S)
           b == Cardinality(T)
           c == Cardinality(S \cap T)
<1> HIDE DEF a, b, c
<1>4. a + b - c = a + b
  BY <1>1, <1>2 DEF a, b, c
<1> QED
  BY <1>3, <1>4 DEF a, b, c

(* The nodes in use are the items waiting, a sentinel, the exchangers' nodes  *)
(* and the one to delete: each is another node.                               *)
THEOREM NothingLeaks == Spec => []MemoryInUse
<1>1. QInv => MemoryInUse
  <2> SUFFICES ASSUME QInv PROVE MemoryInUse
    OBVIOUS
  <2>1. PICK at \in [Nat -> Nodes] : Shape(at)
    BY DEF QInv
  <2>2. Taken \in Nat /\ Pushed \in Nat /\ Taken <= Pushed /\ PTypeOK /\ Closing
    BY Counts DEF QInv
  <2> DEFINE X == {p \in Producers : Exchanging(p)}
             A == {at[i] : i \in Taken .. Pushed}
             B == {node[p] : p \in X}
             C == IF cpc = "delete" THEN {popped} ELSE {}
             c == IF cpc = "delete" THEN 1 ELSE 0
  <2>3. IsFiniteSet(X) /\ Cardinality(X) \in Nat
    BY ProducerAssumption, FS_Subset, FS_CardinalityType DEF ProducerAssumption
  <2>4. IsFiniteSet(B) /\ Cardinality(B) = Cardinality(X)
    BY <2>1, <2>3, ImageSize DEF Shape, Exchangers
  <2>5. IsFiniteSet(C) /\ Cardinality(C) = c
    BY FS_EmptySet, FS_Singleton
  <2>6. B \cap C = {}
    BY <2>1 DEF Shape, Consumer
  <2>7. IsFiniteSet(B \cup C) /\ Cardinality(B \cup C) = Cardinality(X) + c
    BY <2>4, <2>5, <2>6, DisjointSizes
  <2>8. CASE phase = "destroyed"
    <3>1. allocated = {} /\ X = {} /\ Taken = Pushed /\ cpc = "idle"
      BY <2>1, <2>2, <2>8 DEF Closing, Shape, InUse, PTypeOK, Exchanging
    <3>2. Cardinality(allocated) = 0 /\ Cardinality(X) = 0
      BY <3>1, FS_EmptySet
    <3> QED
      BY <2>2, <2>8, <3>1, <3>2 DEF MemoryInUse, Taken, Pushed
  <2>9. CASE phase # "destroyed"
    <3>1. Taken \in Int /\ Pushed \in Int /\ ~ Taken > Pushed
      BY <2>2
    <3>2. IsFiniteSet(Taken .. Pushed) /\ Cardinality(Taken .. Pushed) = Pushed - Taken + 1
      BY <3>1, FS_Interval
    <3>3. IsFiniteSet(A) /\ Cardinality(A) = Pushed - Taken + 1
      <4>1. \A i, j \in Taken .. Pushed : at[i] = at[j] => i = j
        BY <2>1 DEF Shape, Chain
      <4>2. IsFiniteSet(A) /\ Cardinality(A) = Cardinality(Taken .. Pushed)
        BY <3>2, <4>1, ImageSize
      <4> QED
        BY <3>2, <4>2
    <3>4. A \cap (B \cup C) = {}
      BY <2>1 DEF Shape, Exchangers, Consumer
    <3>5. allocated = A \cup (B \cup C)
      <4>1. A \subseteq Nodes /\ B \subseteq Nodes /\ C \subseteq Nodes
        BY <2>1, <2>2 DEF Shape, Exchangers, Consumer
      <4>2. \A n \in Nodes : n \in allocated <=> n \in A \/ n \in B \/ n \in C
        BY <2>1, <2>9 DEF Shape, InUse
      <4> QED
        BY <2>2, <4>1, <4>2 DEF PTypeOK
    <3>6. Cardinality(allocated) = (Pushed - Taken + 1) + (Cardinality(X) + c)
      BY <2>7, <3>3, <3>4, <3>5, DisjointSizes
    <3>7. MemoryInUse <=> Cardinality(allocated) = Pushed - Taken + 1 + Cardinality(X) + c
      BY <2>9 DEF MemoryInUse, Taken, Pushed
    <3> HIDE DEF X, c
    <3>8. c \in Nat
      BY DEF c
    <3> QED
      BY <2>2, <2>3, <3>6, <3>7, <3>8
  <2> QED
    BY <2>8, <2>9
<1> QED
  BY QInvHolds, <1>1, PTL
-------------------------------------------------------------------------------
(* The linked list implements the abstract queue.                           *)

\* Appending to a sequence appends to what is left of it.
LEMMA RestOfAppend ==
  ASSUME NEW S, NEW s \in Seq(S), NEW e \in S, NEW m \in 1 .. Len(s) + 1
  PROVE  SubSeq(Append(s, e), m, Len(s) + 1) = Append(SubSeq(s, m, Len(s)), e)
<1> DEFINE t == Append(s, e)
           n == Len(s)
<1>1. n \in Nat /\ n = Len(s)
  BY LenProperties
<1>2. /\ t \in Seq(S)
      /\ Len(t) = n + 1
      /\ t[n + 1] = e
      /\ t = s \o <<e>>
  BY AppendProperties, AppendIsConcat
<1> HIDE DEF t, n
<1>3. SubSeq(t, m, n) = SubSeq(s, m, n)
  <2>1. CASE m = n + 1
    <3>1. m \in Int /\ n \in Int /\ n < m
      BY <1>1, <2>1
    <3> QED
      BY <3>1, SubSeqEmpty
  <2>2. CASE m # n + 1
    <3>1. m \in 1 .. Len(s) /\ n \in 1 .. Len(s)
      BY <1>1, <2>2
    <3>2. <<e>> \in Seq(S)
      OBVIOUS
    <3> QED
      BY <1>2, <3>1, <3>2, SubSeqOfConcat1
  <2> QED
    BY <2>1, <2>2
<1>4. SubSeq(t, m, n + 1) = SubSeq(t, m, n) \o <<e>>
  <2>1. m \in 1 .. Len(t) /\ n + 1 \in m .. Len(t) /\ (n + 1) - 1 = n
    BY <1>1, <1>2
  <2> QED
    BY <1>2, <2>1, SubSeqRecursiveSecond
<1>5. SubSeq(s, m, n) \in Seq(S)
  <2>1. m \in Int /\ n \in Int /\ \A i \in m .. n : s[i] \in S
    BY <1>1, ElementOfSeq
  <2> QED
    BY <2>1, SubSeqProperties
<1> QED
  BY <1>1, <1>3, <1>4, <1>5, AppendIsConcat DEF t

\* No item enters the order twice: the order is no longer than there are items.
LEMMA BoundedOrder ==
  ASSUME QInv
  PROVE  Pushed <= Cardinality(Producers) * MaxPushes
<1>1. Pushed \in Nat /\ \A i \in 1 .. Pushed : sent[i] \in Items
  BY Counts DEF QInv
<1>2. /\ IsFiniteSet(1 .. MaxPushes) /\ Cardinality(1 .. MaxPushes) = MaxPushes
      /\ IsFiniteSet(1 .. Pushed) /\ Cardinality(1 .. Pushed) = Pushed
  <2>1. 1 \in Int /\ MaxPushes \in Nat /\ MaxPushes \in Int /\ Pushed \in Int
    BY <1>1, PushAssumption DEF PushAssumption
  <2>2. (IF 1 > MaxPushes THEN 0 ELSE MaxPushes - 1 + 1) = MaxPushes
    BY <2>1
  <2>3. (IF 1 > Pushed THEN 0 ELSE Pushed - 1 + 1) = Pushed
    BY <1>1
  <2> QED
    BY <2>1, <2>2, <2>3, FS_Interval
<1>3. IsFiniteSet(Items) /\ Cardinality(Items) = Cardinality(Producers) * MaxPushes
  BY <1>2, ProducerAssumption, FS_Product DEF Items, ProducerAssumption
<1> DEFINE numbering == [i \in 1 .. Pushed |-> sent[i]]
<1>4. numbering \in Injection(1 .. Pushed, Items)
  <2>1. \A i, j \in 1 .. Pushed : sent[i] = sent[j] => i = j
    BY DEF QInv, Numbered
  <2>2. numbering \in [1 .. Pushed -> Items] /\ IsInjective(numbering)
    BY <1>1, <2>1 DEF IsInjective
  <2> QED
    BY <2>2 DEF Injection
<1> QED
  BY <1>2, <1>3, <1>4, FS_Injection

\* A push's exchange puts its item at the end of the queue.
LEMMA RefinesPut ==
  ASSUME QInv, NEW p \in Producers, PushExchange(p)
  PROVE  \E item \in Items : FIFOQueue!Put(item)
<1> DEFINE item == data[node[p]]
           queue == SubSeq(sent, Taken + 1, Pushed)
<1>1. /\ sent' = Append(sent, item) /\ received' = received
  BY DEF PushExchange, consumerVars
<1>2. item \in Items
  <2>1. item = NextItem(p) /\ Cardinality(PushedBy(p)) < MaxPushes
    BY DEF PushExchange, QInv, Shape, Exchangers, Exchanging
  <2> QED
    BY <2>1, PushesCounted, PushAssumption DEF QInv, NextItem, Items, PushAssumption
<1> HIDE DEF item
<1>3. /\ Taken \in Nat /\ Pushed \in Nat /\ Taken <= Pushed
      /\ sent \in Seq(Items) /\ Pushed = Len(sent)
  BY Counts DEF QInv, PTypeOK, Pushed
<1>4. Pushed' = Pushed + 1 /\ Taken' = Taken
  BY <1>1, <1>2, <1>3, AppendProperties DEF Pushed, Taken
<1>5. SubSeq(sent', Taken' + 1, Pushed') = Append(queue, item)
  <2>1. Taken + 1 \in 1 .. Len(sent) + 1
    BY <1>3
  <2> QED
    BY <1>1, <1>2, <1>3, <1>4, <2>1, RestOfAppend
<1>6. Len(queue) < Cardinality(Producers) * MaxPushes + 1
  <2>1. Taken + 1 \in Int /\ Pushed \in Int /\ \A i \in Taken + 1 .. Pushed : sent[i] \in Items
    BY <1>3, ElementOfSeq
  <2>2. Len(queue) = IF Taken + 1 <= Pushed THEN Pushed - (Taken + 1) + 1 ELSE 0
    BY <2>1, SubSeqProperties
  <2>3. Cardinality(Producers) * MaxPushes \in Nat
    BY ProducerAssumption, PushAssumption, FS_CardinalityType DEF ProducerAssumption, PushAssumption
  <2> DEFINE bound == Cardinality(Producers) * MaxPushes
             length == Len(queue)
  <2>4. Pushed <= bound
    BY BoundedOrder
  <2> HIDE DEF bound, length
  <2>5. length <= Pushed /\ length \in Nat
    BY <1>3, <2>2 DEF length
  <2>6. length < bound + 1
    BY <1>3, <2>3, <2>4, <2>5 DEF bound
  <2> QED
    BY <2>6 DEF bound, length
<1>7. FIFOQueue!Put(item)
  BY <1>1, <1>5, <1>6 DEF FIFOQueue!Put, Taken, Pushed
<1> QED
  BY <1>2, <1>7

\* A pop's store of tail_ takes the item at its head.
LEMMA RefinesGet ==
  ASSUME QInv, PopAdvance
  PROVE  FIFOQueue!Get
<1> DEFINE queue == SubSeq(sent, Taken + 1, Pushed)
<1>1. /\ received' = Append(received, result) /\ sent' = sent
  BY DEF PopAdvance, producerVars
<1>2. Taken < Pushed /\ result = sent[Taken + 1]
  BY DEF PopAdvance, QInv, Shape, Consumer
<1>3. /\ Taken \in Nat /\ Pushed \in Nat
      /\ sent \in Seq(Items) /\ received \in Seq(Items) /\ Pushed = Len(sent)
      /\ result \in Items
  <2>1. Taken \in Nat /\ Pushed \in Nat /\ Taken + 1 \in 1 .. Pushed
    BY <1>2, Counts DEF QInv
  <2> QED
    BY <1>2, <2>1, Counts DEF QInv, PTypeOK, Pushed
<1>4. Taken + 1 \in 1 .. Len(sent) /\ Pushed \in Taken + 1 .. Len(sent)
  BY <1>2, <1>3
<1>5. Head(queue) = result /\ Tail(queue) = SubSeq(sent, Taken + 1 + 1, Pushed)
  BY <1>2, <1>3, <1>4, HeadTailOfSubSeq
<1>6. Pushed' = Pushed /\ Taken' = Taken + 1
  BY <1>1, <1>3, AppendProperties DEF Pushed, Taken
<1>7. SubSeq(sent', Taken' + 1, Pushed') = Tail(queue)
  BY <1>1, <1>5, <1>6
<1>8. queue # << >>
  <2>1. Taken + 1 \in Int /\ Pushed \in Int /\ \A i \in Taken + 1 .. Pushed : sent[i] \in Items
    BY <1>3, ElementOfSeq
  <2>2. Len(queue) = IF Taken + 1 <= Pushed THEN Pushed - (Taken + 1) + 1 ELSE 0
    BY <2>1, SubSeqProperties
  <2>3. Len(queue) # 0
    BY <1>2, <1>3, <2>2
  <2> HIDE DEF queue
  <2> QED
    BY <2>3, EmptySeq
<1> QED
  BY <1>1, <1>5, <1>7, <1>8 DEF FIFOQueue!Get, Taken, Pushed

(* Every behaviour of the linked list, seen from its clients, is one of a     *)
(* first-in first-out queue: pushes enter it in the order in which they       *)
(* exchange head_, and no push is ever refused (lines 152-177).               *)
THEOREM ListIsQueue == Spec => ImplementsQueue
<1>1. Init => FIFOQueue!Init
  <2>1. SubSeq(<< >>, 1, 0) = << >>
    BY SubSeqEmpty
  <2> QED
    BY <2>1 DEF Init, FIFOQueue!Init
<1>2. QInv /\ [Next]_vars
        => [FIFOQueue!Next]_<<SubSeq(sent, Len(received) + 1, Len(sent)), received>>
  <2> SUFFICES ASSUME QInv, [Next]_vars
               PROVE  [FIFOQueue!Next]_<<SubSeq(sent, Len(received) + 1, Len(sent)), received>>
    OBVIOUS
  <2>1. ASSUME NEW p \in Producers, PushExchange(p) PROVE FIFOQueue!Next
    BY <2>1, RefinesPut DEF FIFOQueue!Next
  <2>2. CASE PopAdvance
    BY <2>2, RefinesGet DEF FIFOQueue!Next
  <2>3. \/ \E p \in Producers : PushExchange(p)
        \/ PopAdvance
        \/ UNCHANGED <<sent, received>>
    BY DEF Next, Push, PushNew, PushLink, Pop, PopLoad, PopEmpty, PopTake, PopDelete,
           Destroy, DestroyBegin, DestroyEnd, vars
  <2>4. CASE UNCHANGED <<sent, received>>
    BY <2>4
  <2> QED
    BY <2>1, <2>2, <2>3, <2>4
<1> QED
  BY QInvHolds, <1>1, <1>2, PTL DEF Spec, ImplementsQueue, FIFOQueue!Spec
===============================================================================

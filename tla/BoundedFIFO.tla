------------------------------ MODULE BoundedFIFO ------------------------------
(***************************************************************************)
(* What SPSCQueue<T> (include/lock_free_queue.hpp:18-120) promises to its  *)
(* two clients, without slots, sequence numbers or half-finished calls: a  *)
(* first-in first-out queue that holds at most Capacity items.             *)
(*                                                                         *)
(* queue holds the items pushed and not yet popped, oldest first; received *)
(* is every item a try_pop has returned, in the order it returned them.    *)
(***************************************************************************)
EXTENDS Naturals, Sequences

CONSTANTS Values,     \* the items a client may push
          Capacity    \* the constructor's argument

VARIABLES queue, received

Init == /\ queue = << >>
        /\ received = << >>

\* A try_push that returns true, seen from outside.
Put(v) == /\ Len(queue) < Capacity
          /\ queue' = Append(queue, v)
          /\ UNCHANGED received

\* A try_pop that returns an item, seen from outside.
Get == /\ queue # << >>
       /\ received' = Append(received, Head(queue))
       /\ queue' = Tail(queue)

Next == Get \/ \E v \in Values : Put(v)

Spec == Init /\ [][Next]_<<queue, received>>
=============================================================================

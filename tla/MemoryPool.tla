------------------------------- MODULE MemoryPool -------------------------------
(***************************************************************************)
(* MemoryPool<T, ChunkSize> (include/memory_pool.hpp): memory for objects  *)
(* of one type, taken in chunks and handed out slot by slot.               *)
(*                                                                         *)
(* One thread uses a pool, but allocate runs T's constructor and deallocate*)
(* its destructor in the middle, and those may use the pool again, as the  *)
(* nodes of a tree do: calls nest, and the model keeps them on a stack.    *)
(* Slots are numbered in the order their chunks are taken from the system; *)
(* the free list, linked through the slots, is the sequence of its slots.  *)
(***************************************************************************)
EXTENDS Integers, Sequences, FiniteSets, SequencesExt

CONSTANTS ChunkSize,  \* slots of a chunk
          MaxChunks,  \* bound: chunks the system has memory for
          MaxDepth    \* bound: calls nested in one another

ASSUME PoolAssumption ==
  /\ ChunkSize \in Nat \ {0}
  /\ MaxChunks \in Nat \ {0}
  /\ MaxDepth \in Nat

VARIABLES chunks,           \* chunks_: how many there are; none in a destroyed pool
          free_list,        \* free_list_
          allocated_count,  \* allocated_count_
          stack,            \* calls under way, the innermost last
          live,             \* objects constructed and not destroyed
          lost              \* history: slots whose constructor threw

vars == <<chunks, free_list, allocated_count, stack, live, lost>>
-------------------------------------------------------------------------------
Slots == 1 .. MaxChunks * ChunkSize

\* The slots of the n-th chunk, in the order allocate_chunk links them.
Chunk(n) == [i \in 1 .. ChunkSize |-> (n - 1) * ChunkSize + i]

\* The constructor takes the first chunk.
Init == /\ chunks = 1
        /\ free_list = Chunk(1)
        /\ allocated_count = 0
        /\ stack = << >>
        /\ live = {}
        /\ lost = {}
-------------------------------------------------------------------------------
\* if (!free_list_)
Exhausted == free_list = << >>

\* The free list allocate takes its slot from: allocate_chunk puts a new chunk
\* before what is left of the list.
Available == IF Exhausted THEN Chunk(chunks + 1) \o free_list ELSE free_list

\* allocate takes the first free slot, counts it and calls the constructor.
AllocateBegin ==
  /\ chunks > 0
  /\ Len(stack) < MaxDepth
  /\ Exhausted => chunks < MaxChunks
  /\ chunks' = IF Exhausted THEN chunks + 1 ELSE chunks
  /\ free_list' = Tail(Available)
  /\ allocated_count' = allocated_count + 1
  /\ stack' = Append(stack, [call |-> "allocate", slot |-> Head(Available)])
  /\ UNCHANGED <<live, lost>>

\* The innermost call.
Innermost(kind) == stack # << >> /\ Last(stack).call = kind

\* The constructor returns, and with it allocate.
AllocateEnd ==
  /\ Innermost("allocate")
  /\ stack' = Front(stack)
  /\ live' = live \cup {Last(stack).slot}
  /\ UNCHANGED <<chunks, free_list, allocated_count, lost>>

\* The constructor throws: allocate is left, and the slot is nobody's.
AllocateThrow ==
  /\ Innermost("allocate")
  /\ stack' = Front(stack)
  /\ lost' = lost \cup {Last(stack).slot}
  /\ UNCHANGED <<chunks, free_list, allocated_count, live>>

\* Faulty variant of DeallocateBegin: links the slot before the destructor runs.
DeallocateLinking(slot) ==
  /\ Len(stack) < MaxDepth
  /\ slot \in live
  /\ live' = live \ {slot}
  /\ free_list' = <<slot>> \o free_list
  /\ stack' = Append(stack, [call |-> "deallocate", slot |-> slot])
  /\ UNCHANGED <<chunks, allocated_count, lost>>

\* deallocate of a live object calls the destructor; of null it does nothing.
DeallocateBegin(slot) ==
  /\ Len(stack) < MaxDepth
  /\ slot \in live
  /\ live' = live \ {slot}
  /\ stack' = Append(stack, [call |-> "deallocate", slot |-> slot])
  /\ UNCHANGED <<chunks, free_list, allocated_count, lost>>

\* Faulty variant of DeallocateEnd: does not count.
DeallocateUncounted ==
  /\ Innermost("deallocate")
  /\ stack' = Front(stack)
  /\ free_list' = <<Last(stack).slot>> \o free_list
  /\ UNCHANGED <<chunks, allocated_count, live, lost>>

\* The destructor returns: the slot is the first free one.
DeallocateEnd ==
  /\ Innermost("deallocate")
  /\ stack' = Front(stack)
  /\ free_list' = <<Last(stack).slot>> \o free_list
  /\ allocated_count' = allocated_count - 1
  /\ UNCHANGED <<chunks, live, lost>>

\* The destructor gives the chunks back, and with them what is still in use.
Destroy ==
  /\ stack = << >>
  /\ chunks' = 0
  /\ live' = {}
  /\ lost' = {}
  /\ free_list' = << >>
  /\ UNCHANGED <<allocated_count, stack>>

Next == \/ AllocateBegin \/ AllocateEnd \/ AllocateThrow \/ DeallocateEnd \/ Destroy
        \/ \E slot \in Slots : DeallocateBegin(slot)

Spec == Init /\ [][Next]_vars
-------------------------------------------------------------------------------
(* Every variable has its type. *)
TypeOK ==
  /\ chunks \in 0 .. MaxChunks
  /\ free_list \in Seq(Slots)
  /\ allocated_count \in Int
  /\ stack \in Seq([call : {"allocate", "deallocate"}, slot : Slots])
  /\ live \subseteq Slots
  /\ lost \subseteq Slots

\* Slots in the free list, and those that a call constructs or destroys.
Free == Range(free_list)
Worked == {stack[i].slot : i \in DOMAIN stack}

(* A slot has one owner: it is free, once, or an object, or in the hands of   *)
(* one call that constructs or destroys it, or lost; also when constructors   *)
(* and destructors use the pool themselves.                                   *)
OneOwner ==
  /\ \A i, j \in DOMAIN free_list : free_list[i] = free_list[j] => i = j
  /\ \A i, j \in DOMAIN stack : stack[i].slot = stack[j].slot => i = j
  /\ Free \cap Worked = {}
  /\ live \cap (Free \cup Worked) = {}
  /\ lost \cap (Free \cup Worked \cup live) = {}
  /\ Free \cup Worked \cup live \cup lost = 1 .. ChunkSize * chunks

(* allocated() counts the objects and those in the making or being destroyed, *)
(* and for ever those whose constructor threw (line 72 counts before line 74  *)
(* constructs).                                                               *)
CountOfObjects ==
  chunks > 0 => allocated_count = Cardinality(live) + Len(stack) + Cardinality(lost)
=================================================================================

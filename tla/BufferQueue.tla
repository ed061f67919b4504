----------------------------- MODULE BufferQueue -----------------------------
(****************************************************************************)
(* buffer_queue.hpp: a queue in chunks of ChunkSize elements, with the      *)
(* index of the first element in the first chunk and of the last element in *)
(* the last chunk.  Both are unsigned; an empty queue has back index -1,    *)
(* that is UIntModulus - 1, and counts on it wrapping around.               *)
(****************************************************************************)
EXTENDS Naturals, Sequences

CONSTANTS
  Value,         \* elements
  Garbage,       \* content of a slot no element was constructed in
  ChunkSize,     \* elements per chunk (25 in the subscriptions)
  UIntModulus,   \* 2^32 in the code
  MaxSize        \* bound: number of elements

ASSUME GarbageAssumption == Garbage \notin Value
ASSUME ChunkAssumption == ChunkSize \in Nat \ {0}
ASSUME UIntAssumption == UIntModulus \in Nat /\ ChunkSize < UIntModulus
ASSUME SizeAssumption == MaxSize \in Nat

VARIABLES
  deque,             \* deque_: the chunks
  front_chunk_idx,   \* front_chunk_idx_
  back_chunk_idx     \* back_chunk_idx_

vars == <<deque, front_chunk_idx, back_chunk_idx>>

Slot == 0..(ChunkSize - 1)
Chunk == [Slot -> Value \cup {Garbage}]
NewChunk == [s \in Slot |-> Garbage]

MinusOne == UIntModulus - 1
Inc(n) == (n + 1) % UIntModulus

Init ==
  /\ deque = <<>>
  /\ front_chunk_idx = 0
  /\ back_chunk_idx = MinusOne

empty == deque = <<>>

\* Mistake: every chunk but the last is counted as full.
size_full_chunks ==
  IF deque = <<>> THEN 0
  ELSE (Len(deque) - 1) * ChunkSize + (back_chunk_idx + 1)

\* size(): in unsigned arithmetic for a single chunk.
size ==
  IF deque = <<>> THEN 0
  ELSE IF Len(deque) = 1
  THEN (back_chunk_idx + UIntModulus - front_chunk_idx + 1) % UIntModulus
  ELSE (Len(deque) - 2) * ChunkSize + (back_chunk_idx + 1)
         + (ChunkSize - front_chunk_idx)

front == deque[1][front_chunk_idx]

\* push_back and emplace_back: a first chunk for an empty deque, a further one
\* when the last chunk is full, then placement new in the last chunk.
PushBack(v) ==
  /\ size < MaxSize
  /\ LET chunks == IF deque = <<>> THEN <<NewChunk>> ELSE deque
         full == Inc(back_chunk_idx) = ChunkSize
         grown == IF full THEN Append(chunks, NewChunk) ELSE chunks
         idx == IF full THEN 0 ELSE Inc(back_chunk_idx)
     IN  /\ deque' = [grown EXCEPT ![Len(grown)][idx] = v]
         /\ back_chunk_idx' = idx
  /\ UNCHANGED front_chunk_idx

\* pop_front on a queue that is not empty.
PopFront ==
  /\ ~empty
  /\ LET idx == Inc(front_chunk_idx) IN
       \/ /\ Len(deque) = 1
          /\ idx = Inc(back_chunk_idx)
          /\ deque' = Tail(deque)
          /\ front_chunk_idx' = 0
          /\ back_chunk_idx' = MinusOne
       \/ /\ Len(deque) # 1
          /\ idx = ChunkSize
          /\ deque' = Tail(deque)
          /\ front_chunk_idx' = 0
          /\ UNCHANGED back_chunk_idx
       \/ /\ IF Len(deque) = 1 THEN idx # Inc(back_chunk_idx) ELSE idx # ChunkSize
          /\ front_chunk_idx' = idx
          /\ UNCHANGED <<deque, back_chunk_idx>>

\* Mistake: clear keeps the front index.
clear_keeps_front ==
  /\ deque' = <<>>
  /\ back_chunk_idx' = MinusOne
  /\ UNCHANGED front_chunk_idx

clear ==
  /\ deque' = <<>>
  /\ front_chunk_idx' = 0
  /\ back_chunk_idx' = MinusOne

Next == PopFront \/ clear \/ \E v \in Value : PushBack(v)

Spec == Init /\ [][Next]_vars

------------------------------------------------------------------------------
\* The elements the chunks hold, read off the memory: slots from the front
\* index of the first chunk to the back index of the last.
Contents ==
  LET last == (Len(deque) - 1) * ChunkSize + back_chunk_idx
  IN  IF deque = <<>> THEN <<>>
      ELSE [i \in 1..(last + 1 - front_chunk_idx) |->
             LET pos == front_chunk_idx + i - 1
             IN  deque[(pos \div ChunkSize) + 1][pos % ChunkSize]]

\* The indices stay inside a chunk; the back index is -1 exactly when there is
\* no chunk.  This is the memory safety of front() and of placement new.
TypeOK ==
  /\ deque \in Seq(Chunk)
  /\ front_chunk_idx \in Slot
  /\ IF deque = <<>> THEN front_chunk_idx = 0 /\ back_chunk_idx = MinusOne
                     ELSE back_chunk_idx \in Slot
  /\ Len(deque) = 1 => front_chunk_idx <= back_chunk_idx

\* The indices are in range, and size(), empty() and front() agree with the
\* elements in memory, wherever the chunk boundaries are.
QueriesAgree ==
  /\ TypeOK
  /\ size = Len(Contents)
  /\ empty <=> Contents = <<>>
  /\ ~empty => front = Head(Contents)

Fifo == INSTANCE FifoQueue WITH items <- Contents

\* The chunked queue implements the first-in first-out queue: no element is
\* lost, repeated or reordered when a chunk is added, dropped or cleared, and
\* no slot is read before an element is constructed in it.
ImplementsFifo == Fifo!QSpec
==============================================================================

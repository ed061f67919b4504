-------------------------- MODULE BufferQueue_proofs --------------------------
(****************************************************************************)
(* Proofs about buffer_queue for any chunk size, any width of its indices   *)
(* and any number of elements: its queries agree with the memory, and it is *)
(* a first-in first-out queue.                                              *)
(****************************************************************************)
EXTENDS BufferQueue, Integers, SequenceTheorems, TLAPS

Cell == Value \cup {Garbage}

------------------------------------------------------------------------------
(* Arithmetic.  A position is a chunk and a slot.                           *)

\* The quotient and the remainder are unique.
LEMMA Division ==
  ASSUME NEW m \in Nat \ {0}, NEW q \in Nat, NEW r \in 0..(m - 1)
  PROVE  (m * q + r) % m = r /\ (m * q + r) \div m = q
  OBVIOUS

LEMMA Remainder ==
  ASSUME NEW n \in Nat, NEW m \in Nat \ {0}
  PROVE  n \div m \in Nat /\ n % m \in 0..(m - 1) /\ n = m * (n \div m) + (n % m)
  OBVIOUS

\* Where a position lies that is not after slot b of chunk l.
LEMMA Located ==
  ASSUME NEW m \in Nat \ {0}, NEW l \in Nat, NEW b \in 0..(m - 1), NEW n \in Nat,
         n <= m * l + b
  PROVE  /\ n \div m \in 0..l
         /\ n % m \in 0..(m - 1)
         /\ n \div m = l => n % m <= b
         /\ n \div m = l /\ n < m * l + b => n % m < b
<1>1. PICK q \in Nat, r \in 0..(m - 1) : q = n \div m /\ r = n % m /\ n = m * q + r
  BY Remainder
<1>2. q <= l
  <2>1. SUFFICES ASSUME l + 1 <= q PROVE FALSE
    BY <1>1
  <2>2. m * (l + 1) <= m * q
    BY <2>1
  <2>3. m * l + m <= m * q
    BY <2>2
  <2> QED BY <1>1, <2>3
<1> QED BY <1>1, <1>2

\* One chunk further on.
LEMMA NextChunk ==
  ASSUME NEW m \in Nat \ {0}, NEW n \in Nat
  PROVE  (n + m) \div m = (n \div m) + 1 /\ (n + m) % m = n % m
<1>1. PICK q \in Nat, r \in 0..(m - 1) : q = n \div m /\ r = n % m /\ n = m * q + r
  BY Remainder
<1>2. n + m = m * (q + 1) + r /\ q + 1 \in Nat
  BY <1>1
<1>3. (m * (q + 1) + r) % m = r /\ (m * (q + 1) + r) \div m = q + 1
  BY <1>2, Division
<1> QED BY <1>1, <1>2, <1>3

LEMMA SlotFacts ==
  /\ ChunkSize \in Nat \ {0} /\ UIntModulus \in Nat \ {0}
  /\ Slot = 0..(ChunkSize - 1) /\ 0 \in Slot
  /\ \A s \in Slot : s \in Nat /\ s < ChunkSize /\ Inc(s) = s + 1
  /\ Inc(MinusOne) = 0 /\ 0 # ChunkSize
<1>1. ChunkSize \in Nat \ {0} /\ UIntModulus \in Nat \ {0} /\ ChunkSize < UIntModulus
  BY ChunkAssumption, UIntAssumption
<1>2. Slot = 0..(ChunkSize - 1) /\ 0 \in Slot /\ 0 # ChunkSize
  BY <1>1 DEF Slot
<1>3. ASSUME NEW s \in Slot PROVE s \in Nat /\ s < ChunkSize /\ Inc(s) = s + 1
  <2>1. s \in Nat /\ s < ChunkSize
    BY <1>1 DEF Slot
  <2>2. s + 1 \in 0..(UIntModulus - 1)
    BY <1>1, <2>1
  <2>3. (s + 1) % UIntModulus = s + 1
    BY <1>1, <2>2
  <2> QED BY <2>1, <2>3 DEF Inc
<1>4. Inc(MinusOne) = 0
  <2>1. MinusOne + 1 = UIntModulus
    BY <1>1 DEF MinusOne
  <2>2. UIntModulus = UIntModulus * 1 + 0 /\ 0 \in 0..(UIntModulus - 1)
    BY <1>1
  <2>3. (UIntModulus * 1 + 0) % UIntModulus = 0
    BY <1>1, <2>2, Division
  <2> QED BY <2>1, <2>2, <2>3 DEF Inc
<1> QED BY <1>1, <1>2, <1>3, <1>4

------------------------------------------------------------------------------
(* The elements in memory.                                                  *)

\* The cell at a position, counted from the first slot of the first chunk.
CellAt(d, pos) == d[(pos \div ChunkSize) + 1][pos % ChunkSize]

\* The number of elements from index f of the first chunk to index b of the
\* last, and the elements.
Extent(d, f, b) == (Len(d) - 1) * ChunkSize + b + 1 - f
View(d, f, b) == [i \in 1..Extent(d, f, b) |-> CellAt(d, f + i - 1)]

\* A queue that is not empty.
Filled(d, f, b) ==
  /\ d \in Seq(Chunk) /\ Len(d) \in Nat \ {0}
  /\ f \in Slot /\ b \in Slot
  /\ Len(d) = 1 => f <= b

LEMMA ExtentPositive ==
  ASSUME NEW d, NEW f, NEW b, Filled(d, f, b)
  PROVE  Extent(d, f, b) \in Nat \ {0}
<1>1. PICK l \in Nat, m \in Nat \ {0} : l = Len(d) - 1 /\ m = ChunkSize
  BY SlotFacts DEF Filled
<1>2. f \in Nat /\ b \in Nat /\ f < m /\ b < m
  BY <1>1, SlotFacts DEF Filled
<1>3. l * m \in Nat
  BY <1>1
<1>4. CASE l = 0
  <2>0. Len(d) = 1
    BY <1>1, <1>4 DEF Filled
  <2>1. l * m = 0 /\ f <= b
    BY <1>4, <2>0 DEF Filled
  <2> QED BY <1>1, <1>2, <2>1 DEF Extent
<1>5. CASE l # 0
  <2>1. PICK k \in Nat : l = k + 1
    BY <1>5
  <2>2. l * m = k * m + m /\ k * m \in Nat
    BY <2>1
  <2>3. l * m >= m
    BY <2>2
  <2> QED BY <1>1, <1>2, <1>3, <2>3 DEF Extent
<1> QED BY <1>4, <1>5

\* Where the elements of a queue lie.
LEMMA InMemory ==
  ASSUME NEW d, NEW f, NEW b, Filled(d, f, b), NEW pos \in Nat, pos < f + Extent(d, f, b)
  PROVE  /\ pos \div ChunkSize \in 0..(Len(d) - 1) /\ pos % ChunkSize \in Slot
         /\ pos \div ChunkSize = Len(d) - 1 => pos % ChunkSize <= b
         /\ CellAt(d, pos) \in Cell
<1>1. PICK l \in Nat, m \in Nat \ {0} : l = Len(d) - 1 /\ m = ChunkSize
  BY SlotFacts DEF Filled
<1>2. f \in Nat /\ b \in 0..(m - 1) /\ m * l \in Nat /\ l * m = m * l
  <2>1. f \in Nat /\ b \in 0..(m - 1)
    BY <1>1, SlotFacts DEF Filled
  <2>2. m * l \in Nat /\ l * m = m * l
    OBVIOUS
  <2> QED BY <2>1, <2>2
<1>3. pos <= m * l + b
  BY <1>1, <1>2 DEF Extent
<1>4. /\ pos \div m \in 0..l /\ pos % m \in 0..(m - 1)
      /\ pos \div m = l => pos % m <= b
  BY <1>2, <1>3, Located
<1>5. (pos \div m) + 1 \in 1..Len(d)
  BY <1>1, <1>4 DEF Filled
<1>6. d[(pos \div m) + 1] \in Chunk
  BY <1>5, ElementOfSeq DEF Filled
<1>7. CellAt(d, pos) \in Cell
  BY <1>1, <1>4, <1>6, SlotFacts DEF CellAt, Chunk, Cell
<1> QED BY <1>1, <1>4, <1>7, SlotFacts

LEMMA ViewIsSeq ==
  ASSUME NEW d, NEW f, NEW b, Filled(d, f, b)
  PROVE  /\ View(d, f, b) \in Seq(Cell)
         /\ Len(View(d, f, b)) = Extent(d, f, b)
         /\ \A i \in 1..Extent(d, f, b) : View(d, f, b)[i] = CellAt(d, f + i - 1)
<1>1. PICK n \in Nat \ {0} : n = Extent(d, f, b)
  BY ExtentPositive
<1>2. ASSUME NEW i \in 1..n PROVE CellAt(d, f + i - 1) \in Cell
  <2>1. f + i - 1 \in Nat /\ f + i - 1 < f + n
    BY SlotFacts DEF Filled
  <2> QED BY <1>1, <2>1, InMemory
<1>3. View(d, f, b) \in [1..n -> Cell]
  BY <1>1, <1>2 DEF View
<1>4. View(d, f, b) \in Seq(Cell)
  BY <1>3, SeqDef
<1>5. Len(View(d, f, b)) = n
  BY <1>3, <1>4, LenProperties
<1> QED BY <1>1, <1>4, <1>5 DEF View

\* One more cell behind the elements.
LEMMA ViewPush ==
  ASSUME NEW d, NEW f, NEW b, Filled(d, f, b), NEW e, NEW c, Filled(e, f, c),
         NEW v \in Value, Extent(e, f, c) = Extent(d, f, b) + 1,
         \A pos \in Nat : pos < f + Extent(d, f, b) => CellAt(e, pos) = CellAt(d, pos),
         CellAt(e, f + Extent(d, f, b)) = v
  PROVE  View(e, f, c) = Append(View(d, f, b), v)
<1>1. PICK s \in Seq(Cell), n \in Nat \ {0} : s = View(d, f, b) /\ n = Extent(d, f, b)
  BY ViewIsSeq, ExtentPositive
<1>2. PICK t \in Seq(Cell) : t = View(e, f, c)
  BY ViewIsSeq
<1>3. /\ Len(s) = n /\ \A i \in 1..n : s[i] = CellAt(d, f + i - 1)
      /\ Len(t) = n + 1 /\ \A i \in 1..(n + 1) : t[i] = CellAt(e, f + i - 1)
  BY <1>1, <1>2, ViewIsSeq
<1>4. /\ Append(s, v) \in Seq(Cell) /\ Len(Append(s, v)) = n + 1
      /\ \A i \in 1..n : Append(s, v)[i] = s[i]
      /\ Append(s, v)[n + 1] = v
  BY <1>3, AppendProperties DEF Cell
<1>5. ASSUME NEW i \in 1..(n + 1) PROVE t[i] = Append(s, v)[i]
  <2>1. CASE i \in 1..n
    <3>1. f + i - 1 \in Nat /\ f + i - 1 < f + n
      BY <2>1, SlotFacts DEF Filled
    <3>2. CellAt(e, f + i - 1) = CellAt(d, f + i - 1)
      BY <1>1, <3>1
    <3> QED BY <1>3, <1>4, <2>1, <3>2
  <2>2. CASE i = n + 1
    <3>1. f + i - 1 = f + n
      BY <2>2, SlotFacts DEF Filled
    <3>2. t[i] = CellAt(e, f + n)
      BY <1>3, <3>1
    <3>3. CellAt(e, f + n) = v
      BY <1>1
    <3> QED BY <1>4, <2>2, <3>2, <3>3
  <2>3. i \in 1..n \/ i = n + 1
    OBVIOUS
  <2> QED BY <2>1, <2>2, <2>3, Zenon
<1>6. t = Append(s, v)
  BY <1>3, <1>4, <1>5, SeqEqual
<1> QED BY <1>1, <1>2, <1>6

\* One cell less before the elements.
LEMMA ViewPop ==
  ASSUME NEW d, NEW f, NEW b, Filled(d, f, b), NEW e, NEW g, Filled(e, g, b),
         Extent(e, g, b) = Extent(d, f, b) - 1,
         \A i \in Nat : i < Extent(e, g, b) => CellAt(e, g + i) = CellAt(d, f + i + 1)
  PROVE  View(e, g, b) = Tail(View(d, f, b))
<1>1. PICK s \in Seq(Cell), n \in Nat \ {0} : s = View(d, f, b) /\ n = Extent(d, f, b)
  BY ViewIsSeq, ExtentPositive
<1>2. PICK t \in Seq(Cell) : t = View(e, g, b)
  BY ViewIsSeq
<1>3. /\ Len(s) = n /\ \A i \in 1..n : s[i] = CellAt(d, f + i - 1)
      /\ Len(t) = n - 1 /\ \A i \in 1..(n - 1) : t[i] = CellAt(e, g + i - 1)
  BY <1>1, <1>2, ViewIsSeq
<1>4. s # <<>>
  BY <1>3, EmptySeq
<1>5. /\ Tail(s) \in Seq(Cell) /\ Len(Tail(s)) = n - 1
      /\ \A i \in 1..(n - 1) : Tail(s)[i] = s[i + 1]
  BY <1>3, <1>4, HeadTailProperties
<1>6. ASSUME NEW i \in 1..(n - 1) PROVE t[i] = Tail(s)[i]
  <2>1. f \in Nat /\ g \in Nat
    BY SlotFacts DEF Filled
  <2>2. PICK j \in Nat : j = i - 1 /\ j < n - 1
    OBVIOUS
  <2>3. CellAt(e, g + j) = CellAt(d, f + j + 1)
    BY <1>1, <2>2
  <2>4. g + j = g + i - 1 /\ f + j + 1 = f + (i + 1) - 1 /\ i + 1 \in 1..n
    BY <2>1, <2>2
  <2>5. t[i] = CellAt(e, g + j)
    BY <1>3, <2>4
  <2>6. Tail(s)[i] = CellAt(d, f + j + 1)
    BY <1>3, <1>5, <2>4
  <2> QED BY <2>3, <2>5, <2>6
<1>7. t = Tail(s)
  BY <1>3, <1>5, <1>6, SeqEqual
<1> QED BY <1>1, <1>2, <1>7

------------------------------------------------------------------------------
(* The indices stay in range.                                               *)

\* What the state of the queue shows: nothing, or the elements of a view.
LEMMA Shown ==
  ASSUME TypeOK
  PROVE  /\ deque = <<>> => Contents = <<>>
         /\ deque # <<>> => /\ Filled(deque, front_chunk_idx, back_chunk_idx)
                            /\ Contents = View(deque, front_chunk_idx, back_chunk_idx)
<1>1. CASE deque = <<>>
  BY <1>1 DEF Contents
<1>2. CASE deque # <<>>
  <2>1. Len(deque) \in Nat \ {0}
    BY <1>2, EmptySeq, LenProperties DEF TypeOK
  <2>2. Filled(deque, front_chunk_idx, back_chunk_idx)
    BY <1>2, <2>1 DEF TypeOK, Filled
  <2>3. Contents = View(deque, front_chunk_idx, back_chunk_idx)
    BY <1>2 DEF Contents, View, Extent, CellAt
  <2> QED BY <1>2, <2>2, <2>3
<1> QED BY <1>1, <1>2

\* The other way round, for the state after a step.
LEMMA ShownAfter ==
  ASSUME NEW d, NEW f, NEW b, Filled(d, f, b),
         deque' = d, front_chunk_idx' = f, back_chunk_idx' = b
  PROVE  TypeOK' /\ Contents' = View(d, f, b) /\ deque' # <<>>
<1>1. deque' # <<>>
  BY EmptySeq DEF Filled
<1> QED BY <1>1 DEF TypeOK, Filled, Contents, View, Extent, CellAt

\* The chunks d after a push into slot i of the last one.
Put(d, i, v) == [d EXCEPT ![Len(d)][i] = v]

\* Only that slot differs.
PutInto(e, d, i, v) ==
  /\ e \in Seq(Chunk) /\ Len(e) = Len(d)
  /\ e[Len(d)][i] = v
  /\ \A j \in 1..Len(d), s \in Slot : (j # Len(d) \/ s # i) => e[j][s] = d[j][s]

LEMMA Placed ==
  ASSUME NEW d \in Seq(Chunk), d # <<>>, NEW i \in Slot, NEW v \in Value
  PROVE  PutInto(Put(d, i, v), d, i, v)
<1>0. PICK e : e = Put(d, i, v)
  OBVIOUS
<1>1. PICK n \in Nat \ {0} : n = Len(d) /\ d \in [1..n -> Chunk]
  BY EmptySeq, LenProperties
<1>2. d[n] \in Chunk
  <2>1. n \in 1..n
    OBVIOUS
  <2> QED BY <1>1, <2>1
<1>3. PICK c \in Chunk : c = [d[n] EXCEPT ![i] = v]
  BY <1>2 DEF Chunk
<1>4. /\ c[i] = v /\ \A s \in Slot : s # i => c[s] = d[n][s]
  BY <1>2, <1>3 DEF Chunk
<1>5. e = [d EXCEPT ![n] = c]
  BY <1>0, <1>1, <1>3 DEF Put
<1>6. e \in [1..n -> Chunk] /\ e[n] = c /\ \A j \in 1..n : j # n => e[j] = d[j]
  <2>1. n \in 1..n
    OBVIOUS
  <2> QED BY <1>1, <1>5, <2>1
<1>7. e \in Seq(Chunk) /\ Len(e) = n
  <2>1. e \in Seq(Chunk)
    BY <1>6, SeqDef
  <2> QED BY <1>6, <2>1, LenProperties
<1>8. \A j \in 1..n, s \in Slot : (j # n \/ s # i) => e[j][s] = d[j][s]
  <2> SUFFICES ASSUME NEW j \in 1..n, NEW s \in Slot, j # n \/ s # i PROVE e[j][s] = d[j][s]
    OBVIOUS
  <2>1. CASE j = n
    BY <1>4, <1>6, <2>1
  <2>2. CASE j # n
    BY <1>6, <2>2
  <2> QED BY <2>1, <2>2
<1>9. PutInto(e, d, i, v)
  BY <1>1, <1>4, <1>6, <1>7, <1>8 DEF PutInto
<1> QED BY <1>0, <1>9

LEMMA NewChunkTyped == NewChunk \in Chunk
  BY DEF NewChunk, Chunk

\* The three cases of push_back.
LEMMA PushCases ==
  ASSUME NEW v, PushBack(v)
  PROVE  /\ front_chunk_idx' = front_chunk_idx
         /\ deque = <<>> /\ Inc(back_chunk_idx) # ChunkSize =>
              /\ deque' = Put(<<NewChunk>>, Inc(back_chunk_idx), v)
              /\ back_chunk_idx' = Inc(back_chunk_idx)
         /\ deque # <<>> /\ Inc(back_chunk_idx) # ChunkSize =>
              /\ deque' = Put(deque, Inc(back_chunk_idx), v)
              /\ back_chunk_idx' = Inc(back_chunk_idx)
         /\ deque # <<>> /\ Inc(back_chunk_idx) = ChunkSize =>
              /\ deque' = Put(Append(deque, NewChunk), 0, v)
              /\ back_chunk_idx' = 0
<1>1. CASE deque = <<>> /\ Inc(back_chunk_idx) # ChunkSize
  BY <1>1, Zenon DEF PushBack, Put
<1>2. CASE deque # <<>> /\ Inc(back_chunk_idx) # ChunkSize
  BY <1>2, Zenon DEF PushBack, Put
<1>3. CASE deque # <<>> /\ Inc(back_chunk_idx) = ChunkSize
  BY <1>3, Zenon DEF PushBack, Put
<1>4. front_chunk_idx' = front_chunk_idx
  BY DEF PushBack
<1> QED BY <1>1, <1>2, <1>3, <1>4, Zenon

\* push_back appends, in an empty queue, in the last chunk and in a new chunk.
LEMMA PushStep ==
  ASSUME TypeOK, NEW v \in Value, PushBack(v)
  PROVE  TypeOK' /\ Contents' = Append(Contents, v)
<1>1. CASE deque = <<>>
  <2>1. back_chunk_idx = MinusOne /\ front_chunk_idx = 0
    BY <1>1 DEF TypeOK
  <2>2. PICK g \in Seq(Chunk) : g = <<NewChunk>> /\ g # <<>> /\ Len(g) = 1
    <3>1. <<NewChunk>> \in Seq(Chunk)
      BY NewChunkTyped
    <3>2. <<NewChunk>> # <<>> /\ Len(<<NewChunk>>) = 1
      OBVIOUS
    <3> QED BY <3>1, <3>2, Zenon
  <2>3. PICK e : e = Put(g, 0, v)
    OBVIOUS
  <2>4. deque' = e /\ back_chunk_idx' = 0 /\ front_chunk_idx' = 0
    BY <1>1, <2>1, <2>2, <2>3, SlotFacts, PushCases
  <2>5. e \in Seq(Chunk) /\ Len(e) = 1 /\ e[1][0] = v
    <3>1. 0 \in Slot
      BY SlotFacts
    <3>2. e \in Seq(Chunk) /\ Len(e) = Len(g) /\ e[Len(g)][0] = v
      <4>1. PutInto(Put(g, 0, v), g, 0, v)
        BY <2>2, <3>1, Placed, Zenon
      <4> QED BY <2>3, <4>1 DEF PutInto
    <3> QED BY <2>2, <3>2
  <2>6. Filled(e, 0, 0)
    BY <2>5, SlotFacts DEF Filled
  <2>7. TypeOK' /\ Contents' = View(e, 0, 0)
    BY <2>4, <2>6, ShownAfter
  <2>8. Extent(e, 0, 0) = 1
    BY <2>5, SlotFacts DEF Extent
  <2>9. CellAt(e, 0) = v
    <3>1. 0 \div ChunkSize = 0 /\ 0 % ChunkSize = 0
      BY SlotFacts
    <3> QED BY <2>5, <3>1 DEF CellAt
  <2>10. View(e, 0, 0) \in Seq(Cell) /\ Len(View(e, 0, 0)) = 1 /\ View(e, 0, 0)[1] = v
    <3>1. View(e, 0, 0)[1] = CellAt(e, 0 + 1 - 1)
      BY <2>6, <2>8, ViewIsSeq
    <3>2. 0 + 1 - 1 = 0
      OBVIOUS
    <3>3. View(e, 0, 0) \in Seq(Cell) /\ Len(View(e, 0, 0)) = 1
      BY <2>6, <2>8, ViewIsSeq
    <3> QED BY <2>9, <3>1, <3>2, <3>3
  <2>11. v \in Cell /\ <<v>> \in Seq(Cell) /\ Len(<<v>>) = 1 /\ <<v>>[1] = v
    BY DEF Cell
  <2>12. View(e, 0, 0) = <<v>>
    <3>1. \A i \in 1..1 : View(e, 0, 0)[i] = <<v>>[i]
      BY <2>10, <2>11
    <3> QED BY <2>10, <2>11, <3>1, SeqEqual
  <2>13. Append(Contents, v) = <<v>>
    BY <1>1 DEF Contents
  <2> QED BY <2>7, <2>12, <2>13
<1>2. CASE deque # <<>>
  <2>1. PICK d, f, b : /\ d = deque /\ f = front_chunk_idx /\ b = back_chunk_idx
                       /\ Filled(d, f, b) /\ Contents = View(d, f, b)
    BY <1>2, Shown
  <2>2. PICK l \in Nat, m \in Nat \ {0} : l + 1 = Len(d) /\ m = ChunkSize
    BY <2>1, SlotFacts DEF Filled
  <2>3. /\ d \in Seq(Chunk) /\ f \in Slot /\ f \in Nat /\ b \in Slot /\ b \in Nat /\ b < m
        /\ Inc(b) = b + 1 /\ (l + 1 = 1 => f <= b)
    BY <2>1, <2>2, SlotFacts DEF Filled
  <2>4. m * l \in Nat /\ l * m = m * l /\ (l + 1) * m = m * l + m /\ m * (l + 1) = m * l + m
    BY <2>2
  <2>5. f + Extent(d, f, b) = m * l + b + 1
    BY <2>2, <2>3, <2>4 DEF Extent
  <2>6. CASE b + 1 # m
    <3>1. PICK e : e = Put(d, b + 1, v)
      OBVIOUS
    <3>2. b + 1 \in Slot
      BY <2>2, <2>3, <2>6, SlotFacts
    <3>3. deque' = e /\ back_chunk_idx' = b + 1 /\ front_chunk_idx' = f
      BY <1>2, <2>1, <2>2, <2>3, <2>6, <3>1, PushCases
    <3>4. /\ e \in Seq(Chunk) /\ Len(e) = l + 1 /\ e[l + 1][b + 1] = v
          /\ \A j \in 1..(l + 1), s \in Slot :
               (j # l + 1 \/ s # b + 1) => e[j][s] = d[j][s]
      <4>1. /\ e \in Seq(Chunk) /\ Len(e) = Len(d) /\ e[Len(d)][b + 1] = v
            /\ \A j \in 1..Len(d), s \in Slot : (j # Len(d) \/ s # b + 1) => e[j][s] = d[j][s]
        <5>1. d # <<>>
          BY <1>2, <2>1
        <5>2. PutInto(Put(d, b + 1, v), d, b + 1, v)
          BY <2>3, <3>2, <5>1, Placed, Zenon
        <5> QED BY <3>1, <5>2 DEF PutInto
      <4> QED BY <2>2, <4>1
    <3>5. Filled(e, f, b + 1)
      <4>1. Len(e) \in Nat \ {0} /\ (Len(e) = 1 => f <= b + 1)
        BY <2>2, <2>3, <3>4
      <4> QED BY <2>3, <3>2, <3>4, <4>1 DEF Filled
    <3>6. Extent(e, f, b + 1) = Extent(d, f, b) + 1
      <4>1. Len(e) - 1 = l /\ Len(d) - 1 = l
        BY <2>2, <3>4
      <4> QED BY <2>2, <2>3, <2>4, <4>1 DEF Extent
    <3>7. ASSUME NEW pos \in Nat, pos < f + Extent(d, f, b)
          PROVE  CellAt(e, pos) = CellAt(d, pos)
      <4>1. PICK q \in 0..l, r \in Slot : /\ q = pos \div ChunkSize /\ r = pos % ChunkSize
                                          /\ q = l => r <= b
        <5>1. Len(d) - 1 = l
          BY <2>2
        <5> QED BY <2>1, <3>7, <5>1, InMemory
      <4>2. q + 1 \in 1..(l + 1) /\ (q + 1 # l + 1 \/ r # b + 1)
        BY <2>3, <4>1, SlotFacts
      <4>3. e[q + 1][r] = d[q + 1][r]
        BY <3>4, <4>2
      <4> QED BY <4>1, <4>3 DEF CellAt
    <3>8. CellAt(e, f + Extent(d, f, b)) = v
      <4>1. f + Extent(d, f, b) = m * l + (b + 1) /\ b + 1 \in 0..(m - 1)
        BY <2>2, <2>3, <2>4, <2>5, <3>2, SlotFacts
      <4>2. (m * l + (b + 1)) % m = b + 1 /\ (m * l + (b + 1)) \div m = l
        BY <4>1, Division
      <4> QED BY <2>2, <3>4, <4>1, <4>2 DEF CellAt
    <3>9. View(e, f, b + 1) = Append(View(d, f, b), v)
      BY <2>1, <3>5, <3>6, <3>7, <3>8, ViewPush
    <3> QED BY <2>1, <3>3, <3>5, <3>9, ShownAfter
  <2>7. CASE b + 1 = m
    <3>1. PICK g : g = Append(d, NewChunk)
      OBVIOUS
    <3>2. /\ g \in Seq(Chunk) /\ g # <<>> /\ Len(g) = l + 2
          /\ \A j \in 1..(l + 1) : g[j] = d[j]
      BY <2>2, <2>3, <3>1, NewChunkTyped, AppendProperties
    <3>3. PICK e : e = Put(g, 0, v)
      OBVIOUS
    <3>4. deque' = e /\ back_chunk_idx' = 0 /\ front_chunk_idx' = f
      BY <1>2, <2>1, <2>2, <2>3, <2>7, <3>1, <3>3, PushCases
    <3>5. /\ e \in Seq(Chunk) /\ Len(e) = l + 2 /\ e[l + 2][0] = v
          /\ \A j \in 1..(l + 2), s \in Slot : (j # l + 2 \/ s # 0) => e[j][s] = g[j][s]
      <4>1. /\ e \in Seq(Chunk) /\ Len(e) = Len(g) /\ e[Len(g)][0] = v
            /\ \A j \in 1..Len(g), s \in Slot : (j # Len(g) \/ s # 0) => e[j][s] = g[j][s]
        <5>1. PutInto(Put(g, 0, v), g, 0, v)
          BY <3>2, SlotFacts, Placed, Zenon
        <5> QED BY <3>3, <5>1 DEF PutInto
      <4> QED BY <3>2, <4>1
    <3>6. Filled(e, f, 0)
      BY <2>2, <2>3, <3>5, SlotFacts DEF Filled
    <3>7. Extent(e, f, 0) = Extent(d, f, b) + 1
      <4>1. Len(e) - 1 = l + 1 /\ Len(d) - 1 = l
        BY <2>2, <3>5
      <4> QED BY <2>2, <2>3, <2>4, <2>7, <4>1 DEF Extent
    <3>8. ASSUME NEW pos \in Nat, pos < f + Extent(d, f, b)
          PROVE  CellAt(e, pos) = CellAt(d, pos)
      <4>1. PICK q \in 0..l, r \in Slot : q = pos \div ChunkSize /\ r = pos % ChunkSize
        BY <2>1, <2>2, <3>8, InMemory
      <4>2. q + 1 \in 1..(l + 1) /\ q + 1 \in 1..(l + 2) /\ q + 1 # l + 2
        BY <4>1
      <4>3. e[q + 1][r] = g[q + 1][r] /\ g[q + 1] = d[q + 1]
        BY <3>2, <3>5, <4>2
      <4> QED BY <4>1, <4>3 DEF CellAt
    <3>9. CellAt(e, f + Extent(d, f, b)) = v
      <4>1. f + Extent(d, f, b) = m * (l + 1) + 0 /\ 0 \in 0..(m - 1) /\ l + 1 \in Nat
        BY <2>2, <2>3, <2>4, <2>5, <2>7
      <4>2. (m * (l + 1) + 0) % m = 0 /\ (m * (l + 1) + 0) \div m = l + 1
        BY <4>1, Division
      <4> QED BY <2>2, <3>5, <4>1, <4>2 DEF CellAt
    <3>10. View(e, f, 0) = Append(View(d, f, b), v)
      BY <2>1, <3>6, <3>7, <3>8, <3>9, ViewPush
    <3> QED BY <2>1, <3>4, <3>6, <3>10, ShownAfter
  <2> QED BY <2>6, <2>7
<1> QED BY <1>1, <1>2

\* An empty queue.
LEMMA Emptied ==
  ASSUME deque' = <<>>, front_chunk_idx' = 0, back_chunk_idx' = MinusOne
  PROVE  TypeOK' /\ Contents' = <<>>
<1>1. <<>> \in Seq(Chunk) /\ Len(<<>>) = 0
  BY EmptySeq
<1> QED BY <1>1, SlotFacts DEF TypeOK, Contents

\* pop_front drops the first element: with the last chunk, with the first of
\* several chunks, and within a chunk.
LEMMA PopStep ==
  ASSUME TypeOK, PopFront
  PROVE  TypeOK' /\ Contents # <<>> /\ Contents' = Tail(Contents)
<1>0. deque # <<>>
  BY DEF PopFront, empty
<1>1. PICK d, f, b : /\ d = deque /\ f = front_chunk_idx /\ b = back_chunk_idx
                     /\ Filled(d, f, b) /\ Contents = View(d, f, b)
  BY <1>0, Shown
<1>2. PICK l \in Nat, m \in Nat \ {0} : l + 1 = Len(d) /\ m = ChunkSize
  BY <1>1, SlotFacts DEF Filled
<1>3. /\ d \in Seq(Chunk) /\ f \in Slot /\ f \in Nat /\ b \in Slot /\ b \in Nat /\ b < m /\ f < m
      /\ Inc(b) = b + 1 /\ Inc(f) = f + 1 /\ (l + 1 = 1 => f <= b)
  BY <1>1, <1>2, SlotFacts DEF Filled
<1>4. /\ Extent(d, f, b) = l * m + b + 1 - f
      /\ Extent(d, f, b) \in Nat \ {0} /\ View(d, f, b) \in Seq(Cell)
      /\ Len(View(d, f, b)) = Extent(d, f, b)
  <2>1. Len(d) - 1 = l
    BY <1>2
  <2>2. Extent(d, f, b) = l * m + b + 1 - f
    BY <1>2, <2>1 DEF Extent
  <2> QED BY <1>1, <2>2, ViewIsSeq, ExtentPositive
<1>5. Contents # <<>>
  BY <1>1, <1>4, EmptySeq
<1>6. CASE /\ Len(deque) = 1 /\ Inc(front_chunk_idx) = Inc(back_chunk_idx)
           /\ deque' = Tail(deque) /\ front_chunk_idx' = 0 /\ back_chunk_idx' = MinusOne
  <2>1. l = 0 /\ f = b
    BY <1>1, <1>2, <1>3, <1>6
  <2>2. Tail(d) = <<>>
    <3>1. d # <<>> /\ Len(d) = 1
      BY <1>0, <1>1, <1>6
    <3>2. Tail(d) \in Seq(Chunk) /\ Len(Tail(d)) = 0
      BY <1>3, <3>1, HeadTailProperties
    <3> QED BY <3>2, EmptySeq
  <2>3. Tail(View(d, f, b)) = <<>>
    <3>1. l * m = 0
      BY <2>1
    <3>2. Extent(d, f, b) = 1
      BY <1>3, <1>4, <2>1, <3>1
    <3>3. Tail(View(d, f, b)) \in Seq(Cell) /\ Len(Tail(View(d, f, b))) = 0
      BY <1>1, <1>4, <1>5, <3>2, HeadTailProperties
    <3> QED BY <3>3, EmptySeq
  <2> QED BY <1>1, <1>5, <1>6, <2>2, <2>3, Emptied
<1>7. CASE /\ Len(deque) # 1 /\ Inc(front_chunk_idx) = ChunkSize
           /\ deque' = Tail(deque) /\ front_chunk_idx' = 0
           /\ back_chunk_idx' = back_chunk_idx
  <2>1. PICK k \in Nat : l = k + 1
    BY <1>1, <1>2, <1>7
  <2>2. f + 1 = m
    BY <1>1, <1>2, <1>3, <1>7
  <2>3. PICK e \in Seq(Chunk) : /\ e = Tail(d) /\ Len(e) = k + 1
                                /\ \A j \in 1..(k + 1) : e[j] = d[j + 1]
    <3>1. d # <<>>
      BY <1>0, <1>1
    <3>2. /\ Tail(d) \in Seq(Chunk) /\ Len(Tail(d)) = Len(d) - 1
          /\ \A j \in 1..Len(Tail(d)) : Tail(d)[j] = d[j + 1]
      BY <1>3, <3>1, HeadTailProperties
    <3>3. Len(d) - 1 = k + 1
      BY <1>2, <2>1
    <3> QED BY <3>2, <3>3
  <2>4. Filled(e, 0, b)
    <3>0. b \in Nat
      BY <1>3
    <3>1. Len(e) \in Nat \ {0} /\ 0 <= b
      BY <2>3, <3>0
    <3> QED BY <1>3, <2>3, <3>1, SlotFacts DEF Filled
  <2>5. Extent(e, 0, b) = Extent(d, f, b) - 1
    <3>1. Len(e) - 1 = k /\ l * m = k * m + m /\ k * m \in Nat
      BY <2>1, <2>3
    <3>2. Extent(e, 0, b) = k * m + b + 1 - 0
      BY <1>2, <3>1 DEF Extent
    <3>3. PICK x \in Nat : x = k * m
      BY <3>1
    <3>4. Extent(d, f, b) = (x + m) + b + 1 - f /\ Extent(e, 0, b) = x + b + 1 - 0
      BY <1>4, <3>1, <3>2, <3>3
    <3> QED BY <1>3, <2>2, <3>4
  <2>6. ASSUME NEW i \in Nat, i < Extent(e, 0, b)
        PROVE  CellAt(e, 0 + i) = CellAt(d, f + i + 1)
    <3>1. 0 + i = i /\ i < 0 + Extent(e, 0, b) /\ f + i + 1 = i + m
      <4>1. Extent(e, 0, b) \in Nat
        BY <2>4, ExtentPositive
      <4> QED BY <1>3, <2>2, <2>6, <4>1
    <3>2. i \div ChunkSize \in 0..(Len(e) - 1)
      BY <2>4, <3>1, InMemory
    <3>3. PICK q \in 0..k : q = i \div m
      BY <1>2, <2>3, <3>2
    <3>4. (i + m) \div m = q + 1 /\ (i + m) % m = i % m
      BY <3>3, NextChunk
    <3>5. e[q + 1] = d[(q + 1) + 1]
      <4>1. q + 1 \in 1..(k + 1)
        OBVIOUS
      <4> QED BY <2>3, <4>1
    <3> QED BY <1>2, <3>1, <3>3, <3>4, <3>5 DEF CellAt
  <2>7. View(e, 0, b) = Tail(View(d, f, b))
    BY <1>1, <2>4, <2>5, <2>6, ViewPop
  <2> QED BY <1>1, <1>5, <1>7, <2>3, <2>4, <2>7, ShownAfter
<1>8. CASE /\ IF Len(deque) = 1 THEN Inc(front_chunk_idx) # Inc(back_chunk_idx)
                                ELSE Inc(front_chunk_idx) # ChunkSize
           /\ front_chunk_idx' = Inc(front_chunk_idx)
           /\ UNCHANGED <<deque, back_chunk_idx>>
  <2>1. f + 1 < m /\ (l + 1 = 1 => f + 1 <= b)
    BY <1>1, <1>2, <1>3, <1>8
  <2>2. f + 1 \in Slot
    BY <1>2, <1>3, <2>1, SlotFacts
  <2>3. Filled(d, f + 1, b)
    BY <1>1, <1>2, <2>1, <2>2 DEF Filled
  <2>4. Extent(d, f + 1, b) = Extent(d, f, b) - 1
    <3>1. Len(d) - 1 = l /\ l * m \in Nat
      BY <1>2
    <3>2. Extent(d, f + 1, b) = l * m + b + 1 - (f + 1)
      BY <1>2, <3>1 DEF Extent
    <3> QED BY <1>3, <1>4, <3>1, <3>2
  <2>5. ASSUME NEW i \in Nat, i < Extent(d, f + 1, b)
        PROVE  CellAt(d, (f + 1) + i) = CellAt(d, f + i + 1)
    <3>1. (f + 1) + i = f + i + 1
      BY <1>3
    <3> QED BY <3>1
  <2>6. View(d, f + 1, b) = Tail(View(d, f, b))
    BY <1>1, <2>3, <2>4, <2>5, ViewPop
  <2>7. deque' = d /\ front_chunk_idx' = f + 1 /\ back_chunk_idx' = b
    BY <1>1, <1>3, <1>8
  <2> QED BY <1>1, <1>5, <2>3, <2>6, <2>7, ShownAfter
<1> QED BY <1>6, <1>7, <1>8 DEF PopFront

------------------------------------------------------------------------------
LEMMA QueueInit == Init => TypeOK /\ Contents = <<>>
  BY EmptySeq, SlotFacts DEF Init, TypeOK, Contents

LEMMA QueueNext == TypeOK /\ [Next]_vars => TypeOK' /\ [Fifo!QNext]_Contents
<1> SUFFICES ASSUME TypeOK, [Next]_vars PROVE TypeOK' /\ [Fifo!QNext]_Contents
  OBVIOUS
<1>1. CASE PopFront
  BY <1>1, PopStep DEF Fifo!QNext, Fifo!Pop
<1>2. CASE clear
  BY <1>2, Emptied DEF clear, Fifo!QNext, Fifo!Clear
<1>3. ASSUME NEW v \in Value, PushBack(v) PROVE TypeOK' /\ [Fifo!QNext]_Contents
  BY <1>3, PushStep DEF Fifo!QNext, Fifo!Push
<1>4. CASE UNCHANGED vars
  BY <1>4 DEF vars, TypeOK, Contents
<1> QED BY <1>1, <1>2, <1>3, <1>4 DEF Next

\* buffer_queue implements a first-in first-out queue, for any chunk size that
\* its unsigned indices can count.
THEOREM QueueIsFifo == Spec => ImplementsFifo
<1>1. Init => Fifo!QInit
  BY QueueInit DEF Fifo!QInit
<1> QED BY <1>1, QueueInit, QueueNext, PTL DEF Spec, ImplementsFifo, Fifo!QSpec

\* size(), empty() and front() agree with the elements in memory, and the
\* indices that front() and the placement new of push_back use are in a chunk.
THEOREM QueriesAreRight == Spec => []QueriesAgree
<1>1. TypeOK => QueriesAgree
  <2> SUFFICES ASSUME TypeOK PROVE QueriesAgree
    OBVIOUS
  <2>1. CASE deque = <<>>
    <3>1. Len(<<>>) = 0
      OBVIOUS
    <3> QED BY <2>1, <3>1, Shown DEF QueriesAgree, size, empty
  <2>2. CASE deque # <<>>
    <3>1. PICK d, f, b : /\ d = deque /\ f = front_chunk_idx /\ b = back_chunk_idx
                         /\ Filled(d, f, b) /\ Contents = View(d, f, b)
      BY <2>2, Shown
    <3>2. PICK l \in Nat, m \in Nat \ {0}, u \in Nat \ {0} :
            l + 1 = Len(d) /\ m = ChunkSize /\ u = UIntModulus /\ m < u
      BY <3>1, SlotFacts, UIntAssumption DEF Filled
    <3>3. f \in Slot /\ f \in Nat /\ b \in Nat /\ f < m /\ b < m /\ (l = 0 => f <= b)
      BY <3>1, <3>2, SlotFacts DEF Filled
    <3>4. /\ View(d, f, b) \in Seq(Cell) /\ Extent(d, f, b) \in Nat \ {0}
          /\ Len(View(d, f, b)) = Extent(d, f, b)
          /\ \A i \in 1..Extent(d, f, b) : View(d, f, b)[i] = CellAt(d, f + i - 1)
      BY <3>1, ViewIsSeq, ExtentPositive
    <3>5. View(d, f, b) # <<>>
      BY <3>4, EmptySeq
    <3>6. Head(View(d, f, b)) = d[1][f]
      <4>1. Head(View(d, f, b)) = View(d, f, b)[1]
        BY <3>4, <3>5, HeadTailProperties
      <4>2. View(d, f, b)[1] = CellAt(d, f + 1 - 1) /\ f + 1 - 1 = f
        BY <3>3, <3>4
      <4>3. f % m = f /\ f \div m = 0
        <5>1. f = m * 0 + f /\ f \in 0..(m - 1)
          BY <3>3
        <5> QED BY <5>1, Division
      <4> QED BY <3>2, <4>1, <4>2, <4>3 DEF CellAt
    <3>7. size = Extent(d, f, b)
      <4>1. Len(d) - 1 = l /\ l * m \in Nat
        BY <3>2
      <4>2. Extent(d, f, b) = l * m + b + 1 - f
        BY <3>2, <4>1 DEF Extent
      <4>3. CASE l = 0
        <5>1. l * m = 0 /\ Len(d) = 1
          BY <3>2, <4>3
        <5>2. b + u - f + 1 = u * 1 + (b - f + 1) /\ b - f + 1 \in 0..(u - 1)
          BY <3>2, <3>3, <4>3
        <5>3. (u * 1 + (b - f + 1)) % u = b - f + 1
          BY <5>2, Division
        <5>4. size = (b + u - f + 1) % u
          BY <2>2, <3>1, <3>2, <5>1 DEF size
        <5> QED BY <3>3, <4>2, <5>1, <5>2, <5>3, <5>4
      <4>4. CASE l # 0
        <5>1. PICK k \in Nat : l = k + 1 /\ Len(d) # 1 /\ Len(d) - 2 = k
          BY <3>2, <4>4
        <5>2. l * m = k * m + m /\ k * m \in Nat
          BY <5>1
        <5>3. size = k * m + (b + 1) + (m - f)
          BY <2>2, <3>1, <3>2, <5>1 DEF size
        <5> QED BY <3>3, <4>2, <5>2, <5>3
      <4> QED BY <4>3, <4>4
    <3> QED BY <2>2, <3>1, <3>4, <3>5, <3>6, <3>7 DEF QueriesAgree, empty, front
  <2> QED BY <2>1, <2>2
<1>2. Spec => []TypeOK
  BY QueueInit, QueueNext, PTL DEF Spec
<1> QED BY <1>1, <1>2, PTL
==============================================================================

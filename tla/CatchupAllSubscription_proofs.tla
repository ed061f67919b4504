-------------------- MODULE CatchupAllSubscription_proofs --------------------
(****************************************************************************)
(* Proofs about a catch-up subscription to all streams, for any batch size, *)
(* live queue size, first position and length of the log.                   *)
(****************************************************************************)
EXTENDS CatchupAllSubscription, SequenceTheorems, FiniteSetTheorems, TLAPS

USE DEF guardVars, pendingVars, channelVars, serverVars

------------------------------------------------------------------------------
(* Sequences of events: their elements and their order.                     *)

Elems(s) == {s[i] : i \in 1..Len(s)}

Increasing(s) == \A i, j \in 1..Len(s) : i < j => s[i] < s[j]

LEMMA BatchFacts ==
  ASSUME NEW S, NEW a \in Nat, NEW b \in Nat, a <= b + 1, a..b \subseteq S
  PROVE  /\ Batch(a, b) \in Seq(S)
         /\ Len(Batch(a, b)) = b - a + 1
         /\ \A i \in 1..(b - a + 1) : Batch(a, b)[i] = a + i - 1
<1>1. PICK n \in Nat : n = b - a + 1
  OBVIOUS
<1>2. \A i \in 1..n : a + i - 1 \in a..b
  BY <1>1
<1>3. Batch(a, b) \in [1..n -> S]
  BY <1>1, <1>2 DEF Batch
<1>4. Batch(a, b) \in Seq(S) /\ Len(Batch(a, b)) = n
  BY <1>3
<1>5. \A i \in 1..n : Batch(a, b)[i] = a + i - 1
  BY <1>1 DEF Batch
<1> QED BY <1>1, <1>4, <1>5

LEMMA BatchNumbers ==
  ASSUME NEW a \in Nat, NEW b \in Nat, a <= b + 1
  PROVE  /\ Batch(a, b) \in Seq(Nat)
         /\ Len(Batch(a, b)) = b - a + 1
         /\ \A i \in 1..(b - a + 1) : Batch(a, b)[i] = a + i - 1
<1>1. a..b \subseteq Nat
  OBVIOUS
<1> QED BY <1>1, BatchFacts

LEMMA ElemsConcat ==
  ASSUME NEW S, NEW s \in Seq(S), NEW t \in Seq(S)
  PROVE  Elems(s \o t) = Elems(s) \cup Elems(t)
<1>1. /\ Len(s \o t) = Len(s) + Len(t)
      /\ \A i \in 1..(Len(s) + Len(t)) : (s \o t)[i] = IF i <= Len(s) THEN s[i] ELSE t[i - Len(s)]
  BY ConcatProperties
<1>2. Len(s) \in Nat /\ Len(t) \in Nat
  OBVIOUS
<1>3. ASSUME NEW x \in Elems(s \o t) PROVE x \in Elems(s) \cup Elems(t)
  <2>1. PICK i \in 1..(Len(s) + Len(t)) : x = (s \o t)[i]
    BY <1>1 DEF Elems
  <2>2. CASE i <= Len(s)
    BY <1>1, <1>2, <2>1, <2>2 DEF Elems
  <2>3. CASE ~(i <= Len(s))
    <3>1. i - Len(s) \in 1..Len(t)
      BY <1>2, <2>3
    <3> QED BY <1>1, <2>1, <2>3, <3>1 DEF Elems
  <2> QED BY <2>2, <2>3
<1>4. ASSUME NEW x \in Elems(s) PROVE x \in Elems(s \o t)
  <2>1. PICK i \in 1..Len(s) : x = s[i]
    BY <1>4 DEF Elems
  <2>2. i \in 1..(Len(s) + Len(t)) /\ i <= Len(s)
    BY <1>2
  <2> QED BY <1>1, <2>1, <2>2 DEF Elems
<1>5. ASSUME NEW x \in Elems(t) PROVE x \in Elems(s \o t)
  <2>1. PICK i \in 1..Len(t) : x = t[i]
    BY <1>5 DEF Elems
  <2>2. PICK j \in Int : j = i + Len(s)
    BY <1>2
  <2>3. j \in 1..(Len(s) + Len(t)) /\ ~(j <= Len(s)) /\ j - Len(s) = i
    BY <1>2, <2>2
  <2>4. (s \o t)[j] = t[i]
    BY <1>1, <2>3
  <2> QED BY <1>1, <2>1, <2>3, <2>4 DEF Elems
<1> QED BY <1>3, <1>4, <1>5

LEMMA IncreasingConcat ==
  ASSUME NEW s \in Seq(Nat), NEW t \in Seq(Nat), Increasing(s), Increasing(t),
         \A x \in Elems(s), y \in Elems(t) : x < y
  PROVE  Increasing(s \o t)
<1>1. /\ Len(s \o t) = Len(s) + Len(t)
      /\ \A i \in 1..(Len(s) + Len(t)) : (s \o t)[i] = IF i <= Len(s) THEN s[i] ELSE t[i - Len(s)]
  BY ConcatProperties
<1>2. Len(s) \in Nat /\ Len(t) \in Nat
  OBVIOUS
<1> SUFFICES ASSUME NEW i \in 1..(Len(s) + Len(t)), NEW j \in 1..(Len(s) + Len(t)), i < j
             PROVE  (s \o t)[i] < (s \o t)[j]
  BY <1>1 DEF Increasing
<1>3. CASE j <= Len(s)
  <2>1. i \in 1..Len(s) /\ j \in 1..Len(s)
    BY <1>2, <1>3
  <2> QED BY <1>1, <1>2, <2>1, <1>3 DEF Increasing
<1>4. CASE i <= Len(s) /\ ~(j <= Len(s))
  <2>1. i \in 1..Len(s) /\ j - Len(s) \in 1..Len(t)
    BY <1>2, <1>4
  <2>2. s[i] \in Elems(s) /\ t[j - Len(s)] \in Elems(t)
    BY <2>1 DEF Elems
  <2> QED BY <1>1, <1>4, <2>2
<1>5. CASE ~(i <= Len(s))
  <2>1. /\ i - Len(s) \in 1..Len(t) /\ j - Len(s) \in 1..Len(t) /\ ~(j <= Len(s))
        /\ i - Len(s) < j - Len(s)
    BY <1>2, <1>5
  <2>2. t[i - Len(s)] < t[j - Len(s)]
    BY <2>1 DEF Increasing
  <2> QED BY <1>1, <1>5, <2>1, <2>2
<1> QED BY <1>3, <1>4, <1>5

\* The events of a batch.
LEMMA BatchElems ==
  ASSUME NEW a \in Nat, NEW b \in Nat, a <= b + 1
  PROVE  Elems(Batch(a, b)) = a..b /\ Increasing(Batch(a, b))
<1>1. /\ Len(Batch(a, b)) = b - a + 1
      /\ \A i \in 1..(b - a + 1) : Batch(a, b)[i] = a + i - 1
  BY BatchNumbers
<1>2. ASSUME NEW x \in a..b PROVE x \in Elems(Batch(a, b))
  <2>1. PICK i \in Int : i = x - a + 1
    OBVIOUS
  <2>2. i \in 1..(b - a + 1) /\ a + i - 1 = x
    BY <2>1
  <2> QED BY <1>1, <2>2 DEF Elems
<1>3. ASSUME NEW x \in Elems(Batch(a, b)) PROVE x \in a..b
  <2>1. PICK i \in 1..(b - a + 1) : x = a + i - 1
    BY <1>1 DEF Elems
  <2> QED BY <2>1
<1>4. Increasing(Batch(a, b))
  BY <1>1 DEF Increasing
<1> QED BY <1>2, <1>3, <1>4

------------------------------------------------------------------------------
(* Events given to the user.                                                *)

\* Nothing is lost when the repeated event is left out.
LEMMA GiveElems ==
  ASSUME NEW S, seen \in Seq(S), NEW given \in Seq(S), Give(given)
  PROVE  seen' \in Seq(S) /\ Elems(seen') = Elems(seen) \cup Elems(given)
<1>1. CASE seen' = seen \o given
  BY <1>1, ElemsConcat, ConcatProperties
<1>2. CASE /\ seen' = seen \o Tail(given) /\ given # <<>> /\ seen # <<>>
           /\ given[1] = seen[Len(seen)]
  <2>1. Tail(given) \in Seq(S)
    BY <1>2, HeadTailProperties
  <2>2. seen' \in Seq(S) /\ Elems(seen') = Elems(seen) \cup Elems(Tail(given))
    BY <1>2, <2>1, ElemsConcat, ConcatProperties
  <2>3. /\ Len(Tail(given)) = Len(given) - 1 /\ Len(given) \in Nat \ {0}
        /\ Len(seen) \in Nat \ {0}
        /\ \A i \in 1..Len(Tail(given)) : Tail(given)[i] = given[i + 1]
    BY <1>2, EmptySeq, HeadTailProperties
  <2>4. given[1] \in Elems(seen)
    BY <1>2, <2>3 DEF Elems
  <2>5. Elems(Tail(given)) \subseteq Elems(given)
    <3> SUFFICES ASSUME NEW i \in 1..Len(Tail(given)) PROVE Tail(given)[i] \in Elems(given)
      BY DEF Elems
    <3>1. i + 1 \in 1..Len(given)
      BY <2>3
    <3> QED BY <2>3, <3>1 DEF Elems
  <2>6. Elems(given) \subseteq Elems(Tail(given)) \cup {given[1]}
    <3> SUFFICES ASSUME NEW i \in 1..Len(given), i # 1 PROVE given[i] \in Elems(Tail(given))
      BY DEF Elems
    <3>1. PICK j \in Int : j = i - 1
      BY <2>3
    <3>2. j \in 1..Len(Tail(given)) /\ j + 1 = i
      BY <2>3, <3>1
    <3> QED BY <2>3, <3>2 DEF Elems
  <2> QED BY <2>2, <2>4, <2>5, <2>6
<1> QED BY <1>1, <1>2 DEF Give

\* What is given lies after all that was given before, or begins with the last
\* event given before.
LEMMA GiveIncreasing ==
  ASSUME seen \in Seq(Nat), NEW given \in Seq(Nat), Give(given),
         Increasing(seen), Increasing(given),
         \/ \A x \in Elems(seen), y \in Elems(given) : x < y
         \/ /\ given # <<>> /\ given[1] \in Elems(seen)
            /\ \A x \in Elems(seen) : x <= given[1]
  PROVE  Increasing(seen')
<1>0. /\ Len(seen) \in Nat /\ Len(given) \in Nat
      /\ \A i \in 1..Len(seen) : seen[i] \in Nat
      /\ \A i \in 1..Len(given) : given[i] \in Nat
  BY ElementOfSeq
<1>1. ASSUME given # <<>>, given[1] \in Elems(seen), \A x \in Elems(seen) : x <= given[1]
      PROVE  Increasing(seen')
  <2>1. PICK j \in 1..Len(seen) : seen[j] = given[1]
    BY <1>1 DEF Elems
  <2>2. Len(seen) \in 1..Len(seen) /\ seen # <<>> /\ 1 \in 1..Len(given)
    BY <1>0, <1>1, <2>1, EmptySeq
  <2>3. seen[Len(seen)] \in Elems(seen)
    BY <2>2 DEF Elems
  <2>4. seen[Len(seen)] <= given[1]
    BY <1>1, <2>3
  <2>5. j < Len(seen) => seen[j] < seen[Len(seen)]
    BY <2>2 DEF Increasing
  <2>6. given[1] = seen[Len(seen)]
    BY <1>0, <2>1, <2>2, <2>4, <2>5
  <2>7. seen' = seen \o Tail(given)
    BY <1>1, <2>2, <2>6 DEF Give
  <2>8. /\ Tail(given) \in Seq(Nat) /\ Len(Tail(given)) = Len(given) - 1
        /\ \A i \in 1..Len(Tail(given)) : Tail(given)[i] = given[i + 1]
    BY <1>1, HeadTailProperties
  <2>9. ASSUME NEW i \in 1..Len(Tail(given))
        PROVE  i + 1 \in 1..Len(given) /\ i \in Nat /\ given[1] < given[i + 1]
    <3>1. i + 1 \in 1..Len(given) /\ i \in Nat /\ 1 < i + 1
      BY <1>0, <2>8
    <3> QED BY <2>2, <3>1 DEF Increasing
  <2>10. Increasing(Tail(given))
    <3> SUFFICES ASSUME NEW i \in 1..Len(Tail(given)), NEW k \in 1..Len(Tail(given)), i < k
                 PROVE  Tail(given)[i] < Tail(given)[k]
      BY DEF Increasing
    <3>1. i + 1 \in 1..Len(given) /\ k + 1 \in 1..Len(given) /\ i + 1 < k + 1
      BY <2>9
    <3> QED BY <2>8, <3>1 DEF Increasing
  <2>11. \A x \in Elems(seen), y \in Elems(Tail(given)) : x < y
    <3> SUFFICES ASSUME NEW x \in Elems(seen), NEW i \in 1..Len(Tail(given))
                 PROVE  x < Tail(given)[i]
      BY DEF Elems
    <3>1. x <= given[1] /\ x \in Nat
      BY <1>0, <1>1 DEF Elems
    <3> QED BY <1>0, <2>2, <2>8, <2>9, <3>1
  <2> QED BY <2>7, <2>8, <2>10, <2>11, IncreasingConcat
<1>2. ASSUME \A x \in Elems(seen), y \in Elems(given) : x < y
      PROVE  Increasing(seen')
  <2>1. ASSUME given # <<>>, seen # <<>>, given[1] = seen[Len(seen)] PROVE FALSE
    <3>1. 1 \in 1..Len(given) /\ Len(seen) \in 1..Len(seen)
      BY <1>0, <2>1, EmptySeq
    <3>2. given[1] \in Elems(given) /\ seen[Len(seen)] \in Elems(seen) /\ given[1] \in Nat
      BY <1>0, <3>1 DEF Elems
    <3> QED BY <1>2, <2>1, <3>2
  <2>2. seen' = seen \o given
    BY <2>1 DEF Give
  <2> QED BY <1>2, <2>2, IncreasingConcat
<1> QED BY <1>1, <1>2

\* What read_subscription_events does, in terms of the number of events given.
Drained(S, before, buffer, others, q) ==
  /\ Give(before \o SubSeq(buffer, 1, q))
  /\ SubSeq(buffer, 1, q) \in Seq(S)
  /\ Len(SubSeq(buffer, 1, q)) = q
  /\ \A i \in 1..q : SubSeq(buffer, 1, q)[i] = buffer[i]
  /\ event_buffer' \in Seq(S)
  /\ Len(event_buffer') = Len(buffer) - q
  /\ \A i \in 1..(Len(buffer) - q) : event_buffer'[i] = buffer[q + i]
  /\ Len(buffer) = 1 => q = 1 /\ drains' = others
  /\ \A pos : PositionAfter(buffer, pos) = IF q = 0 THEN pos ELSE log[buffer[q]]

LEMMA DrainFacts ==
  ASSUME NEW S, NEW before, NEW buffer \in Seq(S), NEW others,
         read_subscription_events(before, buffer, others)
  PROVE  \E q \in 0..Len(buffer) : Drained(S, before, buffer, others, q)
<1>1. PICK n \in 0..Len(buffer) :
        /\ Give(before \o SubSeq(buffer, 1, n))
        /\ event_buffer' = SubSeq(buffer, n + 1, Len(buffer))
        /\ Len(buffer) = 1 => n = 1 /\ drains' = others
        /\ \A pos : PositionAfter(buffer, pos) = IF n = 0 THEN pos ELSE log[buffer[n]]
  <2> DEFINE k == IF Len(buffer) < MaxLiveQueueSize THEN Len(buffer) ELSE MaxLiveQueueSize
  <2>1. /\ Give(before \o SubSeq(buffer, 1, k))
        /\ event_buffer' = SubSeq(buffer, k + 1, Len(buffer))
        /\ drains' = IF k < Len(buffer) THEN others + 1 ELSE others
    BY DEF read_subscription_events
  <2>2. k \in 0..Len(buffer) /\ (Len(buffer) = 1 => k = 1)
    BY AllLiveQueueAssumption
  <2>3. \A pos : PositionAfter(buffer, pos) = IF k = 0 THEN pos ELSE log[buffer[k]]
    BY DEF PositionAfter
  <2> HIDE DEF k
  <2> QED BY <2>1, <2>2, <2>3
<1>2. Len(buffer) \in Nat /\ n \in Int /\ n + 1 \in Int /\ Len(buffer) \in Int
  OBVIOUS
<1>3. \A i \in 1..Len(buffer) : buffer[i] \in S
  BY ElementOfSeq
<1>4. (\A i \in 1..n : buffer[i] \in S) /\ (\A i \in (n + 1)..Len(buffer) : buffer[i] \in S)
  BY <1>2, <1>3
<1>5. /\ SubSeq(buffer, 1, n) \in Seq(S)
      /\ Len(SubSeq(buffer, 1, n)) = IF 1 <= n THEN n - 1 + 1 ELSE 0
      /\ \A i \in 1..(n - 1 + 1) : SubSeq(buffer, 1, n)[i] = buffer[1 + i - 1]
  BY <1>2, <1>4, SubSeqProperties
<1>6. /\ event_buffer' \in Seq(S)
      /\ Len(event_buffer') = IF n + 1 <= Len(buffer) THEN Len(buffer) - (n + 1) + 1 ELSE 0
      /\ \A i \in 1..(Len(buffer) - (n + 1) + 1) : event_buffer'[i] = buffer[(n + 1) + i - 1]
  BY <1>1, <1>2, <1>4, SubSeqProperties
<1>7. Len(SubSeq(buffer, 1, n)) = n /\ \A i \in 1..n : SubSeq(buffer, 1, n)[i] = buffer[i]
  BY <1>2, <1>5
<1>8. /\ Len(event_buffer') = Len(buffer) - n
      /\ \A i \in 1..(Len(buffer) - n) : event_buffer'[i] = buffer[n + i]
  <2>1. Len(event_buffer') = Len(buffer) - n
    BY <1>2, <1>6
  <2>2. \A i \in 1..(Len(buffer) - n) :
          i \in 1..(Len(buffer) - (n + 1) + 1) /\ (n + 1) + i - 1 = n + i
    BY <1>2
  <2> QED BY <1>6, <2>1, <2>2
<1> QED BY <1>1, <1>5, <1>6, <1>7, <1>8 DEF Drained

LEMMA DrainNothing ==
  ASSUME NEW before, NEW others, event_buffer = <<>>,
         read_subscription_events(before, event_buffer, others)
  PROVE  event_buffer' = <<>> /\ Give(before \o <<>>) /\ drains' = others
<1>1. Len(event_buffer) = 0 /\ 0 < MaxLiveQueueSize
  BY AllLiveQueueAssumption
<1>2. /\ Give(before \o SubSeq(event_buffer, 1, 0))
      /\ event_buffer' = SubSeq(event_buffer, 0 + 1, 0) /\ drains' = others
  BY <1>1 DEF read_subscription_events
<1>3. SubSeq(event_buffer, 1, 0) = <<>> /\ 0 + 1 = 1
  BY SubSeqEmpty
<1> QED BY <1>2, <1>3

------------------------------------------------------------------------------
(* Types.                                                                   *)

Position == [commit : Nat, prepare : Nat]

Index == 1..Len(log)

Package ==
  [cmd : {"confirmation"}, arg : Int]
    \cup [cmd : {"event"}, arg : Index]
    \cup [cmd : Refusal, arg : {0}]
    \cup [cmd : {"dropped"}, arg : DropReason]

Slice == [loop : {"none", "initial", "missed"}, from : Position,
          status : {"none", "sent", "read", "failed"}, first : Nat \ {0}, last : Nat]

TypeInv ==
  /\ log \in Seq(Position)
  /\ seen \in Seq(Index)
  /\ event_buffer \in Seq(Index)
  /\ current_position \in Position
  /\ position_to_catch_up_to \in [commit : Int, prepare : Int]
  /\ slice \in Slice
  /\ slice.first <= slice.last + 1 /\ slice.last <= Len(log)
  /\ pushed \in 0..Len(log)
  /\ inbox \in Seq(Package)
  /\ handle_guard \in BOOLEAN

typeVars == <<log, seen, event_buffer, current_position, position_to_catch_up_to, slice,
              pushed, inbox, handle_guard>>

LEMMA TypeUnchanged == TypeInv /\ UNCHANGED typeVars => TypeInv'
  BY DEF TypeInv, typeVars, Index, Package

\* The end of the log and its positions.
LEMMA EndType ==
  ASSUME TypeInv
  PROVE  /\ EndOfLog \in Nat /\ FirstPosition \in Nat
         /\ Len(log) \in Nat
         /\ \A i \in 1..Len(log) : /\ log[i] \in Position
                                   /\ log[i].commit \in Nat /\ log[i].prepare \in Nat
                                   /\ log[i] = position(log[i].commit, log[i].prepare)
<1>1. log \in Seq(Position) /\ Len(log) \in Nat
  BY DEF TypeInv
<1>2. \A i \in 1..Len(log) : log[i] \in Position
  BY <1>1, ElementOfSeq
<1>3. \A p \in Position : p.commit \in Nat /\ p.prepare \in Nat /\ p = position(p.commit, p.prepare)
  BY DEF Position, position
<1>4. log # <<>> => Len(log) \in 1..Len(log)
  BY <1>1, EmptySeq
<1>5. EndOfLog \in Nat
  <2>1. log # <<>> => log[Len(log)].commit \in Nat
    BY <1>2, <1>3, <1>4
  <2> QED BY <2>1, LogAssumption DEF EndOfLog
<1> QED BY <1>1, <1>2, <1>3, <1>5, LogAssumption

\* The number of events before a position.
LEMMA BeforeType ==
  ASSUME TypeInv, NEW pos
  PROVE  Cardinality({i \in 1..Len(log) : After(pos, log[i])}) \in 0..Len(log)
<1>1. Len(log) \in Nat
  BY DEF TypeInv
<1>2. IsFiniteSet(1..Len(log)) /\ Cardinality(1..Len(log)) = Len(log)
  <2>1. PICK l \in Nat : l = Len(log)
    BY <1>1
  <2>2. IsFiniteSet(1..l) /\ Cardinality(1..l) = IF 1 > l THEN 0 ELSE l - 1 + 1
    BY FS_Interval
  <2>3. Cardinality(1..l) = l
    BY <2>2
  <2> QED BY <2>1, <2>2, <2>3
<1> DEFINE T == {i \in 1..Len(log) : After(pos, log[i])}
<1>3. T \in SUBSET (1..Len(log))
  OBVIOUS
<1>4. IsFiniteSet(T) /\ Cardinality(T) <= Cardinality(1..Len(log))
  BY <1>2, <1>3, FS_Subset
<1>5. Cardinality(T) \in Nat
  BY <1>4, FS_CardinalityType
<1> HIDE DEF T
<1>6. Cardinality(T) \in 0..Len(log)
  BY <1>1, <1>2, <1>4, <1>5
<1> QED BY <1>6 DEF T

\* A call of read_subscription_events.
LEMMA DrainTypes ==
  ASSUME TypeInv, UNCHANGED log, NEW before \in Seq(Index), NEW buffer \in Seq(Index),
         NEW others, NEW pos \in Position, read_subscription_events(before, buffer, others),
         current_position' = PositionAfter(buffer, pos)
  PROVE  /\ seen' \in Seq(Index) /\ event_buffer' \in Seq(Index)
         /\ current_position' \in Position
<1>0. PICK I : I = Index
  OBVIOUS
<1>1. PICK q \in 0..Len(buffer) :
        /\ Give(before \o SubSeq(buffer, 1, q))
        /\ SubSeq(buffer, 1, q) \in Seq(I)
        /\ event_buffer' \in Seq(I)
        /\ \A x : PositionAfter(buffer, x) = IF q = 0 THEN x ELSE log[buffer[q]]
  <2>1. buffer \in Seq(I)
    BY <1>0
  <2>2. read_subscription_events(before, buffer, others)
    OBVIOUS
  <2>3. \E q \in 0..Len(buffer) : Drained(I, before, buffer, others, q)
    BY <2>1, <2>2, DrainFacts
  <2> QED BY <2>3 DEF Drained
<1>2. before \o SubSeq(buffer, 1, q) \in Seq(Index)
  BY <1>0, <1>1, ConcatProperties
<1>3. seen' \in Seq(Index)
  BY <1>1, <1>2, GiveElems DEF TypeInv
<1>4. q # 0 => q \in 1..Len(buffer)
  OBVIOUS
<1>5. q # 0 => buffer[q] \in Index
  BY <1>4, ElementOfSeq
<1>6. current_position' \in Position
  <2>1. \A i \in Index : log[i] \in Position
    BY EndType DEF Index
  <2> QED BY <1>1, <1>5, <2>1
<1> QED BY <1>0, <1>1, <1>3, <1>6

LEMMA TypeInit == Init => TypeInv
<1> SUFFICES ASSUME Init PROVE TypeInv
  OBVIOUS
<1>1. /\ <<>> \in Seq(Index) /\ <<>> \in Seq(Position) /\ <<>> \in Seq(Package)
      /\ Len(<<>>) = 0
  BY EmptySeq
<1>2. start \in Position /\ NoPosition \in [commit : Int, prepare : Int]
  BY DEF start, NoPosition, position, Position
<1>3. NoRead \in Slice /\ NoRead.first = 1 /\ NoRead.last = 0
  BY <1>2 DEF NoRead, Slice
<1>4. /\ log = <<>> /\ seen = <<>> /\ event_buffer = <<>> /\ inbox = <<>> /\ pushed = 0
      /\ slice = NoRead /\ current_position = start /\ handle_guard = FALSE
      /\ position_to_catch_up_to = NoPosition
  BY DEF Init, BaseInit
<1>5. Len(log) = 0 /\ pushed \in 0..Len(log)
  BY <1>1, <1>4
<1>6. log \in Seq(Position) /\ seen \in Seq(Index) /\ event_buffer \in Seq(Index)
  BY <1>1, <1>4, Zenon
<1>7. inbox \in Seq(Package)
  BY <1>1, <1>4, Zenon
<1>8. slice \in Slice /\ slice.first <= slice.last + 1 /\ slice.last <= Len(log)
  BY <1>3, <1>4, <1>5
<1>9. /\ current_position \in Position /\ handle_guard \in BOOLEAN
      /\ position_to_catch_up_to \in [commit : Int, prepare : Int]
  BY <1>2, <1>4
<1> QED BY <1>5, <1>6, <1>7, <1>8, <1>9 DEF TypeInv

\* A package handled by the subscription itself.
LEMMA PackageTypes ==
  ASSUME TypeInv, UNCHANGED log, inbox # <<>>,
         \/ Confirmation(Head(inbox)) \/ EventAppeared(Head(inbox))
         \/ BasePackage(Head(inbox))
  PROVE  /\ seen' \in Seq(Index) /\ event_buffer' \in Seq(Index)
         /\ current_position' \in Position
         /\ position_to_catch_up_to' \in [commit : Int, prepare : Int]
         /\ slice' \in Slice
         /\ slice'.first <= slice'.last + 1 /\ slice'.last <= Len(log)
         /\ handle_guard' \in BOOLEAN
<1> PICK p : p = Head(inbox)
  OBVIOUS
<1>0. p \in Package /\ Len(log) \in Nat
  BY HeadTailProperties DEF TypeInv
<1>1. CASE Confirmation(p)
  <2>0. p.arg \in Int
    BY <1>0, <1>1 DEF Confirmation, Package, Refusal
  <2>1. UNCHANGED <<seen, current_position, event_buffer, handle_guard>>
    BY <1>1 DEF Confirmation
  <2>3. position_to_catch_up_to' \in [commit : Int, prepare : Int]
    BY <1>1, <2>0 DEF Confirmation, position
  <2>4. slice' \in Slice /\ slice'.first <= slice'.last + 1 /\ slice'.last <= Len(log)
    BY <1>0, <1>1 DEF Confirmation, catch_up_events, TypeInv, Slice
  <2> QED BY <2>1, <2>3, <2>4 DEF TypeInv
<1>2. CASE EventAppeared(p)
  <2>0. p.arg \in Index
    BY <1>0, <1>2 DEF EventAppeared, Package, Refusal
  <2>1. UNCHANGED <<position_to_catch_up_to, slice, handle_guard>>
    BY <1>2 DEF EventAppeared
  <2>2. CASE event_buffer' = Append(event_buffer, p.arg) /\ UNCHANGED <<seen, current_position>>
    BY <2>0, <2>1, <2>2, AppendProperties DEF TypeInv
  <2>3. CASE /\ read_subscription_events(<<>>, <<p.arg>>, drains)
             /\ current_position' = PositionAfter(<<p.arg>>, current_position)
    <3>1. <<p.arg>> \in Seq(Index) /\ <<>> \in Seq(Index) /\ current_position \in Position
      BY <2>0 DEF TypeInv
    <3>2. /\ seen' \in Seq(Index) /\ event_buffer' \in Seq(Index)
          /\ current_position' \in Position
      BY <2>3, <3>1, DrainTypes
    <3> QED BY <2>1, <3>2 DEF TypeInv
  <2> QED BY <1>2, <2>2, <2>3 DEF EventAppeared
<1>3. CASE BasePackage(p)
  <2>1. UNCHANGED <<seen, current_position, position_to_catch_up_to, slice>>
    BY <1>3 DEF BasePackage
  <2>2. event_buffer' = event_buffer \/ event_buffer' = <<>>
    BY <1>3 DEF BasePackage
  <2>3. <<>> \in Seq(Index)
    OBVIOUS
  <2>4. event_buffer' \in Seq(Index)
    BY <2>2, <2>3, Zenon DEF TypeInv
  <2>5. handle_guard' = TRUE \/ handle_guard' = handle_guard
    BY <1>3 DEF BasePackage, BaseDropped, BaseRefused, unsubscribe
  <2>6. handle_guard' \in BOOLEAN
    BY <2>5 DEF TypeInv
  <2> QED BY <2>1, <2>4, <2>6 DEF TypeInv
<1> QED BY <1>1, <1>2, <1>3

SliceFits(s) == s \in Slice /\ s.first <= s.last + 1 /\ s.last <= Len(log)

LEMMA TypeKept ==
  ASSUME TypeInv, UNCHANGED log, seen' \in Seq(Index), event_buffer' \in Seq(Index),
         current_position' \in Position,
         position_to_catch_up_to' \in [commit : Int, prepare : Int],
         SliceFits(slice'), pushed' \in 0..Len(log), inbox' \in Seq(Package),
         handle_guard' \in BOOLEAN
  PROVE  TypeInv'
<1>1. Index' = Index /\ Package' = Package /\ Len(log)' = Len(log)
  BY DEF Index, Package
<1> QED BY <1>1 DEF TypeInv, SliceFits

LEMMA TypeNext == TypeInv /\ [Next]_vars => TypeInv'
<1> SUFFICES ASSUME TypeInv, [Next]_vars PROVE TypeInv'
  OBVIOUS
<1>0. /\ \A p \in Package : Append(inbox, p) \in Seq(Package)
      /\ \A p : p \in Position => \A lp \in {"initial", "missed"} :
           SliceFits([loop |-> lp, from |-> p, status |-> "sent", first |-> 1, last |-> 0])
      /\ SliceFits(NoRead) /\ SliceFits(slice)
      /\ <<>> \in Seq(Index) /\ Len(log) \in Nat
  <2>1. \A p \in Package : Append(inbox, p) \in Seq(Package)
    BY AppendProperties DEF TypeInv
  <2>2. Len(log) \in Nat /\ start \in Position
    BY DEF TypeInv, start, position, Position
  <2>3. \A p : p \in Position => \A lp \in {"initial", "missed"} :
           SliceFits([loop |-> lp, from |-> p, status |-> "sent", first |-> 1, last |-> 0])
    BY <2>2 DEF SliceFits, Slice
  <2>4. SliceFits(NoRead)
    BY <2>2 DEF SliceFits, Slice, NoRead
  <2>5. SliceFits(slice)
    BY DEF SliceFits, TypeInv
  <2> QED BY <2>1, <2>2, <2>3, <2>4, <2>5
<1>a. /\ seen \in Seq(Index) /\ event_buffer \in Seq(Index) /\ current_position \in Position
      /\ position_to_catch_up_to \in [commit : Int, prepare : Int]
      /\ pushed \in 0..Len(log) /\ inbox \in Seq(Package) /\ handle_guard \in BOOLEAN
      /\ slice \in Slice /\ slice.first \in Nat \ {0} /\ slice.last \in Nat
      /\ slice.first <= slice.last + 1 /\ slice.last <= Len(log)
  BY DEF TypeInv, Slice
<1>b. ASSUME NEW a \in Nat \ {0}, NEW b \in Nat, a <= b + 1, b <= Len(log)
      PROVE  Batch(a, b) \in Seq(Index)
  <2>1. a..b \subseteq Index
    BY <1>0, <1>b DEF Index
  <2> QED BY <1>b, <2>1, BatchFacts
<1>c. ASSUME NEW given \in Seq(Index), Give(given) PROVE seen' \in Seq(Index)
  <2>1. PICK I : I = Index
    OBVIOUS
  <2>2. seen \in Seq(I) /\ given \in Seq(I)
    BY <1>a, <2>1
  <2>3. seen' \in Seq(I)
    BY <1>c, <2>2, GiveElems
  <2> QED BY <2>1, <2>3
<1>1. CASE AsyncStart
  <2>1. SliceFits(slice')
    BY <1>0, <1>1, <1>a DEF AsyncStart, catch_up_events
  <2>2. UNCHANGED <<log, seen, event_buffer, current_position, position_to_catch_up_to, pushed,
                    inbox, handle_guard>>
    BY <1>1 DEF AsyncStart
  <2> QED BY <1>a, <2>1, <2>2, TypeKept
<1>2. CASE Unsubscribe
  <2>1. event_buffer' = event_buffer \/ event_buffer' = <<>>
    BY <1>2 DEF Unsubscribe
  <2>2. handle_guard' = handle_guard \/ handle_guard' = TRUE
    BY <1>2 DEF Unsubscribe, UserUnsubscribe, unsubscribe
  <2>3. UNCHANGED <<log, seen, current_position, position_to_catch_up_to, slice, pushed, inbox>>
    BY <1>2 DEF Unsubscribe, UserUnsubscribe
  <2>4. event_buffer' \in Seq(Index) /\ handle_guard' \in BOOLEAN
    BY <1>0, <1>a, <2>1, <2>2, Zenon
  <2> QED BY <1>0, <1>a, <2>3, <2>4, TypeKept
<1>3. CASE HandleInitialSlice
  <2>1. seen' \in Seq(Index)
    BY <1>3, <1>a, <1>b, <1>c DEF HandleInitialSlice
  <2>2. CASE /\ slice.first > slice.last /\ base_async_start /\ slice' = NoRead
             /\ UNCHANGED current_position
    <3>1. UNCHANGED <<log, event_buffer, position_to_catch_up_to, pushed, inbox>>
      BY <1>3 DEF HandleInitialSlice
    <3>2. handle_guard' \in BOOLEAN
      BY <2>2 DEF base_async_start
    <3> QED BY <1>0, <1>a, <2>1, <2>2, <3>1, <3>2, TypeKept
  <2>3. CASE /\ slice.first <= slice.last
             /\ current_position' = position(log[slice.last].commit + 1,
                                             log[slice.last].commit + 1)
             /\ catch_up_events("initial", current_position')
             /\ UNCHANGED <<handle_guard, subscriptions_map, outbox>>
    <3>0. slice.last \in 1..Len(log)
      BY <1>0, <1>a, <2>3
    <3>1. log[slice.last].commit \in Nat
      BY <3>0, EndType
    <3>2. current_position' \in Position
      BY <2>3, <3>1 DEF position, Position
    <3>3. SliceFits(slice')
      BY <1>0, <2>3, <3>2 DEF catch_up_events
    <3>4. UNCHANGED <<log, event_buffer, position_to_catch_up_to, pushed, inbox>>
      BY <1>3 DEF HandleInitialSlice
    <3> QED BY <1>a, <2>1, <2>3, <3>2, <3>3, <3>4, TypeKept
  <2> QED BY <1>3, <2>2, <2>3 DEF HandleInitialSlice
<1>4. CASE HandleInitialError \/ HandleMissedError
  <2>1. /\ event_buffer' = <<>> /\ slice' = NoRead /\ handle_guard' = TRUE
        /\ UNCHANGED <<log, seen, inbox, current_position, position_to_catch_up_to, pushed>>
    BY <1>4 DEF HandleInitialError, HandleMissedError, unsubscribe
  <2>2. handle_guard' \in BOOLEAN
    BY <2>1
  <2> QED BY <1>0, <1>a, <2>1, <2>2, TypeKept
<1>5. CASE HandleLastMissedSlice
  <2>1. PICK i \in StopIndex :
          /\ read_subscription_events(Batch(slice.first, i - 1), event_buffer, drains)
          /\ current_position' = PositionAfter(event_buffer, log[i])
    BY <1>5 DEF HandleLastMissedSlice
  <2>2. i \in slice.first..slice.last
    BY DEF StopIndex
  <2>3. i \in 1..Len(log) /\ i - 1 \in Nat /\ i - 1 <= Len(log) /\ slice.first <= i - 1 + 1
    BY <1>0, <1>a, <2>2
  <2>4. Batch(slice.first, i - 1) \in Seq(Index) /\ log[i] \in Position
    BY <1>a, <1>b, <2>3, EndType
  <2>5. /\ slice' = NoRead
        /\ UNCHANGED <<log, handle_guard, position_to_catch_up_to, pushed, inbox>>
    BY <1>5 DEF HandleLastMissedSlice
  <2>6. /\ seen' \in Seq(Index) /\ event_buffer' \in Seq(Index)
        /\ current_position' \in Position
    BY <1>a, <2>1, <2>4, <2>5, DrainTypes
  <2> QED BY <1>0, <1>a, <2>5, <2>6, TypeKept
<1>6. CASE HandleMissedSlice
  <2>1. seen' \in Seq(Index)
    BY <1>6, <1>a, <1>b, <1>c DEF HandleMissedSlice
  <2>2. slice.first <= slice.last => slice.last \in 1..Len(log)
    BY <1>0, <1>a
  <2>3. current_position' \in Position
    BY <1>6, <1>a, <2>2, EndType DEF HandleMissedSlice
  <2>4. SliceFits(slice')
    BY <1>0, <1>6, <2>3 DEF HandleMissedSlice, catch_up_events
  <2>5. UNCHANGED <<log, handle_guard, position_to_catch_up_to, pushed, inbox, event_buffer>>
    BY <1>6 DEF HandleMissedSlice
  <2> QED BY <1>a, <2>1, <2>3, <2>4, <2>5, TypeKept
<1>7. CASE HandlePackage
  <2>1. inbox # <<>> /\ inbox' \in Seq(Package) /\ UNCHANGED <<log, pushed>>
    BY <1>7, <1>a, HeadTailProperties DEF HandlePackage, TakePackage
  <2>2. CASE (AnswerUnsubscribe \/ IgnorePackage) /\ ~Dispatched
    <3>1. UNCHANGED <<seen, event_buffer, current_position, position_to_catch_up_to, slice,
                      handle_guard>>
      BY <1>7, <2>2 DEF HandlePackage, AnswerUnsubscribe, IgnorePackage
    <3> QED BY <1>0, <1>a, <2>1, <3>1, TypeKept
  <2>3. CASE \/ Confirmation(Head(inbox)) \/ EventAppeared(Head(inbox))
             \/ BasePackage(Head(inbox))
    <3>1. /\ seen' \in Seq(Index) /\ event_buffer' \in Seq(Index)
          /\ current_position' \in Position
          /\ position_to_catch_up_to' \in [commit : Int, prepare : Int]
          /\ slice' \in Slice
          /\ slice'.first <= slice'.last + 1 /\ slice'.last <= Len(log)
          /\ handle_guard' \in BOOLEAN
      BY <2>1, <2>3, PackageTypes
    <3>2. SliceFits(slice')
      BY <3>1 DEF SliceFits
    <3> QED BY <1>a, <2>1, <3>1, <3>2, TypeKept
  <2> QED
    BY <1>7, <2>2, <2>3 DEF HandlePackage, AnswerUnsubscribe, IgnorePackage, Dispatched
<1>8. CASE RunPostedDrain
  <2>1. /\ read_subscription_events(<<>>, event_buffer, drains - 1)
        /\ current_position' = PositionAfter(event_buffer, current_position)
        /\ UNCHANGED <<log, handle_guard, position_to_catch_up_to, pushed, inbox, slice>>
    BY <1>8 DEF RunPostedDrain
  <2>2. /\ seen' \in Seq(Index) /\ event_buffer' \in Seq(Index)
        /\ current_position' \in Position
    BY <1>0, <1>a, <2>1, DrainTypes
  <2> QED BY <1>0, <1>a, <2>1, <2>2, TypeKept
<1>9. CASE BaseStep
  <2>1. event_buffer' = event_buffer \/ event_buffer' = <<>>
    BY <1>9 DEF BaseStep
  <2>2. handle_guard' = handle_guard \/ handle_guard' = TRUE
    BY <1>9 DEF BaseStep, RunPostedDrop, DeadlineEnds, HandleTimeout, ConnectionLost
  <2>3. UNCHANGED <<log, seen, current_position, position_to_catch_up_to, slice, pushed, inbox>>
    BY <1>9 DEF BaseStep, RunPostedDrop, DeadlineEnds, HandleTimeout, ConnectionLost
  <2>4. event_buffer' \in Seq(Index) /\ handle_guard' \in BOOLEAN
    BY <1>0, <1>a, <2>1, <2>2, Zenon
  <2> QED BY <1>0, <1>a, <2>3, <2>4, TypeKept
<1>10. CASE Written
  <2>1. PICK p : /\ p \in {position(EndOfLog, EndOfLog), position(EndOfLog + 1, EndOfLog)}
                 /\ log' = Append(log, p)
    BY <1>10 DEF Written
  <2>2. p \in Position /\ log \in Seq(Position)
    BY <2>1, EndType DEF position, Position, TypeInv
  <2>3. log' \in Seq(Position) /\ Len(log') = Len(log) + 1
    BY <2>1, <2>2, AppendProperties
  <2>4. Index \subseteq Index'
    BY <1>0, <2>3 DEF Index
  <2>5. Package \subseteq Package'
    BY <2>4 DEF Package
  <2>6. UNCHANGED <<seen, event_buffer, current_position, position_to_catch_up_to, slice, pushed,
                    inbox, handle_guard>>
    BY <1>10 DEF Written, baseVars, catchVars
  <2>7. seen \in Seq(Index') /\ event_buffer \in Seq(Index') /\ inbox \in Seq(Package')
    BY <1>a, <2>4, <2>5, SeqMonotonic
  <2>8. slice.last <= Len(log') /\ pushed \in 0..Len(log')
    BY <1>0, <1>a, <2>3
  <2> QED BY <1>a, <2>3, <2>6, <2>7, <2>8 DEF TypeInv
<1>11. CASE ServerReads
  <2>1. PICK before : before = Cardinality({i \in 1..Len(log) : After(slice.from, log[i])})
    OBVIOUS
  <2>2. before \in 0..Len(log)
    BY <2>1, BeforeType
  <2>3. PICK last : last = IF before + ReadBatchSize < Len(log) THEN before + ReadBatchSize
                           ELSE Len(log)
    OBVIOUS
  <2>4. slice' = [slice EXCEPT !.status = "read", !.first = before + 1, !.last = last]
    BY <1>11, <2>1, <2>3 DEF ServerReads
  <2>5. before + 1 \in Nat \ {0} /\ last \in Nat /\ before + 1 <= last + 1 /\ last <= Len(log)
    BY <1>0, <2>2, <2>3, AllBatchAssumption
  <2>6. SliceFits(slice')
    BY <1>a, <2>4, <2>5 DEF SliceFits, Slice
  <2>7. UNCHANGED <<log, seen, event_buffer, current_position, position_to_catch_up_to, pushed,
                    inbox, handle_guard>>
    BY <1>11 DEF ServerReads, baseVars
  <2> QED BY <1>a, <2>6, <2>7, TypeKept
<1>12. CASE ReadFails
  <2>1. slice' = [slice EXCEPT !.status = "failed"]
    BY <1>12 DEF ReadFails
  <2>2. SliceFits(slice')
    BY <1>a, <2>1 DEF SliceFits, Slice
  <2>3. UNCHANGED <<log, seen, event_buffer, current_position, position_to_catch_up_to, pushed,
                    inbox, handle_guard>>
    BY <1>12 DEF ReadFails, baseVars
  <2> QED BY <1>a, <2>2, <2>3, TypeKept
<1>13. CASE ServerReceives
  <2>0. UNCHANGED <<log, seen, event_buffer, current_position, position_to_catch_up_to, slice,
                    handle_guard>>
    BY <1>13 DEF ServerReceives, catchVars
  <2>1. pushed' = Len(log) \/ pushed' = pushed
    BY <1>13 DEF ServerReceives
  <2>2. pushed' \in 0..Len(log)
    BY <1>0, <1>a, <2>1
  <2>3. /\ \A n \in Int : Pkg("confirmation", n) \in Package
        /\ \A c \in Refusal : Pkg(c, 0) \in Package
        /\ \A r \in DropReason : Pkg("dropped", r) \in Package
    BY DEF Pkg, Package
  <2>4. EndOfLog - 1 \in Int /\ {"access_denied", "unsubscribed"} \subseteq DropReason
    BY EndType DEF DropReason
  <2>5. UNCHANGED inbox \/ \E p \in Package : inbox' = Append(inbox, p)
    BY <1>13, <2>3, <2>4, Zenon DEF ServerReceives
  <2>6. inbox' \in Seq(Package)
    BY <1>0, <1>a, <2>5
  <2> QED BY <1>0, <1>a, <2>0, <2>2, <2>6, TypeKept
<1>14. CASE ServerPushesEvent
  <2>0. /\ UNCHANGED <<log, seen, event_buffer, current_position, position_to_catch_up_to, slice,
                       handle_guard>>
        /\ pushed' = pushed + 1 /\ pushed < Len(log)
        /\ inbox' = Append(inbox, Pkg("event", pushed'))
    BY <1>14 DEF ServerPushesEvent, catchVars
  <2>1. pushed' \in 0..Len(log) /\ pushed' \in Index
    BY <1>0, <1>a, <2>0 DEF Index
  <2>2. Pkg("event", pushed') \in Package
    BY <2>1 DEF Pkg, Package
  <2>3. inbox' \in Seq(Package)
    BY <1>0, <2>0, <2>2
  <2> QED BY <1>0, <1>a, <2>0, <2>1, <2>3, TypeKept
<1>15. CASE ServerDrops
  <2>0. UNCHANGED <<log, seen, event_buffer, current_position, position_to_catch_up_to, slice,
                    handle_guard, pushed>>
    BY <1>15 DEF ServerDrops, catchVars
  <2>1. \A r \in {"access_denied", "other"} : Pkg("dropped", r) \in Package
    BY DEF Pkg, Package, DropReason
  <2>2. inbox' \in Seq(Package)
    BY <1>0, <1>15, <2>1 DEF ServerDrops
  <2> QED BY <1>0, <1>a, <2>0, <2>2, TypeKept
<1>16. CASE UNCHANGED vars
  BY <1>16, TypeUnchanged DEF vars, baseVars, typeVars
<1>17. CASE HandleMissedDangling
  BY <1>17, TypeUnchanged DEF HandleMissedDangling, baseVars, typeVars
<1> QED
  BY <1>1, <1>2, <1>3, <1>4, <1>5, <1>6, <1>7, <1>8, <1>9, <1>10, <1>11, <1>12, <1>13,
     <1>14, <1>15, <1>16, <1>17
  DEF Next, SliceStep

------------------------------------------------------------------------------
(* The log, and positions in it.                                            *)

\* Every event lies after the commit of the events before it.
LogInv ==
  /\ FirstPosition <= EndOfLog
  /\ \A i \in 1..Len(log) :
       /\ FirstPosition <= log[i].prepare
       /\ log[i].prepare <= log[i].commit /\ log[i].commit <= log[i].prepare + 1
       /\ log[i].commit < EndOfLog
  /\ \A i, j \in 1..Len(log) : i < j => log[i].commit < log[j].prepare

\* Events are only added, after the end of the log.
Longer ==
  /\ Len(log') = Len(log) + 1
  /\ \A i \in 1..Len(log) : log'[i] = log[i]
  /\ EndOfLog \in Nat /\ EndOfLog' \in Nat /\ EndOfLog < EndOfLog'
  /\ log'[Len(log) + 1].prepare = EndOfLog
  /\ log'[Len(log) + 1].commit \in {EndOfLog, EndOfLog + 1}
  /\ EndOfLog' = log'[Len(log) + 1].commit + 1

LEMMA WrittenLonger == TypeInv /\ TypeInv' /\ Written => Longer
<1> SUFFICES ASSUME TypeInv, TypeInv', Written PROVE Longer
  OBVIOUS
<1>1. PICK p : /\ p \in {position(EndOfLog, EndOfLog), position(EndOfLog + 1, EndOfLog)}
               /\ log' = Append(log, p)
  BY DEF Written
<1>2. EndOfLog \in Nat /\ log \in Seq(Position) /\ Len(log) \in Nat
  BY EndType DEF TypeInv
<1>3. p \in Position /\ p.prepare = EndOfLog /\ p.commit \in {EndOfLog, EndOfLog + 1}
  BY <1>1, <1>2 DEF position, Position
<1>4. /\ Len(log') = Len(log) + 1 /\ log' # <<>>
      /\ \A i \in 1..Len(log) : log'[i] = log[i]
      /\ log'[Len(log) + 1] = p
  BY <1>1, <1>2, <1>3, AppendProperties
<1>5. EndOfLog' = p.commit + 1
  BY <1>4 DEF EndOfLog
<1>6. EndOfLog' \in Nat /\ EndOfLog < EndOfLog'
  BY <1>2, <1>3, <1>5
<1> QED BY <1>2, <1>3, <1>4, <1>5, <1>6 DEF Longer

LEMMA LogSame == ASSUME UNCHANGED log PROVE EndOfLog' = EndOfLog /\ (LogInv => LogInv')
<1>1. EndOfLog' = EndOfLog
  BY DEF EndOfLog
<1> QED BY <1>1 DEF LogInv

LEMMA LogInit == Init => LogInv
<1> SUFFICES ASSUME Init PROVE LogInv
  OBVIOUS
<1>1. log = <<>> /\ Len(log) = 0 /\ EndOfLog = FirstPosition /\ FirstPosition \in Nat
  BY LogAssumption DEF Init, EndOfLog
<1> QED BY <1>1 DEF LogInv

LEMMA LogLonger ==
  ASSUME TypeInv, TypeInv', LogInv, Longer
  PROVE  LogInv'
<1>0. /\ Len(log) \in Nat /\ FirstPosition \in Nat /\ EndOfLog \in Nat /\ EndOfLog' \in Nat
      /\ \A i \in 1..Len(log) : log[i].commit \in Nat /\ log[i].prepare \in Nat
      /\ \A i \in 1..Len(log') : log'[i].commit \in Nat /\ log'[i].prepare \in Nat
  <2>1. /\ Len(log) \in Nat /\ FirstPosition \in Nat /\ EndOfLog \in Nat
        /\ \A i \in 1..Len(log) : log[i].commit \in Nat /\ log[i].prepare \in Nat
    BY EndType
  <2>2. ASSUME NEW i \in 1..Len(log') PROVE log'[i].commit \in Nat /\ log'[i].prepare \in Nat
    <3>1. log' \in Seq(Position)
      BY DEF TypeInv
    <3>2. log'[i] \in Position
      BY <3>1, ElementOfSeq
    <3> QED BY <3>2 DEF Position
  <2> QED BY <2>1, <2>2 DEF Longer
<1>1. \A i \in 1..Len(log') : i \in 1..Len(log) \/ i = Len(log) + 1
  BY <1>0 DEF Longer
<1>2. FirstPosition <= EndOfLog'
  BY <1>0 DEF LogInv, Longer
<1>3. ASSUME NEW i \in 1..Len(log')
      PROVE  /\ FirstPosition <= log'[i].prepare
             /\ log'[i].prepare <= log'[i].commit /\ log'[i].commit <= log'[i].prepare + 1
             /\ log'[i].commit < EndOfLog'
  <2>1. CASE i \in 1..Len(log)
    <3>1. log'[i] = log[i]
      BY <2>1 DEF Longer
    <3>2. /\ FirstPosition <= log[i].prepare
          /\ log[i].prepare <= log[i].commit /\ log[i].commit <= log[i].prepare + 1
          /\ log[i].commit < EndOfLog
      BY <2>1 DEF LogInv
    <3>3. log[i].commit \in Nat /\ EndOfLog < EndOfLog'
      BY <1>0, <2>1 DEF Longer
    <3>4. log[i].commit < EndOfLog'
      BY <1>0, <3>2, <3>3
    <3> QED BY <3>1, <3>2, <3>4
  <2>2. CASE i = Len(log) + 1
    <3>1. /\ log'[i].prepare = EndOfLog /\ log'[i].commit \in {EndOfLog, EndOfLog + 1}
          /\ EndOfLog' = log'[i].commit + 1 /\ FirstPosition <= EndOfLog
      BY <2>2 DEF Longer, LogInv
    <3>2. PICK c \in Nat : c = log'[i].commit
      BY <1>0
    <3> QED BY <1>0, <3>1, <3>2
  <2> QED BY <1>1, <2>1, <2>2
<1>4. ASSUME NEW i \in 1..Len(log'), NEW j \in 1..Len(log'), i < j
      PROVE  log'[i].commit < log'[j].prepare
  <2>1. i \in 1..Len(log)
    BY <1>0, <1>1, <1>4
  <2>2. CASE j \in 1..Len(log)
    BY <1>4, <2>1, <2>2 DEF Longer, LogInv
  <2>3. CASE j = Len(log) + 1
    <3>1. log'[j].prepare = EndOfLog /\ log'[i] = log[i]
      BY <2>1, <2>3 DEF Longer
    <3>2. log[i].commit < EndOfLog
      BY <2>1 DEF LogInv
    <3> QED BY <3>1, <3>2
  <2> QED BY <1>1, <2>2, <2>3
<1> QED BY <1>2, <1>3, <1>4 DEF LogInv

LEMMA LogNext == TypeInv /\ TypeInv' /\ LogInv /\ [Next]_vars => LogInv'
<1> SUFFICES ASSUME TypeInv, TypeInv', LogInv, [Next]_vars PROVE LogInv'
  OBVIOUS
<1>1. CASE Written
  BY <1>1, WrittenLonger, LogLonger
<1>2. CASE UNCHANGED log
  BY <1>2, LogSame
<1> QED
  BY <1>1, <1>2
  DEF Next, AsyncStart, Unsubscribe, SliceStep, HandleInitialSlice, HandleInitialError,
      HandleLastMissedSlice, HandleMissedSlice, HandleMissedError, HandleMissedDangling,
      HandlePackage, RunPostedDrain, BaseStep, ServerReads, ReadFails, ServerReceives,
      ServerPushesEvent, ServerDrops, catchVars, vars

\* pos lies after the first k events and not after the others, those that will
\* be written included.
Splits(pos, k) ==
  /\ pos.commit <= EndOfLog /\ pos.prepare <= EndOfLog
  /\ \A i \in 1..Len(log) : After(pos, log[i]) <=> i <= k

\* pos is the commit position of the m-th event, the last one at some time; or
\* there was no event then, and m = 0.
Confirmed(pos, m) ==
  /\ pos.prepare = pos.commit
  /\ pos.commit < EndOfLog
  /\ m > 0 => log[m].commit = pos.commit
  /\ \A i \in (m + 1)..Len(log) : pos.commit < log[i].prepare

LEMMA SplitsLonger ==
  ASSUME TypeInv, TypeInv', Longer, NEW pos \in Position, NEW k \in 0..Len(log),
         Splits(pos, k)
  PROVE  Splits(pos, k)'
<1>0. Len(log) \in Nat /\ pos.commit \in Nat /\ pos.prepare \in Nat
  BY EndType DEF Position
<1>1. EndOfLog \in Nat /\ EndOfLog' \in Nat /\ EndOfLog < EndOfLog'
  BY DEF Longer
<1>2. pos.commit <= EndOfLog' /\ pos.prepare <= EndOfLog'
  BY <1>0, <1>1 DEF Splits
<1>3. ASSUME NEW i \in 1..Len(log') PROVE After(pos, log'[i]) <=> i <= k
  <2>1. CASE i \in 1..Len(log)
    BY <2>1 DEF Splits, Longer
  <2>2. CASE i = Len(log) + 1
    <3>1. log'[i].prepare = EndOfLog /\ log'[i].commit \in {EndOfLog, EndOfLog + 1}
      BY <2>2 DEF Longer
    <3>2. pos.commit <= EndOfLog /\ pos.prepare <= EndOfLog
      BY DEF Splits
    <3>3. ~After(pos, log'[i])
      BY <1>0, <1>1, <3>1, <3>2 DEF After
    <3>4. ~(i <= k)
      BY <1>0, <2>2
    <3> QED BY <3>3, <3>4
  <2> QED BY <1>0, <2>1, <2>2 DEF Longer
<1> QED BY <1>2, <1>3 DEF Splits

LEMMA ConfirmedLonger ==
  ASSUME TypeInv, TypeInv', Longer, NEW pos \in [commit : Int, prepare : Int],
         NEW m \in 0..Len(log), Confirmed(pos, m)
  PROVE  Confirmed(pos, m)'
<1>0. Len(log) \in Nat /\ pos.commit \in Int
  BY EndType
<1>1. EndOfLog \in Nat /\ EndOfLog' \in Nat /\ EndOfLog < EndOfLog'
  BY DEF Longer
<1>2. pos.commit < EndOfLog'
  BY <1>0, <1>1 DEF Confirmed
<1>3. m > 0 => log'[m].commit = pos.commit
  <2>1. m > 0 => m \in 1..Len(log)
    BY <1>0
  <2> QED BY <2>1 DEF Confirmed, Longer
<1>4. ASSUME NEW i \in (m + 1)..Len(log') PROVE pos.commit < log'[i].prepare
  <2>1. CASE i \in (m + 1)..Len(log)
    <3>1. i \in 1..Len(log)
      BY <1>0, <2>1
    <3> QED BY <2>1, <3>1 DEF Confirmed, Longer
  <2>2. CASE i = Len(log) + 1
    BY <2>2 DEF Confirmed, Longer
  <2> QED BY <1>0, <2>1, <2>2 DEF Longer
<1> QED BY <1>2, <1>3, <1>4 DEF Confirmed

\* The events before a position are counted.
LEMMA SplitsCount ==
  ASSUME TypeInv, NEW pos, NEW k \in 0..Len(log), Splits(pos, k)
  PROVE  Cardinality({i \in 1..Len(log) : After(pos, log[i])}) = k
<1>1. PICK l \in Nat : l = Len(log)
  BY EndType
<1>2. {i \in 1..Len(log) : After(pos, log[i])} = 1..k
  <2>1. \A i \in 1..Len(log) : After(pos, log[i]) <=> i <= k
    BY DEF Splits
  <2>2. \A i \in 1..k : i \in 1..Len(log) /\ i <= k
    BY <1>1
  <2>3. \A i \in 1..Len(log) : i <= k => i \in 1..k
    BY <1>1
  <2> QED BY <2>1, <2>2, <2>3
<1>3. k \in Int /\ Cardinality(1..k) = IF 1 > k THEN 0 ELSE k - 1 + 1
  BY <1>1, FS_Interval
<1>4. Cardinality(1..k) = k
  BY <1>1, <1>3
<1> QED BY <1>2, <1>4

\* The positions reads begin at: after an event, and at an event.
LEMMA SplitsAfterEvent ==
  ASSUME TypeInv, LogInv, NEW k \in 1..Len(log)
  PROVE  /\ Splits(position(log[k].commit + 1, log[k].commit + 1), k)
         /\ Splits(log[k], k - 1)
<1>0. /\ Len(log) \in Nat /\ EndOfLog \in Nat
      /\ \A i \in 1..Len(log) : log[i].commit \in Nat /\ log[i].prepare \in Nat
  BY EndType
<1>1. PICK c \in Nat : c = log[k].commit
  BY <1>0
<1>2. /\ c < EndOfLog /\ log[k].prepare <= c /\ log[k].prepare \in Nat
  BY <1>0, <1>1 DEF LogInv
<1>3. ASSUME NEW i \in 1..Len(log)
      PROVE  /\ i < k => log[i].commit < log[k].prepare
             /\ k < i => c < log[i].prepare
             /\ log[i].prepare <= log[i].commit
             /\ log[i].commit \in Nat /\ log[i].prepare \in Nat
  BY <1>0, <1>1 DEF LogInv
<1>4. ASSUME NEW i \in 1..Len(log)
      PROVE  /\ After(position(c + 1, c + 1), log[i]) <=> i <= k
             /\ After(log[k], log[i]) <=> i <= k - 1
  <2>1. CASE i < k
    BY <1>1, <1>2, <1>3, <2>1 DEF After, position
  <2>2. CASE i = k
    BY <1>1, <1>2, <1>3, <2>2 DEF After, position
  <2>3. CASE k < i
    BY <1>1, <1>2, <1>3, <2>3 DEF After, position
  <2> QED BY <2>1, <2>2, <2>3
<1>5. position(c + 1, c + 1).commit = c + 1 /\ position(c + 1, c + 1).prepare = c + 1
  BY DEF position
<1>6. c + 1 <= EndOfLog /\ c <= EndOfLog /\ log[k].prepare <= EndOfLog
  BY <1>0, <1>2
<1> QED BY <1>1, <1>4, <1>5, <1>6 DEF Splits

------------------------------------------------------------------------------
(* The stages of a subscription.                                            *)

Given == Elems(seen)

\* The packages of a box from place k on are the events from n to next; the last
\* one may be the drop that ended the server's side.
Numbered(box, side, next, n, k) ==
  /\ \A i \in k..Len(box) :
       \/ box[i].cmd = "event" /\ box[i].arg = n + i - k
       \/ box[i].cmd = "dropped" /\ i = Len(box) /\ side = "ended"
  /\ side \in {"active", "ended"}
  /\ side = "active" => next = n + Len(box) - k

\* The answer to the outstanding read, if it has come, begins after b events.
Answered(b) == slice.status = "read" => slice.first = b + 1

\* The log is read for the first time, up to k events so far.
Reading ==
  /\ ~handle_guard /\ ~subscriptions_map
  /\ slice.loop = IF phase = "idle" THEN "none" ELSE "initial"
  /\ server = "none" /\ inbox = <<>> /\ outbox = <<>>
  /\ event_buffer = <<>> /\ drains = 0 /\ position_to_catch_up_to = NoPosition
  /\ \E k \in 0..Len(log) :
       /\ Given = 1..k
       /\ Splits(current_position, k)
       /\ slice.loop = "initial" => slice.from = current_position /\ Answered(k)

\* What can be on its way between the subscribe request and its answer.
Answering(k) ==
  \/ server = "none" /\ inbox = <<>> /\ outbox = <<Pkg("subscribe", 0)>>
  \/ /\ outbox = <<>> /\ inbox # <<>>
     /\ inbox[1].cmd = "confirmation"
     /\ \E m \in k..Len(log) :
          /\ Confirmed(position(inbox[1].arg, inbox[1].arg), m)
          /\ Numbered(inbox, server, pushed, m + 1, 2)
  \/ /\ outbox = <<>> /\ server = "ended"
     /\ \/ \E c \in Refusal : inbox = <<Pkg(c, 0)>>
        \/ inbox = <<Pkg("dropped", "access_denied")>>

\* The answer to the subscription has not been handled.
Waiting ==
  /\ ~handle_guard /\ subscriptions_map /\ phase # "idle"
  /\ slice.loop = "none"
  /\ event_buffer = <<>> /\ drains = 0 /\ position_to_catch_up_to = NoPosition
  /\ \E k \in 0..Len(log) :
       /\ Given = 1..k
       /\ Splits(current_position, k)
       /\ Answering(k)

\* The read of missed events has given f events, and h events are given in all.
\* Until f passes the confirmed event m, live events are held back; if m is not
\* at the confirmed position, the read never ends and live events from n on are
\* given next to it.
MissedTo(m, n, f, h) ==
  /\ Given = 1..h
  /\ f <= m => /\ h = f
               /\ After(position_to_catch_up_to, current_position)
               /\ current_position = slice.from
               /\ n = m + 1
  /\ m < f => n <= h + 1
  /\ m > 0 /\ log[m] = position_to_catch_up_to => f < m
  /\ \/ f <= m /\ Splits(slice.from, f) /\ Answered(f)
     \/ /\ f > 0 /\ Splits(slice.from, f - 1) /\ Answered(f - 1)
        /\ slice.status = "read" => slice.first <= slice.last

CatchingUp(m, n) ==
  /\ After(position_to_catch_up_to, start)
  /\ drains = 0
  /\ \E f \in 0..Len(log), h \in 0..Len(log) : f <= h /\ MissedTo(m, n, f, h)

\* The first h events are given, possibly without the confirmed one.
Skipping(m, h) ==
  \/ Given = 1..h
  \/ m > 0 /\ log[m] = position_to_catch_up_to /\ Given = (1..h) \ {m}

\* There are no missed events any more; the next live event is n.
GoneLive(m, n) ==
  /\ m < n
  /\ ~After(position_to_catch_up_to, current_position)
  /\ Skipping(m, n - 1)

\* The subscription is confirmed; the live events from n on are in the buffer
\* and on their way.
Live ==
  /\ ~handle_guard /\ subscriptions_map /\ phase # "idle"
  /\ outbox = <<>>
  /\ \E m \in 0..Len(log), n \in 1..(Len(log) + 1) :
       /\ Confirmed(position_to_catch_up_to, m)
       /\ \A i \in 1..Len(event_buffer) : event_buffer[i] = n + i - 1
       /\ Numbered(inbox, server, pushed, n + Len(event_buffer), 1)
       /\ \/ slice.loop = "missed" /\ CatchingUp(m, n)
          \/ slice.loop = "none" /\ GoneLive(m, n)

\* The guard is locked; a read of missed events may go on.
Stopped ==
  /\ handle_guard /\ phase # "idle"
  /\ event_buffer = <<>>
  /\ \/ /\ slice.loop = "missed"
        /\ \E m \in 0..Len(log), n \in 1..(Len(log) + 1) :
              Confirmed(position_to_catch_up_to, m) /\ CatchingUp(m, n)
     \/ /\ slice.loop = "none"
        /\ \E m \in 0..Len(log), h \in 0..Len(log) : Skipping(m, h)

OrderInv == Reading \/ Waiting \/ Live \/ Stopped

SortedInv == EndsAtEvent => Increasing(seen)

\* Nothing is pending before the guard is locked, and the confirmed position
\* lies in the log.
CallInv ==
  /\ ~handle_guard => ~operations_map /\ posted = <<>>
  /\ position_to_catch_up_to.commit < EndOfLog

IInv == LogInv /\ OrderInv /\ SortedInv /\ CallInv

orderVars == <<seen, current_position, position_to_catch_up_to, event_buffer, drains, slice,
               handle_guard, subscriptions_map, phase, inbox, outbox, server, pushed, log>>

posVars == <<seen, current_position, position_to_catch_up_to, drains, slice, log>>

\* What the stages say of positions does not change with other variables.
LEMMA PosUnchanged ==
  ASSUME UNCHANGED posVars
  PROVE  /\ \A m, n : CatchingUp(m, n) <=> CatchingUp(m, n)'
         /\ \A m, n : GoneLive(m, n) <=> GoneLive(m, n)'
         /\ \A m, h : Skipping(m, h) <=> Skipping(m, h)'
         /\ \A pos, k : Splits(pos, k) <=> Splits(pos, k)'
         /\ \A pos, m : Confirmed(pos, m) <=> Confirmed(pos, m)'
         /\ EndOfLog' = EndOfLog
<1>0. EndOfLog' = EndOfLog
  BY DEF EndOfLog, posVars
<1>1. \A pos, k : Splits(pos, k) <=> Splits(pos, k)'
  BY <1>0 DEF Splits, posVars
<1>2. \A pos, m : Confirmed(pos, m) <=> Confirmed(pos, m)'
  BY <1>0 DEF Confirmed, posVars
<1>3. \A m, h : Skipping(m, h) <=> Skipping(m, h)'
  BY DEF Skipping, Given, posVars
<1>4. \A m, n : GoneLive(m, n) <=> GoneLive(m, n)'
  BY <1>3 DEF GoneLive, posVars
<1>5. \A m, n, f, h : MissedTo(m, n, f, h) <=> MissedTo(m, n, f, h)'
  BY <1>0 DEF MissedTo, Given, Answered, Splits, posVars
<1>6. \A m, n : CatchingUp(m, n) <=> CatchingUp(m, n)'
  BY <1>5 DEF CatchingUp, posVars
<1> QED BY <1>0, <1>1, <1>2, <1>3, <1>4, <1>6

LEMMA OrderUnchanged == OrderInv /\ UNCHANGED orderVars => OrderInv'
<1> SUFFICES ASSUME OrderInv, UNCHANGED orderVars PROVE OrderInv'
  OBVIOUS
<1>0. UNCHANGED posVars
  BY DEF orderVars, posVars
<1>1. /\ \A m, n : CatchingUp(m, n) <=> CatchingUp(m, n)'
      /\ \A m, n : GoneLive(m, n) <=> GoneLive(m, n)'
      /\ \A m, h : Skipping(m, h) <=> Skipping(m, h)'
      /\ \A pos, k : Splits(pos, k) <=> Splits(pos, k)'
      /\ \A pos, m : Confirmed(pos, m) <=> Confirmed(pos, m)'
  BY <1>0, PosUnchanged
<1>2. Reading => Reading'
  BY <1>1 DEF Reading, Answered, Given, orderVars
<1>3. Waiting => Waiting'
  BY <1>1 DEF Waiting, Answering, Given, orderVars
<1>4. Live => Live'
  BY <1>1 DEF Live, orderVars
<1>5. Stopped => Stopped'
  BY <1>1 DEF Stopped, orderVars
<1> QED BY <1>2, <1>3, <1>4, <1>5 DEF OrderInv

LEMMA SortedUnchanged ==
  ASSUME SortedInv, UNCHANGED <<seen, position_to_catch_up_to, log>>
  PROVE  SortedInv'
  BY DEF SortedInv, EndsAtEvent, Increasing

\* What is known of the events given in any stage.
LEMMA SeenCovered ==
  ASSUME TypeInv, OrderInv
  PROVE  \E m \in 0..Len(log), h \in 0..Len(log) : Skipping(m, h)
<1>0. Len(log) \in Nat /\ 0 \in 0..Len(log)
  BY EndType
<1>1. ASSUME NEW h \in 0..Len(log), Given = 1..h
      PROVE  \E m \in 0..Len(log), k \in 0..Len(log) : Skipping(m, k)
  <2>1. Skipping(0, h)
    BY <1>1 DEF Skipping
  <2> QED BY <1>0, <2>1
<1>2. CASE Reading \/ Waiting
  BY <1>1, <1>2 DEF Reading, Waiting
<1>3. ASSUME NEW m, NEW n, CatchingUp(m, n)
      PROVE  \E j \in 0..Len(log), k \in 0..Len(log) : Skipping(j, k)
  BY <1>1, <1>3 DEF CatchingUp, MissedTo
<1>4. ASSUME NEW m \in 0..Len(log), NEW n \in 1..(Len(log) + 1), GoneLive(m, n)
      PROVE  \E j \in 0..Len(log), k \in 0..Len(log) : Skipping(j, k)
  <2>1. n - 1 \in 0..Len(log)
    BY <1>0
  <2> QED BY <1>4, <2>1 DEF GoneLive
<1>5. CASE Live
  BY <1>3, <1>4, <1>5 DEF Live
<1>6. CASE Stopped
  BY <1>3, <1>6 DEF Stopped
<1> QED BY <1>2, <1>5, <1>6 DEF OrderInv

\* A step that leaves the guard locked and gives nothing.
LEMMA StopStep ==
  ASSUME TypeInv, OrderInv, handle_guard' = TRUE, event_buffer' = <<>>, phase' # "idle",
         UNCHANGED <<seen, current_position, position_to_catch_up_to, drains, log>>,
         (slice' = slice /\ slice.loop # "initial") \/ slice'.loop = "none"
  PROVE  OrderInv'
<1>1. CASE slice'.loop = "none"
  <2>1. PICK m \in 0..Len(log), h \in 0..Len(log) : Skipping(m, h)
    BY SeenCovered
  <2>2. Skipping(m, h)'
    BY <2>1 DEF Skipping, Given
  <2>3. Stopped'
    BY <1>1, <2>2 DEF Stopped
  <2> QED BY <2>3 DEF OrderInv
<1>2. CASE slice' = slice /\ slice.loop # "initial" /\ slice'.loop # "none"
  <2>1. slice.loop = "missed"
    BY <1>2 DEF TypeInv, Slice
  <2>2. PICK m \in 0..Len(log), n \in 1..(Len(log) + 1) :
          Confirmed(position_to_catch_up_to, m) /\ CatchingUp(m, n)
    BY <2>1 DEF OrderInv, Reading, Waiting, Live, Stopped
  <2>3. UNCHANGED posVars
    BY <1>2 DEF posVars
  <2>4. Confirmed(position_to_catch_up_to, m)' /\ CatchingUp(m, n)'
    <3>1. \A pos, k : Confirmed(pos, k) <=> Confirmed(pos, k)'
      BY <2>3, PosUnchanged
    <3>2. CatchingUp(m, n)'
      BY <2>2, <2>3, PosUnchanged
    <3>3. position_to_catch_up_to' = position_to_catch_up_to
      OBVIOUS
    <3> QED BY <2>2, <3>1, <3>2, <3>3
  <2>5. Stopped'
    BY <1>2, <2>1, <2>4 DEF Stopped
  <2> QED BY <2>5 DEF OrderInv
<1> QED BY <1>1, <1>2

\* The guard is locked already.
LEMMA StoppedStep ==
  ASSUME TypeInv, OrderInv, handle_guard, phase' = phase \/ phase' # "idle",
         event_buffer' = event_buffer \/ event_buffer' = <<>>,
         UNCHANGED <<handle_guard, seen, current_position, position_to_catch_up_to, drains,
                     log, slice>>
  PROVE  OrderInv'
<1>1. Stopped
  BY DEF OrderInv, Reading, Waiting, Live
<1>2. handle_guard = TRUE
  BY DEF TypeInv
<1>3. /\ event_buffer' = <<>> /\ phase' # "idle" /\ handle_guard' = TRUE
      /\ slice.loop # "initial"
  BY <1>1, <1>2 DEF Stopped
<1> QED BY <1>3, StopStep

------------------------------------------------------------------------------
(* The live buffer.                                                         *)

\* An event after the confirmed one lies after the confirmed position.
LEMMA PastTarget ==
  ASSUME TypeInv, LogInv, NEW m \in 0..Len(log), NEW i \in (m + 1)..Len(log),
         Confirmed(position_to_catch_up_to, m)
  PROVE  ~After(position_to_catch_up_to, log[i]) /\ log[i] # position_to_catch_up_to
<1>0. Len(log) \in Nat /\ i \in 1..Len(log)
  <2>1. Len(log) \in Nat
    BY EndType
  <2> QED BY <2>1
<1>1. /\ log[i].commit \in Nat /\ log[i].prepare \in Nat
      /\ position_to_catch_up_to.commit \in Int
  BY <1>0, EndType DEF TypeInv
<1>2. position_to_catch_up_to.commit < log[i].prepare /\ log[i].prepare <= log[i].commit
  BY <1>0 DEF Confirmed, LogInv
<1>3. position_to_catch_up_to.commit < log[i].commit
  BY <1>1, <1>2
<1> QED BY <1>1, <1>3 DEF After

\* Only the confirmed event can lie at the confirmed position.
LEMMA AtTarget ==
  ASSUME TypeInv, LogInv, NEW m \in 0..Len(log), NEW i \in 1..Len(log),
         Confirmed(position_to_catch_up_to, m), log[i] = position_to_catch_up_to
  PROVE  i = m
<1>0. Len(log) \in Nat
  BY EndType
<1>1. i <= m
  <2>1. ~(i <= m) => i \in (m + 1)..Len(log)
    BY <1>0
  <2> QED BY <2>1, PastTarget
<1>2. ~(i < m)
  <2> SUFFICES ASSUME i < m PROVE FALSE
    OBVIOUS
  <2>1. m \in 1..Len(log) /\ m > 0
    BY <1>0
  <2>2. /\ log[i].commit < log[m].prepare /\ log[m].prepare <= log[m].commit
        /\ log[m].commit = log[i].commit
    BY <2>1 DEF LogInv, Confirmed
  <2>3. log[i].commit \in Nat /\ log[m].prepare \in Nat
    BY <2>1, EndType
  <2> QED BY <2>2, <2>3
<1> QED BY <1>0, <1>1, <1>2

\* Missed events in before, if any, and then live events from n on are given.
LEMMA DrainOrder ==
  ASSUME TypeInv, LogInv, UNCHANGED <<log, position_to_catch_up_to>>,
         NEW m \in 0..Len(log), NEW n \in 1..(Len(log) + 1), m < n,
         Confirmed(position_to_catch_up_to, m),
         NEW before \in Seq(Index), NEW buffer \in Seq(Index), NEW others, NEW pos \in Position,
         \A i \in 1..Len(buffer) : buffer[i] = n + i - 1,
         read_subscription_events(before, buffer, others),
         current_position' = PositionAfter(buffer, pos),
         ~After(position_to_catch_up_to, pos),
         \/ Given \cup Elems(before) = 1..(n - 1)
         \/ /\ m > 0 /\ log[m] = position_to_catch_up_to
            /\ Given \cup Elems(before) = (1..(n - 1)) \ {m}
  PROVE  /\ \E l \in 1..(Len(log) + 1) :
              /\ \A i \in 1..Len(event_buffer') : event_buffer'[i] = l + i - 1
              /\ l + Len(event_buffer') = n + Len(buffer)
              /\ GoneLive(m, l)'
         /\ (/\ Increasing(seen) /\ Increasing(before)
             /\ \/ \A x \in Given, y \in Elems(before) : x < y
                \/ /\ before # <<>> /\ before[1] \in Given
                   /\ \A x \in Given : x <= before[1])
            => Increasing(seen')
<1>0. PICK I : I = Index
  OBVIOUS
<1>1. PICK q \in 0..Len(buffer) :
        /\ Give(before \o SubSeq(buffer, 1, q))
        /\ SubSeq(buffer, 1, q) \in Seq(I)
        /\ Len(SubSeq(buffer, 1, q)) = q
        /\ \A i \in 1..q : SubSeq(buffer, 1, q)[i] = buffer[i]
        /\ event_buffer' \in Seq(I)
        /\ Len(event_buffer') = Len(buffer) - q
        /\ \A i \in 1..(Len(buffer) - q) : event_buffer'[i] = buffer[q + i]
        /\ \A x : PositionAfter(buffer, x) = IF q = 0 THEN x ELSE log[buffer[q]]
  <2>1. buffer \in Seq(I)
    BY <1>0
  <2>2. read_subscription_events(before, buffer, others)
    OBVIOUS
  <2>3. \E q \in 0..Len(buffer) : Drained(I, before, buffer, others, q)
    BY <2>1, <2>2, DrainFacts
  <2> QED BY <2>3 DEF Drained
<1>2. /\ Len(log) \in Nat /\ Len(buffer) \in Nat /\ q \in Nat /\ n \in Nat /\ n > 0 /\ m \in Nat
  <2>1. Len(log) \in Nat /\ Len(buffer) \in Nat
    BY EndType
  <2> QED BY <2>1
<1>3. PICK l \in Nat : l = n + q
  BY <1>2
<1>4. q > 0 => q \in 1..Len(buffer) /\ buffer[q] = l - 1 /\ l - 1 \in (m + 1)..Len(log)
  <2> SUFFICES ASSUME q > 0
               PROVE  q \in 1..Len(buffer) /\ buffer[q] = l - 1 /\ l - 1 \in (m + 1)..Len(log)
    OBVIOUS
  <2>1. q \in 1..Len(buffer)
    BY <1>2
  <2>2. buffer[q] = n + q - 1 /\ buffer[q] \in Index
    BY <2>1, ElementOfSeq
  <2>3. n + q - 1 = l - 1 /\ l - 1 >= m + 1
    BY <1>2, <1>3
  <2> QED BY <1>2, <2>1, <2>2, <2>3 DEF Index
<1>5. l \in 1..(Len(log) + 1) /\ m < l
  BY <1>2, <1>3, <1>4
<1>6. \A i \in 1..Len(event_buffer') : event_buffer'[i] = l + i - 1
  <2> SUFFICES ASSUME NEW i \in 1..(Len(buffer) - q) PROVE event_buffer'[i] = l + i - 1
    BY <1>1
  <2>1. q + i \in 1..Len(buffer) /\ n + (q + i) - 1 = l + i - 1
    BY <1>2, <1>3
  <2> QED BY <1>1, <2>1
<1>7. l + Len(event_buffer') = n + Len(buffer)
  BY <1>1, <1>2, <1>3
<1>8. PICK s : s = SubSeq(buffer, 1, q)
  OBVIOUS
<1>9. s = Batch(n, l - 1)
  <2>1. n..(l - 1) \subseteq Nat /\ n <= l - 1 + 1 /\ l - 1 \in Nat /\ l - 1 - n + 1 = q
    BY <1>2, <1>3
  <2>2. /\ Batch(n, l - 1) \in Seq(Nat) /\ Len(Batch(n, l - 1)) = q
        /\ \A i \in 1..q : Batch(n, l - 1)[i] = n + i - 1
    <3>1. PICK z \in Nat : z = l - 1
      BY <2>1
    <3>2. /\ Batch(n, z) \in Seq(Nat) /\ Len(Batch(n, z)) = z - n + 1
          /\ \A i \in 1..(z - n + 1) : Batch(n, z)[i] = n + i - 1
      <4>1. n \in Nat /\ n <= z + 1
        BY <1>2, <2>1, <3>1
      <4> QED BY <4>1, BatchNumbers
    <3> QED BY <2>1, <3>1, <3>2
  <2>3. s \in Seq(Nat)
    <3>1. I \subseteq Nat
      BY <1>0, <1>2 DEF Index
    <3> QED BY <1>1, <1>8, <3>1, SeqMonotonic
  <2>4. \A i \in 1..q : s[i] = n + i - 1
    <3>1. \A i \in 1..q : i \in 1..Len(buffer)
      BY <1>2
    <3> QED BY <1>1, <1>8, <3>1
  <2>5. Len(s) = Len(Batch(n, l - 1)) /\ \A i \in 1..Len(s) : s[i] = Batch(n, l - 1)[i]
    BY <1>1, <1>8, <2>2, <2>4
  <2> QED BY <2>2, <2>3, <2>5, SeqEqual
<1>10. Elems(s) = n..(l - 1) /\ Increasing(s)
  <2>1. n <= l - 1 + 1 /\ l - 1 \in Nat
    BY <1>2, <1>3
  <2> QED BY <1>2, <1>9, <2>1, BatchElems
<1>11. /\ before \in Seq(I) /\ s \in Seq(I) /\ seen \in Seq(I) /\ before \o s \in Seq(I)
       /\ before \in Seq(Nat) /\ s \in Seq(Nat) /\ seen \in Seq(Nat) /\ before \o s \in Seq(Nat)
  <2>1. before \in Seq(I) /\ s \in Seq(I) /\ seen \in Seq(I)
    BY <1>0, <1>1, <1>8 DEF TypeInv
  <2>2. before \o s \in Seq(I)
    BY <2>1, ConcatProperties
  <2>3. I \subseteq Nat
    BY <1>0, <1>2 DEF Index
  <2> QED BY <2>1, <2>2, <2>3, SeqMonotonic
<1>12. Elems(before \o s) = Elems(before) \cup Elems(s)
  BY <1>11, ElemsConcat
<1>13. Given' = Given \cup Elems(before) \cup (n..(l - 1))
  <2>1. Elems(seen') = Elems(seen) \cup Elems(before \o s)
    BY <1>1, <1>8, <1>11, GiveElems
  <2> QED BY <1>10, <1>12, <2>1 DEF Given
<1>14. Skipping(m, l - 1)'
  <2>1. (1..(n - 1)) \cup (n..(l - 1)) = 1..(l - 1)
    BY <1>2, <1>3
  <2>2. ((1..(n - 1)) \ {m}) \cup (n..(l - 1)) = (1..(l - 1)) \ {m}
    BY <1>2, <1>3
  <2> QED BY <1>13, <2>1, <2>2 DEF Skipping
<1>15. ~After(position_to_catch_up_to', current_position')
  <2>1. CASE q = 0
    BY <1>1, <2>1
  <2>2. CASE q > 0
    <3>1. current_position' = log[l - 1] /\ l - 1 \in (m + 1)..Len(log)
      BY <1>1, <1>2, <1>4, <2>2
    <3>2. \A i \in (m + 1)..Len(log) : ~After(position_to_catch_up_to, log[i])
      BY PastTarget
    <3> QED BY <3>1, <3>2
  <2> QED BY <1>2, <2>1, <2>2
<1>16. GoneLive(m, l)'
  BY <1>5, <1>14, <1>15 DEF GoneLive
<1>17. ASSUME Increasing(seen), Increasing(before),
              \/ \A x \in Given, y \in Elems(before) : x < y
              \/ /\ before # <<>> /\ before[1] \in Given
                 /\ \A x \in Given : x <= before[1]
       PROVE  Increasing(seen')
  <2>1. \A x \in Given \cup Elems(before) : x \in 1..(n - 1)
    OBVIOUS
  <2>2. \A x \in 1..(n - 1), y \in n..(l - 1) : x < y
    BY <1>2, <1>3
  <2>3. Increasing(before \o s)
    BY <1>10, <1>11, <1>17, <2>1, <2>2, IncreasingConcat
  <2>4. Give(before \o s)
    BY <1>1, <1>8
  <2>5. CASE \A x \in Given, y \in Elems(before) : x < y
    <3>1. \A x \in Elems(seen), y \in Elems(before \o s) : x < y
      BY <1>10, <1>12, <2>1, <2>2, <2>5 DEF Given
    <3> QED BY <1>11, <1>17, <2>3, <2>4, <3>1, GiveIncreasing
  <2>6. CASE /\ before # <<>> /\ before[1] \in Given
             /\ \A x \in Given : x <= before[1]
    <3>1. Len(before) \in Nat \ {0} /\ Len(s) \in Nat
      BY <1>11, <2>6, EmptySeq
    <3>2. 1 \in 1..(Len(before) + Len(s)) /\ 1 <= Len(before)
      BY <3>1
    <3>3. (before \o s)[1] = before[1] /\ Len(before \o s) = Len(before) + Len(s)
      BY <1>11, <3>2, ConcatProperties
    <3>4. Len(before \o s) # 0 /\ Len(<<>>) = 0
      BY <3>1, <3>3
    <3>5. before \o s # <<>>
      BY <3>4
    <3>6. /\ (before \o s)[1] \in Elems(seen)
          /\ \A x \in Elems(seen) : x <= (before \o s)[1]
      BY <2>6, <3>3 DEF Given
    <3> QED BY <1>11, <1>17, <2>3, <2>4, <3>5, <3>6, GiveIncreasing
  <2> QED BY <1>17, <2>5, <2>6
<1> QED BY <1>5, <1>6, <1>7, <1>16, <1>17

------------------------------------------------------------------------------
(* Packages on the way to the client.                                       *)

LEMMA NumberedTail ==
  ASSUME NEW S, NEW box \in Seq(S), box # <<>>, NEW side, NEW next \in Int, NEW n \in Int
  PROVE  /\ Numbered(box, side, next, n, 2) => Numbered(Tail(box), side, next, n, 1)
         /\ Numbered(box, side, next, n, 1) => Numbered(Tail(box), side, next, n + 1, 1)
<1>1. /\ Len(Tail(box)) = Len(box) - 1
      /\ \A i \in 1..Len(Tail(box)) : Tail(box)[i] = box[i + 1]
      /\ Len(box) \in Nat
  BY HeadTailProperties
<1> PICK l \in Nat : l = Len(box)
  OBVIOUS
<1> PICK m \in Int : m = l - 1
  OBVIOUS
<1>5. Len(Tail(box)) = m
  BY <1>1
<1>2. \A i \in 1..Len(Tail(box)) :
        i \in Int /\ i + 1 \in 2..Len(box) /\ i + 1 \in 1..Len(box)
  BY <1>1
<1>3. ASSUME Numbered(box, side, next, n, 2) PROVE Numbered(Tail(box), side, next, n, 1)
  <2>1. ASSUME NEW i \in 1..Len(Tail(box))
        PROVE  \/ Tail(box)[i].cmd = "event" /\ Tail(box)[i].arg = n + i - 1
               \/ /\ Tail(box)[i].cmd = "dropped"
                  /\ i = Len(Tail(box)) /\ side = "ended"
    <3>0. PICK j \in Int : j = i + 1 /\ i \in Int
      BY <1>2
    <3>1. j \in 2..Len(box) /\ Tail(box)[i] = box[j]
      BY <1>1, <1>2, <3>0
    <3>2. \/ box[j].cmd = "event" /\ box[j].arg = n + j - 2
          \/ box[j].cmd = "dropped" /\ j = Len(box) /\ side = "ended"
      BY <1>3, <3>1 DEF Numbered
    <3>3. n + j - 2 = n + i - 1 /\ (j = l => i = m)
      BY <3>0
    <3> QED BY <1>5, <3>1, <3>2, <3>3
  <2>2. side = "active" => next = n + Len(Tail(box)) - 1
    BY <1>1, <1>3 DEF Numbered
  <2> QED BY <1>3, <2>1, <2>2 DEF Numbered
<1>4. ASSUME Numbered(box, side, next, n, 1) PROVE Numbered(Tail(box), side, next, n + 1, 1)
  <2>1. ASSUME NEW i \in 1..Len(Tail(box))
        PROVE  \/ Tail(box)[i].cmd = "event" /\ Tail(box)[i].arg = n + 1 + i - 1
               \/ /\ Tail(box)[i].cmd = "dropped"
                  /\ i = Len(Tail(box)) /\ side = "ended"
    <3>0. PICK j \in Int : j = i + 1 /\ i \in Int
      BY <1>2
    <3>1. j \in 1..Len(box) /\ Tail(box)[i] = box[j]
      BY <1>1, <1>2, <3>0
    <3>2. \/ box[j].cmd = "event" /\ box[j].arg = n + j - 1
          \/ box[j].cmd = "dropped" /\ j = Len(box) /\ side = "ended"
      BY <1>4, <3>1 DEF Numbered
    <3>3. n + j - 1 = n + 1 + i - 1 /\ (j = l => i = m)
      BY <3>0
    <3> QED BY <1>5, <3>1, <3>2, <3>3
  <2>2. side = "active" => next = n + 1 + Len(Tail(box)) - 1
    BY <1>1, <1>4 DEF Numbered
  <2> QED BY <1>4, <2>1, <2>2 DEF Numbered
<1> QED BY <1>3, <1>4

LEMMA NumberedAppend ==
  ASSUME NEW S, NEW box \in Seq(S), NEW next \in Int, NEW n \in Int, NEW k \in {1, 2},
         k <= Len(box) + 1, Numbered(box, "active", next, n, k), NEW p \in S
  PROVE  /\ p.cmd = "event" /\ p.arg = next + 1 =>
              Numbered(Append(box, p), "active", next + 1, n, k)
         /\ p.cmd = "dropped" => Numbered(Append(box, p), "ended", next, n, k)
<1>1. /\ Len(Append(box, p)) = Len(box) + 1
      /\ \A i \in 1..Len(box) : Append(box, p)[i] = box[i]
      /\ Append(box, p)[Len(box) + 1] = p
  BY AppendProperties
<1>2. Len(box) \in Nat
  OBVIOUS
<1>3. \A i \in k..Len(box) : i \in 1..Len(box) /\ box[i].cmd = "event" /\ box[i].arg = n + i - k
  BY <1>2 DEF Numbered
<1>4. \A i \in k..(Len(box) + 1) : i \in k..Len(box) \/ i = Len(box) + 1
  BY <1>2
<1>5. next = n + Len(box) - k
  BY DEF Numbered
<1>6. ASSUME p.cmd = "event", p.arg = next + 1
      PROVE  Numbered(Append(box, p), "active", next + 1, n, k)
  <2>1. p.arg = n + (Len(box) + 1) - k /\ next + 1 = n + (Len(box) + 1) - k
    BY <1>2, <1>5, <1>6
  <2>2. ASSUME NEW i \in k..(Len(box) + 1)
        PROVE  Append(box, p)[i].cmd = "event" /\ Append(box, p)[i].arg = n + i - k
    <3>1. CASE i \in k..Len(box)
      BY <1>1, <1>3, <3>1
    <3>2. CASE i = Len(box) + 1
      BY <1>1, <1>6, <2>1, <3>2
    <3> QED BY <1>4, <3>1, <3>2
  <2> QED BY <1>1, <2>1, <2>2 DEF Numbered
<1>7. ASSUME p.cmd = "dropped" PROVE Numbered(Append(box, p), "ended", next, n, k)
  <2>2. ASSUME NEW i \in k..(Len(box) + 1)
        PROVE  \/ Append(box, p)[i].cmd = "event" /\ Append(box, p)[i].arg = n + i - k
               \/ Append(box, p)[i].cmd = "dropped" /\ i = Len(box) + 1
    BY <1>1, <1>3, <1>4, <1>7
  <2> QED BY <1>1, <2>2 DEF Numbered
<1> QED BY <1>6, <1>7

------------------------------------------------------------------------------
(* Each step keeps the stages and the order.                                *)

\* A confirmed position that is not after the client's own: nothing is missing
\* but possibly the confirmed event.
LEMMA TargetReached ==
  ASSUME TypeInv, LogInv, NEW k \in 0..Len(log), NEW m \in k..Len(log),
         Splits(current_position, k), NEW pos \in [commit : Int, prepare : Int],
         Confirmed(pos, m), ~After(pos, current_position)
  PROVE  k = m \/ (m > 0 /\ k = m - 1 /\ log[m] = pos)
<1>0. /\ Len(log) \in Nat /\ k \in Nat /\ m \in Nat /\ k <= m
      /\ \A i \in 1..Len(log) : log[i].commit \in Nat /\ log[i].prepare \in Nat
  <2>1. /\ Len(log) \in Nat
        /\ \A i \in 1..Len(log) : log[i].commit \in Nat /\ log[i].prepare \in Nat
    BY EndType
  <2> QED BY <2>1
<1> SUFFICES ASSUME k # m PROVE m > 0 /\ k = m - 1 /\ log[m] = pos
  OBVIOUS
<1>1. m \in 1..Len(log) /\ m > 0 /\ ~(m <= k)
  BY <1>0
<1>2. /\ pos.commit = log[m].commit /\ pos.prepare = pos.commit
      /\ log[m].prepare <= log[m].commit
      /\ log[m].commit \in Nat /\ log[m].prepare \in Nat
  BY <1>0, <1>1 DEF Confirmed, LogInv
<1>3. current_position.commit \in Nat /\ current_position.prepare \in Nat
  BY DEF TypeInv, Position
<1>4. k = m - 1
  <2> SUFFICES ASSUME k # m - 1 PROVE FALSE
    OBVIOUS
  <2>1. PICK i \in 1..Len(log) : i = m - 1 /\ ~(i <= k) /\ i < m
    BY <1>0, <1>1
  <2>2. log[i].commit < log[m].prepare /\ log[i].commit \in Nat
    BY <1>0, <1>1, <2>1 DEF LogInv
  <2>3. ~After(current_position, log[i])
    BY <2>1 DEF Splits
  <2> QED BY <1>2, <1>3, <2>2, <2>3 DEF After
<1>5. ~After(current_position, log[m])
  BY <1>1 DEF Splits
<1>6. log[m].prepare = pos.prepare /\ log[m].commit = pos.commit
  BY <1>2, <1>3, <1>5 DEF After
<1>7. log[m] \in Position
  BY <1>1, EndType
<1>8. log[m] = pos
  BY <1>6, <1>7 DEF Position
<1> QED BY <1>1, <1>4, <1>8

\* A package that the base class handles: the guard is locked, or the drop has a
\* reason that the client does not list.
LEMMA BaseOrder ==
  ASSUME TypeInv, OrderInv, ~handle_guard, slice.loop # "initial", phase # "idle",
         UNCHANGED <<phase, log>>, NEW p, BasePackage(p)
  PROVE  \/ OrderInv'
         \/ /\ p.cmd = "dropped" /\ p.arg \notin BaseReason
            /\ UNCHANGED <<handle_guard, outbox, event_buffer>>
<1>0. UNCHANGED <<seen, current_position, position_to_catch_up_to, slice, drains>>
  BY DEF BasePackage
<1>1. ASSUME NEW ec, unsubscribe(ec) PROVE OrderInv'
  <2>1. handle_guard' = TRUE
    BY <1>1 DEF unsubscribe
  <2>2. event_buffer' = <<>>
    BY <2>1 DEF BasePackage
  <2> QED BY <1>0, <2>1, <2>2, StopStep
<1>2. CASE BaseRefused(p)
  BY <1>1, <1>2 DEF BaseRefused
<1>3. CASE BaseDropped(p) /\ p.arg \in BaseReason
  BY <1>1, <1>3 DEF BaseDropped
<1>4. CASE BaseDropped(p) /\ p.arg \notin BaseReason
  <2>1. p.cmd = "dropped" /\ UNCHANGED <<handle_guard, outbox>>
    BY <1>4 DEF BaseDropped
  <2>2. UNCHANGED event_buffer
    BY <2>1 DEF BasePackage
  <2> QED BY <1>4, <2>1, <2>2
<1> QED BY <1>2, <1>3, <1>4 DEF BasePackage

\* The confirmation: missed events are read, or there are none.
LEMMA ConfirmationOrder ==
  ASSUME TypeInv, LogInv, ~handle_guard, subscriptions_map, phase # "idle",
         slice.loop = "none", event_buffer = <<>>, drains = 0, outbox = <<>>,
         NEW k \in 0..Len(log), Given = 1..k, Splits(current_position, k),
         NEW p, p.arg \in Int, Confirmation(p), inbox # <<>>, inbox' = Tail(inbox),
         NEW m \in k..Len(log), Confirmed(position(p.arg, p.arg), m),
         Numbered(inbox, server, pushed, m + 1, 2),
         UNCHANGED <<subscriptions_map, phase, server, pushed, log>>
  PROVE  Live' /\ position_to_catch_up_to'.commit < EndOfLog' /\ UNCHANGED seen
<1>0. /\ Len(log) \in Nat /\ k \in Nat /\ m \in Nat /\ k <= m /\ m <= Len(log)
      /\ m \in 0..Len(log) /\ m + 1 \in 1..(Len(log) + 1) /\ k \in 0..Len(log) /\ m < m + 1
  <2>1. Len(log) \in Nat
    BY EndType
  <2> QED BY <2>1
<1>1. PICK pos \in [commit : Int, prepare : Int] : pos = position(p.arg, p.arg)
  BY DEF position
<1>2. /\ position_to_catch_up_to' = pos
      /\ UNCHANGED <<handle_guard, outbox, event_buffer, seen, current_position, drains>>
      /\ IF After(pos, current_position)
         THEN slice' = [loop |-> "missed", from |-> current_position, status |-> "sent",
                        first |-> 1, last |-> 0]
         ELSE slice' = slice
  BY <1>1 DEF Confirmation, catch_up_events
<1>3. EndOfLog' = EndOfLog /\ Confirmed(pos, m)' /\ Splits(current_position, k)'
  <2>1. EndOfLog' = EndOfLog
    BY LogSame
  <2> QED BY <1>1, <1>2, <2>1 DEF Confirmed, Splits
<1>4. Confirmed(position_to_catch_up_to, m)'
  BY <1>2, <1>3
<1>5. position_to_catch_up_to'.commit < EndOfLog'
  BY <1>4 DEF Confirmed
<1>6. Numbered(inbox', server', pushed', m + 1, 1)
  <2>1. inbox \in Seq(Package) /\ pushed \in Int /\ m + 1 \in Int
    BY <1>0 DEF TypeInv
  <2> QED BY <2>1, NumberedTail
<1>7. /\ Len(event_buffer') = 0 /\ m + 1 + Len(event_buffer') = m + 1
      /\ \A i \in 1..Len(event_buffer') : event_buffer'[i] = m + 1 + i - 1
  <2>1. Len(event_buffer') = 0
    BY <1>2
  <2> QED BY <1>0, <2>1
<1>8. Given' = 1..k
  BY <1>2 DEF Given
<1>9. /\ current_position.commit \in Nat /\ current_position.prepare \in Nat
      /\ pos.commit \in Int /\ pos.prepare \in Int
  BY DEF TypeInv, Position
<1>10. CASE After(pos, current_position)
  <2>1. slice'.loop = "missed" /\ slice'.from = current_position /\ slice'.status = "sent"
    BY <1>2, <1>10
  <2>2. m > 0 /\ log[m] = pos => k < m
    <3> SUFFICES ASSUME m > 0, log[m] = pos, k = m PROVE FALSE
      BY <1>0
    <3>1. m \in 1..Len(log) /\ m <= k
      BY <1>0
    <3>2. After(current_position, pos)
      BY <3>1 DEF Splits
    <3> QED BY <1>9, <1>10, <3>2 DEF After
  <2>3. After(pos, start)
    BY <1>9, <1>10 DEF After, start, position
  <2>4. MissedTo(m, m + 1, k, k)'
    BY <1>0, <1>2, <1>3, <1>8, <1>10, <2>1, <2>2 DEF MissedTo, Answered
  <2>5. (\E f \in 0..Len(log), h \in 0..Len(log) : f <= h /\ MissedTo(m, m + 1, f, h))'
    BY <1>0, <2>4
  <2>6. CatchingUp(m, m + 1)'
    BY <1>2, <2>3, <2>5 DEF CatchingUp
  <2>7. Live'
    BY <1>0, <1>2, <1>4, <1>6, <1>7, <2>1, <2>6 DEF Live
  <2> QED BY <1>2, <1>5, <2>7
<1>11. CASE ~After(pos, current_position)
  <2>1. k = m \/ (m > 0 /\ k = m - 1 /\ log[m] = pos)
    BY <1>1, <1>11, TargetReached
  <2>2. m + 1 - 1 = m
    BY <1>0
  <2>3. Skipping(m, m)'
    <3>1. CASE k = m
      BY <1>8, <3>1 DEF Skipping
    <3>2. CASE m > 0 /\ k = m - 1 /\ log[m] = pos
      <4>1. 1..k = (1..m) \ {m}
        BY <1>0, <3>2
      <4> QED BY <1>2, <1>8, <3>2, <4>1 DEF Skipping
    <3> QED BY <2>1, <3>1, <3>2
  <2>4. GoneLive(m, m + 1)'
    BY <1>0, <1>2, <1>11, <2>2, <2>3 DEF GoneLive
  <2>5. Live'
    BY <1>0, <1>2, <1>4, <1>6, <1>7, <1>11, <2>4 DEF Live
  <2> QED BY <1>2, <1>5, <2>5
<1> QED BY <1>10, <1>11

\* The answer to the subscription.
LEMMA WaitingPackage ==
  ASSUME TypeInv, LogInv, SortedInv, OrderInv, CallInv, Waiting, inbox # <<>>,
         inbox' = Tail(inbox), NEW p, p = Head(inbox),
         Confirmation(p) \/ EventAppeared(p) \/ BasePackage(p),
         UNCHANGED <<subscriptions_map, phase, server, pushed, log>>
  PROVE  OrderInv' /\ SortedInv' /\ position_to_catch_up_to'.commit < EndOfLog'
<1>0. p = inbox[1] /\ p \in Package
  BY HeadTailProperties DEF TypeInv
<1>1. /\ ~handle_guard /\ subscriptions_map /\ phase # "idle" /\ slice.loop = "none"
      /\ event_buffer = <<>> /\ drains = 0 /\ position_to_catch_up_to = NoPosition
  BY DEF Waiting
<1>2. PICK k \in 0..Len(log) : Given = 1..k /\ Splits(current_position, k) /\ Answering(k)
  BY DEF Waiting
<1>3. Increasing(seen)
  <2>1. ~After(NoPosition, start)
    BY DEF After, NoPosition, start, position
  <2> QED BY <1>1, <2>1 DEF SortedInv, EndsAtEvent
<1>4. ASSUME outbox = <<>>, p.cmd = "confirmation",
             \E m \in k..Len(log) :
               /\ Confirmed(position(p.arg, p.arg), m)
               /\ Numbered(inbox, server, pushed, m + 1, 2)
      PROVE  OrderInv' /\ SortedInv' /\ position_to_catch_up_to'.commit < EndOfLog'
  <2>1. Confirmation(p)
    BY <1>4 DEF EventAppeared, BasePackage, BaseDropped, BaseRefused, Refusal
  <2>2. p.arg \in Int
    BY <1>0, <1>4 DEF Package, Refusal
  <2>3. PICK m \in k..Len(log) :
               /\ Confirmed(position(p.arg, p.arg), m)
               /\ Numbered(inbox, server, pushed, m + 1, 2)
    BY <1>4
  <2>4. Live' /\ position_to_catch_up_to'.commit < EndOfLog' /\ UNCHANGED seen
    BY <1>1, <1>2, <1>4, <2>1, <2>2, <2>3, ConfirmationOrder
  <2>5. Increasing(seen)'
    BY <1>3, <2>4 DEF Increasing
  <2> QED BY <2>4, <2>5 DEF OrderInv, SortedInv
<1>5. ASSUME p.cmd \in Refusal \/ (p.cmd = "dropped" /\ p.arg \in BaseReason)
      PROVE  OrderInv' /\ SortedInv' /\ position_to_catch_up_to'.commit < EndOfLog'
  <2>1. BasePackage(p)
    BY <1>5 DEF Confirmation, EventAppeared, Refusal
  <2>2. ~(p.cmd = "dropped" /\ p.arg \notin BaseReason)
    BY <1>5 DEF Refusal
  <2>3. OrderInv'
    <3>1. slice.loop # "initial" /\ ~handle_guard /\ phase # "idle"
      BY <1>1
    <3>2. UNCHANGED <<phase, log>>
      OBVIOUS
    <3> QED BY <2>1, <2>2, <3>1, <3>2, BaseOrder
  <2>4. UNCHANGED <<seen, position_to_catch_up_to, log>>
    BY <2>1 DEF BasePackage
  <2>5. SortedInv' /\ EndOfLog' = EndOfLog
    BY <2>4, SortedUnchanged, LogSame
  <2> QED BY <2>3, <2>4, <2>5 DEF CallInv
<1>6. ASSUME NEW c \in Refusal, inbox = <<Pkg(c, 0)>> PROVE p.cmd \in Refusal
  BY <1>0, <1>6 DEF Pkg
<1>7. ASSUME inbox = <<Pkg("dropped", "access_denied")>>
      PROVE  p.cmd = "dropped" /\ p.arg \in BaseReason
  BY <1>0, <1>7 DEF Pkg, BaseReason
<1>8. inbox # <<>>
  OBVIOUS
<1> QED BY <1>0, <1>2, <1>4, <1>5, <1>6, <1>7, <1>8 DEF Answering

\* A live event that is given while missed events are read: the confirmed event
\* is behind the read and not at the confirmed position.
LEMMA LiveBesideMissed ==
  ASSUME TypeInv, LogInv, NEW m \in 0..Len(log), NEW n \in 1..Len(log),
         Confirmed(position_to_catch_up_to, m), CatchingUp(m, n),
         ~After(position_to_catch_up_to, current_position),
         read_subscription_events(<<>>, <<n>>, drains),
         UNCHANGED <<position_to_catch_up_to, slice, log>>
  PROVE  CatchingUp(m, n + 1)' /\ Len(event_buffer') = 0 /\ ~EndsAtEvent
<1>0. PICK I : I = Index
  OBVIOUS
<1>1. /\ Len(log) \in Nat /\ n \in Nat /\ n <= Len(log) /\ n > 0 /\ n \in Index
      /\ <<n>> \in Seq(I) /\ Len(<<n>>) = 1 /\ <<n>>[1] = n
  <2>1. Len(log) \in Nat
    BY EndType
  <2>2. n \in Index
    BY DEF Index
  <2> QED BY <1>0, <2>1, <2>2
<1>2. /\ Give(<<>> \o SubSeq(<<n>>, 1, 1)) /\ SubSeq(<<n>>, 1, 1) \in Seq(I)
      /\ Len(SubSeq(<<n>>, 1, 1)) = 1 /\ SubSeq(<<n>>, 1, 1)[1] = n
      /\ Len(event_buffer') = 0 /\ drains' = drains
  <2>1. read_subscription_events(<<>>, <<n>>, drains)
    OBVIOUS
  <2>2. \E q \in 0..Len(<<n>>) : Drained(I, <<>>, <<n>>, drains, q)
    BY <1>1, <2>1, DrainFacts
  <2>3. Drained(I, <<>>, <<n>>, drains, 1) /\ drains' = drains
    BY <1>1, <2>2 DEF Drained
  <2> QED BY <1>1, <2>3 DEF Drained
<1>3. PICK s : s = SubSeq(<<n>>, 1, 1)
  OBVIOUS
<1>4. <<>> \o s = s /\ s \in Seq(I) /\ seen \in Seq(I) /\ Elems(s) = {n}
  <2>1. Elems(s) = {n}
    <3>1. Len(s) = 1 /\ s[1] = n
      BY <1>2, <1>3
    <3>2. \A i \in 1..1 : i = 1
      OBVIOUS
    <3> QED BY <3>1, <3>2 DEF Elems
  <2>2. s \in Seq(I)
    BY <1>2, <1>3
  <2>3. <<>> \o s = s
    BY <2>2
  <2> QED BY <1>0, <2>1, <2>2, <2>3 DEF TypeInv
<1>5. Given' = Given \cup {n}
  <2>1. Give(s)
    BY <1>2, <1>3, <1>4
  <2>2. Elems(seen') = Elems(seen) \cup Elems(s)
    BY <1>4, <2>1, GiveElems
  <2> QED BY <1>4, <2>2 DEF Given
<1>6. PICK f \in 0..Len(log), h \in 0..Len(log) : f <= h /\ MissedTo(m, n, f, h)
  BY DEF CatchingUp
<1>7. /\ Given = 1..h /\ m < f /\ n <= h + 1 /\ ~(m > 0 /\ log[m] = position_to_catch_up_to)
      /\ f \in Nat /\ h \in Nat /\ m \in Nat
  BY <1>1, <1>6 DEF MissedTo
<1>8. PICK g \in 0..Len(log) : g = IF n = h + 1 THEN n ELSE h
  BY <1>1
<1>9. Given' = 1..g /\ h <= g /\ n <= g
  <2>1. (1..h) \cup {n} = 1..g
    BY <1>1, <1>7, <1>8
  <2> QED BY <1>1, <1>5, <1>7, <1>8, <2>1
<1>10. EndOfLog' = EndOfLog
  BY LogSame
<1>11. MissedTo(m, n + 1, f, g)'
  <2>1. ~(f <= m) /\ n + 1 <= g + 1
    BY <1>1, <1>7, <1>9
  <2>2. /\ f > 0 /\ Splits(slice.from, f - 1) /\ Answered(f - 1)
        /\ slice.status = "read" => slice.first <= slice.last
    BY <1>6, <2>1 DEF MissedTo
  <2>3. Splits(slice.from, f - 1)' /\ Answered(f - 1)'
    BY <1>10, <2>2 DEF Splits, Answered
  <2> QED BY <1>7, <1>9, <2>1, <2>2, <2>3 DEF MissedTo
<1>12. f <= g /\ f \in 0..Len(log)
  BY <1>6, <1>7, <1>9
<1>13. (\E x \in 0..Len(log), y \in 0..Len(log) : x <= y /\ MissedTo(m, n + 1, x, y))'
  BY <1>8, <1>11, <1>12
<1>14. CatchingUp(m, n + 1)'
  <2>1. After(position_to_catch_up_to, start)' /\ drains' = 0
    BY <1>2 DEF CatchingUp, start
  <2> QED BY <1>13, <2>1 DEF CatchingUp
<1>15. ~EndsAtEvent
  <2>1. ASSUME NEW i \in 1..Len(log), log[i] = position_to_catch_up_to PROVE FALSE
    <3>1. i = m
      BY <2>1, AtTarget
    <3> QED BY <1>1, <1>7, <2>1, <3>1
  <2>2. After(position_to_catch_up_to, start)
    BY DEF CatchingUp
  <2> QED BY <2>1, <2>2 DEF EndsAtEvent
<1> QED BY <1>2, <1>14, <1>15

\* A live event that is given when there are no missed events.
LEMMA LiveAtOnce ==
  ASSUME TypeInv, LogInv, NEW m \in 0..Len(log), NEW n \in 1..(Len(log) + 1),
         Confirmed(position_to_catch_up_to, m), GoneLive(m, n),
         NEW buffer \in Seq(Index), \A i \in 1..Len(buffer) : buffer[i] = n + i - 1, NEW others,
         read_subscription_events(<<>>, buffer, others),
         current_position' = PositionAfter(buffer, current_position),
         UNCHANGED <<position_to_catch_up_to, log>>
  PROVE  /\ \E l \in 1..(Len(log) + 1) :
              /\ \A i \in 1..Len(event_buffer') : event_buffer'[i] = l + i - 1
              /\ l + Len(event_buffer') = n + Len(buffer)
              /\ GoneLive(m, l)'
         /\ Increasing(seen) => Increasing(seen')
<1>1. PICK none : none = <<>>
  OBVIOUS
<1>2. none \in Seq(Index) /\ Elems(none) = {} /\ Increasing(none)
  <2>1. Len(none) = 0 /\ none \in Seq(Index)
    BY <1>1
  <2> QED BY <2>1 DEF Elems, Increasing
<1>3. /\ m < n /\ ~After(position_to_catch_up_to, current_position)
      /\ \/ Given \cup Elems(none) = 1..(n - 1)
         \/ /\ m > 0 /\ log[m] = position_to_catch_up_to
            /\ Given \cup Elems(none) = (1..(n - 1)) \ {m}
  BY <1>2 DEF GoneLive, Skipping
<1>4. current_position \in Position /\ read_subscription_events(none, buffer, others)
  BY <1>1 DEF TypeInv
<1>5. \A x \in Given, y \in Elems(none) : x < y
  BY <1>2
<1>6. UNCHANGED <<log, position_to_catch_up_to>>
  OBVIOUS
<1>7. current_position' = PositionAfter(buffer, current_position)
  OBVIOUS
<1> QED BY <1>2, <1>3, <1>4, <1>5, <1>6, <1>7, DrainOrder

\* A package of the confirmed subscription.
LEMMA LivePackage ==
  ASSUME TypeInv, LogInv, OrderInv, SortedInv, Live, inbox # <<>>, inbox' = Tail(inbox),
         NEW p, p = Head(inbox),
         Confirmation(p) \/ EventAppeared(p) \/ BasePackage(p),
         UNCHANGED <<subscriptions_map, phase, server, pushed, log>>
  PROVE  OrderInv' /\ SortedInv' /\ UNCHANGED position_to_catch_up_to
<1>0. /\ p = inbox[1] /\ inbox \in Seq(Package) /\ pushed \in Int /\ p \in Package
      /\ Len(inbox) \in Nat /\ 1 \in 1..Len(inbox)
      /\ event_buffer \in Seq(Index) /\ Len(event_buffer) \in Nat /\ Len(log) \in Nat
  <2>1. inbox \in Seq(Package) /\ Len(inbox) \in Nat \ {0}
    BY EmptySeq DEF TypeInv
  <2>2. 1 \in 1..Len(inbox) /\ p = inbox[1]
    BY <2>1
  <2>3. p \in Package
    BY <2>1, <2>2, ElementOfSeq
  <2>4. event_buffer \in Seq(Index) /\ Len(event_buffer) \in Nat /\ Len(log) \in Nat
    BY EndType DEF TypeInv
  <2> QED BY <2>1, <2>2, <2>3, <2>4 DEF TypeInv
<1>a. ~handle_guard /\ subscriptions_map /\ phase # "idle" /\ outbox = <<>>
  BY DEF Live
<1>1. PICK m \in 0..Len(log), n \in 1..(Len(log) + 1) :
        /\ Confirmed(position_to_catch_up_to, m)
        /\ \A i \in 1..Len(event_buffer) : event_buffer[i] = n + i - 1
        /\ Numbered(inbox, server, pushed, n + Len(event_buffer), 1)
        /\ \/ slice.loop = "missed" /\ CatchingUp(m, n)
           \/ slice.loop = "none" /\ GoneLive(m, n)
  BY DEF Live
<1>2. PICK b \in Int : b = n + Len(event_buffer)
  BY <1>0
<1>3. Numbered(inbox', server', pushed', b + 1, 1)
  <2>1. Numbered(inbox, server, pushed, b, 1)
    BY <1>1, <1>2
  <2> QED BY <1>0, <2>1, NumberedTail
<1>4. \/ p.cmd = "event" /\ p.arg = b
      \/ p.cmd = "dropped" /\ Len(inbox) = 1 /\ server = "ended"
  <2>1. \/ inbox[1].cmd = "event" /\ inbox[1].arg = b + 1 - 1
        \/ inbox[1].cmd = "dropped" /\ 1 = Len(inbox) /\ server = "ended"
    BY <1>0, <1>1, <1>2 DEF Numbered
  <2>2. b + 1 - 1 = b
    OBVIOUS
  <2> QED BY <1>0, <2>1, <2>2
<1>b. ASSUME UNCHANGED position_to_catch_up_to PROVE Confirmed(position_to_catch_up_to, m)'
  <2>1. EndOfLog' = EndOfLog
    BY LogSame
  <2> QED BY <1>1, <1>b, <2>1 DEF Confirmed
<1>c. ASSUME UNCHANGED <<seen, position_to_catch_up_to>> PROVE SortedInv'
  BY <1>c, SortedUnchanged
<1>d. ASSUME UNCHANGED <<position_to_catch_up_to, seen, current_position, drains, slice>>
      PROVE  \/ slice'.loop = "missed" /\ CatchingUp(m, n)'
             \/ slice'.loop = "none" /\ GoneLive(m, n)'
  <2>1. UNCHANGED posVars
    BY <1>d DEF posVars
  <2>2. (CatchingUp(m, n) => CatchingUp(m, n)') /\ (GoneLive(m, n) => GoneLive(m, n)')
    BY <2>1, PosUnchanged
  <2> QED BY <1>1, <1>d, <2>2
<1>5. CASE EventAppeared(p)
  <2>0. /\ p.arg = b /\ p.arg \in Index /\ p.cmd = "event"
        /\ UNCHANGED <<handle_guard, outbox, position_to_catch_up_to, slice>>
    <3>1. p.cmd = "event" /\ UNCHANGED <<handle_guard, outbox, position_to_catch_up_to, slice>>
      BY <1>5 DEF EventAppeared
    <3>2. p.arg \in Index
      BY <1>0, <3>1 DEF Package, Refusal
    <3> QED BY <1>4, <3>1, <3>2
  <2>1. CASE /\ event_buffer' = Append(event_buffer, b)
             /\ UNCHANGED <<seen, current_position, drains>>
    <3>1. /\ Len(event_buffer') = Len(event_buffer) + 1
          /\ \A i \in 1..Len(event_buffer) : event_buffer'[i] = event_buffer[i]
          /\ event_buffer'[Len(event_buffer) + 1] = b
      BY <1>0, <2>0, <2>1, AppendProperties
    <3>2. PICK l \in Nat : l = Len(event_buffer)
      BY <1>0
    <3>3. \A i \in 1..(l + 1) : i \in 1..l \/ i = l + 1
      BY <3>2
    <3>4. b = n + (l + 1) - 1 /\ b + 1 = n + (l + 1)
      BY <1>2, <3>2
    <3>5. \A i \in 1..(l + 1) : event_buffer'[i] = n + i - 1
      BY <1>1, <3>1, <3>2, <3>3, <3>4
    <3>6. \/ slice'.loop = "missed" /\ CatchingUp(m, n)'
          \/ slice'.loop = "none" /\ GoneLive(m, n)'
      BY <1>d, <2>0, <2>1
    <3>7. Confirmed(position_to_catch_up_to, m)' /\ SortedInv'
      BY <1>b, <1>c, <2>0, <2>1
    <3>8. Numbered(inbox', server', pushed', n + Len(event_buffer'), 1)
      BY <1>3, <3>1, <3>2, <3>4
    <3>9. Live'
      BY <1>1, <1>a, <2>0, <3>1, <3>2, <3>5, <3>6, <3>7, <3>8 DEF Live
    <3> QED BY <2>0, <3>7, <3>9 DEF OrderInv
  <2>2. CASE /\ ~After(position_to_catch_up_to, current_position) /\ event_buffer = <<>>
             /\ read_subscription_events(<<>>, <<p.arg>>, drains)
             /\ current_position' = PositionAfter(<<p.arg>>, current_position)
    <3>0. /\ b = n /\ n \in Index /\ <<n>> \in Seq(Index) /\ Len(<<n>>) = 1
          /\ \A i \in 1..Len(<<n>>) : <<n>>[i] = n + i - 1
      <4>1. Len(event_buffer) = 0
        BY <2>2
      <4>2. b = n
        BY <1>0, <1>2, <4>1
      <4>3. n \in Index /\ n \in Int
        BY <2>0, <4>2
      <4> QED BY <4>2, <4>3
    <3>1. /\ read_subscription_events(<<>>, <<n>>, drains)
          /\ current_position' = PositionAfter(<<n>>, current_position)
      BY <2>0, <2>2, <3>0
    <3>2. CASE slice.loop = "missed" /\ CatchingUp(m, n)
      <4>1. CatchingUp(m, n + 1)' /\ Len(event_buffer') = 0 /\ ~EndsAtEvent
        BY <1>1, <2>0, <2>2, <3>0, <3>1, <3>2, LiveBesideMissed DEF Index
      <4>2. n + 1 \in 1..(Len(log) + 1) /\ n + 1 + Len(event_buffer') = n + 1
        BY <1>0, <3>0, <4>1 DEF Index
      <4>3. Numbered(inbox', server', pushed', n + 1 + Len(event_buffer'), 1)
        BY <1>3, <3>0, <4>2
      <4>4. Confirmed(position_to_catch_up_to, m)'
        BY <1>b, <2>0
      <4>5. \A i \in 1..Len(event_buffer') : event_buffer'[i] = n + 1 + i - 1
        BY <4>1
      <4>6. Live'
        BY <1>1, <1>a, <2>0, <3>2, <4>1, <4>2, <4>3, <4>4, <4>5 DEF Live
      <4>7. SortedInv'
        BY <2>0, <4>1 DEF SortedInv, EndsAtEvent, start
      <4> QED BY <2>0, <4>6, <4>7 DEF OrderInv
    <3>3. CASE slice.loop = "none" /\ GoneLive(m, n)
      <4>1. /\ \E l \in 1..(Len(log) + 1) :
                  /\ \A i \in 1..Len(event_buffer') : event_buffer'[i] = l + i - 1
                  /\ l + Len(event_buffer') = n + Len(<<n>>)
                  /\ GoneLive(m, l)'
            /\ Increasing(seen) => Increasing(seen')
        BY <1>1, <2>0, <3>0, <3>1, <3>3, LiveAtOnce
      <4>2. PICK l \in 1..(Len(log) + 1) :
                  /\ \A i \in 1..Len(event_buffer') : event_buffer'[i] = l + i - 1
                  /\ l + Len(event_buffer') = b + 1
                  /\ GoneLive(m, l)'
        BY <3>0, <4>1
      <4>3. Numbered(inbox', server', pushed', l + Len(event_buffer'), 1)
        BY <1>3, <4>2
      <4>4. Confirmed(position_to_catch_up_to, m)'
        BY <1>b, <2>0
      <4>5. Live'
        BY <1>1, <1>a, <2>0, <3>3, <4>2, <4>3, <4>4 DEF Live
      <4>6. SortedInv'
        <5>1. EndsAtEvent' = EndsAtEvent
          BY <2>0 DEF EndsAtEvent, start
        <5>2. Increasing(seen') = Increasing(seen)'
          BY DEF Increasing
        <5> QED BY <4>1, <5>1, <5>2 DEF SortedInv
      <4> QED BY <2>0, <4>5, <4>6 DEF OrderInv
    <3> QED BY <1>1, <3>2, <3>3
  <2> QED BY <1>5, <2>0, <2>1, <2>2 DEF EventAppeared
<1>6. CASE BasePackage(p)
  <2>0. /\ slice.loop # "initial"
        /\ UNCHANGED <<seen, current_position, position_to_catch_up_to, slice, drains>>
    BY <1>1, <1>6 DEF BasePackage
  <2>1. ASSUME p.cmd = "dropped", UNCHANGED <<handle_guard, outbox, event_buffer>>
        PROVE  OrderInv'
    <3>1. Len(inbox) = 1 /\ server = "ended"
      BY <1>4, <2>1
    <3>2. Len(inbox') = 0
      BY <1>0, <3>1, HeadTailProperties
    <3>3. Numbered(inbox', server', pushed', n + Len(event_buffer'), 1)
      <4>1. server' = "ended"
        BY <3>1
      <4>2. PICK box, side : box = inbox' /\ side = server'
        OBVIOUS
      <4>3. \A i \in 1..Len(box) : FALSE
        <5>1. Len(box) = 0
          BY <3>2, <4>2, Zenon
        <5>2. \A i \in 1..0 : FALSE
          OBVIOUS
        <5> QED BY <5>1, <5>2, Zenon
      <4>4. Numbered(box, side, pushed', n + Len(event_buffer'), 1)
        BY <4>1, <4>2, <4>3, Zenon DEF Numbered
      <4> QED BY <4>2, <4>4
    <3>4. \/ slice'.loop = "missed" /\ CatchingUp(m, n)'
          \/ slice'.loop = "none" /\ GoneLive(m, n)'
      BY <1>d, <2>0
    <3>5. Confirmed(position_to_catch_up_to, m)'
      BY <1>b, <2>0
    <3>6. Live'
      BY <1>1, <1>a, <2>0, <2>1, <3>3, <3>4, <3>5 DEF Live
    <3> QED BY <3>6 DEF OrderInv
  <2>2. OrderInv'
    <3>1. UNCHANGED <<phase, log>>
      OBVIOUS
    <3> QED BY <1>6, <1>a, <2>0, <2>1, <3>1, BaseOrder
  <2>3. SortedInv'
    BY <1>c, <2>0
  <2> QED BY <2>0, <2>2, <2>3
<1>7. ~Confirmation(p)
  BY <1>4 DEF Confirmation
<1> QED BY <1>5, <1>6, <1>7

\* A batch of the first reading.
LEMMA InitialOrder ==
  ASSUME TypeInv, LogInv, OrderInv, SortedInv, HandleInitialSlice
  PROVE  OrderInv' /\ SortedInv' /\ UNCHANGED position_to_catch_up_to
<1>0. Reading /\ slice.loop = "initial"
  BY DEF HandleInitialSlice, OrderInv, Waiting, Live, Stopped
<1>1. /\ ~handle_guard /\ ~subscriptions_map /\ phase # "idle"
      /\ server = "none" /\ inbox = <<>> /\ outbox = <<>>
      /\ event_buffer = <<>> /\ drains = 0 /\ position_to_catch_up_to = NoPosition
  BY <1>0 DEF Reading
<1>2. PICK k \in 0..Len(log) : /\ Given = 1..k /\ Splits(current_position, k)
                               /\ slice.from = current_position /\ Answered(k)
  BY <1>0 DEF Reading
<1>3. /\ UNCHANGED <<phase, inbox, server, event_buffer, drains, position_to_catch_up_to, log>>
      /\ slice.status = "read" /\ Give(Batch(slice.first, slice.last))
  BY DEF HandleInitialSlice
<1>4. PICK l \in Nat : l = slice.last
  BY DEF TypeInv, Slice
<1>5. /\ slice.first = k + 1 /\ k <= l /\ l <= Len(log) /\ Len(log) \in Nat /\ k \in Nat
      /\ l \in 0..Len(log) /\ k + 1 \in Nat /\ k + 1 <= l + 1 /\ (k + 1)..l \subseteq Index
  <2>1. slice.first = k + 1 /\ Len(log) \in Nat
    BY <1>2, <1>3, EndType DEF Answered
  <2>2. k + 1 <= l + 1 /\ l <= Len(log) /\ k \in Nat
    BY <1>4, <2>1 DEF TypeInv
  <2> QED BY <2>1, <2>2 DEF Index
<1>6. PICK ev : ev = Batch(k + 1, l)
  OBVIOUS
<1>7. /\ ev \in Seq(Index) /\ ev \in Seq(Nat) /\ Elems(ev) = (k + 1)..l /\ Increasing(ev)
      /\ seen \in Seq(Index) /\ seen \in Seq(Nat) /\ Give(ev)
  <2>1. PICK a \in Nat : a = k + 1
    BY <1>5
  <2>2. a..l \subseteq Index /\ Index \subseteq Nat /\ a <= l + 1
    BY <1>5, <2>1 DEF Index
  <2>3. ev \in Seq(Index) /\ seen \in Seq(Index)
    BY <1>4, <1>6, <2>1, <2>2, BatchFacts DEF TypeInv
  <2>4. ev \in Seq(Nat) /\ seen \in Seq(Nat)
    BY <2>2, <2>3, SeqMonotonic
  <2>5. Elems(ev) = a..l /\ Increasing(ev)
    BY <1>4, <1>6, <2>1, <2>2, BatchElems
  <2> QED BY <1>3, <1>4, <1>5, <1>6, <2>1, <2>3, <2>4, <2>5
<1>8. Given' = 1..l
  <2>1. Elems(seen') = Elems(seen) \cup Elems(ev)
    BY <1>7, GiveElems
  <2>2. (1..k) \cup ((k + 1)..l) = 1..l
    BY <1>5
  <2> QED BY <1>2, <1>7, <2>1, <2>2 DEF Given
<1>9. SortedInv'
  <2>1. ~After(NoPosition, start)
    BY DEF After, NoPosition, start, position
  <2>2. Increasing(seen)
    BY <1>1, <2>1 DEF SortedInv, EndsAtEvent
  <2>3. \A x \in Elems(seen), y \in Elems(ev) : x < y
    BY <1>2, <1>5, <1>7 DEF Given
  <2>4. Increasing(seen')
    BY <1>7, <2>2, <2>3, GiveIncreasing
  <2> QED BY <2>4 DEF SortedInv, Increasing
<1>10. EndOfLog' = EndOfLog /\ Len(log') = Len(log)
  BY <1>3, LogSame
<1>11. CASE /\ slice.first > slice.last /\ base_async_start /\ slice' = NoRead
            /\ UNCHANGED current_position
  <2>1. k = l
    BY <1>4, <1>5, <1>11
  <2>2. /\ handle_guard' = FALSE /\ subscriptions_map' = TRUE /\ slice'.loop = "none"
        /\ outbox' = <<Pkg("subscribe", 0)>>
    BY <1>1, <1>11 DEF base_async_start, NoRead
  <2>3. Answering(k)'
    BY <1>1, <1>3, <2>2 DEF Answering
  <2>4. Splits(current_position, k)'
    BY <1>2, <1>3, <1>10, <1>11 DEF Splits
  <2>5. (\E j \in 0..Len(log) : Given = 1..j /\ Splits(current_position, j) /\ Answering(j))'
    BY <1>8, <1>10, <2>1, <2>3, <2>4
  <2>6. Waiting'
    BY <1>1, <1>3, <2>2, <2>5 DEF Waiting
  <2> QED BY <1>3, <1>9, <2>6 DEF OrderInv
<1>12. CASE /\ slice.first <= slice.last
            /\ current_position' = position(log[slice.last].commit + 1, log[slice.last].commit + 1)
            /\ catch_up_events("initial", current_position')
            /\ UNCHANGED <<handle_guard, subscriptions_map, outbox>>
  <2>1. l \in 1..Len(log)
    BY <1>4, <1>5, <1>12
  <2>2. Splits(position(log[l].commit + 1, log[l].commit + 1), l)
    BY <2>1, SplitsAfterEvent
  <2>3. Splits(current_position', l)
    BY <1>4, <1>12, <2>2
  <2>4. Splits(current_position, l)'
    BY <1>3, <1>10, <2>3 DEF Splits
  <2>5. /\ slice'.loop = "initial" /\ slice'.from = current_position'
        /\ slice'.status = "sent"
    BY <1>12 DEF catch_up_events
  <2>6. Answered(l)'
    BY <2>5 DEF Answered
  <2>7. Reading'
    BY <1>1, <1>3, <1>5, <1>8, <1>10, <1>12, <2>4, <2>5, <2>6 DEF Reading
  <2> QED BY <1>3, <1>9, <2>7 DEF OrderInv
<1> QED BY <1>11, <1>12 DEF HandleInitialSlice

\* The batch of missed events that was read, next to what is given already.
LEMMA MissedBatch ==
  ASSUME TypeInv, slice.status = "read", NEW m \in 0..Len(log), NEW n,
         NEW f \in 0..Len(log), NEW h \in 0..Len(log), f <= h, MissedTo(m, n, f, h)
  PROVE  /\ Len(log) \in Nat /\ m \in Nat /\ f \in Nat /\ h \in Nat
         /\ slice.first \in Nat \ {0} /\ slice.last \in Nat /\ slice.last <= Len(log)
         /\ slice.first <= slice.last + 1
         /\ \/ slice.first = f + 1 /\ f <= m /\ h = f /\ Splits(slice.from, f)
            \/ slice.first = f /\ f > 0 /\ f <= slice.last
<1>1. Len(log) \in Nat /\ m \in Nat /\ f \in Nat /\ h \in Nat
  <2>1. Len(log) \in Nat
    BY EndType
  <2> QED BY <2>1
<1>2. /\ slice.first \in Nat \ {0} /\ slice.last \in Nat /\ slice.last <= Len(log)
      /\ slice.first <= slice.last + 1
  BY DEF TypeInv, Slice
<1>3. CASE f <= m /\ Splits(slice.from, f) /\ Answered(f)
  BY <1>1, <1>2, <1>3 DEF MissedTo, Answered
<1>4. CASE /\ f > 0 /\ Splits(slice.from, f - 1) /\ Answered(f - 1)
           /\ slice.status = "read" => slice.first <= slice.last
  <2>1. slice.first = f - 1 + 1 /\ slice.first <= slice.last
    BY <1>4 DEF Answered
  <2>2. slice.first = f
    BY <1>1, <2>1
  <2> QED BY <1>1, <1>2, <1>4, <2>1, <2>2
<1> QED BY <1>3, <1>4 DEF MissedTo

LEMMA MissedUnion ==
  ASSUME NEW f \in Nat, NEW h \in Nat, NEW a \in Nat \ {0}, NEW b \in Nat, f <= h, a <= b + 1,
         a = f \/ a = f + 1
  PROVE  (1..h) \cup (a..b) = 1..(IF h < b THEN b ELSE h)
  OBVIOUS

\* An event up to the confirmed one and not at the confirmed position lies before it.
LEMMA BeforeTarget ==
  ASSUME TypeInv, LogInv, NEW m \in 0..Len(log), NEW l \in 1..Len(log), l <= m,
         Confirmed(position_to_catch_up_to, m), log[l] # position_to_catch_up_to
  PROVE  After(position_to_catch_up_to, log[l])
<1>0. /\ Len(log) \in Nat /\ m \in 1..Len(log) /\ m > 0
      /\ log[l].commit \in Nat /\ log[l].prepare \in Nat
      /\ log[m].commit \in Nat /\ log[m].prepare \in Nat
  <2>1. Len(log) \in Nat
    BY EndType
  <2>2. m \in 1..Len(log) /\ m > 0
    BY <2>1
  <2> QED BY <2>1, <2>2, EndType
<1>1. /\ log[m].commit = position_to_catch_up_to.commit /\ log[m].prepare <= log[m].commit
      /\ position_to_catch_up_to.prepare = position_to_catch_up_to.commit
  BY <1>0 DEF Confirmed, LogInv
<1>2. CASE l < m
  <2>1. log[l].commit < log[m].prepare
    BY <1>0, <1>2 DEF LogInv
  <2>2. log[l].commit < log[m].commit
    BY <1>0, <1>1, <2>1
  <2> QED BY <1>1, <2>2 DEF After
<1>3. CASE l = m
  <2>1. log[m].prepare # position_to_catch_up_to.prepare
    <3> SUFFICES ASSUME log[m].prepare = position_to_catch_up_to.prepare PROVE FALSE
      OBVIOUS
    <3>1. /\ log[m] = position(log[m].commit, log[m].prepare)
          /\ position_to_catch_up_to
               = position(position_to_catch_up_to.commit, position_to_catch_up_to.prepare)
      <4>1. log[m] = position(log[m].commit, log[m].prepare)
        BY <1>0, EndType
      <4>2. position_to_catch_up_to \in [commit : Int, prepare : Int]
        BY DEF TypeInv
      <4> QED BY <4>1, <4>2 DEF position
    <3> QED BY <1>1, <1>3, <3>1
  <2> QED BY <1>0, <1>1, <1>3, <2>1 DEF After
<1> QED BY <1>0, <1>2, <1>3

\* A batch of missed events without the confirmed one.
LEMMA MissedKept ==
  ASSUME TypeInv, LogInv, HandleMissedSlice, NEW m \in 0..Len(log), NEW n \in 1..(Len(log) + 1),
         Confirmed(position_to_catch_up_to, m), CatchingUp(m, n)
  PROVE  CatchingUp(m, n)' /\ (SortedInv => SortedInv')
<1>0. PICK f \in 0..Len(log), h \in 0..Len(log) : f <= h /\ MissedTo(m, n, f, h)
  BY DEF CatchingUp
<1>1. /\ Give(Batch(slice.first, slice.last)) /\ slice.status = "read" /\ StopIndex = {}
      /\ current_position' = IF slice.first <= slice.last THEN log[slice.last]
                             ELSE current_position
      /\ slice'.loop = "missed" /\ slice'.from = current_position' /\ slice'.status = "sent"
      /\ UNCHANGED <<position_to_catch_up_to, drains, log>>
  BY DEF HandleMissedSlice, catch_up_events
<1>2. PICK a \in Nat \ {0}, b \in Nat : a = slice.first /\ b = slice.last
  BY DEF TypeInv, Slice
<1>3. /\ Len(log) \in Nat /\ m \in Nat /\ f \in Nat /\ h \in Nat /\ b <= Len(log) /\ a <= b + 1
      /\ \/ a = f + 1 /\ f <= m /\ h = f /\ Splits(slice.from, f)
         \/ a = f /\ f > 0 /\ f <= b
  BY <1>0, <1>1, <1>2, MissedBatch
<1>4. PICK ev : ev = Batch(a, b)
  OBVIOUS
<1>5. /\ ev \in Seq(Index) /\ ev \in Seq(Nat) /\ Elems(ev) = a..b /\ Increasing(ev)
      /\ seen \in Seq(Index) /\ seen \in Seq(Nat) /\ Give(ev)
      /\ Len(ev) = b - a + 1 /\ (a <= b => ev[1] = a)
  <2>1. a..b \subseteq Index /\ Index \subseteq Nat
    BY <1>3 DEF Index
  <2>2. ev \in Seq(Index) /\ seen \in Seq(Index)
    BY <1>3, <1>4, <2>1, BatchFacts DEF TypeInv
  <2>3. ev \in Seq(Nat) /\ seen \in Seq(Nat)
    BY <2>1, <2>2, SeqMonotonic
  <2>4. Elems(ev) = a..b /\ Increasing(ev)
    BY <1>3, <1>4, BatchElems
  <2>5. Len(ev) = b - a + 1 /\ \A i \in 1..(b - a + 1) : ev[i] = a + i - 1
    BY <1>3, <1>4, BatchNumbers
  <2>6. a <= b => 1 \in 1..(b - a + 1) /\ a + 1 - 1 = a
    BY <1>3
  <2> QED BY <1>1, <1>2, <1>4, <2>2, <2>3, <2>4, <2>5, <2>6
<1>6. Given = 1..h /\ Given' = 1..(IF h < b THEN b ELSE h)
  <2>1. Elems(seen') = Elems(seen) \cup Elems(ev)
    BY <1>5, GiveElems
  <2>2. (1..h) \cup (a..b) = 1..(IF h < b THEN b ELSE h)
    BY <1>0, <1>3, MissedUnion
  <2>3. Given = 1..h
    BY <1>0 DEF MissedTo
  <2> QED BY <1>5, <2>1, <2>2, <2>3 DEF Given
<1>7. EndOfLog' = EndOfLog
  BY <1>1, LogSame
<1>8. SortedInv => SortedInv'
  <2> SUFFICES ASSUME SortedInv, EndsAtEvent' PROVE Increasing(seen)'
    BY DEF SortedInv
  <2>1. EndsAtEvent
    BY <1>1 DEF EndsAtEvent, start
  <2>2. PICK i \in 1..Len(log) : log[i] = position_to_catch_up_to
    BY <2>1 DEF EndsAtEvent, CatchingUp
  <2>3. i = m
    BY <2>2, AtTarget
  <2>4. m > 0 /\ log[m] = position_to_catch_up_to
    BY <1>3, <2>2, <2>3
  <2>5. f < m /\ h = f
    BY <1>0, <1>3, <2>4 DEF MissedTo
  <2>6. Increasing(seen)
    BY <2>1 DEF SortedInv
  <2>7. CASE a = f + 1
    <3>1. \A x \in Elems(seen), y \in Elems(ev) : x < y
      BY <1>3, <1>5, <1>6, <2>5, <2>7 DEF Given
    <3> QED BY <1>5, <2>6, <3>1, GiveIncreasing DEF Increasing
  <2>8. CASE a = f /\ f > 0 /\ f <= b
    <3>1. Len(ev) > 0 /\ Len(<<>>) = 0
      BY <1>3, <1>5, <2>8
    <3>2. ev # <<>> /\ ev[1] \in Elems(seen) /\ \A x \in Elems(seen) : x <= ev[1]
      BY <1>3, <1>5, <1>6, <2>5, <2>8, <3>1 DEF Given
    <3> QED BY <1>5, <2>6, <3>2, GiveIncreasing DEF Increasing
  <2> QED BY <1>3, <2>7, <2>8
<1>9. ASSUME NEW g \in 0..Len(log), NEW j \in 0..Len(log), g <= j, MissedTo(m, n, g, j)'
      PROVE  CatchingUp(m, n)'
  <2>1. (\E x \in 0..Len(log), y \in 0..Len(log) : x <= y /\ MissedTo(m, n, x, y))'
    BY <1>1, <1>9
  <2> QED BY <1>1, <2>1 DEF CatchingUp, start
<1>10. CASE ~(a <= b)
  <2>1. a = f + 1 /\ b = f /\ f <= m /\ h = f /\ Splits(slice.from, f)
    BY <1>3, <1>10
  <2>2. Given' = 1..h /\ current_position' = slice.from
    BY <1>0, <1>1, <1>2, <1>6, <1>10, <2>1 DEF MissedTo
  <2>3. Splits(slice.from, f)' /\ Answered(f)'
    <3>1. slice'.from = slice.from
      BY <1>1, <2>2
    <3> QED BY <1>1, <1>7, <2>1, <3>1 DEF Splits, Answered
  <2>4. MissedTo(m, n, f, h)'
    <3>1. current_position' = current_position /\ slice'.from = current_position'
      BY <1>1, <1>2, <1>10
    <3> QED BY <1>0, <1>1, <2>1, <2>2, <2>3, <3>1 DEF MissedTo
  <2> QED BY <1>0, <1>8, <1>9, <2>4
<1>11. CASE a <= b
  <2>0. b \in 1..Len(log) /\ b \in 0..Len(log) /\ b > 0 /\ f <= b
    BY <1>3, <1>11
  <2>1. PICK j \in 0..Len(log) : j = IF h < b THEN b ELSE h
    BY <1>3
  <2>2. b <= j /\ Given' = 1..j
    BY <1>3, <1>6, <2>1
  <2>3. current_position' = log[b] /\ slice'.from = log[b]
    BY <1>1, <1>2, <1>11
  <2>4. Splits(slice.from, b - 1)' /\ Answered(b - 1)'
    <3>1. Splits(log[b], b - 1)
      BY <2>0, SplitsAfterEvent
    <3> QED BY <1>1, <1>7, <2>3, <3>1 DEF Splits, Answered
  <2>5. ASSUME NEW i \in a..b PROVE log[i] # position_to_catch_up_to
    BY <1>1, <1>2 DEF StopIndex
  <2>6. b <= m => j = b /\ n = m + 1 /\ After(position_to_catch_up_to, log[b])
    <3> SUFFICES ASSUME b <= m PROVE j = b /\ n = m + 1 /\ After(position_to_catch_up_to, log[b])
      OBVIOUS
    <3>1. f <= m
      BY <1>3, <2>0
    <3>2. h = f /\ n = m + 1
      BY <1>0, <3>1 DEF MissedTo
    <3>3. b \in a..b
      BY <1>11
    <3>4. After(position_to_catch_up_to, log[b])
      BY <2>0, <2>5, <3>3, BeforeTarget
    <3> QED BY <1>3, <2>0, <2>1, <3>2, <3>4
  <2>7. m < b => n <= j + 1
    <3> SUFFICES ASSUME m < b PROVE n <= j + 1
      OBVIOUS
    <3>1. CASE f <= m
      <4>1. n = m + 1
        BY <1>0, <3>1 DEF MissedTo
      <4> QED BY <1>3, <2>2, <4>1
    <3>2. CASE m < f
      <4>1. n <= h + 1
        BY <1>0, <3>2 DEF MissedTo
      <4> QED BY <1>3, <2>1, <4>1
    <3> QED BY <1>3, <3>1, <3>2
  <2>8. m > 0 /\ log[m] = position_to_catch_up_to => b < m
    <3> SUFFICES ASSUME m > 0, log[m] = position_to_catch_up_to, ~(b < m) PROVE FALSE
      OBVIOUS
    <3>1. f < m
      BY <1>0 DEF MissedTo
    <3>2. m \in a..b
      BY <1>3, <3>1
    <3> QED BY <2>5, <3>2
  <2>9. MissedTo(m, n, b, j)'
    <3>1. /\ b <= m => /\ j = b /\ n = m + 1
                       /\ After(position_to_catch_up_to', current_position')
                       /\ current_position' = slice'.from
      BY <1>1, <2>3, <2>6
    <3>2. m > 0 /\ log'[m] = position_to_catch_up_to' => b < m
      BY <1>1, <2>8
    <3>3. slice'.status # "read"
      BY <1>1
    <3> QED BY <2>0, <2>2, <2>4, <2>7, <3>1, <3>2, <3>3 DEF MissedTo
  <2> QED BY <1>8, <1>9, <2>0, <2>2, <2>9
<1> QED BY <1>8, <1>10, <1>11

\* The batch of missed events with the confirmed one: the events before it are
\* given, and then those of the buffer.
LEMMA LastMissed ==
  ASSUME TypeInv, LogInv, HandleLastMissedSlice, NEW m \in 0..Len(log),
         NEW n \in 1..(Len(log) + 1), Confirmed(position_to_catch_up_to, m), CatchingUp(m, n),
         \A i \in 1..Len(event_buffer) : event_buffer[i] = n + i - 1
  PROVE  /\ \E l \in 1..(Len(log) + 1) :
              /\ \A i \in 1..Len(event_buffer') : event_buffer'[i] = l + i - 1
              /\ l + Len(event_buffer') = n + Len(event_buffer)
              /\ GoneLive(m, l)'
         /\ SortedInv => SortedInv'
         /\ event_buffer = <<>> => event_buffer' = <<>>
<1>0. PICK f \in 0..Len(log), h \in 0..Len(log) : f <= h /\ MissedTo(m, n, f, h)
  BY DEF CatchingUp
<1>1. slice.status = "read" /\ UNCHANGED <<position_to_catch_up_to, log>>
  BY DEF HandleLastMissedSlice
<1>2. PICK a \in Nat \ {0}, b \in Nat : a = slice.first /\ b = slice.last
  BY DEF TypeInv, Slice
<1>3. /\ Len(log) \in Nat /\ m \in Nat /\ f \in Nat /\ h \in Nat /\ b <= Len(log) /\ a <= b + 1
      /\ \/ a = f + 1 /\ f <= m /\ h = f /\ Splits(slice.from, f)
         \/ a = f /\ f > 0 /\ f <= b
  BY <1>0, <1>1, <1>2, MissedBatch
<1>4. PICK i \in a..b :
        /\ log[i] = position_to_catch_up_to
        /\ read_subscription_events(Batch(a, i - 1), event_buffer, drains)
        /\ current_position' = PositionAfter(event_buffer, log[i])
  BY <1>2 DEF HandleLastMissedSlice, StopIndex
<1>5. i = m
  <2>1. i \in 1..Len(log)
    BY <1>3
  <2> QED BY <1>4, <2>1, AtTarget
<1>6. m > 0 /\ log[m] = position_to_catch_up_to /\ m \in 1..Len(log) /\ a <= m
  BY <1>3, <1>4, <1>5
<1>7. f < m /\ h = f /\ n = m + 1
  <2>1. f < m
    BY <1>0, <1>6 DEF MissedTo
  <2>2. f <= m
    BY <1>3, <2>1
  <2> QED BY <1>0, <2>1, <2>2 DEF MissedTo
<1>8. PICK z \in Nat : z = m - 1
  BY <1>3, <1>6
<1>9. a <= z + 1 /\ z <= Len(log) /\ a..z \subseteq Index
  BY <1>3, <1>6, <1>8 DEF Index
<1>10. PICK before : before = Batch(a, z)
  OBVIOUS
<1>11. /\ before \in Seq(Index) /\ Elems(before) = a..z /\ Increasing(before)
       /\ Len(before) = z - a + 1 /\ \A j \in 1..(z - a + 1) : before[j] = a + j - 1
  <2>1. before \in Seq(Index)
    BY <1>9, <1>10, BatchFacts
  <2>2. Elems(before) = a..z /\ Increasing(before)
    BY <1>9, <1>10, BatchElems
  <2>3. Len(before) = z - a + 1 /\ \A j \in 1..(z - a + 1) : before[j] = a + j - 1
    BY <1>9, <1>10, BatchNumbers
  <2> QED BY <2>1, <2>2, <2>3
<1>12. read_subscription_events(before, event_buffer, drains)
  BY <1>4, <1>5, <1>8, <1>10
<1>13. Given = 1..f /\ Given \cup Elems(before) = (1..(n - 1)) \ {m}
  <2>1. Given = 1..f
    BY <1>0, <1>7 DEF MissedTo
  <2>2. (1..f) \cup (a..z) = 1..(IF f < z THEN z ELSE f)
    BY <1>3, <1>9, MissedUnion
  <2>3. 1..(IF f < z THEN z ELSE f) = (1..(n - 1)) \ {m}
    BY <1>3, <1>6, <1>7, <1>8
  <2> QED BY <1>11, <2>1, <2>2, <2>3
<1>14. log[m] \in Position /\ ~After(position_to_catch_up_to, log[m])
  <2>1. log[m] \in Position /\ log[m].commit \in Nat /\ log[m].prepare \in Nat
    BY <1>6, EndType
  <2> QED BY <1>6, <2>1 DEF After
<1>15. \/ \A x \in Given, y \in Elems(before) : x < y
       \/ before # <<>> /\ before[1] \in Given /\ \A x \in Given : x <= before[1]
  <2>1. CASE a = f + 1
    BY <1>3, <1>8, <1>11, <1>13, <2>1
  <2>2. CASE a = f /\ f > 0
    <3>1. 1 \in 1..(z - a + 1) /\ a + 1 - 1 = f
      BY <1>3, <1>7, <1>8, <2>2
    <3>2. before[1] = f /\ Len(before) > 0 /\ Len(<<>>) = 0
      BY <1>3, <1>11, <2>2, <3>1
    <3>3. before # <<>>
      BY <3>2
    <3>4. before[1] \in Given /\ \A x \in Given : x <= before[1]
      BY <1>3, <1>13, <2>2, <3>2
    <3> QED BY <3>3, <3>4
  <2> QED BY <1>3, <2>1, <2>2
<1>16. /\ \E l \in 1..(Len(log) + 1) :
            /\ \A j \in 1..Len(event_buffer') : event_buffer'[j] = l + j - 1
            /\ l + Len(event_buffer') = n + Len(event_buffer)
            /\ GoneLive(m, l)'
       /\ Increasing(seen) => Increasing(seen')
  <2>1. event_buffer \in Seq(Index) /\ m < n
    BY <1>3, <1>7 DEF TypeInv
  <2>2. UNCHANGED <<log, position_to_catch_up_to>>
    BY <1>1
  <2>3. current_position' = PositionAfter(event_buffer, log[m])
    BY <1>4, <1>5
  <2>4. PICK buffer, others, pos : buffer = event_buffer /\ others = drains /\ pos = log[m]
    OBVIOUS
  <2>5. /\ buffer \in Seq(Index) /\ before \in Seq(Index) /\ pos \in Position
        /\ read_subscription_events(before, buffer, others)
        /\ current_position' = PositionAfter(buffer, pos)
        /\ ~After(position_to_catch_up_to, pos)
        /\ \A j \in 1..Len(buffer) : buffer[j] = n + j - 1
        /\ m > 0 /\ log[m] = position_to_catch_up_to
        /\ Given \cup Elems(before) = (1..(n - 1)) \ {m}
    BY <1>6, <1>11, <1>12, <1>13, <1>14, <2>1, <2>3, <2>4
  <2>6. /\ \E l \in 1..(Len(log) + 1) :
             /\ \A j \in 1..Len(event_buffer') : event_buffer'[j] = l + j - 1
             /\ l + Len(event_buffer') = n + Len(buffer)
             /\ GoneLive(m, l)'
        /\ (/\ Increasing(seen) /\ Increasing(before)
            /\ \/ \A x \in Given, y \in Elems(before) : x < y
               \/ before # <<>> /\ before[1] \in Given /\ \A x \in Given : x <= before[1])
            => Increasing(seen')
    BY <2>1, <2>2, <2>5, DrainOrder
  <2> QED BY <1>11, <1>15, <2>4, <2>6
<1>17. SortedInv => SortedInv'
  <2>1. EndsAtEvent' = EndsAtEvent
    BY <1>1 DEF EndsAtEvent, start
  <2>2. Increasing(seen') = Increasing(seen)'
    BY DEF Increasing
  <2> QED BY <1>16, <2>1, <2>2 DEF SortedInv
<1>18. event_buffer = <<>> => event_buffer' = <<>>
  BY <1>12, DrainNothing
<1> QED BY <1>16, <1>17, <1>18

LEMMA ConfirmedSame ==
  ASSUME UNCHANGED <<position_to_catch_up_to, log>>, NEW m,
         Confirmed(position_to_catch_up_to, m)
  PROVE  Confirmed(position_to_catch_up_to, m)'
<1>1. EndOfLog' = EndOfLog
  BY LogSame
<1> QED BY <1>1 DEF Confirmed

\* A batch of missed events, in a subscription that is up or was stopped.
LEMMA MissedOrder ==
  ASSUME TypeInv, LogInv, OrderInv, SortedInv, HandleMissedSlice \/ HandleLastMissedSlice
  PROVE  OrderInv' /\ SortedInv' /\ UNCHANGED position_to_catch_up_to
<1>0. /\ slice.loop = "missed"
      /\ UNCHANGED <<handle_guard, subscriptions_map, phase, inbox, outbox, server, pushed, log,
                     position_to_catch_up_to>>
  BY DEF HandleMissedSlice, HandleLastMissedSlice
<1>1. Live \/ Stopped
  BY <1>0 DEF OrderInv, Reading, Waiting
<1>2. CASE Live
  <2>1. PICK m \in 0..Len(log), n \in 1..(Len(log) + 1) :
          /\ Confirmed(position_to_catch_up_to, m) /\ CatchingUp(m, n)
          /\ \A i \in 1..Len(event_buffer) : event_buffer[i] = n + i - 1
          /\ Numbered(inbox, server, pushed, n + Len(event_buffer), 1)
    BY <1>0, <1>2 DEF Live
  <2>2. ~handle_guard /\ subscriptions_map /\ phase # "idle" /\ outbox = <<>>
    BY <1>2 DEF Live
  <2>3. Confirmed(position_to_catch_up_to, m)'
    BY <1>0, <2>1, ConfirmedSame
  <2>4. CASE HandleMissedSlice
    <3>1. CatchingUp(m, n)' /\ SortedInv'
      BY <2>1, <2>4, MissedKept
    <3>2. slice'.loop = "missed" /\ UNCHANGED event_buffer
      BY <2>4 DEF HandleMissedSlice, catch_up_events
    <3>3. Live'
      BY <1>0, <2>1, <2>2, <2>3, <3>1, <3>2 DEF Live
    <3> QED BY <1>0, <3>1, <3>3 DEF OrderInv
  <2>5. CASE HandleLastMissedSlice
    <3>1. /\ \E l \in 1..(Len(log) + 1) :
               /\ \A i \in 1..Len(event_buffer') : event_buffer'[i] = l + i - 1
               /\ l + Len(event_buffer') = n + Len(event_buffer)
               /\ GoneLive(m, l)'
          /\ SortedInv'
      BY <2>1, <2>5, LastMissed
    <3>2. PICK l \in 1..(Len(log) + 1) :
               /\ \A i \in 1..Len(event_buffer') : event_buffer'[i] = l + i - 1
               /\ Numbered(inbox', server', pushed', l + Len(event_buffer'), 1)
               /\ GoneLive(m, l)'
      BY <1>0, <2>1, <3>1
    <3>3. slice'.loop = "none"
      BY <2>5 DEF HandleLastMissedSlice, NoRead
    <3>4. Live'
      BY <1>0, <2>1, <2>2, <2>3, <3>2, <3>3 DEF Live
    <3> QED BY <1>0, <3>1, <3>4 DEF OrderInv
  <2> QED BY <2>4, <2>5
<1>3. CASE Stopped
  <2>1. PICK m \in 0..Len(log), n \in 1..(Len(log) + 1) :
          Confirmed(position_to_catch_up_to, m) /\ CatchingUp(m, n)
    BY <1>0, <1>3 DEF Stopped
  <2>2. handle_guard /\ phase # "idle" /\ event_buffer = <<>>
    BY <1>3 DEF Stopped
  <2>3. Confirmed(position_to_catch_up_to, m)'
    BY <1>0, <2>1, ConfirmedSame
  <2>4. CASE HandleMissedSlice
    <3>1. CatchingUp(m, n)' /\ SortedInv'
      BY <2>1, <2>4, MissedKept
    <3>2. slice'.loop = "missed" /\ UNCHANGED event_buffer
      BY <2>4 DEF HandleMissedSlice, catch_up_events
    <3>3. Stopped'
      BY <1>0, <2>1, <2>2, <2>3, <3>1, <3>2 DEF Stopped
    <3> QED BY <1>0, <3>1, <3>3 DEF OrderInv
  <2>5. CASE HandleLastMissedSlice
    <3>0. Len(event_buffer) = 0
      BY <2>2
    <3>1. \A i \in 1..Len(event_buffer) : event_buffer[i] = n + i - 1
      BY <3>0
    <3>2. /\ \E l \in 1..(Len(log) + 1) : GoneLive(m, l)'
          /\ SortedInv' /\ event_buffer' = <<>>
      BY <2>1, <2>2, <2>5, <3>1, LastMissed
    <3>3. PICK l \in 1..(Len(log) + 1) : GoneLive(m, l)'
      BY <3>2
    <3>4. l - 1 \in 0..Len(log)
      BY EndType
    <3>5. Skipping(m, l - 1)'
      BY <3>3 DEF GoneLive
    <3>6. slice'.loop = "none"
      BY <2>5 DEF HandleLastMissedSlice, NoRead
    <3>7. (\E x \in 0..Len(log), y \in 0..Len(log) : Skipping(x, y))'
      BY <1>0, <2>1, <3>4, <3>5
    <3>8. Stopped'
      BY <1>0, <2>2, <3>2, <3>6, <3>7 DEF Stopped
    <3> QED BY <1>0, <3>2, <3>8 DEF OrderInv
  <2> QED BY <2>4, <2>5
<1> QED BY <1>1, <1>2, <1>3

\* A posted call of read_subscription_events.
LEMMA PostedOrder ==
  ASSUME TypeInv, LogInv, OrderInv, SortedInv, RunPostedDrain
  PROVE  OrderInv' /\ SortedInv' /\ UNCHANGED position_to_catch_up_to
<1>0. /\ drains > 0 /\ read_subscription_events(<<>>, event_buffer, drains - 1)
      /\ current_position' = PositionAfter(event_buffer, current_position)
      /\ UNCHANGED <<handle_guard, subscriptions_map, phase, inbox, outbox, server, pushed, log,
                     position_to_catch_up_to, slice>>
  BY DEF RunPostedDrain
<1>1. drains # 0
  BY <1>0
<1>2. CASE Live
  <2>1. PICK m \in 0..Len(log), n \in 1..(Len(log) + 1) :
          /\ Confirmed(position_to_catch_up_to, m) /\ GoneLive(m, n) /\ slice.loop = "none"
          /\ \A i \in 1..Len(event_buffer) : event_buffer[i] = n + i - 1
          /\ Numbered(inbox, server, pushed, n + Len(event_buffer), 1)
    BY <1>1, <1>2 DEF Live, CatchingUp
  <2>2. ~handle_guard /\ subscriptions_map /\ phase # "idle" /\ outbox = <<>>
    BY <1>2 DEF Live
  <2>3. PICK buffer, others : buffer = event_buffer /\ others = drains - 1
    OBVIOUS
  <2>4. /\ \E l \in 1..(Len(log) + 1) :
             /\ \A i \in 1..Len(event_buffer') : event_buffer'[i] = l + i - 1
             /\ l + Len(event_buffer') = n + Len(buffer)
             /\ GoneLive(m, l)'
        /\ Increasing(seen) => Increasing(seen')
    <3>1. /\ buffer \in Seq(Index) /\ \A i \in 1..Len(buffer) : buffer[i] = n + i - 1
          /\ read_subscription_events(<<>>, buffer, others)
          /\ current_position' = PositionAfter(buffer, current_position)
      BY <1>0, <2>1, <2>3 DEF TypeInv
    <3>2. UNCHANGED <<position_to_catch_up_to, log>>
      BY <1>0
    <3> QED BY <2>1, <3>1, <3>2, LiveAtOnce
  <2>5. PICK l \in 1..(Len(log) + 1) :
             /\ \A i \in 1..Len(event_buffer') : event_buffer'[i] = l + i - 1
             /\ Numbered(inbox', server', pushed', l + Len(event_buffer'), 1)
             /\ GoneLive(m, l)'
    BY <1>0, <2>1, <2>3, <2>4
  <2>6. Confirmed(position_to_catch_up_to, m)'
    BY <1>0, <2>1, ConfirmedSame
  <2>7. Live'
    BY <1>0, <2>1, <2>2, <2>5, <2>6 DEF Live
  <2>8. SortedInv'
    <3>1. EndsAtEvent' = EndsAtEvent
      BY <1>0 DEF EndsAtEvent, start
    <3>2. Increasing(seen') = Increasing(seen)'
      BY DEF Increasing
    <3> QED BY <2>4, <3>1, <3>2 DEF SortedInv
  <2> QED BY <1>0, <2>7, <2>8 DEF OrderInv
<1>3. CASE Stopped
  <2>1. handle_guard /\ phase # "idle" /\ event_buffer = <<>> /\ slice.loop = "none"
    BY <1>1, <1>3 DEF Stopped, CatchingUp
  <2>2. event_buffer' = <<>> /\ Give(<<>> \o <<>>)
    BY <1>0, <2>1, DrainNothing
  <2>3. seen' = seen
    <3>1. <<>> \o <<>> = <<>> /\ seen \in Seq(Index)
      BY DEF TypeInv
    <3>2. seen' = seen \o <<>>
      BY <2>2, <3>1 DEF Give
    <3> QED BY <3>1, <3>2, ConcatEmptySeq
  <2>4. PICK m \in 0..Len(log), h \in 0..Len(log) : Skipping(m, h)
    BY SeenCovered
  <2>5. Skipping(m, h)'
    BY <1>0, <2>3, <2>4 DEF Skipping, Given
  <2>6. Stopped'
    BY <1>0, <2>1, <2>2, <2>5 DEF Stopped
  <2>7. SortedInv'
    BY <1>0, <2>3, SortedUnchanged
  <2> QED BY <1>0, <2>6, <2>7 DEF OrderInv
<1> QED BY <1>1, <1>2, <1>3 DEF OrderInv, Reading, Waiting

\* The server's answer to the subscription, and what it sends later.
LEMMA ServerOrder ==
  ASSUME TypeInv, LogInv, OrderInv, ServerReceives \/ ServerPushesEvent \/ ServerDrops
  PROVE  OrderInv'
<1>0. UNCHANGED <<seen, current_position, position_to_catch_up_to, event_buffer, drains, slice,
                  handle_guard, subscriptions_map, phase, log>>
  BY DEF ServerReceives, ServerPushesEvent, ServerDrops, catchVars
<1>a. /\ \A m, n : CatchingUp(m, n) <=> CatchingUp(m, n)'
      /\ \A m, n : GoneLive(m, n) <=> GoneLive(m, n)'
      /\ \A pos, k : Splits(pos, k) <=> Splits(pos, k)'
      /\ \A pos, m : Confirmed(pos, m) <=> Confirmed(pos, m)'
  <2>1. UNCHANGED posVars
    BY <1>0 DEF posVars
  <2> QED BY <2>1, PosUnchanged
<1>1. Given' = Given
  BY <1>0 DEF Given
<1>2. CASE handle_guard
  BY <1>0, <1>2, StoppedStep
<1>3. /\ inbox \in Seq(Package) /\ Len(inbox) \in Nat /\ pushed \in Int /\ Len(log) \in Nat
      /\ Len(event_buffer) \in Nat /\ EndOfLog \in Nat
  BY EndType DEF TypeInv
<1>4. CASE ~handle_guard /\ ServerReceives
  <2>1. outbox # <<>>
    BY <1>4 DEF ServerReceives
  <2>2. Waiting
    BY <1>4, <2>1 DEF OrderInv, Reading, Live, Stopped
  <2>3. PICK k \in 0..Len(log) : Given = 1..k /\ Splits(current_position, k) /\ Answering(k)
    BY <2>2 DEF Waiting
  <2>4. server = "none" /\ inbox = <<>> /\ outbox = <<Pkg("subscribe", 0)>>
    BY <2>1, <2>3 DEF Answering
  <2>5. outbox' = <<>> /\ Head(outbox).cmd = "subscribe"
    BY <1>4, <2>4 DEF ServerReceives, Pkg
  <2>6. ASSUME server' = "active", pushed' = Len(log),
               inbox' = Append(inbox, Pkg("confirmation", EndOfLog - 1))
        PROVE  Answering(k)'
    <3>1. inbox' = <<Pkg("confirmation", EndOfLog - 1)>>
      BY <2>4, <2>6
    <3>2. /\ Len(inbox') = 1 /\ inbox' # <<>> /\ inbox'[1].cmd = "confirmation"
          /\ inbox'[1].arg = EndOfLog - 1
      BY <3>1 DEF Pkg
    <3>3. PICK l \in Nat : l = Len(log)
      BY <1>3
    <3>4. Numbered(inbox', server', pushed', l + 1, 2)
      <4>1. \A i \in 2..1 : FALSE
        OBVIOUS
      <4>2. l = l + 1 + 1 - 2
        OBVIOUS
      <4> QED BY <2>6, <3>2, <3>3, <4>1, <4>2 DEF Numbered
    <3>5. Confirmed(position(EndOfLog - 1, EndOfLog - 1), l)
      <4>1. PICK e \in Nat : e = EndOfLog
        BY <1>3
      <4>2. position(e - 1, e - 1).commit = e - 1 /\ position(e - 1, e - 1).prepare = e - 1
        BY DEF position
      <4>3. e - 1 < e
        OBVIOUS
      <4>4. l > 0 => log[l].commit = e - 1
        <5> SUFFICES ASSUME l > 0 PROVE log[l].commit = e - 1
          OBVIOUS
        <5>1. log # <<>> /\ l \in 1..Len(log)
          BY <3>3
        <5>2. log[l].commit \in Nat /\ e = log[l].commit + 1
          BY <3>3, <4>1, <5>1, EndType DEF EndOfLog
        <5> QED BY <5>2
      <4>5. \A i \in (l + 1)..Len(log) : FALSE
        BY <3>3
      <4> QED BY <4>1, <4>2, <4>3, <4>4, <4>5 DEF Confirmed
    <3>6. Confirmed(position(inbox[1].arg, inbox[1].arg), l)'
      <4>1. PICK pos : pos = position(EndOfLog - 1, EndOfLog - 1)
        OBVIOUS
      <4>2. Confirmed(pos, l)'
        BY <1>a, <3>5, <4>1
      <4>3. pos = position(inbox'[1].arg, inbox'[1].arg)
        BY <3>2, <4>1
      <4> QED BY <4>2, <4>3 DEF Confirmed
    <3>7. l \in k..Len(log')
      BY <1>0, <1>3, <3>3
    <3> QED BY <2>5, <3>2, <3>4, <3>6, <3>7 DEF Answering
  <2>7. ASSUME server' = "ended",
               \/ \E c \in Refusal : inbox' = Append(inbox, Pkg(c, 0))
               \/ inbox' = Append(inbox, Pkg("dropped", "access_denied"))
        PROVE  Answering(k)'
    <3>1. \/ \E c \in Refusal : inbox' = <<Pkg(c, 0)>>
          \/ inbox' = <<Pkg("dropped", "access_denied")>>
      BY <2>4, <2>7
    <3> QED BY <2>5, <2>7, <3>1 DEF Answering
  <2>8. Answering(k)'
    BY <1>4, <2>5, <2>6, <2>7 DEF ServerReceives
  <2>9. (\E j \in 0..Len(log) : Given = 1..j /\ Splits(current_position, j) /\ Answering(j))'
    <3>1. Splits(current_position, k)'
      BY <1>0, <1>a, <2>3
    <3> QED BY <1>0, <1>1, <2>3, <2>8, <3>1
  <2>10. Waiting'
    BY <1>0, <2>2, <2>9 DEF Waiting
  <2> QED BY <2>10 DEF OrderInv
<1>5. ASSUME ~handle_guard, server = "active", UNCHANGED outbox,
             \A n \in Int, k \in {1, 2} :
               k <= Len(inbox) + 1 /\ Numbered(inbox, server, pushed, n, k) =>
                 Numbered(inbox', server', pushed', n, k),
             inbox' # <<>>, inbox # <<>> => inbox'[1] = inbox[1]
      PROVE  OrderInv'
  <2>1. CASE Waiting
    <3>1. PICK k \in 0..Len(log) : Given = 1..k /\ Splits(current_position, k) /\ Answering(k)
      BY <2>1 DEF Waiting
    <3>2. /\ outbox = <<>> /\ inbox # <<>> /\ inbox[1].cmd = "confirmation"
          /\ \E m \in k..Len(log) :
               /\ Confirmed(position(inbox[1].arg, inbox[1].arg), m)
               /\ Numbered(inbox, server, pushed, m + 1, 2)
      BY <1>5, <3>1 DEF Answering
    <3>3. PICK m \in k..Len(log) :
               /\ Confirmed(position(inbox[1].arg, inbox[1].arg), m)
               /\ Numbered(inbox, server, pushed, m + 1, 2)
      BY <3>2
    <3>4. 2 <= Len(inbox) + 1 /\ m + 1 \in Int
      BY <1>3, <3>2, EmptySeq
    <3>5. Numbered(inbox', server', pushed', m + 1, 2)
      BY <1>5, <3>3, <3>4
    <3>6. Confirmed(position(inbox[1].arg, inbox[1].arg), m)'
      <4>1. PICK pos : pos = position(inbox[1].arg, inbox[1].arg)
        OBVIOUS
      <4>2. Confirmed(pos, m)'
        BY <1>a, <3>3, <4>1
      <4>3. pos = position(inbox'[1].arg, inbox'[1].arg)
        BY <1>5, <3>2, <4>1
      <4> QED BY <4>2, <4>3 DEF Confirmed
    <3>7. inbox'[1].cmd = "confirmation" /\ outbox' = <<>> /\ m \in k..Len(log')
      BY <1>0, <1>5, <3>2
    <3>8. Answering(k)'
      BY <1>5, <3>5, <3>6, <3>7 DEF Answering
    <3>9. (\E j \in 0..Len(log) : Given = 1..j /\ Splits(current_position, j) /\ Answering(j))'
      <4>1. Splits(current_position, k)'
        BY <1>0, <1>a, <3>1
      <4> QED BY <1>0, <1>1, <3>1, <3>8, <4>1
    <3>10. Waiting'
      BY <1>0, <2>1, <3>9 DEF Waiting
    <3> QED BY <3>10 DEF OrderInv
  <2>2. CASE Live
    <3>1. PICK m \in 0..Len(log), n \in 1..(Len(log) + 1) :
            /\ Confirmed(position_to_catch_up_to, m)
            /\ \A i \in 1..Len(event_buffer) : event_buffer[i] = n + i - 1
            /\ Numbered(inbox, server, pushed, n + Len(event_buffer), 1)
            /\ \/ slice.loop = "missed" /\ CatchingUp(m, n)
               \/ slice.loop = "none" /\ GoneLive(m, n)
      BY <2>2 DEF Live
    <3>2. Numbered(inbox', server', pushed', n + Len(event_buffer'), 1)
      <4>1. n + Len(event_buffer) \in Int /\ 1 <= Len(inbox) + 1
        BY <1>3
      <4>2. Numbered(inbox', server', pushed', n + Len(event_buffer), 1)
        BY <1>5, <3>1, <4>1
      <4> QED BY <1>0, <4>2
    <3>3. Confirmed(position_to_catch_up_to, m)'
      BY <1>0, <3>1, ConfirmedSame
    <3>4. \/ slice'.loop = "missed" /\ CatchingUp(m, n)'
          \/ slice'.loop = "none" /\ GoneLive(m, n)'
      BY <1>0, <1>a, <3>1
    <3>5. Live'
      BY <1>0, <1>5, <2>2, <3>1, <3>2, <3>3, <3>4 DEF Live
    <3> QED BY <3>5 DEF OrderInv
  <2> QED BY <1>5, <2>1, <2>2 DEF OrderInv, Reading, Stopped
<1>6. CASE ~handle_guard /\ ServerPushesEvent
  <2>1. /\ server = "active" /\ server' = "active" /\ pushed' = pushed + 1
        /\ inbox' = Append(inbox, Pkg("event", pushed + 1)) /\ UNCHANGED outbox
        /\ pushed < Len(log)
    BY <1>6 DEF ServerPushesEvent
  <2>2. PICK p : p = Pkg("event", pushed + 1)
    OBVIOUS
  <2>3. p \in Package /\ p.cmd = "event" /\ p.arg = pushed + 1
    <3>1. pushed \in 0..Len(log)
      BY DEF TypeInv
    <3>2. pushed + 1 \in Index
      BY <1>3, <2>1, <3>1 DEF Index
    <3> QED BY <2>2, <3>2 DEF Pkg, Package
  <2>4. inbox' # <<>> /\ (inbox # <<>> => inbox'[1] = inbox[1])
    BY <1>3, <2>1, <2>2, <2>3, AppendProperties, EmptySeq
  <2>5. \A n \in Int, k \in {1, 2} :
          k <= Len(inbox) + 1 /\ Numbered(inbox, server, pushed, n, k) =>
            Numbered(inbox', server', pushed', n, k)
    BY <1>3, <2>1, <2>2, <2>3, NumberedAppend
  <2> QED BY <1>5, <1>6, <2>1, <2>4, <2>5
<1>7. CASE ~handle_guard /\ ServerDrops
  <2>1. /\ server = "active" /\ server' = "ended" /\ pushed' = pushed /\ UNCHANGED outbox
        /\ \E r \in {"access_denied", "other"} : inbox' = Append(inbox, Pkg("dropped", r))
    BY <1>7 DEF ServerDrops
  <2>2. PICK r \in DropReason : inbox' = Append(inbox, Pkg("dropped", r))
    BY <2>1 DEF DropReason
  <2>3. PICK p : p = Pkg("dropped", r)
    OBVIOUS
  <2>4. p \in Package /\ p.cmd = "dropped"
    BY <2>3 DEF Pkg, Package
  <2>5. inbox' # <<>> /\ (inbox # <<>> => inbox'[1] = inbox[1])
    BY <1>3, <2>2, <2>3, <2>4, AppendProperties, EmptySeq
  <2>6. \A n \in Int, k \in {1, 2} :
          k <= Len(inbox) + 1 /\ Numbered(inbox, server, pushed, n, k) =>
            Numbered(inbox', server', pushed', n, k)
    BY <1>3, <2>1, <2>2, <2>3, <2>4, NumberedAppend
  <2> QED BY <1>5, <1>7, <2>1, <2>5, <2>6
<1> QED BY <1>2, <1>4, <1>6, <1>7

\* The server's answer to a read, or its failure.
LEMMA ReadAnswered ==
  ASSUME TypeInv, ServerReads \/ ReadFails, NEW b \in 0..Len(log), Splits(slice.from, b)
  PROVE  Answered(b)' /\ (b < Len(log) /\ slice'.status = "read" => slice'.first <= slice'.last)
<1>0. slice \in Slice /\ Len(log) \in Nat /\ b \in Nat /\ b <= Len(log)
  <2>1. Len(log) \in Nat
    BY EndType
  <2> QED BY <2>1 DEF TypeInv
<1>1. CASE ReadFails
  <2>1. slice'.status = "failed"
    BY <1>0, <1>1 DEF ReadFails, Slice
  <2> QED BY <2>1 DEF Answered
<1>2. CASE ServerReads
  <2>1. PICK last : last = b + ReadBatchSize
    OBVIOUS
  <2>2. slice' = [slice EXCEPT !.status = "read", !.first = b + 1,
                               !.last = IF last < Len(log) THEN last ELSE Len(log)]
    <3>1. Cardinality({i \in 1..Len(log) : After(slice.from, log[i])}) = b
      BY SplitsCount
    <3> QED BY <1>2, <2>1, <3>1 DEF ServerReads
  <2>3. slice'.first = b + 1 /\ slice'.last = IF last < Len(log) THEN last ELSE Len(log)
    BY <1>0, <2>2 DEF Slice
  <2>4. b < Len(log) => slice'.first <= slice'.last
    BY <1>0, <2>1, <2>3, AllBatchAssumption
  <2> QED BY <2>3, <2>4 DEF Answered
<1> QED BY <1>1, <1>2

LEMMA ReadsOrder ==
  ASSUME TypeInv, OrderInv, ServerReads \/ ReadFails
  PROVE  OrderInv'
<1>0. /\ slice'.loop = slice.loop /\ slice'.from = slice.from
      /\ UNCHANGED <<seen, current_position, position_to_catch_up_to, event_buffer, drains,
                     handle_guard, subscriptions_map, phase, inbox, outbox, server, pushed, log>>
  <2>1. slice \in Slice
    BY DEF TypeInv
  <2>2. slice'.loop = slice.loop /\ slice'.from = slice.from
    BY <2>1 DEF ServerReads, ReadFails, Slice
  <2> QED BY <2>2 DEF ServerReads, ReadFails, baseVars
<1>1. EndOfLog' = EndOfLog /\ Given' = Given /\ Len(log) \in Nat
  BY <1>0, LogSame, EndType DEF Given
<1>2. /\ \A pos, k : Splits(pos, k) => Splits(pos, k)'
      /\ \A pos, k : Confirmed(pos, k) => Confirmed(pos, k)'
      /\ \A m, h : Skipping(m, h) => Skipping(m, h)'
  BY <1>0, <1>1 DEF Splits, Confirmed, Skipping
<1>3. \A m, n : GoneLive(m, n) => GoneLive(m, n)'
  BY <1>0, <1>2 DEF GoneLive
<1>4. ASSUME NEW m \in 0..Len(log), NEW n, CatchingUp(m, n) PROVE CatchingUp(m, n)'
  <2>1. PICK f \in 0..Len(log), h \in 0..Len(log) : f <= h /\ MissedTo(m, n, f, h)
    BY <1>4 DEF CatchingUp
  <2>2. ASSUME MissedTo(m, n, f, h)' PROVE CatchingUp(m, n)'
    <3>1. (\E x \in 0..Len(log), y \in 0..Len(log) : x <= y /\ MissedTo(m, n, x, y))'
      BY <1>0, <2>1, <2>2
    <3> QED BY <1>0, <1>4, <3>1 DEF CatchingUp, start
  <2>3. CASE f <= m /\ Splits(slice.from, f)
    <3>1. Answered(f)' /\ Splits(slice'.from, f)
      BY <1>0, <2>3, ReadAnswered
    <3>2. Splits(slice.from, f)'
      BY <1>0, <1>1, <3>1 DEF Splits
    <3>3. MissedTo(m, n, f, h)'
      BY <1>0, <1>1, <2>1, <2>3, <3>1, <3>2 DEF MissedTo
    <3> QED BY <2>2, <3>3
  <2>4. CASE f > 0 /\ Splits(slice.from, f - 1)
    <3>1. PICK e \in 0..Len(log) : e = f - 1
      BY <1>1, <2>4
    <3>2. e < Len(log)
      BY <1>1, <3>1
    <3>3. /\ Answered(e)' /\ (slice'.status = "read" => slice'.first <= slice'.last)
          /\ Splits(slice'.from, e)
      BY <1>0, <2>4, <3>1, <3>2, ReadAnswered
    <3>4. Splits(slice.from, e)'
      BY <1>0, <1>1, <3>3 DEF Splits
    <3>5. MissedTo(m, n, f, h)'
      BY <1>0, <1>1, <2>1, <2>4, <3>1, <3>3, <3>4 DEF MissedTo
    <3> QED BY <2>2, <3>5
  <2> QED BY <2>1, <2>3, <2>4 DEF MissedTo
<1>5. Reading => Reading'
  <2> SUFFICES ASSUME Reading PROVE Reading'
    OBVIOUS
  <2>1. PICK k \in 0..Len(log) :
          /\ Given = 1..k /\ Splits(current_position, k)
          /\ slice.loop = "initial" => slice.from = current_position /\ Answered(k)
    BY DEF Reading
  <2>2. slice.loop = "initial" => Answered(k)'
    BY <2>1, ReadAnswered
  <2>3. Splits(current_position, k)'
    BY <1>0, <1>2, <2>1
  <2> QED BY <1>0, <1>1, <2>1, <2>2, <2>3 DEF Reading
<1>6. Waiting => Waiting'
  BY <1>0, <1>1, <1>2 DEF Waiting, Answering
<1>7. Live => Live'
  BY <1>0, <1>2, <1>3, <1>4 DEF Live
<1>8. Stopped => Stopped'
  BY <1>0, <1>2, <1>4 DEF Stopped
<1> QED BY <1>5, <1>6, <1>7, <1>8 DEF OrderInv

\* Someone writes an event.
LEMMA WrittenOrder ==
  ASSUME TypeInv, TypeInv', OrderInv, SortedInv, CallInv, Written
  PROVE  /\ OrderInv' /\ SortedInv'
         /\ position_to_catch_up_to'.commit < EndOfLog'
<1>0. UNCHANGED <<seen, current_position, position_to_catch_up_to, event_buffer, drains, slice,
                  handle_guard, subscriptions_map, phase, inbox, outbox, server, pushed>>
  BY DEF Written, baseVars, catchVars
<1>1. Longer
  BY WrittenLonger
<1>2. /\ Len(log) \in Nat /\ Len(log') = Len(log) + 1
      /\ 0..Len(log) \subseteq 0..Len(log') /\ 1..(Len(log) + 1) \subseteq 1..(Len(log') + 1)
      /\ \A i \in 1..Len(log) : log'[i] = log[i]
      /\ EndOfLog \in Nat /\ EndOfLog' \in Nat /\ EndOfLog < EndOfLog'
      /\ position_to_catch_up_to \in [commit : Int, prepare : Int]
      /\ position_to_catch_up_to.commit < EndOfLog
      /\ Given' = Given
  <2>1. Len(log) \in Nat
    BY EndType
  <2>2. Len(log') = Len(log) + 1
    BY <1>1 DEF Longer
  <2>3. 0..Len(log) \subseteq 0..Len(log') /\ 1..(Len(log) + 1) \subseteq 1..(Len(log') + 1)
    BY <2>1, <2>2
  <2> QED BY <1>0, <1>1, <2>1, <2>2, <2>3 DEF Longer, CallInv, TypeInv, Given
<1>3. ASSUME NEW pos \in Position, NEW k \in 0..Len(log), Splits(pos, k) PROVE Splits(pos, k)'
  BY <1>1, <1>3, SplitsLonger
<1>4. ASSUME NEW pos \in [commit : Int, prepare : Int], NEW m \in 0..Len(log), Confirmed(pos, m)
      PROVE  Confirmed(pos, m)'
  BY <1>1, <1>4, ConfirmedLonger
<1>5. ASSUME NEW m \in 0..Len(log), m > 0 PROVE log'[m] = log[m]
  <2>1. m \in 1..Len(log)
    BY <1>2, <1>5
  <2> QED BY <1>2, <2>1
<1>6. ASSUME NEW m \in 0..Len(log), NEW h, Skipping(m, h) PROVE Skipping(m, h)'
  BY <1>0, <1>2, <1>5, <1>6 DEF Skipping
<1>7. ASSUME NEW m \in 0..Len(log), NEW n, GoneLive(m, n) PROVE GoneLive(m, n)'
  BY <1>0, <1>6, <1>7 DEF GoneLive
<1>8. ASSUME NEW m \in 0..Len(log), NEW n, CatchingUp(m, n) PROVE CatchingUp(m, n)'
  <2>1. PICK f \in 0..Len(log), h \in 0..Len(log) : f <= h /\ MissedTo(m, n, f, h)
    BY <1>8 DEF CatchingUp
  <2>2. slice.from \in Position /\ slice' = slice
    BY <1>0 DEF TypeInv, Slice
  <2>3. PICK from \in Position : from = slice.from
    BY <2>2
  <2>4. Splits(slice.from, f) => Splits(slice.from, f)'
    <3>1. Splits(from, f) => Splits(from, f)'
      BY <1>3
    <3> QED BY <2>2, <2>3, <3>1 DEF Splits
  <2>5. f > 0 /\ Splits(slice.from, f - 1) => Splits(slice.from, f - 1)'
    <3> SUFFICES ASSUME f > 0, Splits(slice.from, f - 1) PROVE Splits(slice.from, f - 1)'
      OBVIOUS
    <3>1. PICK e \in 0..Len(log) : e = f - 1
      BY <1>2
    <3>2. Splits(from, e)'
      BY <1>3, <2>3, <3>1
    <3> QED BY <2>2, <2>3, <3>1, <3>2 DEF Splits
  <2>6. MissedTo(m, n, f, h)'
    BY <1>0, <1>2, <1>5, <2>1, <2>4, <2>5 DEF MissedTo, Answered
  <2>7. (\E x \in 0..Len(log), y \in 0..Len(log) : x <= y /\ MissedTo(m, n, x, y))'
    BY <1>2, <2>1, <2>6
  <2> QED BY <1>0, <1>8, <2>7 DEF CatchingUp, start
<1>9. Reading => Reading'
  <2> SUFFICES ASSUME Reading PROVE Reading'
    OBVIOUS
  <2>1. PICK k \in 0..Len(log) :
          /\ Given = 1..k /\ Splits(current_position, k)
          /\ slice.loop = "initial" => slice.from = current_position /\ Answered(k)
    BY DEF Reading
  <2>2. Splits(current_position, k)'
    <3>1. PICK pos \in Position : pos = current_position
      BY DEF TypeInv
    <3>2. Splits(pos, k)'
      BY <1>3, <2>1, <3>1
    <3> QED BY <1>0, <3>1, <3>2 DEF Splits
  <2> QED BY <1>0, <1>2, <2>1, <2>2 DEF Reading, Answered
<1>10. Waiting => Waiting'
  <2> SUFFICES ASSUME Waiting PROVE Waiting'
    OBVIOUS
  <2>1. PICK k \in 0..Len(log) : Given = 1..k /\ Splits(current_position, k) /\ Answering(k)
    BY DEF Waiting
  <2>2. Splits(current_position, k)'
    <3>1. PICK pos \in Position : pos = current_position
      BY DEF TypeInv
    <3>2. Splits(pos, k)'
      BY <1>3, <2>1, <3>1
    <3> QED BY <1>0, <3>1, <3>2 DEF Splits
  <2>3. ASSUME inbox # <<>>, inbox[1].cmd = "confirmation",
               NEW m \in k..Len(log), Confirmed(position(inbox[1].arg, inbox[1].arg), m)
        PROVE  Confirmed(position(inbox[1].arg, inbox[1].arg), m)' /\ m \in k..Len(log')
    <3>1. inbox[1].arg \in Int
      <4>1. inbox \in Seq(Package) /\ 1 \in 1..Len(inbox)
        BY <2>3, EmptySeq DEF TypeInv
      <4>2. inbox[1] \in Package
        BY <4>1, ElementOfSeq
      <4> QED BY <2>3, <4>2 DEF Package, Refusal
    <3>2. PICK pos \in [commit : Int, prepare : Int] : pos = position(inbox[1].arg, inbox[1].arg)
      BY <3>1 DEF position
    <3>3. m \in 0..Len(log) /\ m \in k..Len(log')
      BY <1>2
    <3>4. Confirmed(pos, m)'
      BY <1>4, <2>3, <3>2, <3>3
    <3>5. pos = position(inbox'[1].arg, inbox'[1].arg)
      BY <1>0, <3>2
    <3> QED BY <3>3, <3>4, <3>5 DEF Confirmed
  <2>4. Answering(k)'
    <3>1. CASE /\ outbox = <<>> /\ inbox # <<>> /\ inbox[1].cmd = "confirmation"
               /\ \E m \in k..Len(log) :
                    /\ Confirmed(position(inbox[1].arg, inbox[1].arg), m)
                    /\ Numbered(inbox, server, pushed, m + 1, 2)
      <4>1. PICK m \in k..Len(log) :
                    /\ Confirmed(position(inbox[1].arg, inbox[1].arg), m)
                    /\ Numbered(inbox, server, pushed, m + 1, 2)
        BY <3>1
      <4>2. Confirmed(position(inbox[1].arg, inbox[1].arg), m)' /\ m \in k..Len(log')
        BY <2>3, <3>1, <4>1
      <4>3. Numbered(inbox', server', pushed', m + 1, 2)
        BY <1>0, <4>1
      <4> QED BY <1>0, <3>1, <4>2, <4>3 DEF Answering
    <3> QED BY <1>0, <2>1, <3>1 DEF Answering
  <2>5. (\E j \in 0..Len(log) : Given = 1..j /\ Splits(current_position, j) /\ Answering(j))'
    BY <1>2, <2>1, <2>2, <2>4
  <2> QED BY <1>0, <2>5 DEF Waiting
<1>11. ASSUME NEW m \in 0..Len(log), Confirmed(position_to_catch_up_to, m)
       PROVE  Confirmed(position_to_catch_up_to, m)'
  <2>1. PICK pos \in [commit : Int, prepare : Int] : pos = position_to_catch_up_to
    BY <1>2
  <2>2. Confirmed(pos, m)'
    BY <1>4, <1>11, <2>1
  <2> QED BY <1>0, <2>1, <2>2 DEF Confirmed
<1>12. Live => Live'
  BY <1>0, <1>2, <1>7, <1>8, <1>11 DEF Live
<1>13. Stopped => Stopped'
  BY <1>0, <1>2, <1>6, <1>8, <1>11 DEF Stopped
<1>14. SortedInv'
  <2> SUFFICES ASSUME EndsAtEvent' PROVE EndsAtEvent
    BY <1>0 DEF SortedInv, Increasing
  <2> SUFFICES ASSUME After(position_to_catch_up_to, start)
               PROVE  \E i \in 1..Len(log) : log[i] = position_to_catch_up_to
    BY DEF EndsAtEvent
  <2>1. PICK i \in 1..Len(log') : log'[i] = position_to_catch_up_to
    BY <1>0 DEF EndsAtEvent, start
  <2>2. i \in 1..Len(log) \/ i = Len(log) + 1
    BY <1>2
  <2>3. CASE i = Len(log) + 1
    <3>1. position_to_catch_up_to.commit \in {EndOfLog, EndOfLog + 1}
      BY <1>1, <2>1, <2>3 DEF Longer
    <3> QED BY <1>2, <3>1
  <2> QED BY <1>2, <2>1, <2>2, <2>3
<1>15. position_to_catch_up_to'.commit < EndOfLog'
  BY <1>0, <1>2
<1> QED BY <1>9, <1>10, <1>12, <1>13, <1>14, <1>15 DEF OrderInv

\* A package, whoever it is handed to.
LEMMA PackageOrder ==
  ASSUME TypeInv, LogInv, OrderInv, SortedInv, CallInv, HandlePackage
  PROVE  OrderInv' /\ SortedInv' /\ position_to_catch_up_to'.commit < EndOfLog'
<1>0. inbox # <<>> /\ inbox' = Tail(inbox) /\ UNCHANGED <<server, pushed, log>>
  BY DEF HandlePackage, TakePackage
<1>1. EndOfLog' = EndOfLog /\ position_to_catch_up_to.commit < EndOfLog
  BY <1>0, LogSame DEF CallInv
<1>2. CASE /\ AnswerUnsubscribe \/ IgnorePackage
           /\ UNCHANGED <<current_position, position_to_catch_up_to, event_buffer, slice, drains>>
  <2>1. UNCHANGED <<handle_guard, seen>> /\ (phase' = phase \/ phase' # "idle")
    BY <1>2 DEF AnswerUnsubscribe, IgnorePackage, EraseAndDrop
  <2>2. handle_guard
    <3> SUFFICES ASSUME ~handle_guard PROVE FALSE
      OBVIOUS
    <3>1. ~operations_map
      BY DEF CallInv
    <3>2. ~subscriptions_map
      BY <1>2, <3>1 DEF AnswerUnsubscribe, IgnorePackage
    <3> QED BY <1>0, <3>2 DEF OrderInv, Reading, Waiting, Live, Stopped
  <2>3. OrderInv'
    BY <1>0, <1>2, <2>1, <2>2, StoppedStep
  <2>4. SortedInv'
    BY <1>0, <1>2, <2>1, SortedUnchanged
  <2> QED BY <1>1, <1>2, <2>3, <2>4
<1>3. CASE /\ Dispatched
           /\ \/ Confirmation(Head(inbox)) \/ EventAppeared(Head(inbox))
              \/ BasePackage(Head(inbox))
           /\ UNCHANGED <<subscriptions_map, phase>>
  <2>1. Waiting \/ Live
    BY <1>3 DEF Dispatched, OrderInv, Reading, Stopped
  <2>2. PICK p : p = Head(inbox)
    OBVIOUS
  <2>3. /\ Confirmation(p) \/ EventAppeared(p) \/ BasePackage(p)
        /\ UNCHANGED <<subscriptions_map, phase, server, pushed, log>>
    BY <1>0, <1>3, <2>2
  <2>4. CASE Waiting
    BY <1>0, <2>2, <2>3, <2>4, WaitingPackage
  <2>5. CASE Live
    <3>1. OrderInv' /\ SortedInv' /\ UNCHANGED position_to_catch_up_to
      BY <1>0, <2>2, <2>3, <2>5, LivePackage
    <3> QED BY <1>1, <3>1
  <2> QED BY <2>1, <2>4, <2>5
<1> QED BY <1>2, <1>3 DEF HandlePackage

LEMMA OrderNext ==
  ASSUME TypeInv, TypeInv', LogInv, OrderInv, SortedInv, CallInv, [Next]_vars
  PROVE  OrderInv' /\ SortedInv' /\ position_to_catch_up_to'.commit < EndOfLog'
<1>a. ASSUME OrderInv', SortedInv', UNCHANGED <<position_to_catch_up_to, log>>
      PROVE  OrderInv' /\ SortedInv' /\ position_to_catch_up_to'.commit < EndOfLog'
  <2>1. EndOfLog' = EndOfLog
    BY <1>a, LogSame
  <2> QED BY <1>a, <2>1 DEF CallInv
<1>b. ASSUME OrderInv', UNCHANGED <<seen, position_to_catch_up_to, log>>
      PROVE  OrderInv' /\ SortedInv' /\ position_to_catch_up_to'.commit < EndOfLog'
  <2>1. SortedInv'
    BY <1>b, SortedUnchanged
  <2> QED BY <1>a, <1>b, <2>1
<1>1. CASE AsyncStart
  <2>1. Reading /\ phase = "idle"
    BY <1>1 DEF AsyncStart, OrderInv, Waiting, Live, Stopped
  <2>2. /\ slice'.loop = "initial" /\ slice'.from = current_position /\ slice'.status = "sent"
        /\ phase' = "running"
        /\ UNCHANGED <<seen, current_position, position_to_catch_up_to, event_buffer, drains,
                       handle_guard, subscriptions_map, inbox, outbox, server, pushed, log>>
    BY <1>1 DEF AsyncStart, catch_up_events
  <2>3. EndOfLog' = EndOfLog
    BY <2>2, LogSame
  <2>4. Reading'
    BY <2>1, <2>2, <2>3 DEF Reading, Given, Splits, Answered
  <2> QED BY <1>b, <2>2, <2>4 DEF OrderInv
<1>2. CASE Unsubscribe
  <2>0. /\ UNCHANGED <<seen, current_position, position_to_catch_up_to, slice, drains, log>>
        /\ subscriptions_map /\ phase' # "idle"
    BY <1>2 DEF Unsubscribe, UserUnsubscribe
  <2>1. CASE handle_guard
    <3>1. UNCHANGED <<handle_guard, event_buffer>>
      BY <1>2, <2>1 DEF Unsubscribe, UserUnsubscribe
    <3>2. OrderInv'
      BY <2>0, <2>1, <3>1, StoppedStep
    <3> QED BY <1>b, <2>0, <3>2
  <2>2. CASE ~handle_guard
    <3>1. handle_guard' = TRUE /\ event_buffer' = <<>>
      BY <1>2, <2>2 DEF Unsubscribe, UserUnsubscribe, unsubscribe
    <3>2. slice.loop # "initial"
      BY <2>0, <2>2 DEF OrderInv, Reading, Waiting, Live, Stopped
    <3>3. OrderInv'
      BY <2>0, <3>1, <3>2, StopStep
    <3> QED BY <1>b, <2>0, <3>3
  <2> QED BY <2>1, <2>2
<1>3. CASE HandleInitialSlice
  <2>1. OrderInv' /\ SortedInv' /\ UNCHANGED position_to_catch_up_to
    BY <1>3, InitialOrder
  <2>2. UNCHANGED log
    BY <1>3 DEF HandleInitialSlice
  <2> QED BY <1>a, <2>1, <2>2
<1>4. CASE HandleInitialError \/ HandleMissedError
  <2>1. /\ handle_guard' = TRUE /\ event_buffer' = <<>> /\ slice'.loop = "none"
        /\ slice.loop # "none"
        /\ UNCHANGED <<seen, current_position, position_to_catch_up_to, drains, log, phase>>
    BY <1>4 DEF HandleInitialError, HandleMissedError, unsubscribe, NoRead
  <2>2. phase # "idle"
    BY <2>1 DEF OrderInv, Reading, Waiting, Live, Stopped
  <2>3. OrderInv'
    BY <2>1, <2>2, StopStep
  <2> QED BY <1>b, <2>1, <2>3
<1>5. CASE HandleMissedSlice \/ HandleLastMissedSlice
  <2>1. OrderInv' /\ SortedInv' /\ UNCHANGED position_to_catch_up_to
    BY <1>5, MissedOrder
  <2>2. UNCHANGED log
    BY <1>5 DEF HandleMissedSlice, HandleLastMissedSlice
  <2> QED BY <1>a, <2>1, <2>2
<1>6. CASE HandlePackage
  BY <1>6, PackageOrder
<1>7. CASE RunPostedDrain
  <2>1. OrderInv' /\ SortedInv' /\ UNCHANGED position_to_catch_up_to
    BY <1>7, PostedOrder
  <2>2. UNCHANGED log
    BY <1>7 DEF RunPostedDrain
  <2> QED BY <1>a, <2>1, <2>2
<1>8. CASE BaseStep
  <2>0. /\ UNCHANGED <<seen, current_position, position_to_catch_up_to, slice, drains, server,
                       pushed, log, inbox, outbox>>
        /\ phase' = phase \/ phase' # "idle"
        /\ event_buffer' = event_buffer \/ event_buffer' = <<>>
    BY <1>8 DEF BaseStep, RunPostedDrop, EraseAndDrop, DeadlineEnds, HandleTimeout,
                ConnectionLost
  <2>1. CASE handle_guard
    <3>1. handle_guard = TRUE
      BY <2>1 DEF TypeInv
    <3>2. handle_guard' = handle_guard
      BY <1>8, <3>1 DEF BaseStep, RunPostedDrop, DeadlineEnds, HandleTimeout, ConnectionLost
    <3>3. OrderInv'
      BY <2>0, <2>1, <3>2, StoppedStep
    <3> QED BY <1>b, <2>0, <3>3
  <2>2. CASE ~handle_guard
    <3>1. ~operations_map /\ posted = <<>>
      BY <2>2 DEF CallInv
    <3>2. UNCHANGED <<event_buffer, handle_guard, subscriptions_map, phase>>
      BY <1>8, <3>1 DEF BaseStep, RunPostedDrop, DeadlineEnds, HandleTimeout, ConnectionLost
    <3>3. OrderInv'
      BY <2>0, <3>2, OrderUnchanged DEF orderVars
    <3> QED BY <1>b, <2>0, <3>3
  <2> QED BY <2>1, <2>2
<1>9. CASE Written
  BY <1>9, WrittenOrder
<1>10. CASE ServerReads \/ ReadFails
  <2>1. UNCHANGED <<seen, position_to_catch_up_to, log>>
    BY <1>10 DEF ServerReads, ReadFails, baseVars
  <2>2. OrderInv'
    BY <1>10, ReadsOrder
  <2> QED BY <1>b, <2>1, <2>2
<1>11. CASE ServerReceives \/ ServerPushesEvent \/ ServerDrops
  <2>1. UNCHANGED <<seen, position_to_catch_up_to, log>>
    BY <1>11 DEF ServerReceives, ServerPushesEvent, ServerDrops, catchVars
  <2>2. OrderInv'
    BY <1>11, ServerOrder
  <2> QED BY <1>b, <2>1, <2>2
<1>12. CASE HandleMissedDangling \/ UNCHANGED vars
  <2>1. UNCHANGED orderVars
    BY <1>12 DEF HandleMissedDangling, vars, baseVars, orderVars
  <2>2. OrderInv'
    BY <2>1, OrderUnchanged
  <2>3. UNCHANGED <<seen, position_to_catch_up_to, log>>
    BY <2>1 DEF orderVars
  <2> QED BY <1>b, <2>2, <2>3
<1> QED
  BY <1>1, <1>2, <1>3, <1>4, <1>5, <1>6, <1>7, <1>8, <1>9, <1>10, <1>11, <1>12
  DEF Next, SliceStep

\* As long as the guard is open, no request of the client's own is pending.
LEMMA PendingNext ==
  ASSUME TypeInv, OrderInv, CallInv, [Next]_vars, ~handle_guard'
  PROVE  ~operations_map' /\ posted' = <<>>
<1>1. CASE HandleInitialSlice
  <2>1. ~handle_guard /\ UNCHANGED <<operations_map, posted>>
    BY <1>1 DEF HandleInitialSlice, OrderInv, Reading, Waiting, Live, Stopped
  <2> QED BY <2>1 DEF CallInv
<1>2. CASE UNCHANGED <<handle_guard, operations_map, posted>>
  BY <1>2 DEF CallInv
<1>3. CASE Unsubscribe \/ HandleInitialError \/ HandleMissedError
  BY <1>3 DEF Unsubscribe, UserUnsubscribe, HandleInitialError, HandleMissedError, unsubscribe,
              CallInv
<1>4. CASE HandlePackage
  <2>1. ASSUME NEW p, BasePackage(p) PROVE UNCHANGED <<handle_guard, operations_map, posted>>
    BY <2>1 DEF BasePackage, BaseDropped, BaseRefused, unsubscribe
  <2>2. \A p : Confirmation(p) \/ EventAppeared(p) =>
                 UNCHANGED <<handle_guard, operations_map, posted>>
    BY DEF Confirmation, EventAppeared
  <2>3. CASE AnswerUnsubscribe \/ IgnorePackage
    BY <2>3 DEF AnswerUnsubscribe, IgnorePackage, CallInv
  <2> QED BY <1>2, <1>4, <2>1, <2>2, <2>3 DEF HandlePackage
<1>5. CASE BaseStep
  <2>1. ~handle_guard
    BY <1>5 DEF BaseStep, RunPostedDrop, DeadlineEnds, HandleTimeout, ConnectionLost
  <2>2. ~operations_map /\ posted = <<>>
    BY <2>1 DEF CallInv
  <2> QED BY <1>5, <2>2 DEF BaseStep, RunPostedDrop, DeadlineEnds, HandleTimeout, ConnectionLost
<1>6. CASE \/ AsyncStart \/ HandleMissedSlice \/ HandleLastMissedSlice \/ HandleMissedDangling
           \/ RunPostedDrain \/ Written \/ ServerReads \/ ReadFails \/ ServerReceives
           \/ ServerPushesEvent \/ ServerDrops \/ UNCHANGED vars
  <2>1. UNCHANGED <<handle_guard, operations_map, posted>>
    BY <1>6 DEF AsyncStart, HandleMissedSlice, HandleLastMissedSlice, HandleMissedDangling,
                RunPostedDrain, Written, ServerReads, ReadFails, ServerReceives,
                ServerPushesEvent, ServerDrops, baseVars, vars
  <2> QED BY <1>2, <2>1
<1> QED BY <1>1, <1>3, <1>4, <1>5, <1>6 DEF Next, SliceStep

------------------------------------------------------------------------------
(* The results.                                                             *)

LEMMA IInit == Init => IInv
<1> SUFFICES ASSUME Init PROVE IInv
  OBVIOUS
<1>1. /\ log = <<>> /\ seen = <<>> /\ event_buffer = <<>> /\ inbox = <<>> /\ outbox = <<>>
      /\ slice.loop = "none" /\ phase = "idle" /\ server = "none" /\ drains = 0
      /\ current_position = start /\ position_to_catch_up_to = NoPosition
      /\ handle_guard = FALSE /\ subscriptions_map = FALSE
      /\ operations_map = FALSE /\ posted = <<>>
  BY DEF Init, BaseInit, NoRead
<1>2. Len(log) = 0 /\ Len(seen) = 0 /\ EndOfLog = FirstPosition /\ FirstPosition \in Nat
  BY <1>1, LogAssumption DEF EndOfLog
<1>3. Given = 1..0 /\ Increasing(seen)
  BY <1>2 DEF Given, Elems, Increasing
<1>4. Splits(current_position, 0)
  BY <1>1, <1>2 DEF Splits, start, position
<1>5. Reading
  <2>1. 0 \in 0..Len(log)
    BY <1>2
  <2> QED BY <1>1, <1>3, <1>4, <2>1 DEF Reading
<1>6. CallInv
  BY <1>1, <1>2 DEF CallInv, NoPosition, position
<1> QED BY <1>3, <1>5, <1>6, LogInit DEF IInv, OrderInv, SortedInv

LEMMA INext == TypeInv /\ TypeInv' /\ IInv /\ [Next]_vars => IInv'
<1> SUFFICES ASSUME TypeInv, TypeInv', IInv, [Next]_vars PROVE IInv'
  OBVIOUS
<1>1. LogInv /\ OrderInv /\ SortedInv /\ CallInv
  BY DEF IInv
<1>2. LogInv'
  BY <1>1, LogNext
<1>3. OrderInv' /\ SortedInv' /\ position_to_catch_up_to'.commit < EndOfLog'
  BY <1>1, OrderNext
<1>4. CallInv'
  BY <1>1, <1>3, PendingNext DEF CallInv
<1> QED BY <1>2, <1>3, <1>4 DEF IInv

LEMMA Invariance == Spec => [](TypeInv /\ IInv)
<1>1. Init => TypeInv /\ IInv
  BY TypeInit, IInit
<1>2. TypeInv /\ IInv /\ [Next]_vars => (TypeInv /\ IInv)'
  BY TypeNext, INext
<1> QED BY <1>1, <1>2, PTL DEF Spec

\* Whatever is written while the subscription reads, goes live or ends, and
\* wherever its batches end, no event before one that was given is left out but
\* the one at the confirmed position.
THEOREM NothingElseSkipped == Spec => []OnlyConfirmedEventSkipped
<1>1. ASSUME TypeInv, IInv PROVE OnlyConfirmedEventSkipped
  <2>1. PICK m \in 0..Len(log), h \in 0..Len(log) : Skipping(m, h)
    BY <1>1, SeenCovered DEF IInv
  <2> SUFFICES ASSUME NEW i \in 1..Len(log), NEW j \in 1..Len(seen), i < seen[j],
                      \A x \in 1..Len(seen) : seen[x] # i
               PROVE  log[i] = position_to_catch_up_to
    BY DEF OnlyConfirmedEventSkipped
  <2>2. i \notin Given /\ seen[j] \in Given
    BY DEF Given, Elems
  <2>3. Len(log) \in Nat
    BY <1>1, EndType
  <2>4. seen[j] \in 1..h
    BY <2>1, <2>2 DEF Skipping
  <2>5. i \in 1..h
    BY <2>3, <2>4
  <2> QED BY <2>1, <2>2, <2>5 DEF Skipping
<1> QED BY <1>1, Invariance, PTL

\* If the confirmed position is that of an event, the user sees the events in
\* the order of the log, across batches, missed events and live events.
THEOREM EventsInOrder == Spec => []InOrder
<1>1. ASSUME TypeInv, IInv PROVE InOrder
  <2> SUFFICES ASSUME EndsAtEvent, NEW i \in 1..(Len(seen) - 1) PROVE seen[i] < seen[i + 1]
    BY DEF InOrder
  <2>1. Increasing(seen)
    BY <1>1 DEF IInv, SortedInv
  <2>2. Len(seen) \in Nat
    BY <1>1 DEF TypeInv
  <2>3. i \in 1..Len(seen) /\ i + 1 \in 1..Len(seen) /\ i < i + 1
    BY <2>2
  <2> QED BY <2>1, <2>3 DEF Increasing
<1> QED BY <1>1, Invariance, PTL
==============================================================================

--------------------- MODULE CatchupSubscription_proofs ----------------------
(****************************************************************************)
(* Proofs about a catch-up subscription to a stream, for any first event,   *)
(* batch size, live queue size and length of the stream.                    *)
(****************************************************************************)
EXTENDS CatchupSubscription, SequenceTheorems, TLAPS

USE DEF guardVars, pendingVars, channelVars, serverVars

------------------------------------------------------------------------------
(* Types.                                                                   *)

Package ==
  [cmd : {"confirmation", "event"}, arg : Int]
    \cup [cmd : Refusal, arg : {0}]
    \cup [cmd : {"dropped"}, arg : DropReason]

Slice == [loop : {"none", "initial", "missed"}, from : Int, count : Int,
          status : {"none", "sent", "more", "end_of_stream", "failed"}, upto : Int]

TypeInv ==
  /\ seen \in Seq(Int)
  /\ event_buffer \in Seq(Int)
  /\ current_event_number \in Int
  /\ last_event_number \in Int
  /\ slice \in Slice
  /\ slice.from <= slice.upto
  /\ stream \in Int
  /\ pushed \in Int
  /\ inbox \in Seq(Package)

typeVars == <<seen, event_buffer, current_event_number, last_event_number, slice,
              stream, pushed, inbox>>

LEMMA TypeUnchanged == TypeInv /\ UNCHANGED typeVars => TypeInv'
  BY DEF TypeInv, typeVars

\* The events of an answer.
LEMMA SliceFacts ==
  ASSUME TypeInv
  PROVE  /\ SliceEvents \in Seq(Int)
         /\ Len(SliceEvents) = slice.upto - slice.from
         /\ \A i \in 1..Len(SliceEvents) : SliceEvents[i] = slice.from + i - 1
<1> DEFINE n == slice.upto - slice.from
<1>1. n \in Nat /\ slice.from \in Int
  BY DEF TypeInv, Slice
<1>2. SliceEvents \in [1..n -> Int]
  BY <1>1 DEF SliceEvents
<1>3. SliceEvents \in Seq(Int) /\ Len(SliceEvents) = n
  BY <1>1, <1>2
<1>4. \A i \in 1..n : SliceEvents[i] = slice.from + i - 1
  BY DEF SliceEvents
<1> QED BY <1>3, <1>4

\* What read_subscription_events does, in terms of the number of events given.
LEMMA DrainFacts ==
  ASSUME TypeInv, NEW buffer \in Seq(Int), NEW others, read_subscription_events(buffer, others)
  PROVE  \E n \in 0..Len(buffer) :
           /\ seen' \in Seq(Int)
           /\ seen' = seen \o SubSeq(buffer, 1, n)
           /\ SubSeq(buffer, 1, n) \in Seq(Int)
           /\ Len(SubSeq(buffer, 1, n)) = n
           /\ \A i \in 1..n : SubSeq(buffer, 1, n)[i] = buffer[i]
           /\ event_buffer' \in Seq(Int)
           /\ Len(event_buffer') = Len(buffer) - n
           /\ \A i \in 1..(Len(buffer) - n) : event_buffer'[i] = buffer[n + i]
           /\ current_event_number' = current_event_number + n
<1>1. PICK n \in 0..Len(buffer) :
        /\ seen' = seen \o SubSeq(buffer, 1, n)
        /\ event_buffer' = SubSeq(buffer, n + 1, Len(buffer))
        /\ current_event_number' = current_event_number + n
  <2> DEFINE k == IF Len(buffer) < MaxLiveQueueSize THEN Len(buffer) ELSE MaxLiveQueueSize
  <2>1. /\ seen' = seen \o SubSeq(buffer, 1, k)
        /\ event_buffer' = SubSeq(buffer, k + 1, Len(buffer))
        /\ current_event_number' = current_event_number + k
    BY DEF read_subscription_events
  <2>2. k \in 0..Len(buffer)
    BY LiveQueueAssumption
  <2> QED BY <2>1, <2>2
<1>2. Len(buffer) \in Nat /\ n \in Int /\ n + 1 \in Int /\ Len(buffer) \in Int
  OBVIOUS
<1>3. \A i \in 1..Len(buffer) : buffer[i] \in Int
  BY ElementOfSeq
<1>4. (\A i \in 1..n : buffer[i] \in Int) /\ (\A i \in (n + 1)..Len(buffer) : buffer[i] \in Int)
  BY <1>2, <1>3
<1>5. /\ SubSeq(buffer, 1, n) \in Seq(Int)
      /\ Len(SubSeq(buffer, 1, n)) = IF 1 <= n THEN n - 1 + 1 ELSE 0
      /\ \A i \in 1..(n - 1 + 1) : SubSeq(buffer, 1, n)[i] = buffer[1 + i - 1]
  BY <1>2, <1>4, SubSeqProperties
<1>6. /\ event_buffer' \in Seq(Int)
      /\ Len(event_buffer') = IF n + 1 <= Len(buffer) THEN Len(buffer) - (n + 1) + 1 ELSE 0
      /\ \A i \in 1..(Len(buffer) - (n + 1) + 1) : event_buffer'[i] = buffer[(n + 1) + i - 1]
  BY <1>1, <1>2, <1>4, SubSeqProperties
<1>7. Len(SubSeq(buffer, 1, n)) = n /\ \A i \in 1..n : SubSeq(buffer, 1, n)[i] = buffer[i]
  BY <1>2, <1>5
<1>8. /\ Len(event_buffer') = Len(buffer) - n
      /\ \A i \in 1..(Len(buffer) - n) : event_buffer'[i] = buffer[n + i]
  BY <1>2, <1>6
<1>9. seen' \in Seq(Int)
  BY <1>1, <1>5, ConcatProperties DEF TypeInv
<1> QED BY <1>1, <1>5, <1>6, <1>7, <1>8, <1>9

LEMMA TypeInit == Init => TypeInv
  BY FromAssumption, StreamAssumption DEF Init, BaseInit, NoRead, NoNumber, TypeInv, Slice

\* A package handled by the subscription itself.
LEMMA PackageTypes ==
  ASSUME TypeInv, inbox # <<>>,
         \/ Confirmation(Head(inbox)) \/ EventAppeared(Head(inbox))
         \/ BasePackage(Head(inbox))
  PROVE  /\ seen' \in Seq(Int) /\ event_buffer' \in Seq(Int)
         /\ current_event_number' \in Int /\ last_event_number' \in Int
         /\ slice' \in Slice /\ slice'.from <= slice'.upto
<1> PICK p : p = Head(inbox)
  OBVIOUS
<1>0. p \in Package
  BY HeadTailProperties DEF TypeInv
<1>1. CASE Confirmation(p)
  <2>0. p.arg \in Int
    BY <1>0, <1>1 DEF Confirmation, Package, Refusal
  <2>1. UNCHANGED <<seen, current_event_number>>
    BY <1>1 DEF Confirmation
  <2>2. event_buffer' \in Seq(Int)
    <3>1. event_buffer' = event_buffer \/ event_buffer' = <<>>
      BY <1>1 DEF Confirmation
    <3>2. <<>> \in Seq(Int)
      OBVIOUS
    <3> QED BY <3>1, <3>2, Zenon DEF TypeInv
  <2>3. last_event_number' \in Int
    BY <1>1, <2>0 DEF Confirmation, TypeInv
  <2>4. slice' \in Slice /\ slice'.from <= slice'.upto
    BY <1>1, <2>0 DEF Confirmation, catch_up_events, TypeInv, Slice
  <2> QED BY <2>1, <2>2, <2>3, <2>4 DEF TypeInv
<1>2. CASE EventAppeared(p)
  <2>0. p.arg \in Int
    BY <1>0, <1>2 DEF EventAppeared, Package, Refusal
  <2>1. UNCHANGED <<last_event_number, slice>>
    BY <1>2 DEF EventAppeared
  <2>2. CASE event_buffer' = Append(event_buffer, p.arg) /\ UNCHANGED <<seen, current_event_number>>
    BY <2>0, <2>1, <2>2, AppendProperties DEF TypeInv
  <2>3. CASE read_subscription_events(<<p.arg>>, drains)
    <3>1. <<p.arg>> \in Seq(Int)
      BY <2>0
    <3>2. /\ seen' \in Seq(Int) /\ event_buffer' \in Seq(Int)
          /\ \E n \in 0..Len(<<p.arg>>) : current_event_number' = current_event_number + n
      BY <2>3, <3>1, DrainFacts
    <3> QED BY <2>1, <3>2 DEF TypeInv
  <2> QED BY <1>2, <2>2, <2>3 DEF EventAppeared
<1>3. CASE BasePackage(p)
  <2>1. UNCHANGED <<seen, current_event_number, last_event_number, slice>>
    BY <1>3 DEF BasePackage
  <2>2. event_buffer' \in Seq(Int)
    BY <1>3 DEF BasePackage, TypeInv
  <2> QED BY <2>1, <2>2 DEF TypeInv
<1> QED BY <1>1, <1>2, <1>3

LEMMA TypeNext == TypeInv /\ [Next]_vars => TypeInv'
<1> SUFFICES ASSUME TypeInv, [Next]_vars PROVE TypeInv'
  OBVIOUS
<1>0. \A p \in Package : Append(inbox, p) \in Seq(Package)
  BY AppendProperties DEF TypeInv
<1>1. CASE AsyncStart
  BY <1>1, BatchAssumption DEF AsyncStart, catch_up_events, TypeInv, Slice
<1>2. CASE Unsubscribe
  <2>1. event_buffer' \in Seq(Int)
    BY <1>2 DEF Unsubscribe, TypeInv
  <2> QED BY <1>2, <2>1 DEF Unsubscribe, UserUnsubscribe, TypeInv
<1>3. CASE HandleInitialSlice
  <2>1. /\ seen' \in Seq(Int) /\ Len(SliceEvents) \in Int
        /\ current_event_number' = current_event_number + Len(SliceEvents)
    BY <1>3, SliceFacts, ConcatProperties DEF HandleInitialSlice, TypeInv
  <2>2. slice' \in Slice /\ slice'.from <= slice'.upto
    BY <1>3, <2>1, BatchAssumption
    DEF HandleInitialSlice, do_async_start, NoRead, catch_up_events, TypeInv, Slice
  <2> QED BY <1>3, <2>1, <2>2 DEF HandleInitialSlice, TypeInv
<1>4. CASE HandleInitialError \/ HandleMissedError
  <2>1. NoRead \in Slice /\ NoRead.from <= NoRead.upto /\ <<>> \in Seq(Int)
    BY DEF NoRead, Slice
  <2>2. /\ event_buffer' = <<>> /\ slice' = NoRead
        /\ UNCHANGED <<seen, inbox, current_event_number, last_event_number, stream, pushed>>
    BY <1>4 DEF HandleInitialError, HandleMissedError
  <2> QED BY <2>1, <2>2 DEF TypeInv
<1>5. CASE HandleMissedSlice
  <2>1. /\ seen' \in Seq(Int) /\ Len(SliceEvents) \in Int
        /\ current_event_number' = current_event_number + Len(SliceEvents)
    BY <1>5, SliceFacts, ConcatProperties DEF HandleMissedSlice, TypeInv
  <2>2. slice.count - Len(SliceEvents) \in Int
    BY <2>1 DEF TypeInv, Slice
  <2>3. slice' \in Slice /\ slice'.from <= slice'.upto
    BY <1>5, <2>1, <2>2 DEF HandleMissedSlice, NoRead, catch_up_events, TypeInv, Slice
  <2> QED BY <1>5, <2>1, <2>3 DEF HandleMissedSlice, TypeInv
<1>6. CASE HandlePackage
  <2>1. inbox # <<>> /\ inbox' \in Seq(Package) /\ UNCHANGED <<stream, pushed>>
    BY <1>6, HeadTailProperties DEF HandlePackage, TakePackage, TypeInv
  <2>2. CASE (AnswerUnsubscribe \/ IgnorePackage) /\ ~Dispatched
    <3>1. UNCHANGED <<seen, event_buffer, current_event_number, last_event_number, slice>>
      BY <1>6, <2>2 DEF HandlePackage, AnswerUnsubscribe, IgnorePackage
    <3> QED BY <2>1, <3>1 DEF TypeInv
  <2>3. CASE \/ Confirmation(Head(inbox)) \/ EventAppeared(Head(inbox))
             \/ BasePackage(Head(inbox))
    BY <2>1, <2>3, PackageTypes DEF TypeInv
  <2> QED
    BY <1>6, <2>2, <2>3 DEF HandlePackage, AnswerUnsubscribe, IgnorePackage, Dispatched
<1>7. CASE RunPostedDrain
  <2>1. /\ seen' \in Seq(Int) /\ event_buffer' \in Seq(Int)
        /\ \E n \in 0..Len(event_buffer) : current_event_number' = current_event_number + n
    <3>1. event_buffer \in Seq(Int) /\ read_subscription_events(event_buffer, drains - 1)
      BY <1>7 DEF RunPostedDrain, TypeInv
    <3> QED BY <3>1, DrainFacts
  <2> QED BY <1>7, <2>1 DEF RunPostedDrain, TypeInv
<1>8. CASE BaseStep
  <2>1. event_buffer' \in Seq(Int)
    <3>1. event_buffer' = event_buffer \/ event_buffer' = <<>>
      BY <1>8 DEF BaseStep
    <3>2. <<>> \in Seq(Int)
      OBVIOUS
    <3> QED BY <3>1, <3>2, Zenon DEF TypeInv
  <2>2. UNCHANGED <<seen, current_event_number, last_event_number, slice, stream, pushed, inbox>>
    BY <1>8 DEF BaseStep, RunPostedDrop, DeadlineEnds, HandleTimeout, ConnectionLost
  <2> QED BY <2>1, <2>2 DEF TypeInv
<1>9. CASE ServerReads
  <2>1. PICK upto \in slice.from..(slice.from + slice.count) :
          \E st \in {"end_of_stream", "more"} :
             slice' = [slice EXCEPT !.status = st, !.upto = upto]
    BY <1>9 DEF ServerReads
  <2>2. slice' \in Slice /\ slice'.from <= slice'.upto
    <3>1. PICK st \in {"end_of_stream", "more"} :
            slice' = [slice EXCEPT !.status = st, !.upto = upto]
      BY <2>1
    <3>2. /\ slice \in Slice /\ slice.from \in Int /\ slice.count \in Int
      BY DEF TypeInv, Slice
    <3>3. upto \in Int /\ slice.from <= upto
      BY <3>2
    <3> QED BY <3>1, <3>2, <3>3 DEF Slice
  <2> QED BY <1>9, <2>2 DEF ServerReads, baseVars, TypeInv
<1>10. CASE ReadFails
  BY <1>10 DEF ReadFails, baseVars, TypeInv, Slice
<1>11. CASE Written \/ HandleMissedDangling
  BY <1>11 DEF Written, HandleMissedDangling, baseVars, catchVars, TypeInv
<1>12. CASE ServerReceives
  <2>0. /\ stream \in Int
        /\ UNCHANGED <<seen, event_buffer, current_event_number, last_event_number, slice, stream>>
    BY <1>12 DEF ServerReceives, catchVars, TypeInv
  <2>1. pushed' \in Int
    BY <1>12 DEF ServerReceives, TypeInv
  <2>2. /\ \A n \in Int : Pkg("confirmation", n) \in Package
        /\ \A c \in Refusal : Pkg(c, 0) \in Package
        /\ \A r \in DropReason : Pkg("dropped", r) \in Package
    BY DEF Pkg, Package
  <2>3. /\ {stream - 1, NoNumber} \subseteq Int
        /\ {"access_denied", "not_found", "unsubscribed"} \subseteq DropReason
    BY <2>0 DEF NoNumber, DropReason
  <2>4. UNCHANGED inbox \/ \E p \in Package : inbox' = Append(inbox, p)
    BY <1>12, <2>2, <2>3, Zenon DEF ServerReceives
  <2> QED BY <1>0, <2>0, <2>1, <2>4 DEF TypeInv
<1>13. CASE ServerPushesEvent
  <2>1. Pkg("event", pushed) \in Package
    BY DEF Pkg, Package, TypeInv
  <2> QED BY <1>0, <1>13, <2>1 DEF ServerPushesEvent, catchVars, TypeInv
<1>14. CASE ServerDrops
  <2>1. \A r \in BaseReason \cup {"other"} : Pkg("dropped", r) \in Package
    BY DEF Pkg, Package, BaseReason, DropReason
  <2> QED BY <1>0, <1>14, <2>1 DEF ServerDrops, catchVars, TypeInv
<1>15. CASE UNCHANGED vars
  BY <1>15, TypeUnchanged DEF vars, baseVars, typeVars
<1> QED
  BY <1>1, <1>2, <1>3, <1>4, <1>5, <1>6, <1>7, <1>8, <1>9, <1>10, <1>11, <1>12, <1>13,
     <1>14, <1>15
  DEF Next, SliceStep

------------------------------------------------------------------------------
(* Which calls of the dropped handler are possible.                         *)

\* The error codes a subscription can end with.
ErrorCode ==
  BaseReason \cup Refusal \cup
  {"unknown", "max_operation_retries", "server_error",
   "bad_subscription_confirmation", "subscription_request_not_sent",
   "read_failed", "operation_timeout", "timer_error"}

\* Calls of dropped that were made or are on their way.
Asked == IF operations_map THEN 1 ELSE 0
Calls == Asked + Len(posted) + Len(dropped)

Holds(s, ec) == \E i \in 1..Len(s) : s[i] = ec

DropType ==
  /\ posted \in Seq(ErrorCode)
  /\ dropped \in Seq(ErrorCode)
  /\ handle_guard \in BOOLEAN
  /\ operations_map \in BOOLEAN
  /\ subscriptions_map \in BOOLEAN

\* One call once the guard is locked, none before.  A second one comes from a
\* read of missed events that failed, after which there is no such read.
CallInv ==
  /\ ~handle_guard => Calls = 0
  /\ handle_guard =>
       \/ Calls = 1
       \/ /\ Calls = 2
          /\ slice.loop = "none"
          /\ Holds(posted, "read_failed") \/ Holds(dropped, "read_failed")

\* The end empties the live buffer; a drop erases the subscription; until the
\* first reads are done there is nothing to end.
EndInv ==
  /\ handle_guard => event_buffer = <<>>
  /\ dropped # <<>> => ~subscriptions_map
  /\ phase = "idle" => slice.loop = "none"
  /\ slice.loop = "initial" \/ phase = "idle" => ~handle_guard /\ ~subscriptions_map

DropInv == DropType /\ CallInv /\ EndInv

dropVars == <<posted, dropped, handle_guard, operations_map, subscriptions_map,
              slice, event_buffer, phase>>

LEMMA DropUnchanged == DropInv /\ UNCHANGED dropVars => DropInv'
  BY DEF DropInv, DropType, CallInv, Calls, Asked, EndInv, dropVars, Holds

\* What is pending in terms of the variables.
LEMMA NoCalls ==
  ASSUME DropInv, ~handle_guard
  PROVE  ~operations_map /\ posted = <<>> /\ dropped = <<>>
<1>1. Len(posted) \in Nat /\ Len(dropped) \in Nat
  BY DEF DropInv, DropType
<1>2. ~operations_map /\ Len(posted) = 0 /\ Len(dropped) = 0
  BY <1>1 DEF DropInv, CallInv, Calls, Asked
<1> QED BY <1>2, EmptySeq DEF DropInv, DropType

\* What the operations of the base do to a sequence of error codes.
LEMMA AppendCode ==
  ASSUME NEW s \in Seq(ErrorCode), NEW ec \in ErrorCode
  PROVE  /\ Append(s, ec) \in Seq(ErrorCode)
         /\ Append(s, ec) # <<>>
         /\ Len(Append(s, ec)) = Len(s) + 1
         /\ Holds(Append(s, ec), ec)
         /\ \A c : Holds(s, c) => Holds(Append(s, ec), c)
<1>1. /\ Append(s, ec) \in Seq(ErrorCode)
      /\ Append(s, ec) # <<>>
      /\ Len(Append(s, ec)) = Len(s) + 1
      /\ \A i \in 1..Len(s) : Append(s, ec)[i] = s[i]
      /\ Append(s, ec)[Len(s) + 1] = ec
  BY AppendProperties
<1>2. Len(s) \in Nat
  OBVIOUS
<1>3. Len(s) + 1 \in 1..Len(Append(s, ec)) /\ 1..Len(s) \subseteq 1..Len(Append(s, ec))
  BY <1>1, <1>2
<1>4. Holds(Append(s, ec), ec)
  BY <1>1, <1>3 DEF Holds
<1>5. ASSUME NEW c, Holds(s, c) PROVE Holds(Append(s, ec), c)
  BY <1>1, <1>3, <1>5 DEF Holds
<1> QED BY <1>1, <1>4, <1>5

LEMMA TailCode ==
  ASSUME NEW s \in Seq(ErrorCode), s # <<>>
  PROVE  /\ Head(s) \in ErrorCode
         /\ Tail(s) \in Seq(ErrorCode)
         /\ Len(Tail(s)) = Len(s) - 1
         /\ \A c : Holds(s, c) => c = Head(s) \/ Holds(Tail(s), c)
<1>1. /\ Head(s) \in ErrorCode
      /\ Tail(s) \in Seq(ErrorCode)
      /\ Len(Tail(s)) = Len(s) - 1
      /\ \A i \in 1..Len(Tail(s)) : Tail(s)[i] = s[i + 1]
  BY HeadTailProperties
<1>2. Len(s) \in Nat /\ Head(s) = s[1]
  OBVIOUS
<1>3. ASSUME NEW c, Holds(s, c), c # Head(s) PROVE Holds(Tail(s), c)
  <2>1. PICK i \in 1..Len(s) : s[i] = c
    BY <1>3 DEF Holds
  <2>2. i # 1
    BY <1>2, <1>3, <2>1
  <2>3. i - 1 \in 1..Len(Tail(s)) /\ (i - 1) + 1 = i
    BY <1>1, <1>2, <2>1, <2>2
  <2>4. Tail(s)[i - 1] = c
    BY <1>1, <2>1, <2>3
  <2> QED BY <2>3, <2>4 DEF Holds
<1> QED BY <1>1, <1>3

\* unsubscribe(ec, dropped) called with the guard unlocked.
LEMMA UnsubscribeCalls ==
  ASSUME DropInv, ~handle_guard, NEW ec \in ErrorCode, unsubscribe(ec),
         event_buffer' = <<>>, UNCHANGED <<dropped, subscriptions_map>>,
         phase' # "idle", slice'.loop # "initial"
  PROVE  DropInv'
<1>0. ~operations_map /\ posted = <<>> /\ dropped = <<>> /\ dropped' = <<>>
  BY NoCalls
<1>1. handle_guard' = TRUE
  BY DEF unsubscribe
<1>2. Len(<<>>) = 0 /\ <<>> \in Seq(ErrorCode)
  OBVIOUS
<1>3. CASE ec = "unsubscribed"
  <2>1. operations_map' = TRUE /\ posted' = <<>>
    BY <1>0, <1>3 DEF unsubscribe
  <2>2. Calls' = 1
    BY <1>0, <1>2, <2>1 DEF Calls, Asked
  <2> QED BY <1>0, <1>1, <1>2, <2>1, <2>2 DEF DropInv, DropType, CallInv, EndInv
<1>4. CASE ec # "unsubscribed"
  <2>1. operations_map' = operations_map /\ posted' = Append(<<>>, ec)
    BY <1>0, <1>4 DEF unsubscribe
  <2>2. posted' \in Seq(ErrorCode) /\ Len(posted') = 1
    BY <1>2, <2>1, AppendCode
  <2>3. Calls' = 1
    BY <1>0, <1>2, <2>1, <2>2 DEF Calls, Asked
  <2> QED BY <1>0, <1>1, <1>2, <2>1, <2>2, <2>3 DEF DropInv, DropType, CallInv, EndInv
<1> QED BY <1>3, <1>4

\* A package handled by the subscription itself.
LEMMA PackageCalls ==
  ASSUME DropInv, Dispatched, NEW p,
         Confirmation(p) \/ EventAppeared(p) \/ BasePackage(p),
         UNCHANGED <<subscriptions_map, phase, dropped>>
  PROVE  DropInv'
<1>0. /\ ~handle_guard /\ subscriptions_map
      /\ phase # "idle" /\ slice.loop # "initial"
  BY DEF Dispatched, DropInv, EndInv
<1>1. ~operations_map /\ posted = <<>> /\ dropped = <<>>
  BY <1>0, NoCalls
<1>2. CASE Confirmation(p)
  <2>1. CASE p.arg = NoNumber
    <3>1. /\ unsubscribe("bad_subscription_confirmation")
          /\ event_buffer' = <<>> /\ UNCHANGED slice
      BY <1>2, <2>1 DEF Confirmation
    <3>2. "bad_subscription_confirmation" \in ErrorCode
      BY DEF ErrorCode
    <3> QED BY <1>0, <3>1, <3>2, UnsubscribeCalls
  <2>2. CASE p.arg # NoNumber
    <3>1. UNCHANGED <<handle_guard, operations_map, posted, event_buffer>>
      BY <1>2, <2>2 DEF Confirmation
    <3>2. slice'.loop # "initial"
      BY <1>0, <1>2, <2>2 DEF Confirmation, catch_up_events
    <3> QED BY <1>0, <1>1, <3>1, <3>2 DEF DropInv, DropType, CallInv, Calls, Asked, EndInv
  <2> QED BY <2>1, <2>2
<1>3. CASE EventAppeared(p)
  <2>1. UNCHANGED <<handle_guard, operations_map, posted, slice>>
    BY <1>3 DEF EventAppeared
  <2> QED BY <1>0, <1>1, <2>1 DEF DropInv, DropType, CallInv, Calls, Asked, EndInv
<1>4. CASE BasePackage(p)
  <2>0. UNCHANGED slice
    BY <1>4 DEF BasePackage
  <2>1. ASSUME NEW ec \in ErrorCode, unsubscribe(ec)
        PROVE  DropInv'
    <3>1. event_buffer' = <<>>
      BY <1>4, <2>1 DEF BasePackage, unsubscribe
    <3> QED BY <1>0, <2>0, <2>1, <3>1, UnsubscribeCalls
  <2>2. CASE BaseDropped(p)
    <3>1. CASE p.arg \in BaseReason
      <4>1. unsubscribe(p.arg)
        BY <2>2, <3>1 DEF BaseDropped
      <4>2. BaseReason \subseteq ErrorCode
        BY DEF ErrorCode
      <4> QED BY <2>1, <3>1, <4>1, <4>2
    <3>2. CASE p.arg \notin BaseReason
      <4>1. UNCHANGED <<handle_guard, operations_map, posted>>
        BY <2>2, <3>2 DEF BaseDropped
      <4> QED BY <1>0, <1>1, <2>0, <4>1 DEF DropInv, DropType, CallInv, Calls, Asked, EndInv
    <3> QED BY <3>1, <3>2
  <2>3. CASE BaseRefused(p)
    <3>1. RefusalError(p.cmd) \in ErrorCode
      <4>1. p.cmd \in Refusal
        BY <2>3 DEF BaseRefused
      <4> QED BY <4>1 DEF Refusal, RefusalError, ErrorCode
    <3> QED BY <2>1, <2>3, <3>1 DEF BaseRefused
  <2> QED BY <1>4, <2>2, <2>3 DEF BasePackage
<1> QED BY <1>2, <1>3, <1>4

LEMMA DropInit == Init => DropInv
<1>1. Len(<<>>) = 0 /\ <<>> \in Seq(ErrorCode)
  OBVIOUS
<1> SUFFICES ASSUME Init PROVE DropInv
  OBVIOUS
<1>2. /\ ~operations_map /\ ~handle_guard /\ ~subscriptions_map
      /\ posted = <<>> /\ dropped = <<>> /\ event_buffer = <<>>
      /\ slice.loop = "none"
  BY DEF Init, BaseInit, NoRead
<1>3. Calls = 0
  BY <1>1, <1>2 DEF Calls, Asked
<1>4. DropType
  BY <1>1 DEF Init, BaseInit, DropType
<1> QED BY <1>1, <1>2, <1>3, <1>4 DEF DropInv, CallInv, EndInv

\* A drop moves from one place to another: the count stays.
LEMMA MovedCall ==
  ASSUME DropInv, handle_guard, DropType', UNCHANGED <<handle_guard, slice, event_buffer>>,
         phase' # "idle", Calls' = Calls,
         (Holds(posted, "read_failed") \/ Holds(dropped, "read_failed")) =>
           (Holds(posted', "read_failed") \/ Holds(dropped', "read_failed")),
         dropped' # <<>> => ~subscriptions_map',
         subscriptions_map' => subscriptions_map
  PROVE  DropInv'
<1>1. Holds(posted, "read_failed")' = Holds(posted', "read_failed")
  BY DEF Holds
<1>2. Holds(dropped, "read_failed")' = Holds(dropped', "read_failed")
  BY DEF Holds
<1>3. CallInv'
  BY <1>1, <1>2 DEF DropInv, CallInv
<1> QED BY <1>3 DEF DropInv, EndInv

LEMMA DropNext == TypeInv /\ DropInv /\ [Next]_vars => DropInv'
<1> SUFFICES ASSUME TypeInv, DropInv, [Next]_vars PROVE DropInv'
  OBVIOUS
<1>0. /\ posted \in Seq(ErrorCode) /\ dropped \in Seq(ErrorCode)
      /\ Len(posted) \in Nat /\ Len(dropped) \in Nat
  BY DEF DropInv, DropType
<1>1. CASE AsyncStart
  <2>1. /\ ~handle_guard /\ ~subscriptions_map /\ phase' # "idle"
        /\ UNCHANGED <<posted, dropped, handle_guard, operations_map, subscriptions_map,
                       event_buffer>>
    BY <1>1 DEF AsyncStart, DropInv, EndInv
  <2> QED BY <2>1, NoCalls DEF DropInv, DropType, CallInv, Calls, Asked, EndInv
<1>2. CASE Unsubscribe
  <2>0. /\ phase = "running" /\ phase' = "stopping" /\ subscriptions_map
        /\ UNCHANGED <<subscriptions_map, dropped, slice>>
    BY <1>2 DEF Unsubscribe, UserUnsubscribe
  <2>1. CASE handle_guard
    <3>1. UNCHANGED <<handle_guard, operations_map, posted, event_buffer>>
      BY <1>2, <2>1 DEF Unsubscribe, UserUnsubscribe
    <3> QED BY <2>0, <2>1, <3>1 DEF DropInv, DropType, CallInv, Calls, Asked, EndInv, Holds
  <2>2. CASE ~handle_guard
    <3>1. unsubscribe("unsubscribed") /\ event_buffer' = <<>>
      BY <1>2, <2>2 DEF Unsubscribe, UserUnsubscribe
    <3>2. "unsubscribed" \in ErrorCode
      BY DEF ErrorCode, BaseReason
    <3>3. slice'.loop # "initial"
      BY <2>0 DEF DropInv, EndInv
    <3> QED BY <2>0, <2>2, <3>1, <3>2, <3>3, UnsubscribeCalls
  <2> QED BY <2>1, <2>2
<1>3. CASE HandleInitialSlice
  <2>0. /\ ~handle_guard /\ ~subscriptions_map /\ phase # "idle"
        /\ UNCHANGED <<posted, dropped, operations_map, event_buffer, phase>>
    BY <1>3 DEF HandleInitialSlice, DropInv, EndInv
  <2>1. handle_guard' = FALSE
    BY <1>3, <2>0 DEF HandleInitialSlice, do_async_start, base_async_start, DropInv, DropType
  <2>2. \/ subscriptions_map' = TRUE /\ slice'.loop = "none"
        \/ UNCHANGED subscriptions_map
    BY <1>3 DEF HandleInitialSlice, do_async_start, base_async_start, NoRead
  <2>3. DropType'
    BY <2>0, <2>1, <2>2 DEF DropInv, DropType
  <2>4. CallInv'
    <3>1. Calls' = Calls
      BY <2>0 DEF Calls, Asked
    <3> QED BY <2>0, <2>1, <3>1 DEF DropInv, CallInv
  <2>5. EndInv'
    BY <2>0, <2>1, <2>2, NoCalls DEF EndInv
  <2> QED BY <2>3, <2>4, <2>5 DEF DropInv
<1>4. CASE HandleInitialError
  <2>1. /\ ~handle_guard /\ phase' # "idle" /\ slice'.loop = "none"
        /\ UNCHANGED <<dropped, subscriptions_map>>
        /\ event_buffer' = <<>> /\ unsubscribe("subscription_request_not_sent")
    BY <1>4 DEF HandleInitialError, NoRead, DropInv, EndInv
  <2>2. "subscription_request_not_sent" \in ErrorCode
    BY DEF ErrorCode
  <2> QED BY <2>1, <2>2, UnsubscribeCalls
<1>5. CASE HandleMissedSlice
  <2>1. /\ phase # "idle" /\ slice'.loop # "initial" /\ slice.loop = "missed"
        /\ UNCHANGED <<posted, dropped, handle_guard, operations_map, subscriptions_map,
                       event_buffer, phase>>
    BY <1>5 DEF HandleMissedSlice, catch_up_events, NoRead, DropInv, EndInv
  <2> QED BY <2>1 DEF DropInv, DropType, CallInv, Calls, Asked, EndInv
<1>6. CASE HandleMissedError
  <2>0. /\ phase' # "idle" /\ slice'.loop = "none" /\ slice.loop = "missed"
        /\ UNCHANGED <<dropped, subscriptions_map>>
        /\ event_buffer' = <<>> /\ unsubscribe("read_failed")
    BY <1>6 DEF HandleMissedError, NoRead, DropInv, EndInv
  <2>1. "read_failed" \in ErrorCode
    BY DEF ErrorCode
  <2>2. CASE ~handle_guard
    BY <2>0, <2>1, <2>2, UnsubscribeCalls
  <2>3. CASE handle_guard
    <3>1. /\ posted' = Append(posted, "read_failed") /\ UNCHANGED operations_map
          /\ handle_guard' = TRUE
      BY <2>0 DEF unsubscribe
    <3>2. /\ posted' \in Seq(ErrorCode) /\ Len(posted') = Len(posted) + 1
          /\ Holds(posted, "read_failed")'
      BY <1>0, <2>1, <3>1, AppendCode DEF Holds
    <3>3. Calls = 1
      BY <2>0, <2>3 DEF DropInv, CallInv
    <3>4. Calls' = 2
      BY <1>0, <2>0, <3>1, <3>2, <3>3 DEF Calls, Asked, DropInv, DropType
    <3> QED BY <2>0, <3>1, <3>2, <3>4 DEF DropInv, DropType, CallInv, EndInv
  <2> QED BY <2>2, <2>3
<1>7. CASE HandlePackage
  <2>1. CASE AnswerUnsubscribe
    <3>0. /\ operations_map /\ operations_map' = FALSE
          /\ dropped' = Append(dropped, "unsubscribed") /\ subscriptions_map' = FALSE
          /\ phase' # "idle" /\ UNCHANGED <<handle_guard, posted>>
      BY <2>1 DEF AnswerUnsubscribe, EraseAndDrop
    <3>1. UNCHANGED <<slice, event_buffer>>
      BY <1>7, <2>1 DEF HandlePackage, AnswerUnsubscribe, Dispatched
    <3>2. handle_guard
      BY <3>0, NoCalls
    <3>3. "unsubscribed" \in ErrorCode
      BY DEF ErrorCode, BaseReason
    <3>4. /\ dropped' \in Seq(ErrorCode) /\ Len(dropped') = Len(dropped) + 1
          /\ \A c : Holds(dropped, c) => Holds(dropped', c)
      BY <1>0, <3>0, <3>3, AppendCode
    <3>5. Calls' = Calls
      BY <1>0, <3>0, <3>4 DEF Calls, Asked
    <3>6. DropType'
      BY <3>0, <3>4 DEF DropInv, DropType
    <3> QED BY <3>0, <3>1, <3>2, <3>4, <3>5, <3>6, MovedCall
  <2>2. CASE IgnorePackage
    <3>1. UNCHANGED dropVars
      BY <1>7, <2>2 DEF HandlePackage, IgnorePackage, Dispatched, AnswerUnsubscribe, dropVars
    <3> QED BY <3>1, DropUnchanged
  <2>3. CASE /\ Dispatched
             /\ \/ Confirmation(Head(inbox)) \/ EventAppeared(Head(inbox))
                \/ BasePackage(Head(inbox))
             /\ UNCHANGED <<subscriptions_map, phase, dropped>>
    BY <2>3, PackageCalls
  <2> QED BY <1>7, <2>1, <2>2, <2>3 DEF HandlePackage
<1>8. CASE RunPostedDrain
  <2>1. UNCHANGED <<posted, dropped, handle_guard, operations_map, subscriptions_map,
                    slice, phase>>
    BY <1>8 DEF RunPostedDrain
  <2>2. event_buffer = <<>> => event_buffer' = <<>>
    <3> SUFFICES ASSUME event_buffer = <<>> PROVE event_buffer' = <<>>
      OBVIOUS
    <3>1. PICK n \in Int : event_buffer' = SubSeq(event_buffer, n + 1, Len(event_buffer)) /\ n >= 0
      BY <1>8, LiveQueueAssumption DEF RunPostedDrain, read_subscription_events
    <3> QED BY <3>1, SubSeqEmpty
  <2> QED BY <2>1, <2>2 DEF DropInv, DropType, CallInv, Calls, Asked, EndInv, Holds
<1>9. CASE BaseStep
  <2>0. UNCHANGED slice
    BY <1>9 DEF BaseStep
  <2>1. CASE RunPostedDrop /\ UNCHANGED event_buffer
    <3>0. /\ posted # <<>> /\ posted' = Tail(posted)
          /\ dropped' = Append(dropped, Head(posted)) /\ subscriptions_map' = FALSE
          /\ phase' # "idle" /\ UNCHANGED <<handle_guard, operations_map, event_buffer>>
      BY <2>1 DEF RunPostedDrop, EraseAndDrop
    <3>1. handle_guard
      BY <3>0, NoCalls
    <3>2. /\ posted' \in Seq(ErrorCode) /\ Len(posted') = Len(posted) - 1
          /\ Head(posted) \in ErrorCode
          /\ \A c : Holds(posted, c) => c = Head(posted) \/ Holds(posted', c)
      BY <1>0, <3>0, TailCode
    <3>3. /\ dropped' \in Seq(ErrorCode) /\ Len(dropped') = Len(dropped) + 1
          /\ Holds(dropped', Head(posted))
          /\ \A c : Holds(dropped, c) => Holds(dropped', c)
      BY <1>0, <3>0, <3>2, AppendCode
    <3>4. Calls' = Calls
      <4>1. Asked \in Int /\ Asked' = Asked
        BY <3>0 DEF Asked
      <4> QED BY <1>0, <3>2, <3>3, <4>1 DEF Calls
    <3>5. DropType'
      BY <3>0, <3>2, <3>3 DEF DropInv, DropType
    <3>6. (Holds(posted, "read_failed") \/ Holds(dropped, "read_failed")) =>
            (Holds(posted', "read_failed") \/ Holds(dropped', "read_failed"))
      BY <3>2, <3>3
    <3> QED BY <2>0, <3>0, <3>1, <3>4, <3>5, <3>6, MovedCall
  <2>2. CASE (DeadlineEnds \/ ConnectionLost) /\ UNCHANGED event_buffer
    BY <2>0, <2>2, DropUnchanged DEF DeadlineEnds, ConnectionLost, dropVars
  <2>3. CASE /\ HandleTimeout
             /\ event_buffer' = IF operations_map THEN <<>> ELSE event_buffer
    <3>1. CASE ~operations_map
      BY <2>0, <2>3, <3>1, DropUnchanged DEF HandleTimeout, dropVars
    <3>2. CASE operations_map
      <4>0. handle_guard
        BY <3>2, NoCalls
      <4>1. /\ operations_map' = FALSE /\ handle_guard' = TRUE
            /\ UNCHANGED <<dropped, subscriptions_map, phase>>
            /\ event_buffer' = <<>>
        BY <2>3, <3>2 DEF HandleTimeout
      <4>2. PICK ec \in {"operation_timeout", "timer_error"} : posted' = Append(posted, ec)
        BY <2>3, <3>2 DEF HandleTimeout
      <4>3. ec \in ErrorCode
        BY DEF ErrorCode
      <4>4. /\ posted' \in Seq(ErrorCode) /\ Len(posted') = Len(posted) + 1
            /\ \A c : Holds(posted, c) => Holds(posted', c)
        BY <1>0, <4>2, <4>3, AppendCode
      <4>5. Calls' = Calls
        BY <1>0, <3>2, <4>1, <4>4 DEF Calls, Asked
      <4>6. DropType' /\ UNCHANGED <<handle_guard, event_buffer>>
        BY <4>0, <4>1, <4>4 DEF DropInv, DropType, EndInv
      <4>7. phase' # "idle" /\ (dropped' # <<>> => ~subscriptions_map')
        BY <4>0, <4>1 DEF DropInv, EndInv
      <4> QED BY <2>0, <4>0, <4>1, <4>4, <4>5, <4>6, <4>7, MovedCall
    <3> QED BY <3>1, <3>2
  <2> QED BY <1>9, <2>1, <2>2, <2>3 DEF BaseStep
<1>10. CASE ServerReads \/ ReadFails
  <2>1. /\ UNCHANGED <<posted, dropped, handle_guard, operations_map, subscriptions_map,
                       event_buffer, phase>>
        /\ slice'.loop = slice.loop
    BY <1>10 DEF ServerReads, ReadFails, baseVars, TypeInv, Slice
  <2> QED BY <2>1 DEF DropInv, DropType, CallInv, Calls, Asked, EndInv, Holds
<1>11. CASE Written \/ ServerReceives \/ ServerPushesEvent \/ ServerDrops \/ HandleMissedDangling
  BY <1>11, DropUnchanged DEF Written, ServerReceives, ServerPushesEvent, ServerDrops,
       HandleMissedDangling, baseVars, catchVars, dropVars
<1>12. CASE UNCHANGED vars
  BY <1>12, DropUnchanged DEF vars, baseVars, dropVars
<1> QED
  BY <1>1, <1>2, <1>3, <1>4, <1>5, <1>6, <1>7, <1>8, <1>9, <1>10, <1>11, <1>12
  DEF Next, SliceStep

LEMMA TypeInvariance == Spec => []TypeInv
  BY TypeInit, TypeNext, PTL DEF Spec

LEMMA DropInvariance == Spec => []DropInv
  BY TypeInvariance, DropInit, DropNext, PTL DEF Spec

\* However the answer to unsubscribe(), its deadline, packages that end the
\* subscription and a failing read compete, the user's dropped handler is called
\* at most twice, and twice only if a read of missed events failed.
THEOREM SecondDropIsRead == Spec => []DroppedTwiceOnlyByRead
<1>1. ASSUME DropInv PROVE DroppedTwiceOnlyByRead
  <2>1. /\ Len(posted) \in Nat /\ Len(dropped) \in Nat
        /\ Len(posted) + Len(dropped) <= Calls /\ Calls \in Int
    <3>1. Asked \in 0..1
      BY DEF Asked
    <3> QED BY <1>1, <3>1 DEF DropInv, DropType, Calls
  <2>2. Calls <= 2
    BY <1>1 DEF DropInv, DropType, CallInv
  <2>3. ASSUME Len(dropped) = 2 PROVE \E i \in 1..2 : dropped[i] = "read_failed"
    <3>1. Calls = 2 /\ Len(posted) = 0
      BY <2>1, <2>2, <2>3 DEF Calls, Asked
    <3>2. Holds(posted, "read_failed") \/ Holds(dropped, "read_failed")
      BY <1>1, <3>1 DEF DropInv, DropType, CallInv
    <3> QED BY <2>3, <3>1, <3>2 DEF Holds
  <2> QED BY <2>1, <2>2, <2>3 DEF DroppedTwiceOnlyByRead
<1> QED BY <1>1, DropInvariance, PTL

------------------------------------------------------------------------------
(* The numbers of the events given to the user.                             *)

\* No event is missing.
Straight(t) == \A i \in 1..Len(t) : t[i] = FromEvent + i - 1

\* No event is missing but the one numbered gap.
Bent(t, gap) ==
  /\ FromEvent <= gap
  /\ \A i \in 1..Len(t) :
       t[i] = IF FromEvent + i - 1 < gap THEN FromEvent + i - 1 ELSE FromEvent + i

\* The packages of a box from place k on are events numbered from n; the last
\* one may be the drop that ended the server's side.
Numbered(box, side, next, n, k) ==
  /\ \A i \in k..Len(box) :
       \/ box[i].cmd = "event" /\ box[i].arg = n + i - k
       \/ box[i].cmd = "dropped" /\ i = Len(box) /\ side = "ended"
  /\ side \in {"active", "ended"}
  /\ side = "active" => next = n + Len(box) - k + 1

\* The stream is read for the first time.
Reading ==
  /\ ~handle_guard /\ ~subscriptions_map
  /\ phase = "idle" \/ slice.loop = "initial"
  /\ server = "none" /\ inbox = <<>> /\ outbox = <<>>
  /\ event_buffer = <<>> /\ drains = 0 /\ last_event_number = NoNumber
  /\ Straight(seen) /\ current_event_number <= stream
  /\ slice.loop = "initial" =>
       slice.from = current_event_number /\ slice.upto <= stream

\* The answer to the subscription has not arrived.
Waiting ==
  /\ ~handle_guard /\ subscriptions_map
  /\ slice.loop = "none"
  /\ event_buffer = <<>> /\ drains = 0 /\ last_event_number = NoNumber
  /\ Straight(seen) /\ current_event_number <= stream
  /\ \/ server = "none" /\ inbox = <<>> /\ outbox = <<Pkg("subscribe", 0)>>
     \/ /\ outbox = <<>> /\ inbox # <<>>
        /\ inbox[1].cmd = "confirmation"
        /\ \E n \in Int :
             /\ current_event_number <= n
             /\ inbox[1].arg \in {n - 1, NoNumber}
             /\ Numbered(inbox, server, pushed, n, 2)
     \/ /\ outbox = <<>> /\ server = "ended"
        /\ \/ \E c \in Refusal : inbox = <<Pkg(c, 0)>>
           \/ \E r \in {"access_denied", "not_found"} : inbox = <<Pkg("dropped", r)>>

\* The next live event is n: nothing was skipped, missed events are still to be
\* read up to the confirmed event, or the confirmed event was skipped.
NextLive(n) ==
  \/ /\ Straight(seen)
     /\ last_event_number < current_event_number /\ n = current_event_number
  \/ /\ Bent(seen, last_event_number) /\ drains = 0
     /\ current_event_number < last_event_number /\ n = last_event_number + 1
  \/ /\ Bent(seen, last_event_number)
     /\ last_event_number <= current_event_number /\ n = current_event_number + 1

\* The subscription is confirmed.
Live ==
  /\ ~handle_guard /\ subscriptions_map
  /\ slice.loop # "initial"
  /\ outbox = <<>>
  /\ \E n \in Int :
       /\ \A i \in 1..Len(event_buffer) : event_buffer[i] = n + i - 1
       /\ Numbered(inbox, server, pushed, n + Len(event_buffer), 1)
       /\ NextLive(n)

Stopped ==
  /\ handle_guard
  /\ slice.loop # "initial"
  /\ Straight(seen) \/ Bent(seen, last_event_number)

\* A read of missed events continues where the user is, up to the confirmed
\* event and not beyond.
MissedInv ==
  slice.loop = "missed" =>
    /\ Bent(seen, last_event_number)
    /\ current_event_number < last_event_number
    /\ slice.from = current_event_number
    /\ slice.count = last_event_number - current_event_number
    /\ slice.upto <= last_event_number

OrderInv ==
  /\ current_event_number = FromEvent + Len(seen)
  /\ Reading \/ Waiting \/ Live \/ Stopped
  /\ MissedInv

orderVars == <<seen, current_event_number, last_event_number, event_buffer, drains, slice,
               handle_guard, subscriptions_map, phase, inbox, outbox, server, pushed, stream>>

LEMMA OrderUnchanged == OrderInv /\ UNCHANGED orderVars => OrderInv'
<1> SUFFICES ASSUME OrderInv, UNCHANGED orderVars PROVE OrderInv'
  OBVIOUS
<1>1. (Reading <=> Reading') /\ (Waiting <=> Waiting') /\ (Stopped <=> Stopped')
  BY DEF orderVars, Reading, Waiting, Stopped
<1>2. \A n : NextLive(n) <=> NextLive(n)'
  BY DEF orderVars, NextLive
<1>3. Live <=> Live'
  BY <1>2 DEF orderVars, Live
<1> QED BY <1>1, <1>3 DEF orderVars, OrderInv, MissedInv

------------------------------------------------------------------------------
(* Giving more events.                                                      *)

LEMMA GiveStraight ==
  ASSUME NEW t \in Seq(Int), NEW s \in Seq(Int), Straight(t),
         \A i \in 1..Len(s) : s[i] = FromEvent + Len(t) + i - 1
  PROVE  Straight(t \o s)
<1>1. /\ Len(t \o s) = Len(t) + Len(s)
      /\ \A i \in 1..(Len(t) + Len(s)) : (t \o s)[i] = IF i <= Len(t) THEN t[i] ELSE s[i - Len(t)]
  BY ConcatProperties
<1>2. Len(t) \in Nat /\ Len(s) \in Nat /\ FromEvent \in Int
  BY FromAssumption
<1> SUFFICES ASSUME NEW i \in 1..(Len(t) + Len(s)) PROVE (t \o s)[i] = FromEvent + i - 1
  BY <1>1 DEF Straight
<1>3. CASE i <= Len(t)
  BY <1>1, <1>2, <1>3 DEF Straight
<1>4. CASE ~(i <= Len(t))
  <2>1. i - Len(t) \in 1..Len(s)
    BY <1>2, <1>4
  <2> QED BY <1>1, <1>2, <1>4, <2>1
<1> QED BY <1>3, <1>4

\* Below the gap the numbers go on as before, from the gap on one further.
LEMMA GiveBent ==
  ASSUME NEW t \in Seq(Int), NEW s \in Seq(Int), NEW gap \in Int, Bent(t, gap),
         \/ /\ \A i \in 1..Len(s) : s[i] = FromEvent + Len(t) + i - 1
            /\ FromEvent + Len(t) + Len(s) <= gap
         \/ /\ \A i \in 1..Len(s) : s[i] = FromEvent + Len(t) + i
            /\ gap <= FromEvent + Len(t)
  PROVE  Bent(t \o s, gap)
<1>1. /\ Len(t \o s) = Len(t) + Len(s)
      /\ \A i \in 1..(Len(t) + Len(s)) : (t \o s)[i] = IF i <= Len(t) THEN t[i] ELSE s[i - Len(t)]
  BY ConcatProperties
<1>2. Len(t) \in Nat /\ Len(s) \in Nat /\ FromEvent \in Int
  BY FromAssumption
<1> SUFFICES ASSUME NEW i \in 1..(Len(t) + Len(s))
             PROVE  (t \o s)[i] = IF FromEvent + i - 1 < gap THEN FromEvent + i - 1
                                  ELSE FromEvent + i
  BY <1>1 DEF Bent
<1>3. CASE i <= Len(t)
  BY <1>1, <1>2, <1>3 DEF Bent
<1>4. CASE ~(i <= Len(t))
  <2>1. i - Len(t) \in 1..Len(s)
    BY <1>2, <1>4
  <2>2. (t \o s)[i] = s[i - Len(t)]
    BY <1>1, <1>4
  <2> QED BY <1>2, <1>4, <2>1, <2>2
<1> QED BY <1>3, <1>4

LEMMA StraightIsBent ==
  ASSUME NEW t \in Seq(Int), NEW gap \in Int, Straight(t), FromEvent + Len(t) <= gap
  PROVE  Bent(t, gap)
<1>1. Len(t) \in Nat /\ FromEvent \in Int
  BY FromAssumption
<1> QED BY <1>1 DEF Straight, Bent

------------------------------------------------------------------------------
(* Packages on the way to the client.                                       *)

LEMMA NumberedTail ==
  ASSUME NEW box \in Seq(Package), box # <<>>, NEW side, NEW next \in Int, NEW n \in Int
  PROVE  /\ Numbered(box, side, next, n, 2) => Numbered(Tail(box), side, next, n, 1)
         /\ Numbered(box, side, next, n, 1) => Numbered(Tail(box), side, next, n + 1, 1)
<1>1. /\ Len(Tail(box)) = Len(box) - 1
      /\ \A i \in 1..Len(Tail(box)) : Tail(box)[i] = box[i + 1]
      /\ Len(box) \in Nat
  BY HeadTailProperties
<1> PICK l \in Nat : l = Len(box)
  OBVIOUS
<1> PICK m \in Int : m = l - 1
  OBVIOUS
<1>5. Len(Tail(box)) = m
  BY <1>1
<1>2. \A i \in 1..Len(Tail(box)) :
        i \in Int /\ i + 1 \in 2..Len(box) /\ i + 1 \in 1..Len(box)
  BY <1>1
<1>3. ASSUME Numbered(box, side, next, n, 2) PROVE Numbered(Tail(box), side, next, n, 1)
  <2>1. ASSUME NEW i \in 1..Len(Tail(box))
        PROVE  \/ Tail(box)[i].cmd = "event" /\ Tail(box)[i].arg = n + i - 1
               \/ /\ Tail(box)[i].cmd = "dropped"
                  /\ i = Len(Tail(box)) /\ side = "ended"
    <3>0. PICK j \in Int : j = i + 1 /\ i \in Int
      BY <1>2
    <3>1. j \in 2..Len(box) /\ Tail(box)[i] = box[j]
      BY <1>1, <1>2, <3>0
    <3>2. \/ box[j].cmd = "event" /\ box[j].arg = n + j - 2
          \/ box[j].cmd = "dropped" /\ j = Len(box) /\ side = "ended"
      BY <1>3, <3>1 DEF Numbered
    <3>3. n + j - 2 = n + i - 1 /\ (j = l => i = m)
      BY <3>0
    <3> QED BY <1>5, <3>1, <3>2, <3>3
  <2>2. side = "active" => next = n + Len(Tail(box)) - 1 + 1
    BY <1>1, <1>3 DEF Numbered
  <2> QED BY <1>3, <2>1, <2>2 DEF Numbered
<1>4. ASSUME Numbered(box, side, next, n, 1) PROVE Numbered(Tail(box), side, next, n + 1, 1)
  <2>1. ASSUME NEW i \in 1..Len(Tail(box))
        PROVE  \/ Tail(box)[i].cmd = "event" /\ Tail(box)[i].arg = n + 1 + i - 1
               \/ /\ Tail(box)[i].cmd = "dropped"
                  /\ i = Len(Tail(box)) /\ side = "ended"
    <3>0. PICK j \in Int : j = i + 1 /\ i \in Int
      BY <1>2
    <3>1. j \in 1..Len(box) /\ Tail(box)[i] = box[j]
      BY <1>1, <1>2, <3>0
    <3>2. \/ box[j].cmd = "event" /\ box[j].arg = n + j - 1
          \/ box[j].cmd = "dropped" /\ j = Len(box) /\ side = "ended"
      BY <1>4, <3>1 DEF Numbered
    <3>3. n + j - 1 = n + 1 + i - 1 /\ (j = l => i = m)
      BY <3>0
    <3> QED BY <1>5, <3>1, <3>2, <3>3
  <2>2. side = "active" => next = n + 1 + Len(Tail(box)) - 1 + 1
    BY <1>1, <1>4 DEF Numbered
  <2> QED BY <1>4, <2>1, <2>2 DEF Numbered
<1> QED BY <1>3, <1>4

LEMMA NumberedAppend ==
  ASSUME NEW box \in Seq(Package), NEW next \in Int, NEW n \in Int, NEW k \in {1, 2},
         k <= Len(box) + 1, Numbered(box, "active", next, n, k)
  PROVE  /\ Numbered(Append(box, Pkg("event", next)), "active", next + 1, n, k)
         /\ \A r \in DropReason : Numbered(Append(box, Pkg("dropped", r)), "ended", next, n, k)
<1>0. /\ Pkg("event", next) \in Package
      /\ \A r \in DropReason : Pkg("dropped", r) \in Package
  BY DEF Pkg, Package
<1>1. \A p \in Package : /\ Len(Append(box, p)) = Len(box) + 1
                         /\ \A i \in 1..Len(box) : Append(box, p)[i] = box[i]
                         /\ Append(box, p)[Len(box) + 1] = p
  BY AppendProperties
<1>2. Len(box) \in Nat
  OBVIOUS
<1>3. \A i \in k..Len(box) : i \in 1..Len(box) /\ box[i].cmd = "event" /\ box[i].arg = n + i - k
  BY <1>2 DEF Numbered
<1>4. \A i \in k..(Len(box) + 1) : i \in k..Len(box) \/ i = Len(box) + 1
  BY <1>2
<1>5. next = n + Len(box) - k + 1
  BY DEF Numbered
<1>6. Numbered(Append(box, Pkg("event", next)), "active", next + 1, n, k)
  <2> DEFINE p == Pkg("event", next)
  <2>1. p.cmd = "event" /\ p.arg = next
    BY DEF Pkg
  <2>2. ASSUME NEW i \in k..(Len(box) + 1)
        PROVE  Append(box, p)[i].cmd = "event" /\ Append(box, p)[i].arg = n + i - k
    BY <1>0, <1>1, <1>2, <1>3, <1>4, <1>5, <2>1
  <2>3. Len(Append(box, p)) = Len(box) + 1
    BY <1>0, <1>1
  <2>4. next + 1 = n + (Len(box) + 1) - k + 1
    BY <1>2, <1>5
  <2> HIDE DEF p
  <2>5. Numbered(Append(box, p), "active", next + 1, n, k)
    BY <2>2, <2>3, <2>4 DEF Numbered
  <2> QED BY <2>5 DEF p
<1>7. ASSUME NEW r \in DropReason
      PROVE  Numbered(Append(box, Pkg("dropped", r)), "ended", next, n, k)
  <2> DEFINE p == Pkg("dropped", r)
  <2>1. p.cmd = "dropped"
    BY DEF Pkg
  <2>2. ASSUME NEW i \in k..(Len(box) + 1)
        PROVE  \/ Append(box, p)[i].cmd = "event" /\ Append(box, p)[i].arg = n + i - k
               \/ Append(box, p)[i].cmd = "dropped" /\ i = Len(box) + 1
    BY <1>0, <1>1, <1>3, <1>4, <2>1
  <2>3. Len(Append(box, p)) = Len(box) + 1
    BY <1>0, <1>1
  <2> HIDE DEF p
  <2>4. Numbered(Append(box, p), "ended", next, n, k)
    BY <2>2, <2>3 DEF Numbered
  <2> QED BY <2>4 DEF p
<1> QED BY <1>6, <1>7

------------------------------------------------------------------------------
(* The order is kept.                                                       *)

LEMMA OrderInit == Init => OrderInv
<1> SUFFICES ASSUME Init PROVE OrderInv
  OBVIOUS
<1>1. Len(<<>>) = 0 /\ seen = <<>> /\ FromEvent \in Int
  BY FromAssumption DEF Init, BaseInit
<1>2. Straight(seen)
  BY <1>1 DEF Straight
<1>3. Reading
  BY <1>2, StreamAssumption, FromAssumption DEF Init, BaseInit, NoRead, Reading
<1>4. MissedInv /\ current_event_number = FromEvent + Len(seen)
  BY <1>1 DEF Init, NoRead, MissedInv
<1> QED BY <1>3, <1>4 DEF OrderInv

\* What is known of the events given in any stage.
LEMMA SeenInOrder == OrderInv => Straight(seen) \/ Bent(seen, last_event_number)
  BY DEF OrderInv, Reading, Waiting, Live, NextLive, Stopped

\* A step that locks the guard and gives nothing.
LEMMA StopStep ==
  ASSUME OrderInv, handle_guard' = TRUE,
         UNCHANGED <<seen, current_event_number, last_event_number>>,
         slice' = slice \/ slice'.loop = "none", slice'.loop # "initial"
  PROVE  OrderInv'
<1>1. Stopped'
  BY SeenInOrder DEF Stopped
<1>2. MissedInv'
  BY DEF OrderInv, MissedInv
<1> QED BY <1>1, <1>2 DEF OrderInv

\* The guard is locked already, and nothing is given.
LEMMA StoppedStep ==
  ASSUME OrderInv, handle_guard, UNCHANGED <<handle_guard, seen, current_event_number,
                                             last_event_number, slice>>
  PROVE  OrderInv'
<1>1. Stopped
  BY DEF OrderInv, Reading, Waiting, Live
<1>2. Stopped'
  BY <1>1 DEF Stopped
<1>3. MissedInv'
  BY DEF OrderInv, MissedInv
<1> QED BY <1>2, <1>3 DEF OrderInv

\* The live buffer is emptied from its front.
LEMMA DrainOrder ==
  ASSUME TypeInv, current_event_number = FromEvent + Len(seen),
         last_event_number <= current_event_number,
         NEW n \in Int, NextLive(n), NEW buffer \in Seq(Int), NEW others,
         \A i \in 1..Len(buffer) : buffer[i] = n + i - 1,
         read_subscription_events(buffer, others), UNCHANGED last_event_number
  PROVE  /\ current_event_number' = FromEvent + Len(seen')
         /\ \E m \in Int :
              /\ \A i \in 1..Len(event_buffer') : event_buffer'[i] = m + i - 1
              /\ m + Len(event_buffer') = n + Len(buffer)
              /\ NextLive(m)'
<1>1. PICK k \in 0..Len(buffer) :
        /\ seen' \in Seq(Int)
        /\ seen' = seen \o SubSeq(buffer, 1, k)
        /\ SubSeq(buffer, 1, k) \in Seq(Int)
        /\ Len(SubSeq(buffer, 1, k)) = k
        /\ \A i \in 1..k : SubSeq(buffer, 1, k)[i] = buffer[i]
        /\ event_buffer' \in Seq(Int)
        /\ Len(event_buffer') = Len(buffer) - k
        /\ \A i \in 1..(Len(buffer) - k) : event_buffer'[i] = buffer[k + i]
        /\ current_event_number' = current_event_number + k
  BY DrainFacts
<1>2. PICK s : s = SubSeq(buffer, 1, k)
  OBVIOUS
<1>3. /\ Len(seen) \in Nat /\ Len(buffer) \in Nat /\ FromEvent \in Int
      /\ current_event_number \in Int /\ last_event_number \in Int
      /\ seen \in Seq(Int) /\ s \in Seq(Int) /\ Len(s) = k /\ k \in Nat
  <2>1. Len(buffer) \in Nat
    OBVIOUS
  <2>2. k \in Nat
    BY <2>1
  <2>3. s \in Seq(Int) /\ Len(s) = k
    BY <1>1, <1>2
  <2> QED BY <2>1, <2>2, <2>3, FromAssumption DEF TypeInv
<1>4. Len(seen') = Len(seen) + k
  <2>1. seen' = seen \o s
    BY <1>1, <1>2
  <2>2. Len(seen \o s) = Len(seen) + Len(s)
    BY <1>3, ConcatProperties
  <2> QED BY <1>3, <2>1, <2>2
<1>5. current_event_number' = FromEvent + Len(seen')
  <2>1. current_event_number' = current_event_number + k
    BY <1>1
  <2> QED BY <1>3, <1>4, <2>1
<1>6. \A i \in 1..k : s[i] = n + i - 1
  BY <1>1, <1>2, <1>3
<1>7. PICK m \in Int : m = n + k
  BY <1>3
<1>8. \A i \in 1..Len(event_buffer') : event_buffer'[i] = m + i - 1
  <2> SUFFICES ASSUME NEW i \in 1..(Len(buffer) - k) PROVE event_buffer'[i] = m + i - 1
    BY <1>1
  <2>1. k + i \in 1..Len(buffer) /\ n + (k + i) - 1 = m + i - 1
    BY <1>3, <1>7
  <2> QED BY <1>1, <2>1
<1>9. m + Len(event_buffer') = n + Len(buffer)
  BY <1>1, <1>3, <1>7
<1>10. CASE /\ Straight(seen)
            /\ last_event_number < current_event_number /\ n = current_event_number
  <2>1. \A i \in 1..Len(s) : s[i] = FromEvent + Len(seen) + i - 1
    BY <1>3, <1>6, <1>10
  <2>2. Straight(seen \o s)
    BY <1>3, <1>10, <2>1, GiveStraight
  <2>3. Straight(seen') /\ m = current_event_number' /\ last_event_number' < current_event_number'
    BY <1>1, <1>2, <1>3, <1>7, <1>10, <2>2
  <2>4. NextLive(m)'
    BY <2>3 DEF NextLive, Straight
  <2> QED BY <1>5, <1>8, <1>9, <2>4
<1>11. CASE Bent(seen, last_event_number) /\ n = current_event_number + 1
  <2>1. \A i \in 1..Len(s) : s[i] = FromEvent + Len(seen) + i
    BY <1>3, <1>6, <1>11
  <2>2. Bent(seen \o s, last_event_number)
    BY <1>3, <1>11, <2>1, GiveBent
  <2>3. /\ Bent(seen', last_event_number') /\ m = current_event_number' + 1
        /\ last_event_number' <= current_event_number'
    BY <1>1, <1>2, <1>3, <1>7, <1>11, <2>2
  <2>4. NextLive(m)'
    BY <2>3 DEF NextLive, Bent
  <2> QED BY <1>5, <1>8, <1>9, <2>4
<1> QED BY <1>3, <1>10, <1>11 DEF NextLive

\* A package that the base class handles: the guard is locked, or the drop has a
\* reason that the client does not list.
LEMMA BaseOrder ==
  ASSUME OrderInv, slice.loop # "initial", NEW p, BasePackage(p)
  PROVE  \/ OrderInv'
         \/ /\ p.cmd = "dropped" /\ p.arg \notin BaseReason
            /\ UNCHANGED <<handle_guard, outbox, event_buffer>>
<1>0. UNCHANGED <<seen, current_event_number, last_event_number, slice, drains>>
  BY DEF BasePackage
<1>1. ASSUME NEW ec, unsubscribe(ec) PROVE OrderInv'
  BY <1>0, <1>1, StopStep DEF unsubscribe
<1>2. CASE BaseRefused(p)
  BY <1>1, <1>2 DEF BaseRefused
<1>3. CASE BaseDropped(p) /\ p.arg \in BaseReason
  BY <1>1, <1>3 DEF BaseDropped
<1>4. CASE BaseDropped(p) /\ p.arg \notin BaseReason
  <2>1. p.cmd = "dropped" /\ UNCHANGED <<handle_guard, outbox>>
    BY <1>4 DEF BaseDropped
  <2>2. handle_guard \/ UNCHANGED event_buffer
    BY <2>1 DEF BasePackage
  <2>3. CASE handle_guard
    BY <1>0, <2>1, <2>3, StoppedStep
  <2> QED BY <1>4, <2>1, <2>2, <2>3
<1> QED BY <1>2, <1>3, <1>4 DEF BasePackage

\* The answer to the subscription.
LEMMA WaitingPackage ==
  ASSUME TypeInv, OrderInv, Waiting, inbox # <<>>, inbox' = Tail(inbox),
         NEW p, p = Head(inbox),
         Confirmation(p) \/ EventAppeared(p) \/ BasePackage(p),
         UNCHANGED <<subscriptions_map, server, pushed, stream>>
  PROVE  OrderInv'
<1>0. p = inbox[1] /\ p \in Package
  BY HeadTailProperties DEF TypeInv
<1>1. ASSUME outbox = <<>>, p.cmd = "confirmation",
             NEW n \in Int, current_event_number <= n, p.arg \in {n - 1, NoNumber},
             Numbered(inbox, server, pushed, n, 2)
      PROVE  OrderInv'
  <2>0. Confirmation(p)
    BY <1>1 DEF EventAppeared, BasePackage, BaseDropped, BaseRefused, Refusal
  <2>1. UNCHANGED <<seen, current_event_number, drains>>
    BY <2>0 DEF Confirmation
  <2>2. CASE p.arg = NoNumber
    <3>1. handle_guard' = TRUE /\ UNCHANGED <<last_event_number, slice>>
      BY <2>0, <2>2 DEF Confirmation, unsubscribe
    <3> QED BY <2>1, <3>1, StopStep DEF Waiting
  <2>3. CASE p.arg # NoNumber
    <3>0. /\ seen \in Seq(Int) /\ current_event_number \in Int
          /\ current_event_number = FromEvent + Len(seen) /\ Straight(seen)
          /\ event_buffer = <<>> /\ Len(event_buffer) = 0 /\ drains = 0
      BY DEF TypeInv, OrderInv, Waiting
    <3>1. /\ last_event_number' = n - 1
          /\ UNCHANGED <<handle_guard, outbox, event_buffer>>
          /\ p.arg = n - 1
      BY <1>1, <2>0, <2>3 DEF Confirmation
    <3>2. Numbered(inbox', server', pushed', n, 1)
      BY <1>1, NumberedTail DEF TypeInv
    <3>3. /\ n + Len(event_buffer') = n
          /\ \A i \in 1..Len(event_buffer') : event_buffer'[i] = n + i - 1
      BY <3>0, <3>1
    <3>4. CASE n - 1 > current_event_number
      <4>1. /\ slice'.loop = "missed" /\ slice'.from = current_event_number
            /\ slice'.count = n - 1 - current_event_number
            /\ slice'.upto = current_event_number
        BY <2>0, <2>3, <3>1, <3>4, <3>0 DEF Confirmation, catch_up_events
      <4>2. Bent(seen, n - 1)
        BY <3>0, <3>4, StraightIsBent
      <4>3. NextLive(n)'
        BY <2>1, <3>0, <3>1, <3>4, <4>2 DEF NextLive
      <4>4. Live'
        BY <1>1, <3>1, <3>2, <3>3, <4>1, <4>3 DEF Live, Waiting
      <4>5. MissedInv'
        BY <2>1, <3>0, <3>1, <3>4, <4>1, <4>2 DEF MissedInv
      <4> QED BY <2>1, <3>0, <4>4, <4>5 DEF OrderInv
    <3>5. CASE n - 1 <= current_event_number
      <4>1. slice' = slice /\ slice.loop = "none"
        BY <2>0, <2>3, <3>0, <3>1, <3>5 DEF Confirmation, Waiting
      <4>2. CASE n = current_event_number
        BY <1>1, <2>1, <3>0, <3>1, <3>2, <3>3, <4>1, <4>2
        DEF NextLive, Live, Waiting, MissedInv, OrderInv
      <4>3. CASE n = current_event_number + 1
        <5>1. Bent(seen, n - 1)
          BY <3>0, <4>3, StraightIsBent
        <5>2. NextLive(n)'
          BY <2>1, <3>0, <3>1, <4>3, <5>1 DEF NextLive
        <5>3. Live'
          BY <1>1, <3>1, <3>2, <3>3, <4>1, <5>2 DEF Live, Waiting
        <5> QED BY <2>1, <3>0, <4>1, <5>3 DEF MissedInv, OrderInv
      <4> QED BY <1>1, <3>0, <3>5, <4>2, <4>3
    <3> QED BY <3>0, <3>4, <3>5
  <2> QED BY <2>2, <2>3
<1>2. ASSUME (p.cmd \in Refusal) \/ (p.cmd = "dropped" /\ p.arg \in BaseReason)
      PROVE  OrderInv'
  <2>1. BasePackage(p)
    BY <1>2 DEF Confirmation, EventAppeared, Refusal
  <2>2. slice.loop # "initial" /\ ~(p.cmd = "dropped" /\ p.arg \notin BaseReason)
    BY <1>2 DEF Waiting, Refusal
  <2> QED BY <2>1, <2>2, BaseOrder
<1>3. ASSUME NEW c \in Refusal, inbox = <<Pkg(c, 0)>> PROVE OrderInv'
  <2>1. p.cmd \in Refusal
    BY <1>0, <1>3 DEF Pkg
  <2> QED BY <1>2, <2>1
<1>4. ASSUME NEW r \in {"access_denied", "not_found"}, inbox = <<Pkg("dropped", r)>>
      PROVE  OrderInv'
  <2>1. p.cmd = "dropped" /\ p.arg \in BaseReason
    BY <1>0, <1>4 DEF Pkg, BaseReason
  <2> QED BY <1>2, <2>1
<1> QED BY <1>0, <1>1, <1>3, <1>4 DEF Waiting

\* A package of the confirmed subscription.
LEMMA LivePackage ==
  ASSUME TypeInv, OrderInv, Live, inbox # <<>>, inbox' = Tail(inbox),
         NEW p, p = Head(inbox),
         Confirmation(p) \/ EventAppeared(p) \/ BasePackage(p),
         UNCHANGED <<subscriptions_map, server, pushed, stream>>
  PROVE  OrderInv'
<1>0. /\ p = inbox[1] /\ inbox \in Seq(Package) /\ pushed \in Int
      /\ Len(inbox) \in Nat /\ 1 \in 1..Len(inbox)
      /\ event_buffer \in Seq(Int) /\ Len(event_buffer) \in Nat
      /\ current_event_number = FromEvent + Len(seen) /\ current_event_number \in Int
      /\ last_event_number \in Int
  <2>1. inbox \in Seq(Package) /\ Len(inbox) \in Nat \ {0}
    BY EmptySeq DEF TypeInv
  <2>2. 1 \in 1..Len(inbox) /\ p = inbox[1]
    BY <2>1
  <2>3. event_buffer \in Seq(Int) /\ Len(event_buffer) \in Nat
    BY DEF TypeInv
  <2> QED BY <2>1, <2>2, <2>3 DEF TypeInv, OrderInv
<1>1. PICK n \in Int :
        /\ \A i \in 1..Len(event_buffer) : event_buffer[i] = n + i - 1
        /\ Numbered(inbox, server, pushed, n + Len(event_buffer), 1)
        /\ NextLive(n)
  BY DEF Live
<1>2. PICK b \in Int : b = n + Len(event_buffer)
  BY <1>0
<1>3. Numbered(inbox', server', pushed', b + 1, 1)
  BY <1>0, <1>1, <1>2, NumberedTail
<1>4. \/ p.cmd = "event" /\ p.arg = b
      \/ p.cmd = "dropped" /\ Len(inbox) = 1 /\ server = "ended"
  <2>1. \/ inbox[1].cmd = "event" /\ inbox[1].arg = b + 1 - 1
        \/ inbox[1].cmd = "dropped" /\ 1 = Len(inbox) /\ server = "ended"
    BY <1>0, <1>1, <1>2 DEF Numbered
  <2>2. b + 1 - 1 = b
    OBVIOUS
  <2> QED BY <1>0, <2>1, <2>2
<1>5. CASE EventAppeared(p)
  <2>0. p.arg = b /\ UNCHANGED <<handle_guard, outbox, last_event_number, slice>>
    BY <1>4, <1>5 DEF EventAppeared
  <2>1. CASE event_buffer' = Append(event_buffer, b) /\ UNCHANGED <<seen, current_event_number, drains>>
    <3>1. /\ Len(event_buffer') = Len(event_buffer) + 1
          /\ \A i \in 1..Len(event_buffer) : event_buffer'[i] = event_buffer[i]
          /\ event_buffer'[Len(event_buffer) + 1] = b
      BY <1>0, <2>1, AppendProperties
    <3>2. PICK l \in Nat : l = Len(event_buffer)
      BY <1>0
    <3>3. \A i \in 1..(l + 1) : i \in 1..l \/ i = l + 1
      BY <3>2
    <3>4. b = n + (l + 1) - 1 /\ b + 1 = n + (l + 1)
      BY <1>2, <3>2
    <3>5. \A i \in 1..(l + 1) : event_buffer'[i] = n + i - 1
      BY <1>1, <3>1, <3>2, <3>3, <3>4
    <3>6. NextLive(n)'
      BY <1>1, <2>0, <2>1 DEF NextLive
    <3>7. Live'
      BY <1>3, <2>0, <3>1, <3>2, <3>4, <3>5, <3>6 DEF Live
    <3>8. MissedInv'
      BY <2>0, <2>1 DEF OrderInv, MissedInv
    <3> QED BY <1>0, <2>1, <3>7, <3>8 DEF OrderInv
  <2>2. CASE /\ last_event_number <= current_event_number /\ event_buffer = <<>>
             /\ read_subscription_events(<<p.arg>>, drains)
    <3>0. /\ b = n /\ <<b>> \in Seq(Int) /\ Len(<<b>>) = 1
          /\ \A i \in 1..Len(<<b>>) : <<b>>[i] = n + i - 1
      BY <1>2, <2>2
    <3>1. read_subscription_events(<<b>>, drains)
      BY <2>0, <2>2
    <3>2. /\ current_event_number' = FromEvent + Len(seen')
          /\ \E m \in Int :
               /\ \A i \in 1..Len(event_buffer') : event_buffer'[i] = m + i - 1
               /\ m + Len(event_buffer') = n + Len(<<b>>)
               /\ NextLive(m)'
      BY <1>0, <1>1, <2>0, <2>2, <3>0, <3>1, DrainOrder
    <3>3. PICK m \in Int :
               /\ \A i \in 1..Len(event_buffer') : event_buffer'[i] = m + i - 1
               /\ m + Len(event_buffer') = b + 1
               /\ NextLive(m)'
      BY <3>0, <3>2
    <3>4. Live'
      BY <1>3, <2>0, <3>3 DEF Live
    <3>5. MissedInv'
      BY <1>0, <2>0, <2>2 DEF OrderInv, MissedInv
    <3> QED BY <3>2, <3>4, <3>5 DEF OrderInv
  <2> QED BY <1>5, <2>0, <2>1, <2>2 DEF EventAppeared
<1>6. CASE BasePackage(p)
  <2>0. slice.loop # "initial"
    BY DEF Live
  <2>1. ASSUME p.cmd = "dropped", UNCHANGED <<handle_guard, outbox, event_buffer>>
        PROVE  OrderInv'
    <3>0. UNCHANGED <<seen, current_event_number, last_event_number, slice, drains>>
      BY <1>6 DEF BasePackage
    <3>1. Len(inbox) = 1 /\ server = "ended"
      BY <1>4, <2>1
    <3>2. Len(inbox') = 0
      BY <1>0, <3>1, HeadTailProperties
    <3>3. Numbered(inbox', server', pushed', n + Len(event_buffer'), 1)
      BY <3>1, <3>2 DEF Numbered
    <3>4. NextLive(n)'
      BY <1>1, <3>0 DEF NextLive
    <3>5. Live'
      BY <1>1, <2>1, <3>0, <3>3, <3>4 DEF Live
    <3> QED BY <1>0, <3>0, <3>5 DEF OrderInv, MissedInv
  <2> QED BY <1>6, <2>0, <2>1, BaseOrder
<1>7. ~Confirmation(p)
  BY <1>4 DEF Confirmation
<1> QED BY <1>5, <1>6, <1>7

\* A batch of the first reading.
LEMMA InitialOrder ==
  ASSUME TypeInv, DropInv, OrderInv, HandleInitialSlice
  PROVE  OrderInv'
<1>0. Reading /\ slice.loop = "initial"
  BY DEF HandleInitialSlice, DropInv, EndInv, OrderInv, Waiting, Live, Stopped
<1>1. /\ SliceEvents \in Seq(Int) /\ Len(SliceEvents) = slice.upto - slice.from
      /\ \A i \in 1..Len(SliceEvents) : SliceEvents[i] = slice.from + i - 1
  BY SliceFacts
<1> PICK ev : ev = SliceEvents
  OBVIOUS
<1>2. /\ seen \in Seq(Int) /\ ev \in Seq(Int) /\ Len(ev) \in Nat /\ Len(seen) \in Nat
      /\ FromEvent \in Int /\ current_event_number \in Int /\ stream \in Int
      /\ slice.from \in Int /\ slice.upto \in Int
  BY <1>1, FromAssumption DEF TypeInv, Slice
<1>3. /\ slice.from = current_event_number /\ slice.upto <= stream
      /\ current_event_number = FromEvent + Len(seen) /\ Straight(seen)
  BY <1>0 DEF Reading, OrderInv
<1>4. seen' = seen \o ev /\ current_event_number' = current_event_number + Len(ev)
  BY DEF HandleInitialSlice
<1>5. Straight(seen')
  <2>1. \A i \in 1..Len(ev) : ev[i] = FromEvent + Len(seen) + i - 1
    BY <1>1, <1>2, <1>3
  <2>2. Straight(seen \o ev)
    BY <1>2, <1>3, <2>1, GiveStraight
  <2> QED BY <1>4, <2>2
<1>6. current_event_number' = FromEvent + Len(seen')
  <2>1. Len(seen \o ev) = Len(seen) + Len(ev)
    BY <1>2, ConcatProperties
  <2> QED BY <1>2, <1>3, <1>4, <2>1
<1>7. current_event_number' <= stream
  BY <1>1, <1>2, <1>3, <1>4
<1>8. UNCHANGED <<phase, inbox, event_buffer, drains, last_event_number, server, pushed, stream>>
  BY DEF HandleInitialSlice
<1>9. CASE do_async_start
  <2>1. /\ handle_guard' = FALSE /\ subscriptions_map' = TRUE /\ slice'.loop = "none"
        /\ outbox' = <<Pkg("subscribe", 0)>>
    BY <1>0, <1>9 DEF do_async_start, base_async_start, NoRead, Reading
  <2>2. Waiting'
    BY <1>0, <1>5, <1>7, <1>8, <2>1 DEF Reading, Waiting, Straight
  <2> QED BY <1>6, <2>1, <2>2 DEF OrderInv, MissedInv
<1>10. CASE /\ catch_up_events("initial", current_event_number', ReadBatchSize)
            /\ UNCHANGED <<handle_guard, subscriptions_map, outbox>>
  <2>1. /\ slice'.loop = "initial" /\ slice'.from = current_event_number'
        /\ slice'.upto = current_event_number'
    BY <1>10 DEF catch_up_events
  <2>2. Reading'
    BY <1>0, <1>5, <1>7, <1>8, <1>10, <2>1 DEF Reading, Straight
  <2> QED BY <1>6, <2>1, <2>2 DEF OrderInv, MissedInv
<1> QED BY <1>9, <1>10 DEF HandleInitialSlice

\* A batch of missed events.
LEMMA MissedOrder ==
  ASSUME TypeInv, DropInv, OrderInv, HandleMissedSlice
  PROVE  OrderInv'
<1>0. /\ slice.loop = "missed" /\ slice.from = current_event_number
      /\ current_event_number < last_event_number
      /\ slice.count = last_event_number - current_event_number
      /\ slice.upto <= last_event_number /\ Bent(seen, last_event_number)
      /\ current_event_number = FromEvent + Len(seen)
  BY DEF HandleMissedSlice, OrderInv, MissedInv
<1>1. /\ SliceEvents \in Seq(Int) /\ Len(SliceEvents) = slice.upto - slice.from
      /\ \A i \in 1..Len(SliceEvents) : SliceEvents[i] = slice.from + i - 1
  BY SliceFacts
<1> PICK ev : ev = SliceEvents
  OBVIOUS
<1>2. /\ seen \in Seq(Int) /\ ev \in Seq(Int) /\ Len(ev) \in Nat /\ Len(seen) \in Nat
      /\ FromEvent \in Int /\ current_event_number \in Int /\ last_event_number \in Int
      /\ slice.from \in Int /\ slice.upto \in Int /\ slice.count \in Int
  BY <1>1, FromAssumption DEF TypeInv, Slice
<1>3. /\ seen' = seen \o ev /\ current_event_number' = current_event_number + Len(ev)
      /\ UNCHANGED <<handle_guard, subscriptions_map, phase, inbox, outbox, event_buffer,
                     last_event_number, server, pushed, stream>>
  BY DEF HandleMissedSlice
<1>4. Bent(seen', last_event_number)
  <2>1. \A i \in 1..Len(ev) : ev[i] = FromEvent + Len(seen) + i - 1
    BY <1>0, <1>1, <1>2
  <2>2. FromEvent + Len(seen) + Len(ev) <= last_event_number
    BY <1>0, <1>1, <1>2
  <2>3. Bent(seen \o ev, last_event_number)
    BY <1>0, <1>2, <2>1, <2>2, GiveBent
  <2> QED BY <1>3, <2>3
<1>5. current_event_number' = FromEvent + Len(seen')
  <2>1. Len(seen \o ev) = Len(seen) + Len(ev)
    BY <1>2, ConcatProperties
  <2> QED BY <1>0, <1>2, <1>3, <2>1
<1>6. /\ current_event_number' <= last_event_number /\ current_event_number' \in Int
      /\ slice.count - Len(ev) = last_event_number - current_event_number'
  <2>1. Len(ev) = slice.upto - current_event_number
    BY <1>0, <1>1
  <2>2. current_event_number' = slice.upto
    BY <1>2, <1>3, <2>1
  <2> QED BY <1>0, <1>2, <2>1, <2>2
<1>7. \/ /\ current_event_number' < last_event_number /\ UNCHANGED drains
         /\ slice'.loop = "missed" /\ slice'.from = current_event_number'
         /\ slice'.count = last_event_number - current_event_number'
         /\ slice'.upto = current_event_number'
      \/ current_event_number' = last_event_number /\ slice'.loop = "none"
  <2>1. CASE slice.count - Len(ev) > 0
    <3>1. catch_up_events("missed", current_event_number', slice.count - Len(ev)) /\ UNCHANGED drains
      BY <1>2, <2>1 DEF HandleMissedSlice
    <3> QED BY <1>2, <1>6, <2>1, <3>1 DEF catch_up_events
  <2>2. CASE ~(slice.count - Len(ev) > 0)
    <3>1. slice'.loop = "none"
      BY <1>2, <2>2 DEF HandleMissedSlice, NoRead
    <3> QED BY <1>2, <1>6, <2>2, <3>1
  <2> QED BY <2>1, <2>2
<1>8. MissedInv'
  BY <1>3, <1>4, <1>6, <1>7 DEF MissedInv, Bent
<1>9. CASE handle_guard
  <2>1. Stopped'
    BY <1>3, <1>4, <1>7, <1>9 DEF Stopped
  <2> QED BY <1>5, <1>8, <2>1 DEF OrderInv
<1>10. CASE ~handle_guard
  <2>1. Live
    BY <1>0, <1>10 DEF OrderInv, DropInv, EndInv, Reading, Waiting, Stopped
  <2>2. PICK n \in Int :
          /\ \A i \in 1..Len(event_buffer) : event_buffer[i] = n + i - 1
          /\ Numbered(inbox, server, pushed, n + Len(event_buffer), 1)
          /\ NextLive(n)
    BY <2>1 DEF Live
  <2>3. n = last_event_number + 1 /\ drains = 0
    BY <1>0, <1>2, <2>2 DEF NextLive
  <2>4. NextLive(n)'
    BY <1>3, <1>4, <1>6, <1>7, <2>3 DEF NextLive
  <2>5. Live'
    BY <1>3, <1>7, <2>1, <2>2, <2>4 DEF Live
  <2> QED BY <1>5, <1>8, <2>5 DEF OrderInv
<1> QED BY <1>9, <1>10

\* A posted call that empties the live buffer.
LEMMA PostedOrder ==
  ASSUME TypeInv, DropInv, OrderInv, RunPostedDrain
  PROVE  OrderInv'
<1>0. /\ drains > 0 /\ drains # 0 /\ read_subscription_events(event_buffer, drains - 1)
      /\ UNCHANGED <<handle_guard, subscriptions_map, phase, inbox, outbox, slice,
                     last_event_number, server, pushed, stream>>
  BY DEF RunPostedDrain
<1>1. CASE handle_guard
  <2>0. event_buffer = <<>> /\ seen \in Seq(Int) /\ current_event_number \in Int
    BY <1>1 DEF DropInv, EndInv, TypeInv
  <2>1. /\ <<>> \in Seq(Int) /\ Len(<<>>) = 0
        /\ read_subscription_events(<<>>, drains - 1)
    BY <1>0, <2>0
  <2>2. PICK k \in 0..0 : /\ seen' = seen \o SubSeq(<<>>, 1, k)
                          /\ current_event_number' = current_event_number + k
    BY <2>1, DrainFacts
  <2>3. SubSeq(<<>>, 1, k) = <<>> /\ k = 0
    BY SubSeqEmpty
  <2>4. UNCHANGED <<seen, current_event_number>>
    BY <2>0, <2>2, <2>3, ConcatEmptySeq
  <2> QED BY <1>0, <1>1, <2>4, StoppedStep
<1>2. CASE ~handle_guard
  <2>1. Live
    BY <1>0, <1>2 DEF OrderInv, Reading, Waiting, Stopped
  <2>2. PICK n \in Int :
          /\ \A i \in 1..Len(event_buffer) : event_buffer[i] = n + i - 1
          /\ Numbered(inbox, server, pushed, n + Len(event_buffer), 1)
          /\ NextLive(n)
    BY <2>1 DEF Live
  <2>3. /\ event_buffer \in Seq(Int) /\ last_event_number <= current_event_number
        /\ current_event_number = FromEvent + Len(seen)
        /\ current_event_number \in Int /\ last_event_number \in Int
    BY <1>0, <2>2 DEF NextLive, TypeInv, OrderInv
  <2>4. /\ current_event_number' = FromEvent + Len(seen')
        /\ \E m \in Int :
              /\ \A i \in 1..Len(event_buffer') : event_buffer'[i] = m + i - 1
              /\ m + Len(event_buffer') = n + Len(event_buffer)
              /\ NextLive(m)'
    BY <1>0, <2>2, <2>3, DrainOrder
  <2>5. Live'
    BY <1>0, <2>1, <2>2, <2>4 DEF Live
  <2>6. slice.loop # "missed"
    BY <2>3 DEF OrderInv, MissedInv
  <2> QED BY <1>0, <2>4, <2>5, <2>6 DEF OrderInv, MissedInv
<1> QED BY <1>1, <1>2

\* The server's answer to the subscription, and what it sends later.
LEMMA ServerOrder ==
  ASSUME TypeInv, OrderInv, ServerReceives \/ ServerPushesEvent \/ ServerDrops
  PROVE  OrderInv'
<1>0. UNCHANGED <<seen, current_event_number, last_event_number, event_buffer, drains, slice,
                  handle_guard, subscriptions_map, phase, stream>>
  BY DEF ServerReceives, ServerPushesEvent, ServerDrops, catchVars
<1>1. MissedInv'
  BY <1>0 DEF OrderInv, MissedInv
<1>2. CASE handle_guard
  BY <1>0, <1>2, StoppedStep
<1>3. inbox \in Seq(Package) /\ Len(inbox) \in Nat /\ pushed \in Int /\ stream \in Int
      /\ current_event_number \in Int /\ event_buffer \in Seq(Int)
      /\ Len(event_buffer) \in Nat
  BY DEF TypeInv
<1>4. CASE ~handle_guard /\ ServerReceives
  <2>1. outbox # <<>>
    BY <1>4 DEF ServerReceives
  <2>2. Waiting /\ server = "none" /\ inbox = <<>> /\ outbox = <<Pkg("subscribe", 0)>>
    BY <1>4, <2>1 DEF OrderInv, Reading, Waiting, Live, Stopped
  <2>3. outbox' = <<>> /\ Head(outbox).cmd = "subscribe"
    BY <1>4, <2>2 DEF ServerReceives, Pkg
  <2>4. ASSUME server' = "active", pushed' = stream, NEW n \in {stream - 1, NoNumber},
               inbox' = Append(inbox, Pkg("confirmation", n))
        PROVE  Waiting'
    <3>1. inbox' = <<Pkg("confirmation", n)>>
      BY <2>2, <2>4
    <3>2. Len(inbox') = 1 /\ inbox' # <<>> /\ inbox'[1].cmd = "confirmation" /\ inbox'[1].arg = n
      BY <3>1 DEF Pkg
    <3>3. Numbered(inbox', server', pushed', stream, 2)
      BY <1>3, <2>4, <3>2 DEF Numbered
    <3>4. current_event_number' <= stream
      BY <1>0, <2>2 DEF Waiting
    <3>5. \E k \in Int : /\ current_event_number' <= k
                         /\ inbox'[1].arg \in {k - 1, NoNumber}
                         /\ Numbered(inbox', server', pushed', k, 2)
      BY <1>3, <2>4, <3>2, <3>3, <3>4
    <3>6. (\E k \in Int : /\ current_event_number <= k
                          /\ inbox[1].arg \in {k - 1, NoNumber}
                          /\ Numbered(inbox, server, pushed, k, 2))'
      BY <3>5
    <3> QED BY <1>0, <2>2, <2>3, <3>2, <3>6 DEF Waiting
  <2>5. ASSUME server' = "ended",
               \/ \E c \in Refusal : inbox' = Append(inbox, Pkg(c, 0))
               \/ \E r \in {"access_denied", "not_found"} : inbox' = Append(inbox, Pkg("dropped", r))
        PROVE  Waiting'
    <3>1. \/ \E c \in Refusal : inbox' = <<Pkg(c, 0)>>
          \/ \E r \in {"access_denied", "not_found"} : inbox' = <<Pkg("dropped", r)>>
      BY <2>2, <2>5
    <3> QED BY <1>0, <2>2, <2>3, <2>5, <3>1 DEF Waiting
  <2>6. Waiting'
    BY <1>4, <2>3, <2>4, <2>5 DEF ServerReceives
  <2> QED BY <1>0, <1>1, <2>6 DEF OrderInv
<1>5. ASSUME ~handle_guard, server = "active", UNCHANGED outbox,
             \A n \in Int, k \in {1, 2} :
               k <= Len(inbox) + 1 /\ Numbered(inbox, server, pushed, n, k) =>
                 Numbered(inbox', server', pushed', n, k),
             inbox' # <<>>, inbox # <<>> => inbox'[1] = inbox[1]
      PROVE  OrderInv'
  <2>1. CASE Waiting
    <3>1. /\ outbox = <<>> /\ inbox # <<>> /\ inbox[1].cmd = "confirmation"
          /\ \E n \in Int :
               /\ current_event_number <= n
               /\ inbox[1].arg \in {n - 1, NoNumber}
               /\ Numbered(inbox, server, pushed, n, 2)
      BY <1>5, <2>1 DEF Waiting
    <3>2. 2 <= Len(inbox) + 1
      BY <1>3, <3>1, EmptySeq
    <3>3. (\E n \in Int :
             /\ current_event_number <= n
             /\ inbox[1].arg \in {n - 1, NoNumber}
             /\ Numbered(inbox, server, pushed, n, 2))'
      BY <1>0, <1>5, <3>1, <3>2
    <3>4. Waiting'
      BY <1>0, <1>5, <2>1, <3>1, <3>3 DEF Waiting
    <3> QED BY <1>0, <1>1, <3>4 DEF OrderInv
  <2>2. CASE Live
    <3>1. PICK n \in Int :
            /\ \A i \in 1..Len(event_buffer) : event_buffer[i] = n + i - 1
            /\ Numbered(inbox, server, pushed, n + Len(event_buffer), 1)
            /\ NextLive(n)
      BY <2>2 DEF Live
    <3>2. Numbered(inbox', server', pushed', n + Len(event_buffer'), 1)
      BY <1>0, <1>3, <1>5, <3>1
    <3>3. NextLive(n)'
      BY <1>0, <3>1 DEF NextLive
    <3>4. Live'
      BY <1>0, <1>5, <2>2, <3>1, <3>2, <3>3 DEF Live
    <3> QED BY <1>0, <1>1, <3>4 DEF OrderInv
  <2> QED BY <1>5, <2>1, <2>2 DEF OrderInv, Reading, Stopped
<1>6. CASE ~handle_guard /\ ServerPushesEvent
  <2>1. /\ server = "active" /\ server' = "active" /\ pushed' = pushed + 1
        /\ inbox' = Append(inbox, Pkg("event", pushed)) /\ UNCHANGED outbox
    BY <1>6 DEF ServerPushesEvent
  <2>2. Pkg("event", pushed) \in Package
    BY <1>3 DEF Pkg, Package
  <2>3. inbox' # <<>> /\ (inbox # <<>> => inbox'[1] = inbox[1])
    BY <1>3, <2>1, <2>2, AppendProperties, EmptySeq
  <2>4. \A n \in Int, k \in {1, 2} :
          k <= Len(inbox) + 1 /\ Numbered(inbox, server, pushed, n, k) =>
            Numbered(inbox', server', pushed', n, k)
    BY <1>3, <2>1, NumberedAppend
  <2> QED BY <1>5, <1>6, <2>1, <2>3, <2>4
<1>7. CASE ~handle_guard /\ ServerDrops
  <2>1. /\ server = "active" /\ server' = "ended" /\ pushed' = pushed /\ UNCHANGED outbox
        /\ \E r \in BaseReason \cup {"other"} : inbox' = Append(inbox, Pkg("dropped", r))
    BY <1>7 DEF ServerDrops
  <2>2. PICK r \in DropReason : inbox' = Append(inbox, Pkg("dropped", r))
    BY <2>1 DEF BaseReason, DropReason
  <2>3. Pkg("dropped", r) \in Package
    BY DEF Pkg, Package
  <2>4. inbox' # <<>> /\ (inbox # <<>> => inbox'[1] = inbox[1])
    BY <1>3, <2>2, <2>3, AppendProperties, EmptySeq
  <2>5. \A n \in Int, k \in {1, 2} :
          k <= Len(inbox) + 1 /\ Numbered(inbox, server, pushed, n, k) =>
            Numbered(inbox', server', pushed', n, k)
    BY <1>3, <2>1, <2>2, NumberedAppend
  <2> QED BY <1>5, <1>7, <2>1, <2>4, <2>5
<1> QED BY <1>2, <1>4, <1>6, <1>7

LEMMA OrderNext == TypeInv /\ DropInv /\ OrderInv /\ [Next]_vars => OrderInv'
<1> SUFFICES ASSUME TypeInv, DropInv, OrderInv, [Next]_vars PROVE OrderInv'
  OBVIOUS
<1>1. CASE AsyncStart
  <2>1. Reading
    BY <1>1 DEF AsyncStart, DropInv, EndInv, OrderInv, Waiting, Live, Stopped
  <2>2. /\ slice'.loop = "initial" /\ slice'.from = current_event_number
        /\ slice'.upto = current_event_number
        /\ UNCHANGED <<seen, current_event_number, last_event_number, event_buffer, drains,
                       handle_guard, subscriptions_map, inbox, outbox, server, pushed, stream>>
    BY <1>1 DEF AsyncStart, catch_up_events
  <2>3. Reading'
    BY <2>1, <2>2 DEF Reading
  <2> QED BY <2>2, <2>3 DEF OrderInv, MissedInv
<1>2. CASE Unsubscribe
  <2>0. /\ UNCHANGED <<seen, current_event_number, last_event_number, slice>>
        /\ slice.loop # "initial"
    BY <1>2 DEF Unsubscribe, UserUnsubscribe, DropInv, EndInv
  <2>1. CASE handle_guard
    <3>1. UNCHANGED handle_guard
      BY <1>2, <2>1 DEF Unsubscribe, UserUnsubscribe
    <3> QED BY <2>0, <2>1, <3>1, StoppedStep
  <2>2. CASE ~handle_guard
    <3>1. handle_guard' = TRUE
      BY <1>2, <2>2 DEF Unsubscribe, UserUnsubscribe, unsubscribe
    <3> QED BY <2>0, <3>1, StopStep
  <2> QED BY <2>1, <2>2
<1>3. CASE HandleInitialSlice
  BY <1>3, InitialOrder
<1>4. CASE HandleInitialError \/ HandleMissedError
  <2>1. /\ handle_guard' = TRUE /\ slice'.loop = "none"
        /\ UNCHANGED <<seen, current_event_number, last_event_number>>
    BY <1>4 DEF HandleInitialError, HandleMissedError, unsubscribe, NoRead
  <2> QED BY <2>1, StopStep
<1>5. CASE HandleMissedSlice
  BY <1>5, MissedOrder
<1>6. CASE HandlePackage
  <2>0. /\ inbox # <<>> /\ inbox' = Tail(inbox) /\ UNCHANGED <<server, pushed, stream>>
    BY <1>6 DEF HandlePackage, TakePackage
  <2>1. CASE AnswerUnsubscribe \/ IgnorePackage
    <3>1. UNCHANGED <<handle_guard, seen, current_event_number, last_event_number, slice>>
      BY <1>6, <2>1 DEF HandlePackage, AnswerUnsubscribe, IgnorePackage, Dispatched
    <3>2. handle_guard
      <4>1. ASSUME ~handle_guard PROVE FALSE
        <5>1. ~operations_map
          BY <4>1, NoCalls
        <5>2. ~subscriptions_map
          BY <2>1, <4>1, <5>1 DEF AnswerUnsubscribe, IgnorePackage
        <5> QED BY <2>0, <4>1, <5>2 DEF OrderInv, Reading, Waiting, Live, Stopped
      <4> QED BY <4>1
    <3> QED BY <3>1, <3>2, StoppedStep
  <2>2. CASE /\ Dispatched
             /\ \/ Confirmation(Head(inbox)) \/ EventAppeared(Head(inbox))
                \/ BasePackage(Head(inbox))
             /\ UNCHANGED subscriptions_map
    <3>1. Waiting \/ Live
      BY <2>2 DEF Dispatched, OrderInv, Reading, Stopped
    <3> QED BY <2>0, <2>2, <3>1, WaitingPackage, LivePackage
  <2> QED BY <1>6, <2>1, <2>2 DEF HandlePackage
<1>7. CASE RunPostedDrain
  BY <1>7, PostedOrder
<1>8. CASE BaseStep
  <2>0. UNCHANGED <<seen, current_event_number, last_event_number, slice, drains, server,
                    pushed, stream, inbox, outbox>>
    BY <1>8 DEF BaseStep, RunPostedDrop, DeadlineEnds, HandleTimeout, ConnectionLost
  <2>1. CASE handle_guard
    <3>1. handle_guard' = handle_guard
      BY <1>8, <2>1 DEF BaseStep, RunPostedDrop, DeadlineEnds, HandleTimeout, ConnectionLost,
                       DropInv, DropType
    <3> QED BY <2>0, <2>1, <3>1, StoppedStep
  <2>2. CASE ~handle_guard
    <3>1. ~operations_map /\ posted = <<>>
      BY <2>2, NoCalls
    <3>2. UNCHANGED <<event_buffer, handle_guard, subscriptions_map, phase>>
      BY <1>8, <3>1 DEF BaseStep, RunPostedDrop, DeadlineEnds, HandleTimeout, ConnectionLost
    <3> QED BY <2>0, <3>2, OrderUnchanged DEF orderVars
  <2> QED BY <2>1, <2>2
<1>9. CASE Written
  <2>0. /\ stream' = stream + 1 /\ stream \in Int
        /\ UNCHANGED <<seen, current_event_number, last_event_number, event_buffer, drains, slice,
                       handle_guard, subscriptions_map, phase, inbox, outbox, server, pushed>>
    BY <1>9 DEF Written, baseVars, catchVars, TypeInv
  <2>1. \A x \in Int : x <= stream => x <= stream'
    BY <2>0
  <2>2. current_event_number \in Int /\ slice.upto \in Int
    BY DEF TypeInv, Slice
  <2>3. Reading => Reading'
    BY <2>0, <2>1, <2>2 DEF Reading
  <2>4. Waiting => Waiting'
    BY <2>0, <2>1, <2>2 DEF Waiting
  <2>5. Live => Live'
    BY <2>0 DEF Live, NextLive
  <2>6. Stopped => Stopped'
    BY <2>0 DEF Stopped
  <2> QED BY <2>0, <2>3, <2>4, <2>5, <2>6 DEF OrderInv, MissedInv
<1>10. CASE ServerReads \/ ReadFails
  <2>0. /\ slice'.loop = slice.loop /\ slice'.from = slice.from /\ slice'.count = slice.count
        /\ UNCHANGED <<seen, current_event_number, last_event_number, event_buffer, drains, stream,
                       handle_guard, subscriptions_map, phase, inbox, outbox, server, pushed>>
    BY <1>10 DEF ServerReads, ReadFails, baseVars, TypeInv, Slice
  <2>1. /\ slice \in Slice /\ slice.from \in Int /\ slice.count \in Int /\ slice.upto \in Int
        /\ stream \in Int /\ current_event_number \in Int /\ last_event_number \in Int
    BY DEF TypeInv, Slice
  <2>2. \/ slice'.upto = slice.upto
        \/ /\ slice'.upto \in slice.from..(slice.from + slice.count)
           /\ slice.from <= stream => slice'.upto <= stream
    <3>1. CASE ReadFails
      BY <2>1, <3>1 DEF ReadFails, Slice
    <3>2. CASE ServerReads
      <4>1. PICK upto \in slice.from..(slice.from + slice.count) :
              /\ IF slice.from < stream THEN upto \in (slice.from + 1)..stream
                                        ELSE upto = slice.from
              /\ \E st : slice' = [slice EXCEPT !.status = st, !.upto = upto]
        BY <3>2 DEF ServerReads
      <4>2. slice'.upto = upto
        BY <2>1, <4>1 DEF Slice
      <4>3. slice.from <= stream => upto <= stream
        BY <2>1, <4>1
      <4> QED BY <4>2, <4>3
    <3> QED BY <1>10, <3>1, <3>2
  <2>3. Reading => Reading'
    BY <2>0, <2>1, <2>2 DEF Reading
  <2>4. Waiting => Waiting'
    BY <2>0 DEF Waiting
  <2>5. Live => Live'
    BY <2>0 DEF Live, NextLive
  <2>6. Stopped => Stopped'
    BY <2>0 DEF Stopped
  <2>7. MissedInv'
    BY <2>0, <2>1, <2>2 DEF OrderInv, MissedInv
  <2> QED BY <2>0, <2>3, <2>4, <2>5, <2>6, <2>7 DEF OrderInv
<1>11. CASE ServerReceives \/ ServerPushesEvent \/ ServerDrops
  BY <1>11, ServerOrder
<1>12. CASE HandleMissedDangling
  BY <1>12, OrderUnchanged DEF HandleMissedDangling, baseVars, orderVars
<1>13. CASE UNCHANGED vars
  BY <1>13, OrderUnchanged DEF vars, baseVars, orderVars
<1> QED
  BY <1>1, <1>2, <1>3, <1>4, <1>5, <1>6, <1>7, <1>8, <1>9, <1>10, <1>11, <1>12, <1>13
  DEF Next, SliceStep

LEMMA OrderInvariance == Spec => []OrderInv
  BY TypeInvariance, DropInvariance, OrderInit, OrderNext, PTL DEF Spec

\* Across batches, the read of missed events, the live buffer and whatever ends
\* the subscription, the user sees every event once and in order, except that the
\* event whose number the confirmation carried may be skipped.
THEOREM NothingElseSkipped == Spec => []OnlyConfirmedEventSkipped
<1>1. ASSUME TypeInv, OrderInv PROVE OnlyConfirmedEventSkipped
  <2>0. /\ Len(seen) \in Nat /\ FromEvent \in Int /\ last_event_number \in Int
        /\ (seen # <<>> => 1 \in 1..Len(seen))
    BY <1>1, FromAssumption, EmptySeq DEF TypeInv
  <2>1. ASSUME NEW i \in 1..(Len(seen) - 1)
        PROVE  i \in 1..Len(seen) /\ i + 1 \in 1..Len(seen) /\ i \in Int
    BY <2>0
  <2>2. CASE Straight(seen)
    <3>1. ASSUME NEW i \in 1..(Len(seen) - 1) PROVE seen[i + 1] = seen[i] + 1
      <4>1. seen[i] = FromEvent + i - 1 /\ seen[i + 1] = FromEvent + (i + 1) - 1
        BY <2>1, <2>2 DEF Straight
      <4> QED BY <2>0, <2>1, <4>1
    <3>2. seen # <<>> => seen[1] = FromEvent
      BY <2>0, <2>2 DEF Straight
    <3> QED BY <3>1, <3>2 DEF OnlyConfirmedEventSkipped
  <2>3. CASE Bent(seen, last_event_number)
    <3>1. ASSUME NEW i \in 1..(Len(seen) - 1), seen[i + 1] # seen[i] + 1
          PROVE  seen[i + 1] = seen[i] + 2 /\ seen[i] + 1 = last_event_number
      <4>1. /\ seen[i] = IF FromEvent + i - 1 < last_event_number THEN FromEvent + i - 1
                         ELSE FromEvent + i
            /\ seen[i + 1] = IF FromEvent + (i + 1) - 1 < last_event_number
                             THEN FromEvent + (i + 1) - 1 ELSE FromEvent + (i + 1)
        BY <2>1, <2>3 DEF Bent
      <4> QED BY <2>0, <2>1, <3>1, <4>1
    <3>2. ASSUME seen # <<>>, seen[1] # FromEvent
          PROVE  seen[1] = FromEvent + 1 /\ FromEvent = last_event_number
      BY <2>0, <2>3, <3>2 DEF Bent
    <3> QED BY <3>1, <3>2 DEF OnlyConfirmedEventSkipped
  <2> QED BY <1>1, <2>2, <2>3, SeenInOrder
<1> QED BY <1>1, TypeInvariance, OrderInvariance, PTL

\* After unsubscribe() or a drop the user sees events only from the read of missed
\* events that was under way, and only events before the confirmed one, although
\* packages keep arriving, posted calls that empty the live buffer are still to
\* run, and the read looks neither at the guard nor at the map.
THEOREM OnlyMissedAfterStop == Spec => OnlyMissedEventsAfterStop
<1>1. ASSUME TypeInv, DropInv, OrderInv, [Next]_vars, seen' # seen, handle_guard
      PROVE  slice.loop = "missed" /\ seen'[Len(seen')] < last_event_number
  <2>1. CASE HandleInitialSlice
    BY <1>1, <2>1 DEF HandleInitialSlice, DropInv, EndInv
  <2>2. CASE HandleMissedSlice
    <3>1. slice.loop = "missed" /\ seen' = seen \o SliceEvents
      BY <2>2 DEF HandleMissedSlice
    <3>2. /\ SliceEvents \in Seq(Int) /\ seen \in Seq(Int)
          /\ Len(SliceEvents) = slice.upto - slice.from
          /\ \A i \in 1..Len(SliceEvents) : SliceEvents[i] = slice.from + i - 1
      BY <1>1, SliceFacts DEF TypeInv
    <3>3. SliceEvents # <<>>
      BY <1>1, <3>1, <3>2, ConcatEmptySeq
    <3>4. PICK m \in Nat, n \in Nat : m = Len(seen) /\ n = Len(SliceEvents) /\ n > 0
      BY <3>2, <3>3, EmptySeq
    <3>5. /\ Len(seen') = m + n
          /\ \A i \in 1..(m + n) : seen'[i] = IF i <= m THEN seen[i] ELSE SliceEvents[i - m]
      BY <3>1, <3>2, <3>4, ConcatProperties
    <3>6. seen'[Len(seen')] = SliceEvents[n]
      BY <3>4, <3>5
    <3>7. slice.upto <= last_event_number /\ slice.from \in Int /\ slice.upto \in Int
          /\ last_event_number \in Int
      BY <1>1, <3>1 DEF OrderInv, MissedInv, TypeInv, Slice
    <3>8. SliceEvents[n] = slice.upto - 1
      BY <3>2, <3>4, <3>7
    <3> QED BY <3>1, <3>6, <3>7, <3>8
  <2>3. CASE HandlePackage
    BY <1>1, <2>3 DEF HandlePackage, AnswerUnsubscribe, IgnorePackage, Dispatched
  <2>4. CASE RunPostedDrain
    <3>1. /\ read_subscription_events(<<>>, drains - 1)
          /\ <<>> \in Seq(Int) /\ Len(<<>>) = 0
      BY <1>1, <2>4 DEF RunPostedDrain, DropInv, EndInv
    <3>2. PICK n \in 0..0 : seen' = seen \o SubSeq(<<>>, 1, n)
      BY <1>1, <3>1, DrainFacts
    <3>3. SubSeq(<<>>, 1, n) = <<>>
      BY SubSeqEmpty
    <3> QED BY <1>1, <3>2, <3>3, ConcatEmptySeq DEF TypeInv
  <2> QED
    BY <1>1, <2>1, <2>2, <2>3, <2>4
    DEF Next, AsyncStart, Unsubscribe, UserUnsubscribe, SliceStep, HandleInitialError,
        HandleMissedError, HandleMissedDangling, BaseStep, RunPostedDrop, DeadlineEnds,
        HandleTimeout, ConnectionLost, Written, ServerReads, ReadFails, ServerReceives,
        ServerPushesEvent, ServerDrops, vars, baseVars
<1>2. TypeInv /\ DropInv /\ OrderInv /\ [Next]_vars =>
        [seen' # seen /\ handle_guard =>
           slice.loop = "missed" /\ seen'[Len(seen')] < last_event_number]_vars
  BY <1>1
<1> QED
  BY <1>2, TypeInvariance, DropInvariance, OrderInvariance, PTL
  DEF Spec, OnlyMissedEventsAfterStop
==============================================================================

------------------------- MODULE CatchupSubscription -------------------------
(****************************************************************************)
(* A catch-up subscription to a stream (catchup_subscription.hpp).  It      *)
(* reads the stream in batches until its end, subscribes, reads the events  *)
(* it missed between the last batch and the confirmation, and then empties  *)
(* the buffer of live events that came meanwhile.                           *)
(*                                                                          *)
(* The stream is written to by others at any time.  Events are numbered     *)
(* from 0 without gaps, so the stream is its length.                        *)
(****************************************************************************)
EXTENDS SubscriptionBase, Integers

CONSTANTS
  FromEvent,          \* from_event_number
  ReadBatchSize,      \* settings_.read_batch_size()
  MaxLiveQueueSize,   \* settings_.max_live_queue_size()
  MaxStream           \* bound: length of the stream

ASSUME FromAssumption == FromEvent \in Nat
ASSUME BatchAssumption == ReadBatchSize \in Nat \ {0}
ASSUME LiveQueueAssumption == MaxLiveQueueSize \in Nat \ {0}
\* The subscription starts within the stream or at its end; a from_event_number
\* beyond it is left out.
ASSUME StreamAssumption == MaxStream \in Nat /\ FromEvent <= MaxStream

VARIABLES
  current_event_number,   \* current_event_number_
  event_buffer,           \* event_buffer_: numbers of the live events
  last_event_number,      \* last_event_number_; -2 when it has no value
  slice,                  \* the outstanding read of the stream
  drains,                 \* posted calls of read_subscription_events
  dangling,               \* the program ended by using an erased handler
  stream,                 \* length of the stream on the server
  server,                 \* the server's side: "none", "active" or "ended"
  pushed                  \* the next event the server pushes

catchVars == <<current_event_number, event_buffer, last_event_number, slice,
               drains, dangling>>
serverVars == <<stream, server, pushed>>
vars == <<baseVars, current_event_number, event_buffer, last_event_number,
          slice, drains, dangling, stream, server, pushed>>

NoNumber == -2

\* A read: which loop issued it, where it starts, how many events it asks for,
\* and what is known of its answer.
NoRead == [loop |-> "none", from |-> 0, count |-> 0, status |-> "none", upto |-> 0]

catch_up_events(loop, from, count) ==
  slice' = [loop |-> loop, from |-> from, count |-> count,
            status |-> "sent", upto |-> from]

\* The events of the answer: numbers from .. upto - 1.
SliceEvents == [i \in 1..(slice.upto - slice.from) |-> slice.from + i - 1]

Init ==
  /\ BaseInit
  /\ current_event_number = FromEvent
  /\ event_buffer = <<>>
  /\ last_event_number = NoNumber
  /\ slice = NoRead
  /\ drains = 0
  /\ dangling = FALSE
  /\ stream \in FromEvent..MaxStream
  /\ server = "none"
  /\ pushed = 0

------------------------------------------------------------------------------
(* The initial catch-up.                                                    *)

\* async_start by the user: nothing is registered yet, so unsubscribe() would
\* throw until the first confirmation has been asked for.
AsyncStart ==
  /\ phase = "idle"
  /\ phase' = "running"
  /\ catch_up_events("initial", current_event_number, ReadBatchSize)
  /\ UNCHANGED <<subscriptions_map, guardVars, pendingVars, seen, dropped,
                 thrown, channelVars, current_event_number, event_buffer,
                 last_event_number, drains, dangling, serverVars>>

\* Register the subscription and send SubscribeToStream; nothing is read now.
do_async_start ==
  /\ base_async_start
  /\ slice' = NoRead

\* Mistake: the next batch is asked for by the size of this one.
HandleInitialSliceByBatch ==
  /\ slice.loop = "initial"
  /\ slice.status \in {"more", "end_of_stream"}
  /\ seen' = seen \o SliceEvents
  /\ current_event_number' = current_event_number + slice.count
  /\ \/ /\ slice.status = "end_of_stream"
        /\ do_async_start
     \/ /\ slice.status = "more"
        /\ catch_up_events("initial", current_event_number', ReadBatchSize)
        /\ UNCHANGED <<handle_guard, subscriptions_map, outbox>>
  /\ UNCHANGED <<subscribed, pendingVars, phase, dropped, thrown, inbox,
                 connected, event_buffer, last_event_number, drains, dangling,
                 serverVars>>

\* The events of a batch are given to the user; then read on, or subscribe at
\* the end of the stream.
HandleInitialSlice ==
  /\ slice.loop = "initial"
  /\ slice.status \in {"more", "end_of_stream"}
  /\ seen' = seen \o SliceEvents
  /\ current_event_number' = current_event_number + Len(SliceEvents)
  /\ \/ /\ slice.status = "end_of_stream"
        /\ do_async_start
     \/ /\ slice.status = "more"
        /\ catch_up_events("initial", current_event_number', ReadBatchSize)
        /\ UNCHANGED <<handle_guard, subscriptions_map, outbox>>
  /\ UNCHANGED <<subscribed, pendingVars, phase, dropped, thrown, inbox,
                 connected, event_buffer, last_event_number, drains, dangling,
                 serverVars>>

HandleInitialError ==
  /\ slice.loop = "initial"
  /\ slice.status = "failed"
  /\ unsubscribe("subscription_request_not_sent")
  /\ event_buffer' = <<>>
  /\ slice' = NoRead
  /\ UNCHANGED <<subscriptions_map, phase, seen, dropped, thrown, inbox,
                 connected, current_event_number, last_event_number, drains,
                 dangling, serverVars>>

------------------------------------------------------------------------------
(* Packages of the subscription.                                            *)

\* Mistake: the rest of the buffer is left without a posted call.
read_without_repost(buffer, others) ==
  LET n == IF Len(buffer) < MaxLiveQueueSize THEN Len(buffer) ELSE MaxLiveQueueSize
  IN  /\ seen' = seen \o SubSeq(buffer, 1, n)
      /\ event_buffer' = SubSeq(buffer, n + 1, Len(buffer))
      /\ current_event_number' = current_event_number + n
      /\ drains' = others

\* read_subscription_events: give at most MaxLiveQueueSize buffered events to
\* the user and post itself for the rest.
read_subscription_events(buffer, others) ==
  LET n == IF Len(buffer) < MaxLiveQueueSize THEN Len(buffer) ELSE MaxLiveQueueSize
  IN  /\ seen' = seen \o SubSeq(buffer, 1, n)
      /\ event_buffer' = SubSeq(buffer, n + 1, Len(buffer))
      /\ current_event_number' = current_event_number + n
      /\ drains' = IF n < Len(buffer) THEN others + 1 ELSE others

\* The confirmation carries the number of the last event of the stream; the
\* client reads on from its own number up to it.
Confirmation(p) ==
  /\ p.cmd = "confirmation"
  /\ \/ /\ p.arg # NoNumber
        /\ subscribed' = TRUE
        /\ last_event_number' = p.arg
        /\ \/ /\ p.arg > current_event_number
              /\ catch_up_events("missed", current_event_number,
                                 p.arg - current_event_number)
           \/ /\ p.arg <= current_event_number
              /\ UNCHANGED slice
        /\ UNCHANGED <<handle_guard, pendingVars, outbox, event_buffer>>
     \/ /\ p.arg = NoNumber
        /\ unsubscribe("bad_subscription_confirmation")
        /\ event_buffer' = <<>>
        /\ UNCHANGED <<last_event_number, slice>>
  /\ UNCHANGED <<seen, current_event_number, drains>>

\* A live event is buffered.  It is read at once unless events are being
\* caught up or the buffer is already being emptied.
EventAppeared(p) ==
  /\ p.cmd = "event"
  /\ \/ /\ \/ last_event_number > current_event_number
           \/ event_buffer # <<>>
        /\ event_buffer' = Append(event_buffer, p.arg)
        /\ UNCHANGED <<seen, current_event_number, drains>>
     \/ /\ last_event_number <= current_event_number
        /\ event_buffer = <<>>
        /\ read_subscription_events(<<p.arg>>, drains)
  /\ UNCHANGED <<guardVars, pendingVars, outbox, last_event_number, slice>>

\* A drop or a refusal, handled by the base class; unsubscribe calls
\* shutdown(), which clears the buffer.
BasePackage(p) ==
  /\ BaseDropped(p) \/ BaseRefused(p)
  /\ event_buffer' = IF handle_guard' THEN <<>> ELSE event_buffer
  /\ UNCHANGED <<seen, current_event_number, last_event_number, slice, drains>>

HandlePackage ==
  /\ TakePackage
  /\ \/ /\ AnswerUnsubscribe \/ IgnorePackage
        /\ UNCHANGED <<current_event_number, event_buffer, last_event_number,
                       slice, drains>>
     \/ /\ Dispatched
        /\ LET p == Head(inbox) IN
             Confirmation(p) \/ EventAppeared(p) \/ BasePackage(p)
        /\ UNCHANGED <<subscriptions_map, phase, dropped>>
  /\ UNCHANGED <<dangling, serverVars>>

------------------------------------------------------------------------------
(* Missed events.                                                           *)

\* The events are given to the user, whatever the guard says and even if a drop
\* has erased the handler that event_appeared refers to; the rest is read again,
\* or the buffer of live events is emptied.
HandleMissedSlice ==
  /\ slice.loop = "missed"
  /\ slice.status \in {"more", "end_of_stream"}
  /\ seen' = seen \o SliceEvents
  /\ current_event_number' = current_event_number + Len(SliceEvents)
  /\ LET left == slice.count - Len(SliceEvents) IN
       \/ /\ left > 0
          /\ catch_up_events("missed", current_event_number', left)
          /\ UNCHANGED drains
       \/ /\ left <= 0
          /\ slice' = NoRead
          /\ drains' = drains + 1
  /\ UNCHANGED <<subscriptions_map, guardVars, pendingVars, phase, dropped,
                 thrown, channelVars, event_buffer, last_event_number,
                 dangling, serverVars>>

\* A read of missed events that fails ends the subscription without looking at
\* the guard or at whether the subscription has been erased.
HandleMissedError ==
  /\ slice.loop = "missed"
  /\ slice.status = "failed"
  /\ unsubscribe("read_failed")
  /\ event_buffer' = <<>>
  /\ slice' = NoRead
  /\ UNCHANGED <<subscriptions_map, phase, seen, dropped, thrown, inbox,
                 connected, current_event_number, last_event_number, drains,
                 dangling, serverVars>>

\* The completion of the read holds references into the handler.  Once a drop has
\* erased it from subscriptions_map_, what the completion does is undefined: the
\* memory may still hold the handler, and the two actions above go on with it, or
\* the program ends here.
HandleMissedDangling ==
  /\ slice.loop = "missed"
  /\ slice.status # "sent"
  /\ ~subscriptions_map
  /\ dangling' = TRUE
  /\ UNCHANGED <<baseVars, current_event_number, event_buffer,
                 last_event_number, slice, drains, serverVars>>

\* A posted call of read_subscription_events.
RunPostedDrain ==
  /\ drains > 0
  /\ read_subscription_events(event_buffer, drains - 1)
  /\ UNCHANGED <<subscriptions_map, guardVars, pendingVars, phase, dropped,
                 thrown, channelVars, last_event_number, slice, dangling,
                 serverVars>>

Unsubscribe ==
  /\ UserUnsubscribe
  /\ event_buffer' = IF handle_guard THEN event_buffer ELSE <<>>
  /\ UNCHANGED <<current_event_number, last_event_number, slice, drains,
                 dangling, serverVars>>

BaseStep ==
  /\ \/ RunPostedDrop /\ UNCHANGED event_buffer
     \/ DeadlineEnds /\ UNCHANGED event_buffer
     \/ HandleTimeout /\ event_buffer' = IF operations_map THEN <<>> ELSE event_buffer
     \/ ConnectionLost /\ UNCHANGED event_buffer
  /\ UNCHANGED <<current_event_number, last_event_number, slice, drains,
                 dangling, serverVars>>

------------------------------------------------------------------------------
(* The server (external) and the other writers of the stream.               *)

Written ==
  /\ stream < MaxStream
  /\ stream' = stream + 1
  /\ UNCHANGED <<baseVars, catchVars, server, pushed>>

\* The server answers a read with events it has at that moment: at least one
\* if there is one, and at most as many as were asked for.  A stream without
\* events does not exist: the answer is NoStream, an error (ReadFails).
ServerReads ==
  /\ connected
  /\ slice.status = "sent"
  /\ stream > 0
  /\ \E upto \in slice.from..(slice.from + slice.count) :
       /\ IF slice.from < stream THEN upto \in (slice.from + 1)..stream
                                 ELSE upto = slice.from
       /\ slice' = [slice EXCEPT
            !.status = IF upto >= stream THEN "end_of_stream" ELSE "more",
            !.upto = upto]
  /\ UNCHANGED <<baseVars, current_event_number, event_buffer,
                 last_event_number, drains, dangling, serverVars>>

\* The read is refused, or its operation times out.
ReadFails ==
  /\ slice.status = "sent"
  /\ slice' = [slice EXCEPT !.status = "failed"]
  /\ UNCHANGED <<baseVars, current_event_number, event_buffer,
                 last_event_number, drains, dangling, serverVars>>

ServerReceives ==
  /\ connected
  /\ outbox # <<>>
  /\ outbox' = Tail(outbox)
  /\ LET cmd == Head(outbox).cmd IN
       \/ /\ cmd = "subscribe"
          /\ server' = "active"
          /\ pushed' = stream
          /\ \E n \in {stream - 1, NoNumber} :
               inbox' = Append(inbox, Pkg("confirmation", n))
       \/ /\ cmd = "subscribe"
          /\ server' = "ended"
          /\ \/ \E c \in Refusal : inbox' = Append(inbox, Pkg(c, 0))
             \/ \E r \in {"access_denied", "not_found"} :
                  inbox' = Append(inbox, Pkg("dropped", r))
          /\ UNCHANGED pushed
       \/ /\ cmd = "unsubscribe"
          /\ server = "active"
          /\ server' = "ended"
          /\ inbox' = Append(inbox, Pkg("dropped", "unsubscribed"))
          /\ UNCHANGED pushed
       \/ /\ cmd = "unsubscribe"
          /\ server # "active"
          /\ UNCHANGED <<server, inbox, pushed>>
  /\ UNCHANGED <<subscriptions_map, guardVars, pendingVars, phase, seen,
                 dropped, thrown, connected, catchVars, stream>>

ServerPushesEvent ==
  /\ connected
  /\ server = "active"
  /\ pushed < stream
  /\ inbox' = Append(inbox, Pkg("event", pushed))
  /\ pushed' = pushed + 1
  /\ UNCHANGED <<subscriptions_map, guardVars, pendingVars, phase, seen,
                 dropped, thrown, outbox, connected, catchVars, stream, server>>

ServerDrops ==
  /\ connected
  /\ server = "active"
  /\ server' = "ended"
  /\ \E r \in BaseReason \cup {"other"} : inbox' = Append(inbox, Pkg("dropped", r))
  /\ UNCHANGED <<subscriptions_map, guardVars, pendingVars, phase, seen,
                 dropped, thrown, outbox, connected, catchVars, stream, pushed>>

------------------------------------------------------------------------------
Running == ~thrown /\ ~dangling

SliceStep ==
  \/ HandleInitialSlice \/ HandleInitialError
  \/ HandleMissedSlice \/ HandleMissedError \/ HandleMissedDangling

Next ==
  /\ Running
  /\ \/ AsyncStart \/ Unsubscribe
     \/ SliceStep
     \/ HandlePackage
     \/ RunPostedDrain
     \/ BaseStep
     \/ Written
     \/ ServerReads \/ ReadFails
     \/ ServerReceives \/ ServerPushesEvent \/ ServerDrops

Spec == Init /\ [][Next]_vars

\* Ready handlers run, and the server answers and pushes what it has.
FairSpec ==
  /\ Spec
  /\ WF_vars(Running /\ SliceStep)
  /\ WF_vars(Running /\ HandlePackage)
  /\ WF_vars(Running /\ RunPostedDrain)
  /\ WF_vars(Running /\ (ServerReads \/ ReadFails))
  /\ WF_vars(Running /\ ServerReceives)
  /\ WF_vars(Running /\ ServerPushesEvent)

------------------------------------------------------------------------------
(* Properties.                                                              *)

\* Events reach the user in order and once, from batches, from the read of
\* missed events and from the live buffer.  The one event the switch
\* from reading to the live subscription can skip is the last event of the
\* confirmation; all others reach the user in sequence.
OnlyConfirmedEventSkipped ==
  /\ \A i \in 1..(Len(seen) - 1) :
       seen[i + 1] # seen[i] + 1 =>
         seen[i + 1] = seen[i] + 2 /\ seen[i] + 1 = last_event_number
  /\ seen # <<>> /\ seen[1] # FromEvent =>
       seen[1] = FromEvent + 1 /\ FromEvent = last_event_number

\* catchup_subscription.hpp:105: "catch up all missing events".  The events
\* given to the user follow each other without a gap.
AllMissingEventsCaughtUp ==
  \A i \in 1..Len(seen) : seen[i] = FromEvent + i - 1

\* After unsubscribe or a drop, packages still arrive and posted calls that empty
\* the live buffer still run, but events reach the user only from the read of
\* missed events that was under way, and none from the confirmed event on.  That
\* read does not look at the guard, so they may come even after dropped.
OnlyMissedEventsAfterStop ==
  [][seen' # seen /\ handle_guard =>
       slice.loop = "missed" /\ seen'[Len(seen')] < last_event_number]_vars

\* The dropped handler is called at most once, and a second time only because
\* a read of missed events failed after the subscription had ended.
DroppedTwiceOnlyByRead ==
  /\ Len(dropped) <= 2
  /\ Len(dropped) = 2 => \E i \in 1..2 : dropped[i] = "read_failed"

\* Whatever is written to the stream reaches the user as long as the
\* subscription is up: the last event seen is the last event pushed and
\* nothing stays in the buffer.
LiveEventsDelivered ==
  <>[](subscribed /\ connected /\ server = "active" /\ Running) =>
    <>[](/\ event_buffer = <<>>
         /\ pushed > 0 /\ last_event_number < pushed - 1 => 
              seen # <<>> /\ seen[Len(seen)] = pushed - 1)

==============================================================================

------------------------ MODULE CatchupAllSubscription -----------------------
(****************************************************************************)
(* A catch-up subscription to all streams (catchup_all_subscription.hpp).   *)
(* It works like the one to a single stream, but by position: a pair of a   *)
(* commit and a prepare position in the log of the server.  Reads begin at  *)
(* the position they are given, the event there included.                   *)
(*                                                                          *)
(* An event written on its own has equal positions.  An event written in a  *)
(* transaction has the position of the commit and of its own prepare, so    *)
(* no event has the commit position twice.                                  *)
(****************************************************************************)
EXTENDS SubscriptionBase, Integers, FiniteSets

CONSTANTS
  ReadBatchSize,      \* settings_.read_batch_size()
  MaxLiveQueueSize,   \* settings_.max_live_queue_size()
  FirstPosition,      \* where the first event of the log may lie (external)
  MaxLog              \* bound: events in the log

ASSUME AllBatchAssumption == ReadBatchSize \in Nat \ {0}
ASSUME AllLiveQueueAssumption == MaxLiveQueueSize \in Nat \ {0}
ASSUME LogAssumption == MaxLog \in Nat /\ FirstPosition \in Nat

VARIABLES
  current_position,          \* current_position_
  position_to_catch_up_to,   \* position_to_catch_up_to_
  event_buffer,              \* event_buffer_: indices of events in log
  slice,                     \* the outstanding read of the log
  drains,                    \* posted calls of read_subscription_events
  dangling,                  \* the program ended by using an erased handler
  repeated,                  \* history: events given twice in a row
  log,                       \* positions of the events, in the order of the log
  server,                    \* the server's side: "none", "active" or "ended"
  pushed                     \* events the server pushed or will not push

catchVars == <<current_position, position_to_catch_up_to, event_buffer, slice,
               drains, dangling, repeated>>
serverVars == <<log, server, pushed>>
vars == <<baseVars, current_position, position_to_catch_up_to, event_buffer,
          slice, drains, dangling, repeated, log, server, pushed>>

------------------------------------------------------------------------------
position(c, p) == [commit |-> c, prepare |-> p]

\* operator>
After(a, b) ==
  a.commit > b.commit \/ (a.commit = b.commit /\ a.prepare > b.prepare)

start == position(0, 0)
NoPosition == position(-1, -1)

\* Where the log ends: one past the commit of its last event.
EndOfLog == IF log = <<>> THEN FirstPosition ELSE log[Len(log)].commit + 1

NoRead == [loop |-> "none", from |-> start, status |-> "none", first |-> 1, last |-> 0]

catch_up_events(loop, from) ==
  slice' = [loop |-> loop, from |-> from, status |-> "sent", first |-> 1, last |-> 0]

\* from_position is the start of the log.
Init ==
  /\ BaseInit
  /\ current_position = start
  /\ position_to_catch_up_to = NoPosition
  /\ event_buffer = <<>>
  /\ slice = NoRead
  /\ drains = 0
  /\ dangling = FALSE
  /\ repeated = {}
  /\ log = <<>>
  /\ server = "none"
  /\ pushed = 0

\* event_appeared is called with the events in turn.  An event that repeats
\* the one before it is recorded in repeated and not in seen again.
Batch(first, last) == [i \in 1..(last - first + 1) |-> first + i - 1]

Give(given) ==
  LET again == given # <<>> /\ seen # <<>> /\ given[1] = seen[Len(seen)]
  IN  /\ seen' = seen \o (IF again THEN Tail(given) ELSE given)
      /\ repeated' = IF again THEN repeated \cup {given[1]} ELSE repeated

------------------------------------------------------------------------------
(* The initial catch-up.                                                    *)

AsyncStart ==
  /\ phase = "idle"
  /\ phase' = "running"
  /\ catch_up_events("initial", current_position)
  /\ UNCHANGED <<subscriptions_map, guardVars, pendingVars, seen, dropped,
                 thrown, channelVars, current_position, position_to_catch_up_to,
                 event_buffer, drains, dangling, repeated, serverVars>>

\* A batch of events is given to the user and the next one is read from
\* next_position.  An empty batch is the end: register and subscribe.
HandleInitialSlice ==
  /\ slice.loop = "initial"
  /\ slice.status = "read"
  /\ Give(Batch(slice.first, slice.last))
  /\ \/ /\ slice.first > slice.last
        /\ base_async_start
        /\ slice' = NoRead
        /\ UNCHANGED current_position
     \/ /\ slice.first <= slice.last
        /\ current_position' = position(log[slice.last].commit + 1,
                                        log[slice.last].commit + 1)
        /\ catch_up_events("initial", current_position')
        /\ UNCHANGED <<handle_guard, subscriptions_map, outbox>>
  /\ UNCHANGED <<subscribed, pendingVars, phase, dropped, thrown, inbox,
                 connected, position_to_catch_up_to, event_buffer, drains,
                 dangling, serverVars>>

HandleInitialError ==
  /\ slice.loop = "initial"
  /\ slice.status = "failed"
  /\ unsubscribe("subscription_request_not_sent")
  /\ event_buffer' = <<>>
  /\ slice' = NoRead
  /\ UNCHANGED <<subscriptions_map, phase, seen, dropped, thrown, inbox,
                 connected, current_position, position_to_catch_up_to, drains,
                 dangling, repeated, serverVars>>

------------------------------------------------------------------------------
(* Packages of the subscription.                                            *)

\* Mistake: the loop does not post itself for the rest of the buffer.
read_subscription_events_once(before, buffer, others) ==
  LET n == IF Len(buffer) < MaxLiveQueueSize THEN Len(buffer) ELSE MaxLiveQueueSize
  IN  /\ Give(before \o SubSeq(buffer, 1, n))
      /\ event_buffer' = SubSeq(buffer, n + 1, Len(buffer))
      /\ drains' = others

\* read_subscription_events: give at most MaxLiveQueueSize buffered events to
\* the user after the missed ones in before, and post itself for the rest.
read_subscription_events(before, buffer, others) ==
  LET n == IF Len(buffer) < MaxLiveQueueSize THEN Len(buffer) ELSE MaxLiveQueueSize
  IN  /\ Give(before \o SubSeq(buffer, 1, n))
      /\ event_buffer' = SubSeq(buffer, n + 1, Len(buffer))
      /\ drains' = IF n < Len(buffer) THEN others + 1 ELSE others

\* current_position_ after read_subscription_events.
PositionAfter(buffer, before) ==
  LET n == IF Len(buffer) < MaxLiveQueueSize THEN Len(buffer) ELSE MaxLiveQueueSize
  IN  IF n = 0 THEN before ELSE log[buffer[n]]

\* Mistake: the comparison of the positions is the wrong way round.
Confirmation_reversed(p) ==
  /\ p.cmd = "confirmation"
  /\ subscribed' = TRUE
  /\ position_to_catch_up_to' = position(p.arg, p.arg)
  /\ IF After(current_position, position_to_catch_up_to')
     THEN catch_up_events("missed", current_position)
     ELSE UNCHANGED slice
  /\ UNCHANGED <<handle_guard, pendingVars, outbox, event_buffer, seen, repeated,
                 current_position, drains>>

\* The confirmation carries the commit position of the log; missed events are
\* read if it lies after the client's own position.
Confirmation(p) ==
  /\ p.cmd = "confirmation"
  /\ subscribed' = TRUE
  /\ position_to_catch_up_to' = position(p.arg, p.arg)
  /\ IF After(position_to_catch_up_to', current_position)
     THEN catch_up_events("missed", current_position)
     ELSE UNCHANGED slice
  /\ UNCHANGED <<handle_guard, pendingVars, outbox, event_buffer, seen, repeated,
                 current_position, drains>>

\* Mistake: a live event is read although missed events are being caught up.
EventAppeared_eager(p) ==
  /\ p.cmd = "event"
  /\ read_subscription_events(<<>>, Append(event_buffer, p.arg), drains)
  /\ current_position' = PositionAfter(Append(event_buffer, p.arg), current_position)
  /\ UNCHANGED <<guardVars, pendingVars, outbox, position_to_catch_up_to, slice>>

\* A live event is buffered, and read at once unless events are being caught
\* up or the buffer is already being emptied.
EventAppeared(p) ==
  /\ p.cmd = "event"
  /\ \/ /\ \/ After(position_to_catch_up_to, current_position)
           \/ event_buffer # <<>>
        /\ event_buffer' = Append(event_buffer, p.arg)
        /\ UNCHANGED <<seen, repeated, current_position, drains>>
     \/ /\ ~After(position_to_catch_up_to, current_position)
        /\ event_buffer = <<>>
        /\ read_subscription_events(<<>>, <<p.arg>>, drains)
        /\ current_position' = PositionAfter(<<p.arg>>, current_position)
  /\ UNCHANGED <<guardVars, pendingVars, outbox, position_to_catch_up_to, slice>>

\* A drop or a refusal, handled by the base class; unsubscribe calls
\* shutdown(), which clears the buffer.
BasePackage(p) ==
  /\ BaseDropped(p) \/ BaseRefused(p)
  /\ event_buffer' = IF handle_guard' THEN <<>> ELSE event_buffer
  /\ UNCHANGED <<seen, repeated, current_position, position_to_catch_up_to,
                 slice, drains>>

HandlePackage ==
  /\ TakePackage
  /\ \/ /\ AnswerUnsubscribe \/ IgnorePackage
        /\ UNCHANGED <<current_position, position_to_catch_up_to, event_buffer,
                       slice, drains, repeated>>
     \/ /\ Dispatched
        /\ LET p == Head(inbox) IN
             Confirmation(p) \/ EventAppeared(p) \/ BasePackage(p)
        /\ UNCHANGED <<subscriptions_map, phase, dropped>>
  /\ UNCHANGED <<dangling, serverVars>>

------------------------------------------------------------------------------
(* Missed events.                                                           *)

\* The event of the slice at the position to catch up to, if there is one.
StopIndex ==
  {i \in slice.first..slice.last : log[i] = position_to_catch_up_to}

\* The events before the position to catch up to are given to the user, and
\* the event there is not, whatever the guard says and even if a drop has erased
\* the handler that event_appeared refers to.  Then the buffer of live events is
\* read.
HandleLastMissedSlice ==
  /\ slice.loop = "missed"
  /\ slice.status = "read"
  /\ \E i \in StopIndex :
       /\ read_subscription_events(Batch(slice.first, i - 1), event_buffer, drains)
       /\ current_position' = PositionAfter(event_buffer, log[i])
  /\ slice' = NoRead
  /\ UNCHANGED <<subscriptions_map, guardVars, pendingVars, phase, dropped,
                 thrown, channelVars, position_to_catch_up_to, dangling,
                 serverVars>>

\* Without such an event all are given to the user, and the next read begins
\* at the last of them.
HandleMissedSlice ==
  /\ slice.loop = "missed"
  /\ slice.status = "read"
  /\ StopIndex = {}
  /\ Give(Batch(slice.first, slice.last))
  /\ current_position' = IF slice.first <= slice.last THEN log[slice.last]
                         ELSE current_position
  /\ catch_up_events("missed", current_position')
  /\ UNCHANGED <<subscriptions_map, guardVars, pendingVars, phase, dropped,
                 thrown, channelVars, position_to_catch_up_to, event_buffer,
                 drains, dangling, serverVars>>

\* A read of missed events that fails ends the subscription without looking at
\* the guard or at whether the subscription has been erased.
HandleMissedError ==
  /\ slice.loop = "missed"
  /\ slice.status = "failed"
  /\ unsubscribe("read_failed")
  /\ event_buffer' = <<>>
  /\ slice' = NoRead
  /\ UNCHANGED <<subscriptions_map, phase, seen, repeated, dropped, thrown,
                 inbox, connected, current_position, position_to_catch_up_to,
                 drains, dangling, serverVars>>

\* The completion of the read holds references into the handler.  Once a drop has
\* erased it from subscriptions_map_, what the completion does is undefined: the
\* memory may still hold the handler, and the three actions above go on with it,
\* or the program ends here.
HandleMissedDangling ==
  /\ slice.loop = "missed"
  /\ slice.status # "sent"
  /\ ~subscriptions_map
  /\ dangling' = TRUE
  /\ UNCHANGED <<baseVars, current_position, position_to_catch_up_to,
                 event_buffer, slice, drains, repeated, serverVars>>

RunPostedDrain ==
  /\ drains > 0
  /\ read_subscription_events(<<>>, event_buffer, drains - 1)
  /\ current_position' = PositionAfter(event_buffer, current_position)
  /\ UNCHANGED <<subscriptions_map, guardVars, pendingVars, phase, dropped,
                 thrown, channelVars, position_to_catch_up_to, slice, dangling,
                 serverVars>>

Unsubscribe ==
  /\ UserUnsubscribe
  /\ event_buffer' = IF handle_guard THEN event_buffer ELSE <<>>
  /\ UNCHANGED <<current_position, position_to_catch_up_to, slice, drains,
                 dangling, repeated, serverVars>>

BaseStep ==
  /\ \/ RunPostedDrop /\ UNCHANGED event_buffer
     \/ DeadlineEnds /\ UNCHANGED event_buffer
     \/ HandleTimeout /\ event_buffer' = IF operations_map THEN <<>> ELSE event_buffer
     \/ ConnectionLost /\ UNCHANGED event_buffer
  /\ UNCHANGED <<current_position, position_to_catch_up_to, slice, drains,
                 dangling, repeated, serverVars>>

------------------------------------------------------------------------------
(* The server (external) and those who write to it.                         *)

\* An event is written on its own, or a transaction of one event is committed.
Written ==
  /\ Len(log) < MaxLog
  /\ \E p \in {position(EndOfLog, EndOfLog), position(EndOfLog + 1, EndOfLog)} :
       log' = Append(log, p)
  /\ UNCHANGED <<baseVars, catchVars, server, pushed>>

\* The server answers with the events from the position on: a full batch, or
\* all there are.
ServerReads ==
  /\ connected
  /\ slice.status = "sent"
  /\ LET before == Cardinality({i \in 1..Len(log) : After(slice.from, log[i])})
         last == before + ReadBatchSize
     IN  slice' = [slice EXCEPT !.status = "read", !.first = before + 1,
                                !.last = IF last < Len(log) THEN last ELSE Len(log)]
  /\ UNCHANGED <<baseVars, current_position, position_to_catch_up_to,
                 event_buffer, drains, dangling, repeated, serverVars>>

\* The read is refused, or its operation times out.
ReadFails ==
  /\ slice.status = "sent"
  /\ slice' = [slice EXCEPT !.status = "failed"]
  /\ UNCHANGED <<baseVars, current_position, position_to_catch_up_to,
                 event_buffer, drains, dangling, repeated, serverVars>>

ServerReceives ==
  /\ connected
  /\ outbox # <<>>
  /\ outbox' = Tail(outbox)
  /\ LET cmd == Head(outbox).cmd IN
       \/ /\ cmd = "subscribe"
          /\ server' = "active"
          /\ pushed' = Len(log)
          /\ inbox' = Append(inbox, Pkg("confirmation", EndOfLog - 1))
       \/ /\ cmd = "subscribe"
          /\ server' = "ended"
          /\ \/ \E c \in Refusal : inbox' = Append(inbox, Pkg(c, 0))
             \/ inbox' = Append(inbox, Pkg("dropped", "access_denied"))
          /\ UNCHANGED pushed
       \/ /\ cmd = "unsubscribe"
          /\ server = "active"
          /\ server' = "ended"
          /\ inbox' = Append(inbox, Pkg("dropped", "unsubscribed"))
          /\ UNCHANGED pushed
       \/ /\ cmd = "unsubscribe"
          /\ server # "active"
          /\ UNCHANGED <<server, inbox, pushed>>
  /\ UNCHANGED <<subscriptions_map, guardVars, pendingVars, phase, seen,
                 dropped, thrown, connected, catchVars, log>>

ServerPushesEvent ==
  /\ connected
  /\ server = "active"
  /\ pushed < Len(log)
  /\ pushed' = pushed + 1
  /\ inbox' = Append(inbox, Pkg("event", pushed'))
  /\ UNCHANGED <<subscriptions_map, guardVars, pendingVars, phase, seen,
                 dropped, thrown, outbox, connected, catchVars, log, server>>

ServerDrops ==
  /\ connected
  /\ server = "active"
  /\ server' = "ended"
  /\ \E r \in {"access_denied", "other"} : inbox' = Append(inbox, Pkg("dropped", r))
  /\ UNCHANGED <<subscriptions_map, guardVars, pendingVars, phase, seen,
                 dropped, thrown, outbox, connected, catchVars, log, pushed>>

------------------------------------------------------------------------------
Running == ~thrown /\ ~dangling

SliceStep ==
  \/ HandleInitialSlice \/ HandleInitialError
  \/ HandleLastMissedSlice \/ HandleMissedSlice
  \/ HandleMissedError \/ HandleMissedDangling

Next ==
  /\ Running
  /\ \/ AsyncStart \/ Unsubscribe
     \/ SliceStep
     \/ HandlePackage
     \/ RunPostedDrain
     \/ BaseStep
     \/ Written
     \/ ServerReads \/ ReadFails
     \/ ServerReceives \/ ServerPushesEvent \/ ServerDrops

Spec == Init /\ [][Next]_vars

\* Ready handlers run, and the server answers and pushes what it has.
FairSpec ==
  /\ Spec
  /\ WF_vars(Running /\ SliceStep)
  /\ WF_vars(Running /\ HandlePackage)
  /\ WF_vars(Running /\ RunPostedDrain)
  /\ WF_vars(Running /\ (ServerReads \/ ReadFails))
  /\ WF_vars(Running /\ ServerReceives)
  /\ WF_vars(Running /\ ServerPushesEvent)

------------------------------------------------------------------------------
(* Properties.                                                              *)

\* The confirmed commit position, if it leaves anything to catch up to, is the
\* position of an event.  It is not when the last commit before the subscription
\* was that of a transaction, whose events have other prepare positions, or when
\* the log had no event yet.
EndsAtEvent ==
  After(position_to_catch_up_to, start) =>
    \E i \in 1..Len(log) : log[i] = position_to_catch_up_to

\* Of the events up to the last one given to the user, the only one that is
\* not given is the event at the commit position of the confirmation.
OnlyConfirmedEventSkipped ==
  \A i \in 1..Len(log) :
    /\ \E j \in 1..Len(seen) : i < seen[j]
    /\ \A j \in 1..Len(seen) : seen[j] # i
    => log[i] = position_to_catch_up_to

\* If the confirmed commit position is that of an event written on its own,
\* the events come in order, across batches, missed and live events; an
\* event is repeated only directly after itself.
InOrder ==
  EndsAtEvent => \A i \in 1..(Len(seen) - 1) : seen[i] < seen[i + 1]

\* As long as the subscription is up, the catch-up ends and every event the
\* server pushes is given to the user; nothing stays in the buffer.  This takes
\* batches of two events or more, because each read of missed events begins
\* with the last event of the one before, and a commit position that is the
\* position of an event.
CatchUpEnds ==
  <>[](/\ subscribed /\ connected /\ server = "active" /\ Running
       /\ ReadBatchSize > 1 /\ EndsAtEvent) =>
    <>[](/\ event_buffer = <<>>
         /\ slice.loop = "none"
         /\ pushed > 0 /\ log[pushed] # position_to_catch_up_to =>
              seen # <<>> /\ seen[Len(seen)] = pushed)

==============================================================================

----------------------------- MODULE Subscription ----------------------------
(****************************************************************************)
(* One volatile or persistent subscription (volatile_subscription.hpp,      *)
(* persistent_subscription.hpp) and the server's side of it.                *)
(****************************************************************************)
EXTENDS SubscriptionBase, FiniteSets

CONSTANTS
  AllowedInFlight,   \* allowed_in_flight_messages_
  MaxEvents          \* bound: events the server sends

ASSUME InFlightAssumption == AllowedInFlight \in Nat \ {0}
ASSUME EventsAssumption == MaxEvents \in Nat

VARIABLES
  kind,               \* which of the two classes, never changed
  auto_ack,           \* auto_ack_ of a persistent subscription, never changed
  acked,              \* events acknowledged or failed
  server,             \* the server's side: "none", "active" or "ended"
  sent,               \* events the server sent
  unacked             \* events the server sent that are not acknowledged

serverVars == <<server, sent, unacked>>
settingsVars == <<kind, auto_ack>>
userVars == <<kind, auto_ack, acked>>
vars == <<baseVars, kind, auto_ack, acked, server, sent, unacked>>

Init ==
  /\ BaseInit
  /\ kind \in {"volatile", "persistent"}
  /\ auto_ack \in IF kind = "persistent" THEN BOOLEAN ELSE {FALSE}
  /\ acked = {}
  /\ server = "none"
  /\ sent = 0
  /\ unacked = 0

------------------------------------------------------------------------------
(* The client.                                                              *)

\* A subscription object is started once, as in the repository's examples.
AsyncStart ==
  /\ phase = "idle"
  /\ phase' = "running"
  /\ base_async_start
  /\ UNCHANGED <<pendingVars, subscribed, seen, dropped, thrown, inbox,
                 connected, userVars, serverVars>>

Unsubscribe ==
  /\ UserUnsubscribe
  /\ UNCHANGED <<userVars, serverVars>>

\* One package settles events the user was given; the server only needs to
\* know how many.
Settle(cmd, events) ==
  /\ kind = "persistent"
  /\ ~auto_ack
  /\ events # {}
  /\ events \subseteq {seen[i] : i \in 1..Len(seen)} \ acked
  /\ acked' = acked \cup events
  /\ outbox' = Append(outbox, Pkg(cmd, Cardinality(events)))
  /\ UNCHANGED <<subscriptions_map, guardVars, pendingVars, phase, seen,
                 dropped, thrown, inbox, connected, settingsVars, serverVars>>

\* acknowledge, of one event or of a range.
Acknowledge(events) == Settle("ack", events)

\* fail, of one event or of a range, whatever the action: an event the server
\* then retries is an event like any other.
Fail(events) == Settle("nak", events)

Confirmation(p) ==
  /\ p.cmd = "confirmation"
  /\ subscribed' = TRUE
  /\ UNCHANGED <<handle_guard, pendingVars, seen, acked, outbox>>

\* Mistake: the automatic acknowledgement is not sent.
EventAppearedNoAck(p) ==
  /\ p.cmd = "event"
  /\ seen' = Append(seen, p.arg)
  /\ UNCHANGED <<acked, outbox, guardVars, pendingVars>>

\* event_appeared, then the acknowledgement of an auto-acknowledging
\* persistent subscription.
EventAppeared(p) ==
  /\ p.cmd = "event"
  /\ seen' = Append(seen, p.arg)
  /\ \/ /\ kind = "persistent" /\ auto_ack
        /\ acked' = acked \cup {p.arg}
        /\ outbox' = Append(outbox, Pkg("ack", 1))
     \/ /\ kind = "volatile" \/ ~auto_ack
        /\ UNCHANGED <<acked, outbox>>
  /\ UNCHANGED <<guardVars, pendingVars>>

\* The user calls unsubscribe() in event_appeared: the request to unsubscribe
\* is sent, and the event is acknowledged after it when the call returns.
UnsubscribeInEvent(p) ==
  /\ p.cmd = "event"
  /\ phase = "running"
  /\ phase' = "stopping"
  /\ seen' = Append(seen, p.arg)
  /\ subscribed' = FALSE
  /\ handle_guard' = TRUE
  /\ operations_map' = TRUE
  /\ deadline' = "armed"
  /\ \/ /\ kind = "persistent" /\ auto_ack
        /\ acked' = acked \cup {p.arg}
        /\ outbox' = outbox \o <<Pkg("unsubscribe", 0), Pkg("ack", 1)>>
     \/ /\ kind = "volatile" \/ ~auto_ack
        /\ outbox' = Append(outbox, Pkg("unsubscribe", 0))
        /\ UNCHANGED acked
  /\ UNCHANGED posted

\* The persistent subscription handles SubscriptionDropped itself: it knows
\* two more reasons and reports any other as unsubscribed.
PersistentReason ==
  BaseReason \cup {"persistent_subscription_deleted", "subscriber_max_count_reached"}

PersistentDropped(p) ==
  /\ p.cmd = "dropped"
  /\ unsubscribe(IF p.arg \in PersistentReason THEN p.arg ELSE "unsubscribed")

SubscriptionPackage(p) ==
  /\ Dispatched
  /\ \/ Confirmation(p) /\ UNCHANGED phase
     \/ EventAppeared(p) /\ UNCHANGED phase
     \/ UnsubscribeInEvent(p)
     \/ /\ \/ kind = "persistent" /\ PersistentDropped(p)
           \/ kind = "volatile" /\ BaseDropped(p)
           \/ BaseRefused(p)
        /\ UNCHANGED <<seen, acked, phase>>
  /\ UNCHANGED <<subscriptions_map, dropped>>

HandlePackage ==
  /\ TakePackage
  /\ \/ AnswerUnsubscribe /\ UNCHANGED acked
     \/ IgnorePackage /\ UNCHANGED acked
     \/ SubscriptionPackage(Head(inbox))
  /\ UNCHANGED <<settingsVars, serverVars>>

\* The handlers and events that only concern the base class.
BaseStep ==
  /\ RunPostedDrop \/ DeadlineEnds \/ HandleTimeout \/ ConnectionLost
  /\ UNCHANGED <<userVars, serverVars>>

------------------------------------------------------------------------------
(* The server (external).                                                   *)

ServerReply(p) == inbox' = Append(inbox, p)

clientVars == <<subscriptions_map, guardVars, pendingVars, phase, seen, dropped,
                thrown, connected, userVars>>

\* A subscribe request is confirmed or refused; an unsubscribe request ends an
\* active subscription and is otherwise not answered; an acknowledgement makes
\* room for another event.
ServerReceives ==
  /\ connected
  /\ outbox # <<>>
  /\ outbox' = Tail(outbox)
  /\ LET cmd == Head(outbox).cmd IN
       \/ /\ cmd = "subscribe"
          /\ server' = "active"
          /\ ServerReply(Pkg("confirmation", 0))
          /\ UNCHANGED unacked
       \/ /\ cmd = "subscribe"
          /\ server' = "ended"
          /\ \/ \E c \in Refusal : ServerReply(Pkg(c, 0))
             \/ \E r \in {"access_denied", "not_found"} : ServerReply(Pkg("dropped", r))
          /\ UNCHANGED unacked
       \/ /\ cmd = "unsubscribe"
          /\ server = "active"
          /\ server' = "ended"
          /\ ServerReply(Pkg("dropped", "unsubscribed"))
          /\ UNCHANGED unacked
       \/ /\ cmd = "unsubscribe"
          /\ server # "active"
          /\ UNCHANGED <<server, inbox, unacked>>
       \/ /\ cmd \in {"ack", "nak"}
          /\ unacked' = unacked - Head(outbox).arg
          /\ UNCHANGED <<server, inbox>>
  /\ UNCHANGED <<clientVars, sent>>

\* A persistent subscription has at most AllowedInFlight events under way.
ServerSendsEvent ==
  /\ connected
  /\ server = "active"
  /\ sent < MaxEvents
  /\ kind = "persistent" => unacked < AllowedInFlight
  /\ sent' = sent + 1
  /\ unacked' = IF kind = "persistent" THEN unacked + 1 ELSE unacked
  /\ ServerReply(Pkg("event", sent + 1))
  /\ UNCHANGED <<clientVars, outbox, server>>

\* The server ends an active subscription on its own.
ServerDrops ==
  /\ connected
  /\ server = "active"
  /\ server' = "ended"
  /\ \/ \E r \in DropReason : ServerReply(Pkg("dropped", r))
     \/ \E c \in Refusal : ServerReply(Pkg(c, 0))
  /\ UNCHANGED <<clientVars, outbox, sent, unacked>>

------------------------------------------------------------------------------
Next ==
  /\ ~thrown
  /\ \/ AsyncStart
     \/ Unsubscribe
     \/ \E events \in SUBSET (1..MaxEvents) : Acknowledge(events) \/ Fail(events)
     \/ HandlePackage
     \/ BaseStep
     \/ ServerReceives
     \/ ServerSendsEvent
     \/ ServerDrops

Spec == Init /\ [][Next]_vars

\* The io_context runs ready handlers and time passes.
FairSpec ==
  /\ Spec
  /\ WF_vars(~thrown /\ HandlePackage)
  /\ WF_vars(~thrown /\ RunPostedDrop /\ UNCHANGED <<userVars, serverVars>>)
  /\ WF_vars(~thrown /\ DeadlineEnds /\ UNCHANGED <<userVars, serverVars>>)
  /\ WF_vars(~thrown /\ HandleTimeout /\ UNCHANGED <<userVars, serverVars>>)

\* The server reads what it is sent and sends the events it may send.  Only
\* EventsKeepFlowing assumes it.
ServerIsFair ==
  /\ WF_vars(~thrown /\ ServerReceives)
  /\ WF_vars(~thrown /\ ServerSendsEvent)

------------------------------------------------------------------------------
(* Properties.                                                              *)

\* Once the guard is locked there is exactly one way the drop of the
\* subscription reaches the user: the pending unsubscribe operation, the
\* posted lambda, or the call that was already made.  With the guard unlocked
\* there is none.  Server drops, refusals, the user's unsubscribe and the
\* deadline of that request all compete for it.
OneDropPath ==
  Len(posted) + Len(dropped) + (IF operations_map THEN 1 ELSE 0)
    = IF handle_guard THEN 1 ELSE 0

\* No event reaches the user after he called unsubscribe, after a package
\* ended the subscription or after dropped was called.
NoEventAfterStop ==
  [][seen' # seen => phase = "running" /\ ~handle_guard /\ dropped = <<>>]_vars

\* The packages after which the client considers the subscription over.
IsTerminal(p) ==
  \/ p.cmd \in Refusal
  \/ p.cmd = "dropped" /\ (kind = "persistent" \/ p.arg \in BaseReason)

\* However the subscription ends, the dropped handler is called: after
\* unsubscribe(), even if the server never answers or the connection is lost,
\* and after a package that ends it, as long as the connection lives to deliver
\* that package.
EndIsNotified ==
  /\ phase = "stopping" ~> (phase = "dropped" \/ thrown)
  /\ (\E i \in 1..Len(inbox) : IsTerminal(inbox[i]))
       ~> (phase = "dropped" \/ ~connected \/ thrown)

\* A persistent subscription that acknowledges automatically never starves:
\* while it stays connected all events of a server that does its part reach the
\* user, however small the in-flight window is.
EventsKeepFlowing ==
  ServerIsFair /\ auto_ack /\ <>[](phase = "running" /\ connected /\ server = "active" /\ ~thrown)
    => <>(Len(seen) = MaxEvents)

==============================================================================

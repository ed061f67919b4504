--------------------------- MODULE SubscriptionBase --------------------------
(****************************************************************************)
(* subscription_base.hpp: what volatile, persistent and catch-up            *)
(* subscriptions share, on top of a connection that delivers packages in    *)
(* order (TcpConnection!SendOrder) until it is lost.                        *)
(*                                                                          *)
(* The key of the subscription is a key of subscriptions_map_ and, while an *)
(* UnsubscribeFromStream request is pending, also of operations_map_, which *)
(* on_package_received looks up first.  So the next package with that key,  *)
(* an event included, is taken as the answer to the request.                *)
(****************************************************************************)
EXTENDS Naturals, Sequences

VARIABLES
  subscriptions_map,  \* key_ is in connection_->subscriptions_map_
  operations_map,     \* key_ is in connection_->operations_map_
  deadline,           \* the timer of the unsubscribe operation
  handle_guard,       \* handle_guard_
  subscribed,         \* subscribed_
  posted,             \* error codes of the posted "erase and drop" lambdas
  phase,              \* what the user did or was told last
  seen,               \* events given to event_appeared, in order
  dropped,            \* error codes given to the dropped handler, in order
  thrown,             \* std::out_of_range left io_context::run
  outbox,             \* packages on the way to the server
  inbox,              \* packages on the way to the client
  connected           \* the connection delivers packages

guardVars == <<handle_guard, subscribed>>
pendingVars == <<operations_map, deadline, posted>>
channelVars == <<outbox, inbox, connected>>
baseVars == <<subscriptions_map, operations_map, deadline, handle_guard,
              subscribed, posted, phase, seen, dropped, thrown, outbox, inbox,
              connected>>

------------------------------------------------------------------------------
(* Error codes and packages.                                                *)

\* SubscriptionDropped reasons; "other" is a reason no code of the client
\* names.
DropReason == {"unsubscribed", "access_denied", "not_found",
               "persistent_subscription_deleted",
               "subscriber_max_count_reached", "other"}

\* Commands that end the subscription without being a SubscriptionDropped;
\* "unexpected" is any command without a case in async_start.
Refusal == {"not_authenticated", "bad_request", "not_handled", "unexpected"}

Pkg(cmd, arg) == [cmd |-> cmd, arg |-> arg]

BaseInit ==
  /\ subscriptions_map = FALSE
  /\ operations_map = FALSE
  /\ deadline = "unused"
  /\ handle_guard = FALSE
  /\ subscribed = FALSE
  /\ posted = <<>>
  /\ phase = "idle"
  /\ seen = <<>>
  /\ dropped = <<>>
  /\ thrown = FALSE
  /\ outbox = <<>>
  /\ inbox = <<>>
  /\ connected = TRUE

------------------------------------------------------------------------------
\* async_start of the base, and the subscribe request its callers send next.
base_async_start ==
  /\ handle_guard' = FALSE
  /\ subscriptions_map' = TRUE
  /\ outbox' = Append(outbox, Pkg("subscribe", 0))

\* Mistake: the guard is not locked.
unsubscribe_unguarded(ec) ==
  /\ subscribed' = FALSE
  /\ \/ /\ ec = "unsubscribed"
        /\ outbox' = Append(outbox, Pkg("unsubscribe", 0))
        /\ operations_map' = TRUE
        /\ deadline' = "armed"
        /\ UNCHANGED posted
     \/ /\ ec # "unsubscribed"
        /\ posted' = Append(posted, ec)
        /\ UNCHANGED <<outbox, operations_map, deadline>>
  /\ UNCHANGED handle_guard

\* unsubscribe(ec, dropped): lock the guard, then either send
\* UnsubscribeFromStream as an operation with a deadline, or post the lambda
\* that erases the subscription and calls dropped.
unsubscribe(ec) ==
  /\ subscribed' = FALSE
  /\ handle_guard' = TRUE
  /\ \/ /\ ec = "unsubscribed"
        /\ outbox' = Append(outbox, Pkg("unsubscribe", 0))
        /\ operations_map' = TRUE
        /\ deadline' = "armed"
        /\ UNCHANGED posted
     \/ /\ ec # "unsubscribed"
        /\ posted' = Append(posted, ec)
        /\ UNCHANGED <<outbox, operations_map, deadline>>

\* unsubscribe() of the user: subscriptions_map_[key_](unsubscribed, {}).  When
\* the key is not registered the call throws to the user and changes nothing.
UserUnsubscribe ==
  /\ subscriptions_map
  /\ phase = "running"
  /\ phase' = "stopping"
  /\ \/ /\ handle_guard
        /\ UNCHANGED <<guardVars, pendingVars, outbox>>
     \/ /\ ~handle_guard
        /\ unsubscribe("unsubscribed")
  /\ UNCHANGED <<subscriptions_map, seen, dropped, thrown, inbox, connected>>

(* Packages for the key of the subscription.                                *)

\* Both lambdas that end a subscription erase it and then call dropped.
EraseAndDrop(ec) ==
  /\ subscriptions_map' = FALSE
  /\ dropped' = Append(dropped, ec)
  /\ phase' = "dropped"

\* operations_map_ contains the key: the package answers the unsubscribe
\* request, whatever it is.
AnswerUnsubscribe ==
  /\ operations_map
  /\ EraseAndDrop("unsubscribed")
  /\ operations_map' = FALSE
  /\ deadline' = IF deadline = "armed" THEN "aborted" ELSE deadline
  /\ UNCHANGED <<guardVars, posted, seen, outbox>>

\* subscriptions_map_ contains the key but the guard is locked, or neither map
\* does: nothing happens.
IgnorePackage ==
  /\ ~operations_map
  /\ handle_guard \/ ~subscriptions_map
  /\ UNCHANGED <<subscriptions_map, guardVars, pendingVars, phase, seen,
                 dropped, outbox>>

\* Mistake: packages are dispatched without looking at the guard.
DispatchedUnguarded == ~operations_map /\ subscriptions_map

\* The package reaches the derived class.
Dispatched == ~operations_map /\ subscriptions_map /\ ~handle_guard

\* A SubscriptionDropped the derived class does not handle.  For a reason it
\* does not list the base returns without telling anyone.
BaseReason == {"unsubscribed", "access_denied", "not_found"}

BaseDropped(p) ==
  /\ p.cmd = "dropped"
  /\ \/ /\ p.arg \in BaseReason
        /\ unsubscribe(p.arg)
     \/ /\ p.arg \notin BaseReason
        /\ UNCHANGED <<guardVars, pendingVars, outbox>>

\* The error code a refusal is reported with.
RefusalError(cmd) ==
  CASE cmd = "not_handled" -> IF subscribed THEN "unknown"
                              ELSE "max_operation_retries"
    [] cmd = "unexpected" -> "server_error"
    [] OTHER -> cmd

BaseRefused(p) ==
  /\ p.cmd \in Refusal
  /\ unsubscribe(RefusalError(p.cmd))

\* The next package from the server; the caller says what is done with it.
TakePackage ==
  /\ connected
  /\ inbox # <<>>
  /\ inbox' = Tail(inbox)
  /\ UNCHANGED <<thrown, connected>>

\* The lambda posted by unsubscribe(ec, dropped).
RunPostedDrop ==
  /\ posted # <<>>
  /\ posted' = Tail(posted)
  /\ EraseAndDrop(Head(posted))
  /\ UNCHANGED <<operations_map, deadline, guardVars, seen, thrown, channelVars>>

\* Time passes, or the wait fails with an error of the timer's own.
DeadlineEnds ==
  /\ deadline = "armed"
  /\ deadline' \in {"expired", "failed"}
  /\ UNCHANGED <<subscriptions_map, operations_map, guardVars, posted, phase,
                 seen, dropped, thrown, channelVars>>

\* Mistake: the handler of the request ignores the error.
HandleTimeoutIgnored ==
  /\ deadline \in {"expired", "failed"}
  /\ deadline' = "done"
  /\ operations_map' = FALSE
  /\ thrown' = (deadline = "expired" /\ ~operations_map)
  /\ UNCHANGED <<subscriptions_map, guardVars, posted, phase, seen, dropped,
                 channelVars>>

\* operation_op of the unsubscribe request ends: its handler calls
\* unsubscribe(err, dropped) and the operation is erased.  If the request was
\* answered after the deadline passed, operations_map_[key_] throws; after a
\* failed wait the operation is looked up first.
HandleTimeout ==
  /\ deadline \in {"expired", "failed"}
  /\ \/ /\ operations_map
        /\ subscribed' = FALSE
        /\ handle_guard' = TRUE
        /\ posted' = Append(posted, IF deadline = "expired" THEN "operation_timeout"
                                    ELSE "timer_error")
        /\ operations_map' = FALSE
        /\ deadline' = "done"
        /\ UNCHANGED thrown
     \/ /\ ~operations_map
        /\ thrown' = (deadline = "expired")
        /\ deadline' = "done"
        /\ UNCHANGED <<guardVars, operations_map, posted>>
  /\ UNCHANGED <<subscriptions_map, phase, seen, dropped, channelVars>>

\* The socket closes.  No subscription is told (close() of the connection).
ConnectionLost ==
  /\ connected
  /\ connected' = FALSE
  /\ UNCHANGED <<subscriptions_map, guardVars, pendingVars, phase, seen,
                 dropped, thrown, outbox, inbox>>

------------------------------------------------------------------------------
==============================================================================

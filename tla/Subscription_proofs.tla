------------------------- MODULE Subscription_proofs --------------------------
(****************************************************************************)
(* Proofs about a volatile or persistent subscription, for any number of    *)
(* events and any window of unacknowledged ones.                            *)
(****************************************************************************)
EXTENDS Subscription, SequenceTheorems, TLAPS

USE DEF guardVars, pendingVars, channelVars, userVars, serverVars, settingsVars

------------------------------------------------------------------------------
(* The inductive invariant.                                                 *)

\* The guard is not locked: nothing is under way that ends the subscription.
Unlocked ==
  /\ handle_guard = FALSE /\ operations_map = FALSE
  /\ posted = <<>> /\ dropped = <<>>
  /\ (phase = "idle" /\ subscriptions_map = FALSE) \/ phase = "running"

\* The unsubscribe request is pending.
Asking ==
  /\ handle_guard = TRUE /\ operations_map = TRUE
  /\ posted = <<>> /\ dropped = <<>>
  /\ phase # "idle"

\* The lambda that erases the subscription is posted.
Ending ==
  /\ handle_guard = TRUE /\ operations_map = FALSE
  /\ \E ec : posted = <<ec>>
  /\ dropped = <<>>
  /\ phase # "idle"

\* The dropped handler was called and the subscription is erased.
Ended ==
  /\ handle_guard = TRUE /\ operations_map = FALSE
  /\ posted = <<>>
  /\ \E ec : dropped = <<ec>>
  /\ phase # "idle"
  /\ subscriptions_map = FALSE

DropInv == Unlocked \/ Asking \/ Ending \/ Ended

LEMMA Singleton == \A e : Append(<<>>, e) = <<e>> /\ Head(<<e>>) = e /\ Tail(<<e>>) = <<>>
  OBVIOUS

\* unsubscribe(ec, dropped) called with the guard unlocked.
LEMMA UnsubscribeEnds ==
  ASSUME Unlocked, NEW ec, unsubscribe(ec), UNCHANGED dropped, phase' # "idle"
  PROVE  Asking' \/ Ending'
<1>1. CASE ec = "unsubscribed"
  BY <1>1 DEF Unlocked, unsubscribe, Asking
<1>2. CASE ec # "unsubscribed"
  <2>1. posted' = <<ec>>
    BY <1>2, Singleton DEF Unlocked, unsubscribe
  <2> QED BY <1>2, <2>1 DEF Unlocked, unsubscribe, Ending
<1> QED BY <1>1, <1>2

\* A package reaches the class only while the subscription runs.
LEMMA DispatchedRuns == DropInv /\ Dispatched => Unlocked /\ phase = "running"
  BY DEF DropInv, Unlocked, Asking, Ending, Ended, Dispatched

LEMMA PackageStep ==
  ASSUME DropInv, NEW p, SubscriptionPackage(p)
  PROVE  DropInv'
<1>0. Unlocked /\ phase = "running" /\ UNCHANGED <<subscriptions_map, dropped>>
  BY DispatchedRuns DEF SubscriptionPackage
<1>1. CASE (Confirmation(p) \/ EventAppeared(p)) /\ UNCHANGED phase
  BY <1>0, <1>1 DEF Confirmation, EventAppeared, Unlocked, DropInv
<1>2. CASE UnsubscribeInEvent(p)
  BY <1>0, <1>2 DEF UnsubscribeInEvent, Unlocked, Asking, DropInv
<1>3. CASE PersistentDropped(p) /\ UNCHANGED phase
  BY <1>0, <1>3, UnsubscribeEnds DEF PersistentDropped, DropInv
<1>4. CASE BaseDropped(p) /\ UNCHANGED phase
  <2>1. CASE unsubscribe(p.arg)
    BY <1>0, <1>4, <2>1, UnsubscribeEnds DEF DropInv
  <2>2. CASE UNCHANGED <<guardVars, pendingVars, outbox>>
    BY <1>0, <1>4, <2>2 DEF Unlocked, DropInv
  <2> QED BY <1>4, <2>1, <2>2 DEF BaseDropped
<1>5. CASE BaseRefused(p) /\ UNCHANGED phase
  BY <1>0, <1>5, UnsubscribeEnds DEF BaseRefused, DropInv
<1> QED BY <1>1, <1>2, <1>3, <1>4, <1>5 DEF SubscriptionPackage

LEMMA DropInit == Init => DropInv
  BY DEF Init, BaseInit, DropInv, Unlocked

LEMMA DropNext == DropInv /\ [Next]_vars => DropInv'
<1> SUFFICES ASSUME DropInv, [Next]_vars PROVE DropInv'
  OBVIOUS
<1>0. ASSUME UNCHANGED <<subscriptions_map, operations_map, handle_guard, posted, dropped, phase>>
      PROVE  DropInv'
  BY <1>0 DEF DropInv, Unlocked, Asking, Ending, Ended
<1>1. CASE AsyncStart
  BY <1>1 DEF AsyncStart, base_async_start, DropInv, Unlocked, Asking, Ending, Ended
<1>2. CASE Unsubscribe
  <2>0. /\ phase = "running" /\ phase' = "stopping"
        /\ UNCHANGED <<subscriptions_map, dropped>>
    BY <1>2 DEF Unsubscribe, UserUnsubscribe
  <2>1. CASE handle_guard /\ UNCHANGED <<guardVars, pendingVars>>
    BY <2>0, <2>1 DEF DropInv, Unlocked, Asking, Ending, Ended
  <2>2. CASE ~handle_guard /\ unsubscribe("unsubscribed")
    <3>1. Unlocked
      BY <2>2 DEF DropInv, Asking, Ending, Ended
    <3> QED BY <2>0, <2>2, <3>1, UnsubscribeEnds DEF DropInv
  <2> QED BY <1>2, <2>1, <2>2 DEF Unsubscribe, UserUnsubscribe
<1>3. ASSUME NEW events, Acknowledge(events) \/ Fail(events) PROVE DropInv'
  BY <1>0, <1>3 DEF Acknowledge, Fail, Settle
<1>4. CASE HandlePackage
  <2>1. CASE AnswerUnsubscribe
    <3>1. Asking
      BY <2>1 DEF AnswerUnsubscribe, DropInv, Unlocked, Ending, Ended
    <3>2. dropped' = <<"unsubscribed">>
      BY <2>1, <3>1, Singleton DEF AnswerUnsubscribe, EraseAndDrop, Asking
    <3> QED BY <2>1, <3>1, <3>2 DEF AnswerUnsubscribe, EraseAndDrop, Asking, Ended, DropInv
  <2>2. CASE IgnorePackage
    BY <1>0, <2>2 DEF IgnorePackage
  <2>3. CASE SubscriptionPackage(Head(inbox))
    BY <2>3, PackageStep
  <2> QED BY <1>4, <2>1, <2>2, <2>3 DEF HandlePackage
<1>5. CASE RunPostedDrop
  <2>1. PICK ec : posted = <<ec>> /\ Ending
    BY <1>5 DEF RunPostedDrop, DropInv, Unlocked, Asking, Ending, Ended
  <2>2. posted' = <<>> /\ dropped' = <<ec>>
    BY <1>5, <2>1, Singleton DEF RunPostedDrop, EraseAndDrop, Ending
  <2> QED BY <1>5, <2>1, <2>2 DEF RunPostedDrop, EraseAndDrop, Ending, Ended, DropInv
<1>6. CASE DeadlineEnds \/ ConnectionLost
  BY <1>0, <1>6 DEF DeadlineEnds, ConnectionLost
<1>7. CASE HandleTimeout
  <2>1. CASE ~operations_map
    BY <1>0, <1>7, <2>1 DEF HandleTimeout
  <2>2. CASE operations_map
    <3>1. Asking
      BY <2>2 DEF DropInv, Unlocked, Ending, Ended
    <3>2. PICK ec : posted' = Append(posted, ec)
      BY <1>7, <2>2 DEF HandleTimeout
    <3>3. posted' = <<ec>>
      BY <3>1, <3>2, Singleton DEF Asking
    <3> QED BY <1>7, <2>2, <3>1, <3>3 DEF HandleTimeout, Asking, Ending, DropInv
  <2> QED BY <2>1, <2>2
<1>8. CASE ServerReceives \/ ServerSendsEvent \/ ServerDrops
  BY <1>0, <1>8 DEF ServerReceives, ServerSendsEvent, ServerDrops, clientVars
<1>9. CASE UNCHANGED vars
  BY <1>0, <1>9 DEF vars, baseVars
<1> QED
  BY <1>1, <1>2, <1>3, <1>4, <1>5, <1>6, <1>7, <1>8, <1>9 DEF Next, BaseStep

LEMMA DropInvariance == Spec => []DropInv
  BY DropInit, DropNext, PTL DEF Spec

\* Whatever ends a subscription, and however many reasons to end it compete,
\* exactly one call of its dropped handler has been made or is on its way.
THEOREM DropIsUnique == Spec => []OneDropPath
<1>1. ASSUME DropInv PROVE OneDropPath
  <2>0. Len(<<>>) = 0 /\ \A e : Len(<<e>>) = 1
    OBVIOUS
  <2>1. CASE Unlocked
    BY <2>0, <2>1 DEF Unlocked, OneDropPath
  <2>2. CASE Asking
    BY <2>0, <2>2 DEF Asking, OneDropPath
  <2>3. CASE Ending
    <3>1. Len(posted) = 1 /\ Len(dropped) = 0
      BY <2>0, <2>3 DEF Ending
    <3> QED BY <2>3, <3>1 DEF Ending, OneDropPath
  <2>4. CASE Ended
    <3>1. Len(posted) = 0 /\ Len(dropped) = 1
      BY <2>0, <2>4 DEF Ended
    <3> QED BY <2>4, <3>1 DEF Ended, OneDropPath
  <2> QED BY <1>1, <2>1, <2>2, <2>3, <2>4 DEF DropInv
<1> QED BY <1>1, DropInvariance, PTL

\* event_appeared is never called once the user asked to stop, a package ended
\* the subscription or dropped was called, although packages keep arriving.
THEOREM SilentAfterStop == Spec => NoEventAfterStop
<1>1. ASSUME DropInv, [Next]_vars, seen' # seen
      PROVE  phase = "running" /\ ~handle_guard /\ dropped = <<>>
  <2>1. SubscriptionPackage(Head(inbox))
    BY <1>1 DEF Next, AsyncStart, Unsubscribe, UserUnsubscribe, Acknowledge, Fail, Settle,
                HandlePackage, AnswerUnsubscribe, IgnorePackage, BaseStep, RunPostedDrop,
                DeadlineEnds, HandleTimeout, ConnectionLost, ServerReceives,
                ServerSendsEvent, ServerDrops, clientVars, vars, baseVars
  <2> QED BY <1>1, <2>1, DispatchedRuns DEF SubscriptionPackage, Unlocked
<1>2. DropInv /\ [Next]_vars =>
        [seen' # seen => phase = "running" /\ ~handle_guard /\ dropped = <<>>]_vars
  BY <1>1
<1> QED BY <1>2, DropInvariance, PTL DEF Spec, NoEventAfterStop
==============================================================================

------------------------------- MODULE Connect -------------------------------
(****************************************************************************)
(* async_connect: endpoint discovery, TCP connection, authentication and    *)
(* identification (tcp/connect.hpp, tcp/authenticate.hpp, tcp/identify.hpp  *)
(* and async_connect of basic_tcp_connection.hpp).                          *)
(*                                                                          *)
(* Both handshake operations register a handler in operations_map_ and arm  *)
(* a deadline, as operation_op does, but on a timeout they call the handler *)
(* without erasing it, and identify_op sends its request again up to        *)
(* max_reconnections times.  The authentication handler starts an           *)
(* identify_op each time it is called, so there can be two of them.         *)
(****************************************************************************)
EXTENDS Naturals, Sequences

CONSTANTS
  MaxReconnections,    \* settings().max_reconnections()
  MaxServerPackages    \* bound: answers of the server

ASSUME ReconnectionsAssumption == MaxReconnections \in Nat
ASSUME AnswersAssumption == MaxServerPackages \in Nat

\* The correlation ids of the handshake.
Keys == {"auth", "identify1", "identify2"}
Identify == Keys \ {"auth"}

VARIABLES
  credentials,     \* settings: default_user_credentials() is not null
  stage,           \* "idle", "discovering", "connecting", "handshake", "failed"
  operations_map,  \* keys of operations_map_
  deadline,        \* deadline[k]: the timer of the operation
  reconnections,   \* reconnections[k]: reconnections_ of an identify_op
  authenticated,   \* authenticated[k]: authenticated_ of an identify_op
  calls,           \* error codes the user's handler was called with
  thrown,          \* std::out_of_range left io_context::run
  requests,        \* requests[k]: times the request was sent
  inbox,           \* answers on the way to the client
  served,          \* answers the server sent
  granted,         \* history: the server answered "authenticated"
  expiries,        \* history: deadlines that expired
  ignored          \* history: an answer made a handler return silently

opVars == <<credentials, operations_map, deadline, reconnections, authenticated,
            requests>>
serverVars == <<inbox, served, granted>>
vars == <<credentials, stage, operations_map, deadline, reconnections,
          authenticated, calls, thrown, requests, inbox, served, granted, expiries, ignored>>

\* "garbage" is any command the handshake does not expect as an answer.
Answer == [corr : {"auth"}, cmd : {"authenticated", "not_authenticated", "garbage"}]
            \cup [corr : Identify, cmd : {"client_identified", "garbage"}]

Result == {"success", "authentication_failed", "operation_timeout",
           "timer_error", "endpoint_discovery", "connect_error"}

Init ==
  /\ credentials \in BOOLEAN
  /\ stage = "idle"
  /\ operations_map = {}
  /\ deadline = [k \in Keys |-> "unused"]
  /\ reconnections = [k \in Identify |-> 0]
  /\ authenticated = [k \in Identify |-> FALSE]
  /\ calls = <<>>
  /\ thrown = FALSE
  /\ requests = [k \in Keys |-> 0]
  /\ inbox = <<>>
  /\ served = 0
  /\ granted = FALSE
  /\ expiries = 0
  /\ ignored = FALSE

------------------------------------------------------------------------------
(* Discovery and the TCP connection.                                        *)

AsyncConnect ==
  /\ stage = "idle"
  /\ stage' = "discovering"
  /\ UNCHANGED <<opVars, calls, thrown, serverVars, expiries, ignored>>

Discovered ==
  /\ stage = "discovering"
  /\ stage' = "connecting"
  /\ UNCHANGED <<opVars, calls, thrown, serverVars, expiries, ignored>>

DiscoveryFails ==
  /\ stage = "discovering"
  /\ stage' = "failed"
  /\ calls' = Append(calls, "endpoint_discovery")
  /\ UNCHANGED <<opVars, thrown, serverVars, expiries, ignored>>

ConnectFails ==
  /\ stage = "connecting"
  /\ stage' = "failed"
  /\ calls' = Append(calls, "connect_error")
  /\ UNCHANGED <<opVars, thrown, serverVars, expiries, ignored>>

\* identify_op or authenticate_op: send the request, register the handler (a
\* no-op if the key is there) and arm the deadline.
initiate(k, map, timers) ==
  /\ requests' = [requests EXCEPT ![k] = @ + 1]
  /\ operations_map' = map \cup {k}
  /\ deadline' = [timers EXCEPT ![k] = "armed"]

\* tcp_connected_handler without an error.
TcpConnected ==
  /\ stage = "connecting"
  /\ stage' = "handshake"
  /\ initiate(IF credentials THEN "auth" ELSE "identify1", operations_map, deadline)
  /\ UNCHANGED <<credentials, reconnections, authenticated, calls, thrown,
                 serverVars, expiries, ignored>>

------------------------------------------------------------------------------
(* The handlers in operations_map_, called with an answer.  Each is erased  *)
(* by its caller.                                                           *)

Cancelled(k) ==
  [deadline EXCEPT ![k] = IF @ = "armed" THEN "aborted" ELSE @]

NextIdentify == IF deadline["identify1"] = "unused" THEN "identify1" ELSE "identify2"

\* Mistake: whatever the answer says, the client counts as authenticated.
AuthAnsweredTrusting(cmd) ==
  /\ \/ /\ cmd \in {"authenticated", "not_authenticated"}
        /\ initiate(NextIdentify, operations_map \ {"auth"}, Cancelled("auth"))
        /\ authenticated' = [authenticated EXCEPT ![NextIdentify] = TRUE]
        /\ UNCHANGED ignored
     \/ /\ cmd = "garbage"
        /\ operations_map' = operations_map \ {"auth"}
        /\ deadline' = Cancelled("auth")
        /\ ignored' = TRUE
        /\ UNCHANGED <<requests, authenticated>>
  /\ UNCHANGED calls

\* authentication_handler: identify, authenticated or not; an unexpected
\* command ends the handshake without a word.  A second call (a late answer)
\* passes on a handler that was moved from, which is taken to work as it did.
AuthAnswered(cmd) ==
  /\ \/ /\ cmd \in {"authenticated", "not_authenticated"}
        /\ initiate(NextIdentify, operations_map \ {"auth"}, Cancelled("auth"))
        /\ authenticated' = [authenticated EXCEPT ![NextIdentify] = (cmd = "authenticated")]
        /\ UNCHANGED ignored
     \/ /\ cmd = "garbage"
        /\ operations_map' = operations_map \ {"auth"}
        /\ deadline' = Cancelled("auth")
        /\ ignored' = TRUE
        /\ UNCHANGED <<requests, authenticated>>
  /\ UNCHANGED calls

\* Mistake: the handler stays registered after its answer.
IdentifyAnsweredKept(k, cmd) ==
  /\ \/ /\ cmd = "client_identified"
        /\ calls' = Append(calls, IF authenticated[k] THEN "success"
                                  ELSE "authentication_failed")
        /\ UNCHANGED ignored
     \/ /\ cmd = "garbage"
        /\ ignored' = TRUE
        /\ UNCHANGED calls
  /\ deadline' = Cancelled(k)
  /\ UNCHANGED <<operations_map, requests, authenticated>>

\* The handler of identify_op k and the wrapper of async_connect: the answer
\* must be client_identified, or the user is not called.
IdentifyAnswered(k, cmd) ==
  /\ \/ /\ cmd = "client_identified"
        /\ calls' = Append(calls, IF authenticated[k] THEN "success"
                                  ELSE "authentication_failed")
        /\ UNCHANGED ignored
     \/ /\ cmd = "garbage"
        /\ ignored' = TRUE
        /\ UNCHANGED calls
  /\ operations_map' = operations_map \ {k}
  /\ deadline' = Cancelled(k)
  /\ UNCHANGED <<requests, authenticated>>

\* on_package_received: call the handler of the key and erase it.
HandlePackage ==
  /\ inbox # <<>>
  /\ inbox' = Tail(inbox)
  /\ LET p == Head(inbox) IN
       \/ /\ p.corr \in operations_map
          /\ \/ p.corr = "auth" /\ AuthAnswered(p.cmd)
             \/ p.corr \in Identify /\ IdentifyAnswered(p.corr, p.cmd)
       \/ /\ p.corr \notin operations_map
          /\ UNCHANGED <<operations_map, deadline, requests, authenticated,
                         calls, ignored>>
  /\ UNCHANGED <<credentials, stage, reconnections, thrown, served, granted, expiries>>

\* Time passes, or the wait fails with an error of the timer's own.
DeadlineEnds(k) ==
  /\ deadline[k] = "armed"
  /\ \E how \in {"expired", "failed"} : deadline' = [deadline EXCEPT ![k] = how]
  /\ expiries' = expiries + 1
  /\ UNCHANGED <<credentials, stage, operations_map, reconnections,
                 authenticated, calls, thrown, requests, serverVars, ignored>>

\* Mistake: one reconnection too many.
ReconnectsOnceMore(k) == k \in Identify /\ reconnections[k] <= MaxReconnections

\* identify_op has reconnections left.
Reconnects(k) == /\ k \in Identify
                 /\ MaxReconnections > 0
                 /\ reconnections[k] < MaxReconnections

\* The request is sent again.  register_op keeps the handler of the key if it is
\* still there.  If it is not, because an answer was handled after the deadline had
\* passed, the handler registered now is one that was moved from before, which is
\* taken to work as it did.
RetryIdentify(k) ==
  /\ deadline[k] = "expired"
  /\ Reconnects(k)
  /\ reconnections' = [reconnections EXCEPT ![k] = @ + 1]
  /\ initiate(k, operations_map, deadline)
  /\ UNCHANGED <<credentials, stage, authenticated, calls, thrown, serverVars,
                 expiries, ignored>>

\* Mistake: the last timeout of an identify_op is not reported.
HandleTimeoutSilently(k) ==
  /\ deadline[k] = "failed" \/ (deadline[k] = "expired" /\ ~Reconnects(k))
  /\ \/ /\ k = "auth" /\ k \in operations_map
        /\ initiate(NextIdentify, operations_map, [deadline EXCEPT ![k] = "done"])
        /\ authenticated' = [authenticated EXCEPT ![NextIdentify] = FALSE]
     \/ /\ k # "auth" \/ k \notin operations_map
        /\ deadline' = [deadline EXCEPT ![k] = "done"]
        /\ UNCHANGED <<operations_map, requests, authenticated>>
  /\ UNCHANGED <<credentials, stage, reconnections, calls, thrown, serverVars,
                 expiries, ignored>>

\* The operation times out, or its timer failed: its handler is called with
\* the error and stays registered.  If it is not registered any more,
\* operations_map_[k] throws.
HandleTimeout(k) ==
  /\ deadline[k] = "failed" \/ (deadline[k] = "expired" /\ ~Reconnects(k))
  /\ \/ /\ k \in operations_map
        /\ \/ /\ k = "auth"
              /\ initiate(NextIdentify, operations_map, [deadline EXCEPT ![k] = "done"])
              /\ authenticated' = [authenticated EXCEPT ![NextIdentify] = FALSE]
              /\ UNCHANGED calls
           \/ /\ k \in Identify
              /\ calls' = Append(calls, IF deadline[k] = "expired" THEN "operation_timeout"
                                        ELSE "timer_error")
              /\ deadline' = [deadline EXCEPT ![k] = "done"]
              /\ UNCHANGED <<operations_map, requests, authenticated>>
        /\ UNCHANGED thrown
     \/ /\ k \notin operations_map
        /\ thrown' = TRUE
        /\ UNCHANGED <<operations_map, deadline, requests, authenticated, calls>>
  /\ UNCHANGED <<credentials, stage, reconnections, serverVars, expiries, ignored>>

------------------------------------------------------------------------------
\* The server (external) answers a request it received, each time it was sent
\* or more often, in any order.
ServerAnswers(p) ==
  /\ requests[p.corr] > 0
  /\ served < MaxServerPackages
  /\ inbox' = Append(inbox, p)
  /\ served' = served + 1
  /\ granted' = (granted \/ p.cmd = "authenticated")
  /\ UNCHANGED <<stage, opVars, calls, thrown, expiries, ignored>>

Next ==
  /\ ~thrown
  /\ \/ AsyncConnect \/ Discovered \/ DiscoveryFails
     \/ ConnectFails \/ TcpConnected
     \/ HandlePackage
     \/ \E k \in Keys : DeadlineEnds(k) \/ HandleTimeout(k)
     \/ \E k \in Identify : RetryIdentify(k)
     \/ \E p \in Answer : ServerAnswers(p)

Spec == Init /\ [][Next]_vars

\* Ready handlers run, discovery and the TCP connect end, time passes.
FairSpec ==
  /\ Spec
  /\ WF_vars(~thrown /\ (Discovered \/ DiscoveryFails))
  /\ WF_vars(~thrown /\ (ConnectFails \/ TcpConnected))
  /\ WF_vars(~thrown /\ HandlePackage)
  /\ \A k \in Keys :
       /\ WF_vars(~thrown /\ DeadlineEnds(k))
       /\ WF_vars(~thrown /\ HandleTimeout(k))
  /\ \A k \in Identify : WF_vars(~thrown /\ RetryIdentify(k))

------------------------------------------------------------------------------
\* The types of the handshake state; a request is sent at most once more than
\* max_reconnections allows.
TypeOK ==
  /\ credentials \in BOOLEAN
  /\ stage \in {"idle", "discovering", "connecting", "handshake", "failed"}
  /\ operations_map \in SUBSET Keys
  /\ deadline \in [Keys -> {"unused", "armed", "expired", "failed", "aborted", "done"}]
  /\ reconnections \in [Identify -> 0..MaxReconnections]
  /\ authenticated \in [Identify -> BOOLEAN]
  /\ calls \in Seq(Result)
  /\ thrown \in BOOLEAN
  /\ requests \in [Keys -> 0..(1 + MaxReconnections)]
  /\ inbox \in Seq(Answer)
  /\ served \in 0..MaxServerPackages
  /\ granted \in BOOLEAN
  /\ expiries \in Nat
  /\ ignored \in BOOLEAN

\* The user is told that he is authenticated only if the server said so, even
\* when answers come after the authentication timed out.
SuccessOnlyIfGranted ==
  (\E i \in 1..Len(calls) : calls[i] = "success") => granted

\* Every call of the user's handler after the first has cost a deadline that
\* ended: only an answer that races with a timeout, or comes after it to a
\* handler that was not erased, makes async_connect complete again.
ExtraCallsNeedExpiry == Len(calls) <= 1 + expiries

\* A call to async_connect ends with a call of the handler, unless the server
\* sent an answer the handshake does not know, or the program ended.
ConnectNotifiesUnlessIgnored ==
  stage = "discovering" ~> (calls # <<>> \/ ignored \/ thrown)

==============================================================================

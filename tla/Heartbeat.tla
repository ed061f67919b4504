------------------------------ MODULE Heartbeat ------------------------------
(****************************************************************************)
(* The connection together with its heartbeat chain (tcp/heartbeat.hpp).    *)
(* heartbeat_op compares package_no_ with the value it saw last, sends a    *)
(* heartbeat request through the connection's own queue when nothing came   *)
(* during an interval, and closes the connection when nothing came after    *)
(* that either.                                                             *)
(****************************************************************************)
EXTENDS TcpConnection

VARIABLES
  heartbeat,        \* the wait of deadline_: "waiting", "expired" or "ended"
  last_package_no,  \* info_.last_package_no()
  interval_stage,   \* info_.is_interval_stage()
  heard             \* history: packages handled since the last request

hbVars == <<heartbeat, last_package_no, interval_stage, heard>>
hvars == <<vars, hbVars>>

HeartbeatRequest == [cmd |-> "heartbeat_request", corr |-> FreshId]

\* tcp_connected_handler constructs heartbeat_op and calls initiate() at once:
\* package_no_ is what the constructor read and the stage is the interval
\* stage, so the first request is sent before anything is received.
HInit ==
  /\ ConnectedWith(<<HeartbeatRequest>>)
  /\ heartbeat = "waiting"
  /\ last_package_no = 0
  /\ interval_stage = FALSE
  /\ heard = 0

------------------------------------------------------------------------------
\* heartbeat_interval or heartbeat_timeout has passed.
HeartbeatExpires ==
  /\ heartbeat = "waiting"
  /\ heartbeat' = "expired"
  /\ UNCHANGED <<vars, last_package_no, interval_stage, heard>>

\* The wait of the chain fails with an error of the timer's own: close().
HeartbeatTimerError ==
  /\ heartbeat = "waiting"
  /\ heartbeat' = "ended"
  /\ socket' = "closed"
  /\ UNCHANGED <<sendVars, writeVars, readVars, opVars,
                 last_package_no, interval_stage, heard>>

\* initiate() finds the socket closed: the chain ends.
HeartbeatSocketClosed ==
  /\ heartbeat = "expired"
  /\ socket = "closed"
  /\ heartbeat' = "ended"
  /\ UNCHANGED <<vars, last_package_no, interval_stage, heard>>

\* Mistake: the stage of the interval is not reset when packages came.
HeartbeatPackagesCameSameStage ==
  /\ heartbeat = "expired"
  /\ socket = "open"
  /\ last_package_no # package_no
  /\ last_package_no' = package_no
  /\ heartbeat' = "waiting"
  /\ UNCHANGED <<vars, interval_stage, heard>>

\* initiate() sees that packages came: a new interval starts.
HeartbeatPackagesCame ==
  /\ heartbeat = "expired"
  /\ socket = "open"
  /\ last_package_no # package_no
  /\ last_package_no' = package_no
  /\ interval_stage' = TRUE
  /\ heartbeat' = "waiting"
  /\ UNCHANGED <<vars, heard>>

\* Mistake: the chain stays in the interval stage after its request.
HeartbeatSendRequestSameStage ==
  /\ heartbeat = "expired"
  /\ socket = "open"
  /\ last_package_no = package_no
  /\ interval_stage
  /\ async_send(HeartbeatRequest)
  /\ heartbeat' = "waiting"
  /\ heard' = 0
  /\ UNCHANGED <<socket, writeVars, readVars, opVars, last_package_no,
                 interval_stage>>

\* initiate() saw nothing for an interval: send a request and wait for
\* heartbeat_timeout.
HeartbeatSendRequest ==
  /\ heartbeat = "expired"
  /\ socket = "open"
  /\ last_package_no = package_no
  /\ interval_stage
  /\ async_send(HeartbeatRequest)
  /\ interval_stage' = FALSE
  /\ heartbeat' = "waiting"
  /\ heard' = 0
  /\ UNCHANGED <<socket, writeVars, readVars, opVars, last_package_no>>

\* Mistake: the chain ends without closing the connection.
HeartbeatTimeoutKeepsSocket ==
  /\ heartbeat = "expired"
  /\ socket = "open"
  /\ last_package_no = package_no
  /\ ~interval_stage
  /\ heartbeat' = "ended"
  /\ UNCHANGED <<vars, last_package_no, interval_stage, heard>>

\* initiate() saw nothing after the request either: heartbeat_timeout, close().
HeartbeatTimeout ==
  /\ heartbeat = "expired"
  /\ socket = "open"
  /\ last_package_no = package_no
  /\ ~interval_stage
  /\ socket' = "closed"
  /\ heartbeat' = "ended"
  /\ UNCHANGED <<sendVars, writeVars, readVars, opVars,
                 last_package_no, interval_stage, heard>>

HeartbeatHandler ==
  \/ HeartbeatSocketClosed \/ HeartbeatPackagesCame
  \/ HeartbeatSendRequest \/ HeartbeatTimeout

\* A package is handled: the history variable counts it.
HPackage ==
  /\ HandlePackage
  /\ heard' = heard + 1
  /\ UNCHANGED <<heartbeat, last_package_no, interval_stage>>

HOtherStep ==
  /\ \/ RunPostedSend \/ HandleWritten \/ HandleWriteError \/ HandleReadError
     \/ \E o \in Ops : HandleTimeout(o) \/ HandleAborted(o) \/ HandleTimerError(o)
     \/ SystemStep
     \/ UserStep
  /\ UNCHANGED hbVars

HNext ==
  /\ ~thrown
  /\ \/ HOtherStep
     \/ HPackage
     \/ HeartbeatExpires
     \/ HeartbeatTimerError
     \/ HeartbeatHandler

HSpec == HInit /\ [][HNext]_hvars

\* The fairness of the connection, and that the chain's wait ends and its
\* handler runs.
HFairSpec ==
  /\ HSpec
  /\ Fairness
  /\ WF_hvars(~thrown /\ HeartbeatExpires)
  /\ WF_hvars(~thrown /\ HeartbeatHandler)

------------------------------------------------------------------------------
\* heartbeat_op closes the connection only if no package at all was handled
\* since it sent its request, or as many as package_no_ needs to wrap around:
\* the comparison is on a counter that on_package_received increments modulo
\* 2^32, never on whether a package came.
TimeoutOnlyOnSilence ==
  [][HeartbeatTimeout => heard % PackageNoModulus = 0]_hvars

\* Between two heartbeat requests of the client at least one package is
\* handled: initiate() comes back to the interval stage only if package_no_ has
\* moved since the last request, so the chain never sends a second request into
\* silence, whatever was received before the first one.
NoRequestIntoSilence ==
  [][HeartbeatSendRequest => heard > 0]_hvars

\* A server that has fallen silent is noticed: the socket is closed and the
\* heartbeat chain ends, whatever else the connection is doing.
SilenceEndsConnection == <>(thrown \/ (socket = "closed" /\ heartbeat = "ended"))

==============================================================================

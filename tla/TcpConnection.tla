---------------------------- MODULE TcpConnection ----------------------------
(****************************************************************************)
(* The TCP connection of the client (basic_tcp_connection.hpp), the map of  *)
(* pending operations (operations_map.hpp) and the operation with a         *)
(* deadline that waits for the answer to a request (tcp/operation.hpp).     *)
(*                                                                          *)
(* One thread runs the io_context, so one completion handler is one action. *)
(* What the operating system does between handlers (a write finishes, a     *)
(* package arrives, a timer expires) is an action of its own: it makes a    *)
(* completion ready, and the handler runs later.  Everything that can       *)
(* happen in that window is the subject of this module.                     *)
(*                                                                          *)
(* The behaviour starts where tcp_connected_handler calls                   *)
(* async_start_receive: the socket is open and the first read is issued.    *)
(****************************************************************************)
EXTENDS Naturals, Sequences

CONSTANTS
  Ops,                \* correlation ids of the requests sent with a handler
  FreshId,            \* any correlation id the client has no handler for
  PackageNoModulus,   \* package_no_ is an unsigned int: 2^32 in the code
  MaxServerPackages   \* bound: packages the server sends

ASSUME FreshIdAssumption == FreshId \notin Ops
ASSUME ModulusAssumption == PackageNoModulus \in Nat \ {0}
ASSUME ServerBoundAssumption == MaxServerPackages \in Nat

VARIABLES
  socket,          \* socket_: "open" or "closed"
  posted,          \* packages held by lambdas posted to the io_context
  message_queue,   \* message_queue_
  write,           \* the async_write of the front of message_queue_
  read,            \* the read operation of async_start_receive
  inbox,           \* packages the server sent that no handler has seen
  package_no,      \* package_no_
  operations_map,  \* keys of operations_map_
  deadline,        \* deadline[o]: the timer of operation_op o
  results,         \* results[o]: the calls of the user's handler of o
  thrown,          \* std::out_of_range left io_context::run
  requested,       \* history: packages in the order of the async_send calls
  wire,            \* history: packages the server received
  served           \* number of packages the server sent

sendVars == <<posted, requested>>
writeVars == <<message_queue, write, wire>>
readVars == <<read, inbox, served, package_no>>
opVars == <<operations_map, deadline, results, thrown>>
vars == <<socket, posted, message_queue, write, read, inbox, package_no,
          operations_map, deadline, results, thrown, requested, wire, served>>

------------------------------------------------------------------------------
(* Packages.  Only the command and the correlation id matter to the         *)
(* connection.                                                              *)

ClientPackage == [cmd : {"request"}, corr : Ops]
                   \cup [cmd : {"heartbeat_request", "heartbeat_response"},
                         corr : {FreshId}]

Request(o) == [cmd |-> "request", corr |-> o]
HeartbeatResponse == [cmd |-> "heartbeat_response", corr |-> FreshId]

\* "other" is every command on_package_received only logs.
ServerPackage == [cmd : {"other"}, corr : Ops \cup {FreshId}]
                   \cup [cmd : {"heartbeat_request"}, corr : {FreshId}]

Outcome == {"response", "operation_timeout", "timer_error"}

------------------------------------------------------------------------------
\* The state once tcp_connected_handler has posted the packages in sent and
\* issued the first read.
ConnectedWith(sent) ==
  /\ socket = "open"
  /\ posted = sent
  /\ message_queue = <<>>
  /\ write = "idle"
  /\ read = "waiting"
  /\ inbox = <<>>
  /\ package_no = 0
  /\ operations_map = {}
  /\ deadline = [o \in Ops |-> "unused"]
  /\ results = [o \in Ops |-> <<>>]
  /\ thrown = FALSE
  /\ requested = sent
  /\ wire = <<>>
  /\ served = 0

Init == ConnectedWith(<<>>)

(* Sending.                                                                 *)

\* async_send(package): post the lambda that will queue the package.
async_send(p) ==
  /\ posted' = Append(posted, p)
  /\ requested' = Append(requested, p)

\* async_send(package, handler): post the package, register the operation
\* and arm its deadline.  The call returns before the package is queued.
AsyncSendWithHandler(o) ==
  /\ deadline[o] = "unused"
  /\ async_send(Request(o))
  /\ operations_map' = operations_map \cup {o}
  /\ deadline' = [deadline EXCEPT ![o] = "armed"]
  /\ UNCHANGED <<socket, writeVars, readVars, results, thrown>>

\* Mistake: every posted package starts a write.
RunPostedSendAlwaysWrites ==
  /\ posted # <<>>
  /\ posted' = Tail(posted)
  /\ message_queue' = Append(message_queue, Head(posted))
  /\ write' = "started"
  /\ UNCHANGED <<socket, readVars, opVars, requested, wire>>

\* The posted lambda: queue the package; write it if the queue was empty.
RunPostedSend ==
  /\ posted # <<>>
  /\ posted' = Tail(posted)
  /\ message_queue' = Append(message_queue, Head(posted))
  /\ write' = IF message_queue = <<>> THEN "started" ELSE write
  /\ UNCHANGED <<socket, readVars, opVars, requested, wire>>

\* The operating system finishes the write: the server has the package.
WriteCompletes ==
  /\ write = "started"
  /\ socket = "open"
  /\ write' = "written"
  /\ wire' = Append(wire, Head(message_queue))
  /\ UNCHANGED <<socket, sendVars, readVars, opVars, message_queue>>

\* The write fails: the peer is gone, or the socket was closed under it.
WriteFails ==
  /\ write = "started"
  /\ write' = "failed"
  /\ UNCHANGED <<socket, sendVars, readVars, opVars, message_queue, wire>>

\* Mistake: the next write starts without asking whether the queue is empty.
HandleWrittenUnchecked ==
  /\ write = "written"
  /\ message_queue' = Tail(message_queue)
  /\ write' = "started"
  /\ UNCHANGED <<socket, sendVars, readVars, opVars, wire>>

\* Mistake: what was queued during the write is not written.
HandleWrittenStops ==
  /\ write = "written"
  /\ message_queue' = Tail(message_queue)
  /\ write' = "idle"
  /\ UNCHANGED <<socket, sendVars, readVars, opVars, wire>>

\* Completion of do_async_send without an error.
HandleWritten ==
  /\ write = "written"
  /\ message_queue' = Tail(message_queue)
  /\ write' = IF Tail(message_queue) # <<>> THEN "started" ELSE "idle"
  /\ UNCHANGED <<socket, sendVars, readVars, opVars, wire>>

\* Completion of do_async_send with an error: the package stays at the front
\* and nothing is ever written again.
HandleWriteError ==
  /\ write = "failed"
  /\ socket' = "closed"
  /\ write' = "idle"
  /\ UNCHANGED <<sendVars, readVars, opVars, message_queue, wire>>

(* Receiving.                                                               *)

\* The server (external): heartbeats and unexpected packages at any time, an
\* answer only to a request it has received, possibly more than one.
ServerSends(p) ==
  /\ socket = "open"
  /\ served < MaxServerPackages
  /\ p.corr \in Ops => \E i \in 1..Len(wire) : wire[i] = Request(p.corr)
  /\ inbox' = Append(inbox, p)
  /\ served' = served + 1
  /\ UNCHANGED <<socket, sendVars, writeVars, opVars, read, package_no>>

\* The package at the head of inbox is in buffer_ and its completion is ready.
ReadCompletes ==
  /\ read = "waiting"
  /\ socket = "open"
  /\ inbox # <<>>
  /\ read' = "ready"
  /\ UNCHANGED <<socket, sendVars, writeVars, opVars, inbox, served, package_no>>

\* End of file, a reset, a bad length prefix, or a socket closed meanwhile.
ReadFails ==
  /\ read = "waiting"
  /\ read' = "failed"
  /\ UNCHANGED <<socket, sendVars, writeVars, opVars, inbox, served, package_no>>

\* Mistake: the handler of a request does not cancel its deadline.
UncancelledDeadline(o) == deadline[o]

\* deadline->cancel(): aborts a wait that is pending, and has no effect on one
\* whose completion is already ready.
CancelledDeadline(o) == IF deadline[o] = "armed" THEN "aborted" ELSE deadline[o]

\* Mistake: the operation is called but stays registered.
InvokeWithoutErase(o, outcome, timer) ==
  /\ results' = [results EXCEPT ![o] = Append(@, outcome)]
  /\ deadline' = [deadline EXCEPT ![o] = timer]
  /\ UNCHANGED operations_map

\* operations_map_[o](ec, view) followed by operations_map_.erase(o).
InvokeAndErase(o, outcome, timer) ==
  /\ results' = [results EXCEPT ![o] = Append(@, outcome)]
  /\ operations_map' = operations_map \ {o}
  /\ deadline' = [deadline EXCEPT ![o] = timer]

on_package_received(p) ==
  \/ /\ p.corr \in operations_map
     /\ InvokeAndErase(p.corr, "response", CancelledDeadline(p.corr))
     /\ UNCHANGED <<sendVars, thrown>>
  \/ /\ p.corr \notin operations_map
     /\ p.cmd = "heartbeat_request"
     /\ async_send(HeartbeatResponse)
     /\ UNCHANGED opVars
  \/ /\ p.corr \notin operations_map
     /\ p.cmd = "other"
     /\ UNCHANGED <<sendVars, opVars>>

\* Completion of the read without an error: dispatch, then read again.
HandlePackage ==
  /\ read = "ready"
  /\ package_no' = (package_no + 1) % PackageNoModulus
  /\ on_package_received(Head(inbox))
  /\ inbox' = Tail(inbox)
  /\ read' = "waiting"
  /\ UNCHANGED <<socket, writeVars, served>>

\* Completion of the read with an error: close(), and no further read.
HandleReadError ==
  /\ read = "failed"
  /\ socket' = "closed"
  /\ read' = "stopped"
  /\ UNCHANGED <<sendVars, writeVars, opVars, inbox, served, package_no>>

(* Deadlines.                                                               *)

DeadlineExpires(o) ==
  /\ deadline[o] = "armed"
  /\ deadline' = [deadline EXCEPT ![o] = "expired"]
  /\ UNCHANGED <<socket, sendVars, writeVars, readVars, operations_map,
                 results, thrown>>

\* The wait fails for a reason of the timer's own ("what ??" in the code).
DeadlineFails(o) ==
  /\ deadline[o] = "armed"
  /\ deadline' = [deadline EXCEPT ![o] = "failed"]
  /\ UNCHANGED <<socket, sendVars, writeVars, readVars, operations_map,
                 results, thrown>>

\* operation_op::operator() without an error.  operations_map_[key_] is
\* unordered_map::at: it throws when the answer was handled after the expiry.
HandleTimeout(o) ==
  /\ deadline[o] = "expired"
  /\ \/ /\ o \in operations_map
        /\ InvokeAndErase(o, "operation_timeout", "done")
        /\ UNCHANGED thrown
     \/ /\ o \notin operations_map
        /\ thrown' = TRUE
        /\ UNCHANGED <<operations_map, deadline, results>>
  /\ UNCHANGED <<socket, sendVars, writeVars, readVars>>

\* Mistake: a cancelled deadline is taken for one that has passed.
HandleAbortedAsTimeout(o) ==
  /\ deadline[o] = "aborted"
  /\ thrown' = (o \notin operations_map)
  /\ UNCHANGED <<socket, sendVars, writeVars, readVars, operations_map,
                 deadline, results>>

\* operation_op::operator() with operation_aborted: nothing to do.
HandleAborted(o) ==
  /\ deadline[o] = "aborted"
  /\ deadline' = [deadline EXCEPT ![o] = "done"]
  /\ UNCHANGED <<socket, sendVars, writeVars, readVars, operations_map,
                 results, thrown>>

\* Mistake: an error of the timer is swallowed.
HandleTimerErrorSilently(o) ==
  /\ deadline[o] = "failed"
  /\ deadline' = [deadline EXCEPT ![o] = "done"]
  /\ UNCHANGED <<socket, sendVars, writeVars, readVars, operations_map,
                 results, thrown>>

\* operation_op::operator() with any other error.
HandleTimerError(o) ==
  /\ deadline[o] = "failed"
  /\ \/ /\ o \in operations_map
        /\ InvokeAndErase(o, "timer_error", "done")
     \/ /\ o \notin operations_map
        /\ deadline' = [deadline EXCEPT ![o] = "done"]
        /\ UNCHANGED <<operations_map, results>>
  /\ UNCHANGED <<socket, sendVars, writeVars, readVars, thrown>>

\* close() called by the application.
Close ==
  /\ socket = "open"
  /\ socket' = "closed"
  /\ UNCHANGED <<sendVars, writeVars, readVars, opVars>>

------------------------------------------------------------------------------
(* An exception leaves io_context::run and the program: after it, nothing.  *)

HandlerStep ==
  \/ RunPostedSend \/ HandleWritten \/ HandleWriteError
  \/ HandlePackage \/ HandleReadError
  \/ \E o \in Ops : HandleTimeout(o) \/ HandleAborted(o) \/ HandleTimerError(o)

SystemStep ==
  \/ WriteCompletes \/ WriteFails \/ ReadCompletes \/ ReadFails
  \/ \E p \in ServerPackage : ServerSends(p)
  \/ \E o \in Ops : DeadlineExpires(o) \/ DeadlineFails(o)

UserStep == Close \/ \E o \in Ops : AsyncSendWithHandler(o)

Next == ~thrown /\ (HandlerStep \/ SystemStep \/ UserStep)

Spec == Init /\ [][Next]_vars

\* The io_context runs every ready handler, a started write or read ends when
\* it can, and time passes.  Nothing is assumed of the server or the user.
Fairness ==
  /\ WF_vars(~thrown /\ RunPostedSend)
  /\ WF_vars(~thrown /\ (WriteCompletes \/ WriteFails))
  /\ WF_vars(~thrown /\ (HandleWritten \/ HandleWriteError))
  /\ WF_vars(~thrown /\ (HandlePackage \/ HandleReadError))
  /\ WF_vars(~thrown /\ ReadCompletes)
  /\ \A o \in Ops :
       /\ WF_vars(~thrown /\ (DeadlineExpires(o) \/ DeadlineFails(o)))
       /\ WF_vars(~thrown /\ (HandleTimeout(o) \/ HandleTimerError(o)))

FairSpec == Spec /\ Fairness

------------------------------------------------------------------------------
(* Properties.                                                              *)

\* Every variable of the connection keeps its type; in particular a write is
\* outstanding only for a package that is in message_queue_, and a package is
\* ready only if one arrived, so front() is never called on an empty deque.
TypeOK ==
  /\ socket \in {"open", "closed"}
  /\ posted \in Seq(ClientPackage)
  /\ message_queue \in Seq(ClientPackage)
  /\ write \in {"idle", "started", "written", "failed"}
  /\ read \in {"waiting", "ready", "failed", "stopped"}
  /\ inbox \in Seq(ServerPackage)
  /\ package_no \in 0..(PackageNoModulus - 1)
  /\ operations_map \in SUBSET Ops
  /\ deadline \in [Ops -> {"unused", "armed", "expired", "failed", "aborted", "done"}]
  /\ results \in [Ops -> Seq(Outcome)]
  /\ thrown \in BOOLEAN
  /\ requested \in Seq(ClientPackage)
  /\ wire \in Seq(ClientPackage)
  /\ served \in Nat
  /\ write # "idle" => message_queue # <<>>
  /\ read = "ready" => inbox # <<>>

\* The handler of a request is called exactly once by the time its operation
\* leaves operations_map_, never before and never again: on_package_received
\* and the deadline of operation_op race to call it and both erase it.
HandledExactlyOnce ==
  \A o \in Ops :
    Len(results[o]) = IF deadline[o] = "unused" \/ o \in operations_map
                      THEN 0 ELSE 1

\* An operation is in operations_map_ exactly as long as a timer that has not
\* been handled can still call it; a pending timer always finds its operation.
\* So nothing waits for an answer without a deadline.
RegisteredWithDeadline ==
  \A o \in Ops :
    /\ o \in operations_map => deadline[o] \in {"armed", "expired", "failed"}
    /\ deadline[o] = "armed" => o \in operations_map

\* While the socket is open the queue is being written exactly when it is not
\* empty: one async_write at a time, and no package left without one.
WriterAwake == socket = "open" => (write # "idle" <=> message_queue # <<>>)

\* The packages the server received, then those queued, then those posted, are
\* all the packages given to async_send, in that order: none lost, duplicated
\* or overtaken between the two queues and the socket.
SendOrder ==
  LET queued == IF write = "written" THEN Tail(message_queue) ELSE message_queue
  IN  requested = wire \o queued \o posted

\* std::out_of_range leaves the event loop only through the deadline of an
\* operation whose answer was handled after that deadline had expired.
ThrowsOnlyOnLateCancel ==
  thrown => \E o \in Ops : /\ deadline[o] = "expired"
                           /\ results[o] = <<"response">>

\* The requests the server has received.
Delivered == {o \in Ops : \E i \in 1..Len(wire) : wire[i] = Request(o)}

\* A package given to async_send reaches the server unless the connection
\* ends: the posted lambdas and the write chain never stall.
SendsDrain ==
  posted # <<>> ~> \/ posted = <<>> /\ message_queue = <<>>
                   \/ socket = "closed"
                   \/ thrown

\* tcp/operation.hpp:76: "operation has timed out if timer completion has been
\* called with success": when operation_op runs with no error its operation
\* is still registered.
TimerSuccessMeansTimedOut ==
  \A o \in Ops : deadline[o] = "expired" => o \in operations_map

------------------------------------------------------------------------------
(* The connection implements the contract of Requests.                      *)

Contract == INSTANCE Requests WITH
              pending <- operations_map, delivered <- Delivered,
              calls <- results, halted <- thrown

\* The same with the promise that every submitted request completes.
ImplementsRequestsFairly == Contract!RFairSpec

==============================================================================

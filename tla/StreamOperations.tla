-------------------------- MODULE StreamOperations ---------------------------
(****************************************************************************)
(* The one-request operations of the client (append_to_stream.hpp,          *)
(* delete_stream.hpp, read_stream_event.hpp, ...) against a server that     *)
(* executes requests in the order it receives them, answers in any order,   *)
(* and may give up on a request with a timeout of its own, executed or not. *)
(* A lost connection is a server that executes nothing any more.            *)
(*                                                                          *)
(* A request is completed once, by an answer or by its deadline             *)
(* (Requests!Complete).  What the operation then tells the user is the      *)
(* subject of this module.                                                  *)
(****************************************************************************)
EXTENDS Integers, Sequences, FiniteSets

CONSTANTS
  MaxSingle,    \* bound: calls of the operations that are one request
  MaxWrites,    \* bound: calls of transaction::async_write
  MaxCommits,   \* bound: calls of transaction::async_commit
  MaxCalls      \* bound: calls of all kinds

ASSUME BoundAssumption ==
  {MaxSingle, MaxWrites, MaxCommits, MaxCalls} \subseteq Nat

\* The calls of the user, numbered in the order in which they are made.
SingleCall == {"single"} \X (1..MaxSingle)
WriteCall == {"write"} \X (1..MaxWrites)
CommitCall == {"commit"} \X (1..MaxCommits)
StartCall == <<"start", 1>>
Call == SingleCall \cup WriteCall \cup CommitCall \cup {StartCall}

VARIABLES
  called,       \* called[c]: the operation and expected version of call c
  status,       \* status[c]: "idle", "posted", "pending" or "done"
  told,         \* told[c]: what the user's handler was called with
  wire,         \* requests on the way to the server
  answer,       \* answer[c]: the server's answer, until it is handled
  timedOut,     \* history: calls answered with a timeout of the server
  events,       \* events of the stream and its metastream: who wrote them
  deleted       \* the stream is deleted, its metastream with it

callVars == <<called, status, told, timedOut>>
streamVars == <<events, deleted>>
opsVars == <<called, status, told, timedOut, wire, answer, events,
             deleted>>

------------------------------------------------------------------------------
(* Results of the server.  The three timeouts of OperationResult share a    *)
(* branch in every operation and a value here.                              *)

OperationResult == {"Success", "Timeout", "WrongExpectedVersion",
                    "StreamDeleted", "InvalidTransaction", "AccessDenied"}

NoAnswer == [command |-> "none", result |-> "none"]
Answer(command, result) == [command |-> command, result |-> result]

\* A command without a case in any operation: not_handled, bad_request, ...
OtherCommand == Answer("other", "none")

\* An operation: the command it sends, the command it accepts as an answer,
\* the results it tells the user of and how, and those it is silent about.
\* A result that is in neither is told as unexpected_response.
append_to_stream ==
  [command |-> "write_events", completed |-> "write_events_completed",
   outcome |-> [Success |-> "success",
                WrongExpectedVersion |-> "wrong_expected_version",
                StreamDeleted |-> "stream_deleted",
                InvalidTransaction |-> "invalid_transaction",
                AccessDenied |-> "access_denied"],
   silent |-> {"Timeout"}]

\* The metadata of a stream is an event of its metastream.
set_stream_metadata == append_to_stream

conditional_append_to_stream ==
  [append_to_stream EXCEPT !.outcome.WrongExpectedVersion = "version_mismatch"]

\* Mistake: results without a case are taken for success.
delete_stream_lenient ==
  [command |-> "delete_stream", completed |-> "delete_stream_completed",
   outcome |-> [Success |-> "success", Timeout |-> "success",
                WrongExpectedVersion |-> "success",
                StreamDeleted |-> "stream_deleted",
                InvalidTransaction |-> "invalid_transaction",
                AccessDenied |-> "access_denied"],
   silent |-> {}]

\* Here the timeouts of the server leave the error code empty.
delete_stream ==
  [command |-> "delete_stream", completed |-> "delete_stream_completed",
   outcome |-> [Success |-> "success", Timeout |-> "success",
                WrongExpectedVersion |-> "wrong_expected_version",
                StreamDeleted |-> "stream_deleted",
                InvalidTransaction |-> "invalid_transaction",
                AccessDenied |-> "access_denied"],
   silent |-> {}]

\* not_found, no_stream and stream_deleted are results without an error.
read_stream_event ==
  [command |-> "read_event", completed |-> "read_event_completed",
   outcome |-> [Success |-> "success", NotFound |-> "not_found",
                NoStream |-> "no_stream", StreamDeleted |-> "is_deleted",
                Error |-> "server_error", AccessDenied |-> "access_denied"],
   silent |-> {}]

\* The last event of the metastream; without one the metadata is empty.
get_stream_metadata ==
  [read_stream_event EXCEPT !.outcome.NotFound = "empty",
                            !.outcome.NoStream = "empty"]

read_stream_events ==
  [command |-> "read_stream_events",
   completed |-> "read_stream_events_completed",
   outcome |-> [Success |-> "success", StreamDeleted |-> "stream_deleted",
                NoStream |-> "stream_not_found", Error |-> "server_error",
                AccessDenied |-> "access_denied"],
   silent |-> {}]

read_all_events ==
  [command |-> "read_all_events", completed |-> "read_all_events_completed",
   outcome |-> [Success |-> "success", Error |-> "server_error",
                AccessDenied |-> "access_denied"],
   silent |-> {}]

create_persistent_subscription ==
  [command |-> "create_group", completed |-> "create_group_completed",
   outcome |-> [Success |-> "success", Fail |-> "persistent_subscription_fail",
                AccessDenied |-> "access_denied",
                AlreadyExists |-> "persistent_subscription_already_exists"],
   silent |-> {}]

update_persistent_subscription ==
  [command |-> "update_group", completed |-> "update_group_completed",
   outcome |-> [Success |-> "success", Fail |-> "persistent_subscription_fail",
                AccessDenied |-> "access_denied",
                DoesNotExist |-> "persistent_subscription_does_not_exist"],
   silent |-> {}]

delete_persistent_subscription ==
  [command |-> "delete_group", completed |-> "delete_group_completed",
   outcome |-> [Success |-> "success", Fail |-> "persistent_subscription_fail",
                AccessDenied |-> "access_denied",
                DoesNotExist |-> "persistent_subscription_does_not_exist"],
   silent |-> {}]

start_transaction ==
  [command |-> "transaction_start", completed |-> "transaction_start_completed",
   outcome |-> [Success |-> "success", Timeout |-> "success",
                WrongExpectedVersion |-> "wrong_expected_version",
                StreamDeleted |-> "stream_deleted",
                InvalidTransaction |-> "invalid_transaction",
                AccessDenied |-> "access_denied"],
   silent |-> {}]

\* An invalid transaction is among the results without a case.
transactional_write ==
  [command |-> "transaction_write", completed |-> "transaction_write_completed",
   outcome |-> [Success |-> "success", Timeout |-> "success",
                AccessDenied |-> "access_denied"],
   silent |-> {}]

commit_transaction ==
  [command |-> "transaction_commit", completed |-> "transaction_commit_completed",
   outcome |-> [Success |-> "success",
                WrongExpectedVersion |-> "wrong_expected_version",
                StreamDeleted |-> "stream_deleted",
                InvalidTransaction |-> "invalid_transaction",
                AccessDenied |-> "access_denied"],
   silent |-> {"Timeout"}]

Operation ==
  [append |-> append_to_stream, set_metadata |-> set_stream_metadata,
   conditional_append |-> conditional_append_to_stream,
   delete |-> delete_stream, read_event |-> read_stream_event,
   get_metadata |-> get_stream_metadata, read_events |-> read_stream_events,
   read_all |-> read_all_events, create |-> create_persistent_subscription,
   update |-> update_persistent_subscription,
   delete_group |-> delete_persistent_subscription,
   start |-> start_transaction, write |-> transactional_write,
   commit |-> commit_transaction]

TransactionOperation == {"start", "write", "commit"}
SingleOperation == DOMAIN Operation \ TransactionOperation

------------------------------------------------------------------------------
\* expected_version::any; the version of an empty stream is -1.
AnyVersion == -2
NoCall == [op |-> "none", expected |-> AnyVersion]

OpsInit ==
  /\ called = [c \in Call |-> NoCall]
  /\ status = [c \in Call |-> "idle"]
  /\ told = [c \in Call |-> <<>>]
  /\ timedOut = {}
  /\ wire = <<>>
  /\ answer = [c \in Call |-> NoAnswer]
  /\ events = [stream |-> <<>>, metastream |-> <<>>]
  /\ deleted = FALSE

\* Calls are made in the order of their numbers.
NextCall(c) ==
  /\ status[c] = "idle"
  /\ c[2] > 1 => status[<<c[1], c[2] - 1>>] # "idle"
  /\ Cardinality({d \in Call : status[d] # "idle"}) < MaxCalls

\* Mistake: a request overtakes the requests sent before it.
SendOvertaking(c, op, expected) ==
  /\ NextCall(c)
  /\ called' = [called EXCEPT ![c] = [op |-> op, expected |-> expected]]
  /\ status' = [status EXCEPT ![c] = "pending"]
  /\ wire' = <<c>> \o wire
  /\ UNCHANGED <<told, timedOut, answer, streamVars>>

\* Build the package of the operation and give it to async_send.
Send(c, op, expected) ==
  /\ NextCall(c)
  /\ called' = [called EXCEPT ![c] = [op |-> op, expected |-> expected]]
  /\ status' = [status EXCEPT ![c] = "pending"]
  /\ wire' = Append(wire, c)
  /\ UNCHANGED <<told, timedOut, answer, streamVars>>

\* The stream an operation is about.
Target(op) ==
  IF op \in {"set_metadata", "get_metadata"} THEN "metastream" ELSE "stream"

Version(target) == Len(events[target]) - 1

\* The user calls an operation.  One that changes a stream expects any version
\* or the one the stream has now; others may write before it is executed.
CallOperation(c) ==
  \E op \in SingleOperation :
    \/ Send(c, op, AnyVersion)
    \/ /\ op \in {"append", "set_metadata", "conditional_append", "delete"}
       /\ Send(c, op, Version(Target(op)))

\* The handler of the operation, called with an answer: what it tells the user.
AnswerOutcome(op, a) ==
  IF a.command = op.completed /\ a.result \in op.silent THEN <<>>
  ELSE IF a.command = op.completed /\ a.result \in DOMAIN op.outcome
       THEN <<op.outcome[a.result]>>
       ELSE <<"unexpected_response">>

\* The answer arrives before the deadline.
HandleAnswer(c) ==
  /\ status[c] = "pending"
  /\ answer[c] # NoAnswer
  /\ status' = [status EXCEPT ![c] = "done"]
  /\ told' = [told EXCEPT ![c] = AnswerOutcome(Operation[called[c].op], answer[c])]
  /\ answer' = [answer EXCEPT ![c] = NoAnswer]
  /\ timedOut' = IF answer[c].result = "Timeout" THEN timedOut \cup {c} ELSE timedOut
  /\ UNCHANGED <<called, wire, streamVars>>

\* Mistake: a request that times out is forgotten.
HandleTimeoutSilently(c) ==
  /\ status[c] = "pending"
  /\ status' = [status EXCEPT ![c] = "done"]
  /\ answer' = [answer EXCEPT ![c] = NoAnswer]
  /\ UNCHANGED <<called, told, wire, timedOut, streamVars>>

\* The deadline passes first: every operation hands the error on.  The server
\* may have executed the request, or may execute it later.
HandleTimeout(c) ==
  /\ status[c] = "pending"
  /\ status' = [status EXCEPT ![c] = "done"]
  /\ told' = [told EXCEPT ![c] = <<"operation_timeout">>]
  /\ answer' = [answer EXCEPT ![c] = NoAnswer]
  /\ UNCHANGED <<called, wire, timedOut, streamVars>>

------------------------------------------------------------------------------
(* The server (external).  Subscription groups are left out: it may answer  *)
(* an operation on one in any way.                                          *)

Writable(c) ==
  /\ ~deleted
  /\ called[c].expected \in {AnyVersion, Version(Target(called[c].op))}

\* Why a write cannot be executed, as far as the stream decides it.
WriteConflict(c) ==
  IF deleted THEN {"StreamDeleted"}
  ELSE IF Writable(c) THEN {} ELSE {"WrongExpectedVersion"}

\* The request is executed.
Perform(c) ==
  LET op == called[c].op IN
  \/ /\ op \in {"append", "conditional_append", "set_metadata"}
     /\ Writable(c)
     /\ events' = [events EXCEPT ![Target(op)] = Append(@, c)]
     /\ UNCHANGED deleted
  \/ /\ op = "delete"
     /\ Writable(c)
     /\ deleted' = TRUE
     /\ UNCHANGED events
  \/ /\ op \in {"read_event", "get_metadata", "read_events"}
     /\ ~deleted /\ Version(Target(op)) >= 0
     /\ UNCHANGED streamVars
  \/ /\ op \in {"read_all", "create", "update", "delete_group"}
     /\ UNCHANGED streamVars

\* The results of a request that is not executed.
Refusals(c) ==
  LET op == called[c].op
      missing == IF deleted THEN {"StreamDeleted"}
                 ELSE IF Version(Target(op)) < 0 THEN {"NoStream"} ELSE {}
  IN  CASE op \in {"append", "conditional_append", "set_metadata", "delete"} ->
             {"Timeout", "InvalidTransaction", "AccessDenied"} \cup WriteConflict(c)
        [] op \in {"read_event", "get_metadata"} ->
             {"Error", "AccessDenied"} \cup missing
               \cup (IF missing = {} THEN {"NotFound"} ELSE {})
        [] op = "read_events" -> {"Error", "AccessDenied", "NotModified"} \cup missing
        [] op = "read_all" -> {"Error", "AccessDenied", "NotModified"}
        [] op = "create" -> {"Fail", "AccessDenied", "AlreadyExists"}
        [] op \in {"update", "delete_group"} -> {"Fail", "AccessDenied", "DoesNotExist"}

\* The answers to an executed request: of a write the server may not learn in
\* time that it was executed.
DoneResults(c) ==
  {"Success"} \cup (IF "Timeout" \in Refusals(c) THEN {"Timeout"} ELSE {})

\* The client ignores the answer to a request that has timed out.
PutAnswer(c, a) ==
  answer' = IF status[c] = "pending" THEN [answer EXCEPT ![c] = a] ELSE answer

Answers(c, results) ==
  \E r \in results : PutAnswer(c, Answer(Operation[called[c].op].completed, r))

Receive(c) ==
  /\ wire # <<>>
  /\ c = Head(wire)
  /\ wire' = Tail(wire)
  /\ UNCHANGED callVars

ServerExecutes(c) ==
  /\ c \in SingleCall
  /\ Receive(c)
  /\ \/ Perform(c) /\ Answers(c, DoneResults(c))
     \/ Answers(c, Refusals(c)) /\ UNCHANGED streamVars

ServerRejects(c) ==
  /\ Receive(c)
  /\ PutAnswer(c, OtherCommand)
  /\ UNCHANGED streamVars

==============================================================================

------------------------------ MODULE Requests -------------------------------
(****************************************************************************)
(* What async_send(package, handler) promises to its caller, without        *)
(* sockets, queues and timers: a request is submitted once, the server may  *)
(* receive it once, and the handler is called exactly once, with a response *)
(* only if the server received the request.  The program may halt, but only *)
(* after some response was handled.                                         *)
(****************************************************************************)
EXTENDS Naturals, Sequences

CONSTANTS Ops, Outcome

VARIABLES
  pending,     \* requests whose handler has not been called
  delivered,   \* requests the server received
  calls,       \* calls[o]: the outcomes the handler of o was called with
  halted       \* the program has stopped

rvars == <<pending, delivered, calls, halted>>

RInit ==
  /\ pending = {}
  /\ delivered = {}
  /\ calls = [o \in Ops |-> <<>>]
  /\ halted = FALSE

Submit(o) ==
  /\ o \notin pending
  /\ calls[o] = <<>>
  /\ pending' = pending \cup {o}
  /\ UNCHANGED <<delivered, calls, halted>>

\* A request may reach the server after its handler was told of a timeout.
Deliver(o) ==
  /\ o \in pending \/ calls[o] # <<>>
  /\ o \notin delivered
  /\ delivered' = delivered \cup {o}
  /\ UNCHANGED <<pending, calls, halted>>

Complete(o, outcome) ==
  /\ o \in pending
  /\ outcome = "response" => o \in delivered
  /\ pending' = pending \ {o}
  /\ calls' = [calls EXCEPT ![o] = Append(@, outcome)]
  /\ UNCHANGED <<delivered, halted>>

Halt ==
  /\ \E o \in Ops : calls[o] = <<"response">>
  /\ halted' = TRUE
  /\ UNCHANGED <<pending, delivered, calls>>

RNext ==
  /\ ~halted
  /\ \/ \E o \in Ops : Submit(o) \/ Deliver(o)
     \/ \E o \in Ops, outcome \in Outcome : Complete(o, outcome)
     \/ Halt

RSpec == RInit /\ [][RNext]_rvars

RFairSpec ==
  /\ RSpec
  /\ \A o \in Ops :
       WF_rvars(~halted /\ \E outcome \in Outcome : Complete(o, outcome))
==============================================================================

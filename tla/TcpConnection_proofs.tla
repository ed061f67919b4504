------------------------- MODULE TcpConnection_proofs ------------------------
(****************************************************************************)
(* Proofs about TcpConnection, and about the heartbeat chain that Heartbeat *)
(* adds to it, for any set of operations, any bound on the server and any   *)
(* width of package_no_.                                                    *)
(****************************************************************************)
EXTENDS Heartbeat, Integers, SequenceTheorems, TLAPS

USE DEF sendVars, writeVars, readVars, opVars

------------------------------------------------------------------------------
(* Packages and handler calls keep their types.                             *)

LEMMA PackageTypes ==
  /\ \A o \in Ops : Request(o) \in ClientPackage
  /\ HeartbeatResponse \in ClientPackage
  BY DEF Request, HeartbeatResponse, ClientPackage

LEMMA InvokeTypes ==
  ASSUME TypeOK, NEW o \in Ops, NEW outcome \in Outcome,
         NEW timer \in {"unused", "armed", "expired", "failed", "aborted", "done"},
         InvokeAndErase(o, outcome, timer)
  PROVE  /\ results' \in [Ops -> Seq(Outcome)]
         /\ deadline' \in [Ops -> {"unused", "armed", "expired", "failed", "aborted", "done"}]
         /\ operations_map' \in SUBSET Ops
<1>1. Append(results[o], outcome) \in Seq(Outcome)
  BY AppendProperties DEF TypeOK
<1> QED BY <1>1 DEF InvokeAndErase, TypeOK

------------------------------------------------------------------------------
(* Type correctness.                                                        *)

LEMMA TypeInit == Init => TypeOK
<1> SUFFICES ASSUME Init PROVE TypeOK
  OBVIOUS
<1>1. \A S : <<>> \in Seq(S)
  BY EmptySeq
<1>2. results \in [Ops -> Seq(Outcome)]
  BY <1>1 DEF Init, ConnectedWith
<1>3. package_no \in 0..(PackageNoModulus - 1)
  BY ModulusAssumption DEF Init, ConnectedWith
<1>4. deadline \in [Ops -> {"unused", "armed", "expired", "failed", "aborted", "done"}]
  BY DEF Init, ConnectedWith
<1> QED
  BY <1>1, <1>2, <1>3, <1>4 DEF Init, ConnectedWith, TypeOK

LEMMA TypeNext == TypeOK /\ [Next]_vars => TypeOK'
<1> SUFFICES ASSUME TypeOK, [Next]_vars PROVE TypeOK'
  OBVIOUS
<1>1. CASE UNCHANGED vars
  BY <1>1 DEF vars, TypeOK
<1>2. CASE RunPostedSend
  BY <1>2, AppendProperties, HeadTailProperties DEF RunPostedSend, TypeOK
<1>3. CASE HandleWritten
  BY <1>3, HeadTailProperties DEF HandleWritten, TypeOK
<1>4. CASE HandleWriteError
  BY <1>4 DEF HandleWriteError, TypeOK
<1>5. CASE HandlePackage
  <2> DEFINE p == Head(inbox)
  <2>1. p \in ServerPackage /\ inbox' \in Seq(ServerPackage)
    BY <1>5, HeadTailProperties DEF HandlePackage, TypeOK
  <2>2. package_no' \in 0..(PackageNoModulus - 1)
    BY <1>5, ModulusAssumption DEF HandlePackage, TypeOK
  <2>3. CASE /\ p.corr \in operations_map
             /\ InvokeAndErase(p.corr, "response", CancelledDeadline(p.corr))
             /\ UNCHANGED <<sendVars, thrown>>
    <3>1. p.corr \in Ops
      BY <2>3 DEF TypeOK
    <3>2. CancelledDeadline(p.corr)
            \in {"unused", "armed", "expired", "failed", "aborted", "done"}
      BY <3>1 DEF CancelledDeadline, TypeOK
    <3>3. "response" \in Outcome
      BY DEF Outcome
    <3> QED BY <1>5, <2>1, <2>2, <2>3, <3>1, <3>2, <3>3, InvokeTypes
              DEF HandlePackage, TypeOK
  <2>4. CASE /\ p.corr \notin operations_map
             /\ p.cmd = "heartbeat_request"
             /\ async_send(HeartbeatResponse)
             /\ UNCHANGED opVars
    BY <1>5, <2>1, <2>2, <2>4, AppendProperties, PackageTypes
      DEF HandlePackage, async_send, TypeOK
  <2>5. CASE /\ p.corr \notin operations_map
             /\ p.cmd = "other"
             /\ UNCHANGED <<sendVars, opVars>>
    BY <1>5, <2>1, <2>2, <2>5 DEF HandlePackage, TypeOK
  <2> QED BY <1>5, <2>3, <2>4, <2>5 DEF HandlePackage, on_package_received
<1>6. CASE HandleReadError
  BY <1>6 DEF HandleReadError, TypeOK
<1>7. ASSUME NEW o \in Ops, HandleTimeout(o) PROVE TypeOK'
  <2>1. "operation_timeout" \in Outcome
    BY DEF Outcome
  <2> QED BY <1>7, <2>1, InvokeTypes DEF HandleTimeout, TypeOK
<1>8. ASSUME NEW o \in Ops, HandleAborted(o) PROVE TypeOK'
  BY <1>8 DEF HandleAborted, TypeOK
<1>9. ASSUME NEW o \in Ops, HandleTimerError(o) PROVE TypeOK'
  <2>1. "timer_error" \in Outcome
    BY DEF Outcome
  <2> QED BY <1>9, <2>1, InvokeTypes DEF HandleTimerError, TypeOK
<1>10. CASE WriteCompletes
  BY <1>10, AppendProperties, HeadTailProperties DEF WriteCompletes, TypeOK
<1>11. CASE WriteFails
  BY <1>11 DEF WriteFails, TypeOK
<1>12. CASE ReadCompletes
  BY <1>12 DEF ReadCompletes, TypeOK
<1>13. CASE ReadFails
  BY <1>13 DEF ReadFails, TypeOK
<1>14. ASSUME NEW p \in ServerPackage, ServerSends(p) PROVE TypeOK'
  BY <1>14, AppendProperties DEF ServerSends, TypeOK
<1>15. ASSUME NEW o \in Ops, DeadlineExpires(o) \/ DeadlineFails(o) PROVE TypeOK'
  BY <1>15 DEF DeadlineExpires, DeadlineFails, TypeOK
<1>16. CASE Close
  BY <1>16 DEF Close, TypeOK
<1>17. ASSUME NEW o \in Ops, AsyncSendWithHandler(o) PROVE TypeOK'
  BY <1>17, AppendProperties, PackageTypes DEF AsyncSendWithHandler, async_send, TypeOK
<1> QED
  BY <1>1, <1>2, <1>3, <1>4, <1>5, <1>6, <1>7, <1>8, <1>9, <1>10, <1>11, <1>12,
     <1>13, <1>14, <1>15, <1>16, <1>17
  DEF Next, HandlerStep, SystemStep, UserStep

\* Every reachable state of the connection is well typed; front() is never
\* called on an empty message_queue_ and no read completes without a package.
THEOREM TypeCorrect == Spec => []TypeOK
  BY TypeInit, TypeNext, PTL DEF Spec

------------------------------------------------------------------------------
(* Every handler is called exactly once.                                    *)

\* A deadline that has expired without finding its operation lost the race
\* against the answer.
LateAnswered ==
  \A o \in Ops : deadline[o] = "expired" /\ o \notin operations_map
                  => results[o] = <<"response">>

\* The inductive invariant of the operations.
OpInv == HandledExactlyOnce /\ RegisteredWithDeadline /\ LateAnswered

LEMMA InvokeOpInv ==
  ASSUME TypeOK, OpInv, NEW o \in Ops, o \in operations_map,
         NEW outcome \in Outcome,
         NEW timer \in {"expired", "failed", "aborted", "done"},
         timer = "expired" => outcome = "response",
         InvokeAndErase(o, outcome, timer)
  PROVE  OpInv'
<1>1. results[o] = <<>>
  <2>1. deadline[o] # "unused" /\ Len(results[o]) = 0 /\ results[o] \in Seq(Outcome)
    BY DEF OpInv, HandledExactlyOnce, RegisteredWithDeadline, TypeOK
  <2> QED BY <2>1, EmptySeq
<1>2. results'[o] = <<outcome>> /\ Len(results'[o]) = 1
  <2>1. results'[o] = Append(<<>>, outcome)
    BY <1>1 DEF InvokeAndErase, TypeOK
  <2>2. Append(<<>>, outcome) = <<outcome>> /\ Len(<<outcome>>) = 1
    OBVIOUS
  <2> QED BY <2>1, <2>2
<1>3. o \notin operations_map' /\ deadline'[o] = timer
  BY DEF InvokeAndErase, TypeOK
<1>4. ASSUME NEW q \in Ops, q # o
      PROVE  /\ results'[q] = results[q]
             /\ deadline'[q] = deadline[q]
             /\ (q \in operations_map') <=> (q \in operations_map)
  BY <1>4 DEF InvokeAndErase, TypeOK
<1>5. HandledExactlyOnce'
  <2> SUFFICES ASSUME NEW q \in Ops
               PROVE  Len(results'[q]) = IF deadline'[q] = "unused" \/ q \in operations_map'
                                         THEN 0 ELSE 1
    BY DEF HandledExactlyOnce
  <2>1. CASE q = o
    BY <2>1, <1>2, <1>3
  <2>2. CASE q # o
    BY <2>2, <1>4 DEF OpInv, HandledExactlyOnce
  <2> QED BY <2>1, <2>2
<1>6. RegisteredWithDeadline'
  <2> SUFFICES ASSUME NEW q \in Ops
               PROVE  /\ q \in operations_map' => deadline'[q] \in {"armed", "expired", "failed"}
                      /\ deadline'[q] = "armed" => q \in operations_map'
    BY DEF RegisteredWithDeadline
  <2>1. CASE q = o
    BY <2>1, <1>3
  <2>2. CASE q # o
    BY <2>2, <1>4 DEF OpInv, RegisteredWithDeadline
  <2> QED BY <2>1, <2>2
<1>7. LateAnswered'
  <2> SUFFICES ASSUME NEW q \in Ops, deadline'[q] = "expired", q \notin operations_map'
               PROVE  results'[q] = <<"response">>
    BY DEF LateAnswered
  <2>1. CASE q = o
    BY <2>1, <1>2, <1>3
  <2>2. CASE q # o
    BY <2>2, <1>4 DEF OpInv, LateAnswered
  <2> QED BY <2>1, <2>2
<1> QED BY <1>5, <1>6, <1>7 DEF OpInv

LEMMA OpInvUnchanged ==
  ASSUME OpInv, UNCHANGED <<operations_map, deadline, results>>
  PROVE  OpInv'
  BY DEF OpInv, HandledExactlyOnce, RegisteredWithDeadline, LateAnswered

LEMMA OpInvInit == Init => OpInv
  BY DEF Init, ConnectedWith, OpInv, HandledExactlyOnce, RegisteredWithDeadline,
         LateAnswered

LEMMA OpInvNext == TypeOK /\ OpInv /\ [Next]_vars => OpInv'
<1> SUFFICES ASSUME TypeOK, OpInv, [Next]_vars PROVE OpInv'
  OBVIOUS
<1>1. CASE UNCHANGED <<operations_map, deadline, results>>
  BY <1>1, OpInvUnchanged
<1>2. CASE HandlePackage
  <2> DEFINE p == Head(inbox)
  <2>1. CASE /\ p.corr \in operations_map
             /\ InvokeAndErase(p.corr, "response", CancelledDeadline(p.corr))
    <3>1. p.corr \in Ops /\ "response" \in Outcome
      BY <2>1 DEF TypeOK, Outcome
    <3>2. CancelledDeadline(p.corr) \in {"expired", "failed", "aborted", "done"}
      BY <2>1, <3>1 DEF CancelledDeadline, OpInv, RegisteredWithDeadline
    <3> QED BY <2>1, <3>1, <3>2, InvokeOpInv
  <2>2. CASE UNCHANGED opVars
    BY <2>2, OpInvUnchanged
  <2> QED BY <1>2, <2>1, <2>2 DEF HandlePackage, on_package_received
<1>3. ASSUME NEW o \in Ops, HandleTimeout(o) PROVE OpInv'
  <2>1. CASE o \in operations_map
    <3>1. "operation_timeout" \in Outcome
      BY DEF Outcome
    <3> QED BY <1>3, <2>1, <3>1, InvokeOpInv DEF HandleTimeout
  <2>2. CASE o \notin operations_map
    BY <1>3, <2>2, OpInvUnchanged DEF HandleTimeout
  <2> QED BY <2>1, <2>2
<1>4. ASSUME NEW o \in Ops, HandleTimerError(o) PROVE OpInv'
  <2>1. CASE o \in operations_map
    <3>1. "timer_error" \in Outcome
      BY DEF Outcome
    <3> QED BY <1>4, <2>1, <3>1, InvokeOpInv DEF HandleTimerError
  <2>2. CASE o \notin operations_map
    BY <1>4, <2>2 DEF HandleTimerError, OpInv, HandledExactlyOnce,
       RegisteredWithDeadline, LateAnswered, TypeOK
  <2> QED BY <2>1, <2>2
<1>5. ASSUME NEW o \in Ops, HandleAborted(o) PROVE OpInv'
  BY <1>5 DEF HandleAborted, OpInv, HandledExactlyOnce, RegisteredWithDeadline,
     LateAnswered, TypeOK
<1>6. ASSUME NEW o \in Ops, DeadlineExpires(o) \/ DeadlineFails(o) PROVE OpInv'
  BY <1>6 DEF DeadlineExpires, DeadlineFails, OpInv, HandledExactlyOnce,
     RegisteredWithDeadline, LateAnswered, TypeOK
<1>7. ASSUME NEW o \in Ops, AsyncSendWithHandler(o) PROVE OpInv'
  BY <1>7 DEF AsyncSendWithHandler, OpInv, HandledExactlyOnce,
     RegisteredWithDeadline, LateAnswered, TypeOK
<1>8. CASE RunPostedSend \/ HandleWritten \/ HandleWriteError \/ HandleReadError
  BY <1>8, <1>1 DEF RunPostedSend, HandleWritten, HandleWriteError, HandleReadError
<1>9. CASE WriteCompletes \/ WriteFails \/ ReadCompletes \/ ReadFails \/ Close
  BY <1>9, <1>1 DEF WriteCompletes, WriteFails, ReadCompletes, ReadFails, Close
<1>10. ASSUME NEW p \in ServerPackage, ServerSends(p) PROVE OpInv'
  BY <1>10, <1>1 DEF ServerSends
<1>11. CASE UNCHANGED vars
  BY <1>11, <1>1 DEF vars
<1> QED
  BY <1>2, <1>3, <1>4, <1>5, <1>6, <1>7, <1>8, <1>9, <1>10, <1>11
  DEF Next, HandlerStep, SystemStep, UserStep

LEMMA Invariance == Spec => [](TypeOK /\ OpInv)
<1>1. Init => TypeOK /\ OpInv
  BY TypeInit, OpInvInit
<1>2. TypeOK /\ OpInv /\ [Next]_vars => (TypeOK /\ OpInv)'
  BY TypeNext, OpInvNext
<1> QED BY <1>1, <1>2, PTL DEF Spec

\* The handler of every request is called exactly once by the time its
\* operation leaves operations_map_, for any number of requests and packages.
THEOREM HandledOnce == Spec => []HandledExactlyOnce
<1>1. OpInv => HandledExactlyOnce
  BY DEF OpInv
<1> QED BY <1>1, Invariance, PTL

\* Every registered operation still has a deadline that can complete it.
THEOREM AlwaysDeadline == Spec => []RegisteredWithDeadline
<1>1. OpInv => RegisteredWithDeadline
  BY DEF OpInv
<1> QED BY <1>1, Invariance, PTL

\* The exception leaves the event loop only through a deadline that expired
\* before the answer of its operation was handled.
THEOREM ThrowsOnlyLate == Spec => []ThrowsOnlyOnLateCancel
<1>1. Init => ThrowsOnlyOnLateCancel
  BY DEF Init, ConnectedWith, ThrowsOnlyOnLateCancel
<1>2. TypeOK /\ OpInv /\ ThrowsOnlyOnLateCancel /\ [Next]_vars
        => ThrowsOnlyOnLateCancel'
  <2> SUFFICES ASSUME TypeOK, OpInv, ThrowsOnlyOnLateCancel, [Next]_vars, thrown'
               PROVE  \E o \in Ops : /\ deadline'[o] = "expired"
                                     /\ results'[o] = <<"response">>
    BY DEF ThrowsOnlyOnLateCancel
  <2>1. CASE UNCHANGED vars
    BY <2>1 DEF vars, ThrowsOnlyOnLateCancel
  <2>2. CASE Next
    <3>1. PICK o \in Ops : HandleTimeout(o) /\ o \notin operations_map
      <4>1. ~thrown
        BY <2>2 DEF Next
      <4> QED BY <2>2, <4>1 DEF Next, HandlerStep, SystemStep, UserStep,
           RunPostedSend, HandleWritten, HandleWriteError, HandlePackage,
           on_package_received, HandleReadError, HandleTimeout, HandleAborted,
           HandleTimerError, WriteCompletes, WriteFails, ReadCompletes,
           ReadFails, ServerSends, DeadlineExpires, DeadlineFails, Close,
           AsyncSendWithHandler
    <3> QED BY <3>1 DEF HandleTimeout, OpInv, LateAnswered
  <2> QED BY <2>1, <2>2
<1> QED BY <1>1, <1>2, Invariance, PTL DEF Spec

------------------------------------------------------------------------------
(* The writer.                                                              *)

\* While the socket is open, message_queue_ is being written exactly when it
\* is not empty: the chain of async_write calls neither stops nor doubles.
THEOREM WriterNeverSleeps == Spec => []WriterAwake
<1>1. Init => WriterAwake
  BY DEF Init, ConnectedWith, WriterAwake
<1>2. TypeOK /\ WriterAwake /\ [Next]_vars => WriterAwake'
  <2> SUFFICES ASSUME TypeOK, WriterAwake, [Next]_vars PROVE WriterAwake'
    OBVIOUS
  <2>1. CASE RunPostedSend
    <3>1. Append(message_queue, Head(posted)) # <<>>
      BY <2>1, AppendProperties, HeadTailProperties DEF RunPostedSend, TypeOK
    <3> QED BY <2>1, <3>1 DEF RunPostedSend, WriterAwake
  <2>2. CASE HandleWritten \/ HandleWriteError \/ HandleReadError
    BY <2>2 DEF HandleWritten, HandleWriteError, HandleReadError, WriterAwake
  <2>3. CASE WriteCompletes \/ WriteFails
    BY <2>3 DEF WriteCompletes, WriteFails, WriterAwake
  <2>4. CASE UNCHANGED <<message_queue, write>> /\ (socket' = "closed" \/ UNCHANGED socket)
    BY <2>4 DEF WriterAwake
  <2>5. CASE UNCHANGED vars
    BY <2>5, <2>4 DEF vars
  <2>6. CASE HandlePackage \/ ReadCompletes \/ ReadFails \/ Close
    BY <2>6, <2>4 DEF HandlePackage, ReadCompletes, ReadFails, Close
  <2>7. ASSUME NEW o \in Ops,
               HandleTimeout(o) \/ HandleAborted(o) \/ HandleTimerError(o)
                 \/ DeadlineExpires(o) \/ DeadlineFails(o) \/ AsyncSendWithHandler(o)
        PROVE  WriterAwake'
    BY <2>7, <2>4 DEF HandleTimeout, HandleAborted, HandleTimerError,
       DeadlineExpires, DeadlineFails, AsyncSendWithHandler
  <2>8. ASSUME NEW p \in ServerPackage, ServerSends(p) PROVE WriterAwake'
    BY <2>8, <2>4 DEF ServerSends
  <2> QED BY <2>1, <2>2, <2>3, <2>5, <2>6, <2>7, <2>8
          DEF Next, HandlerStep, SystemStep, UserStep
<1> QED BY <1>1, <1>2, TypeCorrect, PTL DEF Spec

\* What has been asked of async_send, as its three stages: sent, queued, posted.
Chain(w, q, p) == w \o q \o p

LEMMA HeadTailConcat ==
  ASSUME NEW S, NEW s \in Seq(S), s # <<>>
  PROVE  <<Head(s)>> \o Tail(s) = s
<1>1. Head(s) \in S /\ Tail(s) \in Seq(S) /\ <<Head(s)>> \in Seq(S)
  BY HeadTailProperties
<1>2. Len(<<Head(s)>> \o Tail(s)) = Len(s)
  BY <1>1, HeadTailProperties, ConcatProperties, LenProperties
<1>3. ASSUME NEW i \in 1..Len(s) PROVE (<<Head(s)>> \o Tail(s))[i] = s[i]
  BY <1>1, HeadTailProperties, ConcatProperties, LenProperties
<1> QED BY <1>1, <1>2, <1>3, SeqEqual, ConcatProperties

LEMMA HeadTailParts ==
  ASSUME NEW S, NEW s \in Seq(S), s # <<>>
  PROVE  \E h, t \in Seq(S) : h = <<Head(s)>> /\ t = Tail(s) /\ h \o t = s
<1>1. Head(s) \in S /\ Tail(s) \in Seq(S)
  BY HeadTailProperties
<1>2. <<Head(s)>> \in Seq(S)
  BY <1>1
<1> QED BY <1>1, <1>2, HeadTailConcat, Zenon

\* A new package is posted.
LEMMA AppendLast ==
  ASSUME NEW S, NEW w \in Seq(S), NEW q \in Seq(S), NEW p \in Seq(S), NEW e \in S
  PROVE  Chain(w, q, Append(p, e)) = Append(Chain(w, q, p), e)
<1>1. w \o q \in Seq(S) /\ w \o q \o p \in Seq(S) /\ <<e>> \in Seq(S)
  BY ConcatProperties
<1>2. Append(w \o q \o p, e) = (w \o q \o p) \o <<e>>
  BY <1>1, AppendIsConcat
<1>3. (w \o q \o p) \o <<e>> = (w \o q) \o (p \o <<e>>)
  <2>1. PICK v \in Seq(S) : v = w \o q
    BY <1>1
  <2>2. PICK l \in Seq(S) : l = <<e>>
    BY <1>1
  <2>3. (v \o p) \o l = v \o (p \o l)
    BY ConcatAssociative, SMTT(60)
  <2> QED BY <2>1, <2>2, <2>3
<1>4. p \o <<e>> = Append(p, e)
  BY AppendIsConcat
<1> QED BY <1>2, <1>3, <1>4 DEF Chain

\* The first posted package goes to the end of the queue.
LEMMA MoveHead ==
  ASSUME NEW S, NEW w \in Seq(S), NEW q \in Seq(S), NEW p \in Seq(S), p # <<>>
  PROVE  Chain(w, Append(q, Head(p)), Tail(p)) = Chain(w, q, p)
<1>1. PICK h, t \in Seq(S) : h = <<Head(p)>> /\ t = Tail(p) /\ h \o t = p
  BY HeadTailParts
<1>2. Append(q, Head(p)) = q \o h
  BY <1>1, HeadTailProperties, AppendIsConcat
<1>3. PICK v \in Seq(S) : v = w \o q
  BY ConcatProperties
<1>4. w \o (q \o h) = v \o h
  <2>1. (w \o q) \o h = w \o (q \o h)
    BY ConcatAssociative, SMTT(60)
  <2> QED BY <2>1, <1>3
<1>5. (v \o h) \o t = v \o (h \o t)
  BY ConcatAssociative, SMTT(60)
<1> QED BY <1>1, <1>2, <1>3, <1>4, <1>5 DEF Chain

\* The first queued package goes to the server.
LEMMA WriteHead ==
  ASSUME NEW S, NEW w \in Seq(S), NEW q \in Seq(S), NEW p \in Seq(S), q # <<>>
  PROVE  Chain(Append(w, Head(q)), Tail(q), p) = Chain(w, q, p)
<1>1. PICK h, t \in Seq(S) : h = <<Head(q)>> /\ t = Tail(q) /\ h \o t = q
  BY HeadTailParts
<1>2. Append(w, Head(q)) = w \o h
  BY <1>1, HeadTailProperties, AppendIsConcat
<1>3. (w \o h) \o t = w \o (h \o t)
  BY ConcatAssociative, SMTT(60)
<1> QED BY <1>1, <1>2, <1>3 DEF Chain

\* The packages in message_queue_ that the server does not have yet.
Queued == IF write = "written" THEN Tail(message_queue) ELSE message_queue

\* No package given to async_send is lost, duplicated or overtaken on its way
\* through the posted lambdas and message_queue_ to the socket.
THEOREM SentInOrder == Spec => []SendOrder
<1>1. Init => SendOrder
  BY DEF Init, ConnectedWith, SendOrder
<1>2. TypeOK /\ SendOrder /\ [Next]_vars => SendOrder'
  <2> SUFFICES ASSUME TypeOK, SendOrder, [Next]_vars PROVE SendOrder'
    OBVIOUS
  <2>1. /\ requested = Chain(wire, Queued, posted)
        /\ Queued \in Seq(ClientPackage)
        /\ wire \in Seq(ClientPackage) /\ posted \in Seq(ClientPackage)
        /\ message_queue \in Seq(ClientPackage)
    BY HeadTailProperties DEF SendOrder, Queued, Chain, TypeOK
  <2>2. (requested = Chain(wire, Queued, posted))' => SendOrder'
    BY DEF SendOrder, Queued, Chain
  <2>3. CASE UNCHANGED <<requested, wire, posted, message_queue, write>>
    BY <2>3, <2>1, <2>2 DEF Queued
  <2>4. ASSUME NEW p \in ClientPackage, async_send(p),
               UNCHANGED <<wire, message_queue, write>>
        PROVE  SendOrder'
    <3>1. Queued' = Queued
      BY <2>4 DEF Queued
    <3>2. \A w, q, s \in Seq(ClientPackage) :
            Chain(w, q, Append(s, p)) = Append(Chain(w, q, s), p)
      BY AppendLast
    <3>3. Chain(wire, Queued, Append(posted, p)) = Append(requested, p)
      BY <2>1, <3>2
    <3> QED BY <2>1, <2>2, <2>4, <3>1, <3>3 DEF async_send
  <2>5. CASE RunPostedSend
    <3>1. Queued' = Append(Queued, Head(posted))
      <4>1. CASE message_queue = <<>>
        BY <2>5, <4>1 DEF RunPostedSend, Queued, TypeOK
      <4>2. CASE message_queue # <<>> /\ write = "written"
        <5>1. Head(posted) \in ClientPackage
          BY <2>1, <2>5, HeadTailProperties DEF RunPostedSend
        <5>2. Tail(Append(message_queue, Head(posted)))
                = Append(Tail(message_queue), Head(posted))
          BY <2>1, <4>2, <5>1, HeadTailAppend
        <5> QED BY <2>5, <4>2, <5>2 DEF RunPostedSend, Queued
      <4>3. CASE message_queue # <<>> /\ write # "written"
        BY <2>5, <4>3 DEF RunPostedSend, Queued
      <4> QED BY <4>1, <4>2, <4>3
    <3>2. Chain(wire, Append(Queued, Head(posted)), Tail(posted))
            = Chain(wire, Queued, posted)
      BY <2>1, <2>5, MoveHead DEF RunPostedSend
    <3> QED BY <2>1, <2>2, <2>5, <3>1, <3>2 DEF RunPostedSend
  <2>6. CASE WriteCompletes
    <3>1. message_queue # <<>> /\ Queued = message_queue /\ Queued' = Tail(message_queue)
      BY <2>6 DEF WriteCompletes, Queued, TypeOK
    <3>2. Chain(Append(wire, Head(message_queue)), Tail(message_queue), posted)
            = Chain(wire, message_queue, posted)
      BY <2>1, <3>1, WriteHead
    <3> QED BY <2>1, <2>2, <2>6, <3>1, <3>2 DEF WriteCompletes
  <2>7. CASE HandleWritten
    <3>1. Queued' = Queued
      BY <2>7 DEF HandleWritten, Queued
    <3> QED BY <2>1, <2>2, <2>7, <3>1 DEF HandleWritten
  <2>8. CASE WriteFails \/ HandleWriteError
    <3>1. Queued' = Queued
      BY <2>8 DEF WriteFails, HandleWriteError, Queued
    <3> QED BY <2>1, <2>2, <2>8, <3>1 DEF WriteFails, HandleWriteError
  <2>9. CASE HandlePackage
    <3>1. UNCHANGED <<wire, message_queue, write>>
      BY <2>9 DEF HandlePackage
    <3>2. CASE async_send(HeartbeatResponse)
      BY <3>1, <3>2, <2>4, PackageTypes
    <3>3. CASE UNCHANGED sendVars
      BY <3>1, <3>3, <2>3
    <3> QED BY <2>9, <3>2, <3>3 DEF HandlePackage, on_package_received
  <2>10. ASSUME NEW o \in Ops, AsyncSendWithHandler(o) PROVE SendOrder'
    BY <2>10, <2>4, PackageTypes DEF AsyncSendWithHandler
  <2>11. ASSUME NEW o \in Ops,
                HandleTimeout(o) \/ HandleAborted(o) \/ HandleTimerError(o)
                  \/ DeadlineExpires(o) \/ DeadlineFails(o)
         PROVE  SendOrder'
    BY <2>11, <2>3 DEF HandleTimeout, HandleAborted, HandleTimerError,
       DeadlineExpires, DeadlineFails
  <2>12. CASE HandleReadError \/ ReadCompletes \/ ReadFails \/ Close
    BY <2>12, <2>3 DEF HandleReadError, ReadCompletes, ReadFails, Close
  <2>13. ASSUME NEW p \in ServerPackage, ServerSends(p) PROVE SendOrder'
    BY <2>13, <2>3 DEF ServerSends
  <2>14. CASE UNCHANGED vars
    BY <2>14, <2>3 DEF vars
  <2> QED BY <2>5, <2>6, <2>7, <2>8, <2>9, <2>10, <2>11, <2>12, <2>13, <2>14
          DEF Next, HandlerStep, SystemStep, UserStep
<1> QED BY <1>1, <1>2, TypeCorrect, PTL DEF Spec

------------------------------------------------------------------------------
(* The connection implements Requests, liveness aside.                      *)

\* The packages that may be on their way: requests whose operation has been
\* started, and heartbeats.
Submitted == {p \in ClientPackage : \A o \in Ops : p = Request(o) => deadline[o] # "unused"}

\* The packages the server may have sent.
Answers == {p \in ServerPackage : p.corr \in Ops => p.corr \in Delivered}

\* What is between async_send and the server was submitted, and what is between
\* the server and its handler answers a request that was received.
TravelInv ==
  /\ posted \in Seq(Submitted)
  /\ message_queue \in Seq(Submitted)
  /\ wire \in Seq(Submitted)
  /\ inbox \in Seq(Answers)

LEMMA TravelInit == Init => TravelInv
  BY EmptySeq DEF Init, ConnectedWith, TravelInv

\* Deadlines never become unused again.
LEMMA SubmittedGrows ==
  ASSUME TypeOK, [Next]_vars
  PROVE  Submitted \subseteq Submitted'
<1>1. ASSUME NEW o \in Ops, deadline[o] # "unused" PROVE deadline'[o] # "unused"
  <2>1. CASE UNCHANGED deadline
    BY <1>1, <2>1
  <2>2. ASSUME NEW q \in Ops, NEW timer, timer # "unused",
               deadline' = [deadline EXCEPT ![q] = timer]
        PROVE  deadline'[o] # "unused"
    BY <1>1, <2>2 DEF TypeOK
  <2>3. CASE HandlePackage
    <3>1. CASE /\ Head(inbox).corr \in operations_map
               /\ InvokeAndErase(Head(inbox).corr, "response", CancelledDeadline(Head(inbox).corr))
      <4>1. PICK q \in Ops : q = Head(inbox).corr
        BY <3>1 DEF TypeOK
      <4>2. deadline' = [deadline EXCEPT ![q] = CancelledDeadline(q)]
        BY <3>1, <4>1 DEF InvokeAndErase
      <4>3. CASE q = o
        <5>1. CancelledDeadline(q) # "unused"
          BY <1>1, <4>3 DEF CancelledDeadline
        <5> QED BY <2>2, <4>2, <5>1
      <4>4. CASE q # o
        BY <1>1, <4>2, <4>4 DEF TypeOK
      <4> QED BY <4>3, <4>4
    <3>2. CASE UNCHANGED opVars
      BY <2>1, <3>2
    <3> QED BY <2>3, <3>1, <3>2 DEF HandlePackage, on_package_received
  <2>4. ASSUME NEW q \in Ops, HandleTimeout(q) \/ HandleTimerError(q) \/ HandleAborted(q)
        PROVE  deadline'[o] # "unused"
    BY <2>4, <2>1, <2>2 DEF HandleTimeout, HandleTimerError, HandleAborted, InvokeAndErase
  <2>5. ASSUME NEW q \in Ops, DeadlineExpires(q) \/ DeadlineFails(q) \/ AsyncSendWithHandler(q)
        PROVE  deadline'[o] # "unused"
    BY <2>5, <2>2 DEF DeadlineExpires, DeadlineFails, AsyncSendWithHandler
  <2>6. CASE RunPostedSend \/ HandleWritten \/ HandleWriteError \/ HandleReadError
    BY <2>6, <2>1 DEF RunPostedSend, HandleWritten, HandleWriteError, HandleReadError
  <2>7. CASE WriteCompletes \/ WriteFails \/ ReadCompletes \/ ReadFails \/ Close
    BY <2>7, <2>1 DEF WriteCompletes, WriteFails, ReadCompletes, ReadFails, Close
  <2>8. ASSUME NEW p \in ServerPackage, ServerSends(p) PROVE deadline'[o] # "unused"
    BY <2>8, <2>1 DEF ServerSends
  <2>9. CASE UNCHANGED vars
    BY <2>9, <2>1 DEF vars
  <2> QED BY <2>3, <2>4, <2>5, <2>6, <2>7, <2>8, <2>9
          DEF Next, HandlerStep, SystemStep, UserStep
<1> QED BY <1>1 DEF Submitted

\* A step that writes nothing leaves Delivered alone; a write adds the request
\* at the front of message_queue_, if it is one.
LEMMA DeliveredGrows ==
  ASSUME TypeOK, NEW p \in ClientPackage, wire' = Append(wire, p)
  PROVE  Delivered' = Delivered \cup {o \in Ops : p = Request(o)}
<1>1. /\ Len(wire) \in Nat /\ Len(wire') = Len(wire) + 1
      /\ \A i \in 1..Len(wire) : wire'[i] = wire[i]
      /\ wire'[Len(wire) + 1] = p
  BY AppendProperties, LenProperties DEF TypeOK
<1>2. \A i : i \in 1..Len(wire') <=> i \in 1..Len(wire) \/ i = Len(wire) + 1
  BY <1>1
<1>3. ASSUME NEW o \in Ops
      PROVE  (\E i \in 1..Len(wire') : wire'[i] = Request(o))
               <=> (\E i \in 1..Len(wire) : wire[i] = Request(o)) \/ p = Request(o)
  BY <1>1, <1>2, Zenon
<1> QED BY <1>3 DEF Delivered

LEMMA TravelNext == TypeOK /\ OpInv /\ TravelInv /\ [Next]_vars => TravelInv'
<1> SUFFICES ASSUME TypeOK, OpInv, TravelInv, [Next]_vars PROVE TravelInv'
  OBVIOUS
<1>1. Submitted \subseteq Submitted' /\ HeartbeatResponse \in Submitted'
  <2>1. \A o \in Ops : HeartbeatResponse # Request(o)
    BY DEF HeartbeatResponse, Request
  <2> QED BY <2>1, SubmittedGrows, PackageTypes DEF Submitted
<1>2. \A s : s \in Seq(Submitted) => s \in Seq(Submitted')
  BY <1>1, SeqMonotonic
<1>3. ASSUME UNCHANGED <<wire, inbox>> PROVE inbox' \in Seq(Answers')
  BY <1>3 DEF TravelInv, Answers, Delivered
<1>4. CASE UNCHANGED <<posted, message_queue, wire, inbox>>
  BY <1>2, <1>3, <1>4 DEF TravelInv
<1>5. CASE RunPostedSend
  <2>1. Head(posted) \in Submitted /\ Tail(posted) \in Seq(Submitted)
    BY <1>5, HeadTailProperties DEF RunPostedSend, TravelInv
  <2>2. Append(message_queue, Head(posted)) \in Seq(Submitted)
    BY <2>1, AppendProperties DEF TravelInv
  <2> QED BY <1>2, <1>3, <1>5, <2>1, <2>2 DEF RunPostedSend, TravelInv
<1>6. CASE WriteCompletes
  <2>1. message_queue # <<>>
    BY <1>6 DEF WriteCompletes, TypeOK
  <2>2. PICK p \in Submitted : p = Head(message_queue)
    BY <2>1, HeadTailProperties DEF TravelInv
  <2>3. wire' = Append(wire, p) /\ UNCHANGED <<posted, message_queue, inbox>>
    BY <1>6, <2>2 DEF WriteCompletes
  <2>4. wire' \in Seq(Submitted)
    BY <2>3, AppendProperties DEF TravelInv
  <2>5. Answers \subseteq Answers'
    BY <2>3, DeliveredGrows DEF Answers, Submitted
  <2>6. inbox' \in Seq(Answers')
    BY <2>3, <2>5, SeqMonotonic DEF TravelInv
  <2> QED BY <1>2, <2>3, <2>4, <2>6 DEF TravelInv
<1>7. CASE HandleWritten
  <2>1. Tail(message_queue) \in Seq(Submitted)
    <3>1. message_queue # <<>>
      BY <1>7 DEF HandleWritten, TypeOK
    <3> QED BY <3>1, HeadTailProperties DEF TravelInv
  <2> QED BY <1>2, <1>3, <1>7, <2>1 DEF HandleWritten, TravelInv
<1>8. CASE HandlePackage
  <2>1. inbox' \in Seq(Answers')
    <3>1. Tail(inbox) \in Seq(Answers)
      BY <1>8, HeadTailProperties DEF HandlePackage, TypeOK, TravelInv
    <3>2. Answers' = Answers
      BY <1>8 DEF HandlePackage, Answers, Delivered
    <3> QED BY <1>8, <3>1, <3>2 DEF HandlePackage
  <2>2. posted' \in Seq(Submitted')
    <3>1. posted \in Seq(Submitted')
      BY <1>2 DEF TravelInv
    <3>2. CASE posted' = Append(posted, HeartbeatResponse)
      BY <1>1, <3>1, <3>2, AppendProperties
    <3>3. CASE UNCHANGED posted
      BY <3>1, <3>3
    <3> QED BY <1>8, <3>2, <3>3 DEF HandlePackage, on_package_received, async_send
  <2> QED BY <1>2, <1>8, <2>1, <2>2 DEF HandlePackage, TravelInv
<1>9. ASSUME NEW p \in ServerPackage, ServerSends(p) PROVE TravelInv'
  <2>1. p \in Answers
    BY <1>9 DEF ServerSends, Answers, Delivered
  <2>2. Append(inbox, p) \in Seq(Answers) /\ Answers' = Answers
    BY <1>9, <2>1, AppendProperties DEF TravelInv, ServerSends, Answers, Delivered
  <2> QED BY <1>2, <1>9, <2>2 DEF ServerSends, TravelInv
<1>10. ASSUME NEW o \in Ops, AsyncSendWithHandler(o) PROVE TravelInv'
  <2>1. Request(o) \in Submitted'
    <3>1. deadline'[o] # "unused"
      BY <1>10 DEF AsyncSendWithHandler, TypeOK
    <3>2. \A q \in Ops : Request(o) = Request(q) => o = q
      BY DEF Request
    <3> QED BY <3>1, <3>2, PackageTypes DEF Submitted
  <2>2. posted' \in Seq(Submitted')
    <3>1. posted \in Seq(Submitted')
      BY <1>2 DEF TravelInv
    <3> QED BY <1>10, <2>1, <3>1, AppendProperties DEF AsyncSendWithHandler, async_send
  <2> QED BY <1>2, <1>3, <1>10, <2>2 DEF AsyncSendWithHandler, TravelInv
<1>11. ASSUME NEW o \in Ops,
              HandleTimeout(o) \/ HandleAborted(o) \/ HandleTimerError(o)
                \/ DeadlineExpires(o) \/ DeadlineFails(o)
       PROVE  TravelInv'
  BY <1>4, <1>11 DEF HandleTimeout, HandleAborted, HandleTimerError, DeadlineExpires,
     DeadlineFails
<1>12. CASE HandleWriteError \/ WriteFails \/ HandleReadError \/ ReadCompletes \/ ReadFails \/ Close
  BY <1>4, <1>12 DEF HandleWriteError, WriteFails, HandleReadError, ReadCompletes, ReadFails, Close
<1>13. CASE UNCHANGED vars
  BY <1>4, <1>13 DEF vars
<1> QED BY <1>5, <1>6, <1>7, <1>8, <1>9, <1>10, <1>11, <1>12, <1>13
        DEF Next, HandlerStep, SystemStep, UserStep

------------------------------------------------------------------------------
(* Each step is a step of the contract or changes nothing in it.            *)

LEMMA ContractInit == Init => Contract!RInit
<1> SUFFICES ASSUME Init PROVE Contract!RInit
  OBVIOUS
<1>1. Delivered = {}
  BY DEF Init, ConnectedWith, Delivered
<1> QED BY <1>1 DEF Init, ConnectedWith, Contract!RInit

\* Calling a registered handler completes the request.
LEMMA InvokeCompletes ==
  ASSUME ~thrown, NEW o \in Ops, o \in operations_map, NEW outcome \in Outcome,
         outcome = "response" => o \in Delivered,
         NEW timer, InvokeAndErase(o, outcome, timer), UNCHANGED <<wire, thrown>>
  PROVE  Contract!RNext
<1>1. Delivered' = Delivered
  BY DEF Delivered
<1>2. Contract!Complete(o, outcome)
  BY <1>1 DEF Contract!Complete, InvokeAndErase
<1> QED BY <1>2 DEF Contract!RNext

LEMMA ContractNext ==
  TypeOK /\ OpInv /\ TravelInv /\ [Next]_vars => [Contract!RNext]_(Contract!rvars)
<1> SUFFICES ASSUME TypeOK, OpInv, TravelInv, [Next]_vars
             PROVE  Contract!RNext \/ UNCHANGED Contract!rvars
  OBVIOUS
<1>1. CASE UNCHANGED <<operations_map, wire, results, thrown>>
  BY <1>1 DEF Contract!rvars, Delivered
<1>2. ASSUME NEW o \in Ops, AsyncSendWithHandler(o), ~thrown PROVE Contract!RNext
  <2>1. o \notin operations_map /\ results[o] = <<>>
    <3>1. o \notin operations_map /\ Len(results[o]) = 0 /\ results[o] \in Seq(Outcome)
      BY <1>2 DEF AsyncSendWithHandler, OpInv, HandledExactlyOnce, RegisteredWithDeadline, TypeOK
    <3> QED BY <3>1, EmptySeq
  <2>2. Contract!Submit(o)
    BY <1>2, <2>1 DEF AsyncSendWithHandler, Contract!Submit, Delivered
  <2> QED BY <1>2, <2>2 DEF Contract!RNext
<1>3. CASE WriteCompletes /\ ~thrown
  <2>1. PICK p \in Submitted : p = Head(message_queue)
    BY <1>3, HeadTailProperties DEF WriteCompletes, TravelInv, TypeOK
  <2>2. Delivered' = Delivered \cup {o \in Ops : p = Request(o)}
    BY <1>3, <2>1, DeliveredGrows DEF WriteCompletes, Submitted
  <2>3. UNCHANGED <<operations_map, results, thrown>>
    BY <1>3 DEF WriteCompletes
  <2>4. CASE \E o \in Ops : p = Request(o) /\ o \notin Delivered
    <3>1. PICK o \in Ops : p = Request(o) /\ o \notin Delivered
      BY <2>4
    <3>2. {q \in Ops : p = Request(q)} = {o}
      BY <3>1 DEF Request
    <3>3. o \in operations_map \/ results[o] # <<>>
      <4>1. deadline[o] # "unused"
        BY <3>1 DEF Submitted
      <4>2. o \in operations_map \/ Len(results[o]) = 1
        BY <4>1 DEF OpInv, HandledExactlyOnce
      <4>3. results[o] \in Seq(Outcome)
        BY DEF TypeOK
      <4>4. Len(results[o]) = 1 => results[o] # <<>>
        BY <4>3, EmptySeq
      <4> QED BY <4>2, <4>4
    <3>4. Contract!Deliver(o)
      BY <2>2, <2>3, <3>1, <3>2, <3>3 DEF Contract!Deliver
    <3> QED BY <1>3, <3>4 DEF Contract!RNext
  <2>5. CASE ~\E o \in Ops : p = Request(o) /\ o \notin Delivered
    <3>1. Delivered' = Delivered
      BY <2>2, <2>5
    <3> QED BY <2>3, <3>1 DEF Contract!rvars
  <2> QED BY <2>4, <2>5
<1>4. CASE HandlePackage /\ ~thrown
  <2>1. CASE /\ Head(inbox).corr \in operations_map
             /\ InvokeAndErase(Head(inbox).corr, "response", CancelledDeadline(Head(inbox).corr))
             /\ UNCHANGED thrown
    <3>1. PICK p \in Answers : p = Head(inbox)
      BY <1>4, HeadTailProperties DEF HandlePackage, TypeOK, TravelInv
    <3>2. PICK o \in Ops : o = p.corr
      BY <2>1, <3>1 DEF TypeOK
    <3>3. o \in Delivered
      BY <3>1, <3>2 DEF Answers
    <3>4. PICK timer : timer = CancelledDeadline(o)
      OBVIOUS
    <3>5. /\ o \in operations_map /\ InvokeAndErase(o, "response", timer)
          /\ UNCHANGED <<wire, thrown>> /\ "response" \in Outcome
      BY <1>4, <2>1, <3>1, <3>2, <3>4 DEF HandlePackage, Outcome
    <3> QED BY <1>4, <3>3, <3>5, InvokeCompletes
  <2>2. CASE UNCHANGED opVars
    BY <1>1, <1>4, <2>2 DEF HandlePackage
  <2> QED BY <1>4, <2>1, <2>2 DEF HandlePackage, on_package_received
<1>5. ASSUME NEW o \in Ops, HandleTimeout(o), ~thrown PROVE Contract!RNext
  <2>1. CASE o \in operations_map
    <3>1. /\ InvokeAndErase(o, "operation_timeout", "done") /\ UNCHANGED <<wire, thrown>>
          /\ "operation_timeout" \in Outcome /\ "operation_timeout" # "response"
      BY <1>5, <2>1 DEF HandleTimeout, Outcome
    <3> QED BY <1>5, <2>1, <3>1, InvokeCompletes
  <2>2. CASE o \notin operations_map
    <3>1. results[o] = <<"response">>
      BY <1>5, <2>2 DEF HandleTimeout, OpInv, LateAnswered
    <3>2. Contract!Halt
      BY <1>5, <2>2, <3>1 DEF HandleTimeout, Contract!Halt, Delivered
    <3> QED BY <1>5, <3>2 DEF Contract!RNext
  <2> QED BY <2>1, <2>2
<1>6. ASSUME NEW o \in Ops, HandleTimerError(o), ~thrown
      PROVE  Contract!RNext \/ UNCHANGED Contract!rvars
  <2>1. CASE o \in operations_map
    <3>1. /\ InvokeAndErase(o, "timer_error", "done") /\ UNCHANGED <<wire, thrown>>
          /\ "timer_error" \in Outcome /\ "timer_error" # "response"
      BY <1>6, <2>1 DEF HandleTimerError, Outcome
    <3> QED BY <1>6, <2>1, <3>1, InvokeCompletes
  <2>2. CASE o \notin operations_map
    BY <1>1, <1>6, <2>2 DEF HandleTimerError
  <2> QED BY <2>1, <2>2
<1>7. ASSUME NEW o \in Ops, HandleAborted(o) \/ DeadlineExpires(o) \/ DeadlineFails(o)
      PROVE  Contract!RNext \/ UNCHANGED Contract!rvars
  BY <1>1, <1>7 DEF HandleAborted, DeadlineExpires, DeadlineFails
<1>8. CASE RunPostedSend \/ HandleWritten \/ HandleWriteError \/ HandleReadError
  BY <1>1, <1>8 DEF RunPostedSend, HandleWritten, HandleWriteError, HandleReadError
<1>9. CASE WriteFails \/ ReadCompletes \/ ReadFails \/ Close
  BY <1>1, <1>9 DEF WriteFails, ReadCompletes, ReadFails, Close
<1>10. ASSUME NEW p \in ServerPackage, ServerSends(p)
       PROVE  Contract!RNext \/ UNCHANGED Contract!rvars
  BY <1>1, <1>10 DEF ServerSends
<1>11. CASE UNCHANGED vars
  BY <1>1, <1>11 DEF vars
<1> QED BY <1>2, <1>3, <1>4, <1>5, <1>6, <1>7, <1>8, <1>9, <1>10, <1>11
        DEF Next, HandlerStep, SystemStep, UserStep

\* basic_tcp_connection with operation_op implements the contract of
\* async_send: each request is submitted once, its handler is called once, with
\* a response only if the server received the request, and the program stops
\* only after some response was handled.
THEOREM ImplementsRequests == Spec => Contract!RSpec
<1>1. Init => TypeOK /\ OpInv /\ TravelInv
  BY TypeInit, OpInvInit, TravelInit
<1>2. TypeOK /\ OpInv /\ TravelInv /\ [Next]_vars => (TypeOK /\ OpInv /\ TravelInv)'
  BY TypeNext, OpInvNext, TravelNext
<1>3. Spec => [](TypeOK /\ OpInv /\ TravelInv)
  BY <1>1, <1>2, PTL DEF Spec
<1> QED BY <1>3, ContractInit, ContractNext, PTL DEF Spec, Contract!RSpec

------------------------------------------------------------------------------
(* The heartbeat chain.                                                     *)

\* The quotient and the remainder are unique.
LEMMA Division ==
  ASSUME NEW m \in Nat \ {0}, NEW q \in Nat, NEW r \in 0..(m - 1)
  PROVE  (m * q + r) % m = r /\ (m * q + r) \div m = q
  OBVIOUS

\* Counting modulo m.
LEMMA NextRemainder ==
  ASSUME NEW n \in Nat, NEW m \in Nat \ {0}
  PROVE  (n + 1) % m = IF (n % m) + 1 = m THEN 0 ELSE (n % m) + 1
<1>1. PICK q \in Nat, r \in 0..(m - 1) : n = m * q + r /\ r = (n % m)
  OBVIOUS
<1>2. CASE r + 1 = m
  <2>1. n + 1 = m * (q + 1) + 0 /\ q + 1 \in Nat /\ 0 \in 0..(m - 1)
    BY <1>1, <1>2
  <2>2. (m * (q + 1) + 0) % m = 0
    BY <2>1, Division
  <2> QED BY <1>1, <1>2, <2>1, <2>2
<1>3. CASE r + 1 # m
  <2>1. n + 1 = m * q + (r + 1) /\ r + 1 \in 0..(m - 1)
    BY <1>1, <1>3
  <2>2. (m * q + (r + 1)) % m = r + 1
    BY <2>1, Division
  <2> QED BY <1>1, <1>3, <2>1, <2>2
<1> QED BY <1>2, <1>3

\* What a counter modulo m shows n steps after a.
Ahead(a, n, m) == IF a + (n % m) < m THEN a + (n % m) ELSE a + (n % m) - m

LEMMA AheadByNone ==
  ASSUME NEW m \in Nat \ {0}, NEW a \in 0..(m - 1)
  PROVE  Ahead(a, 0, m) = a
<1>1. 0 % m = 0
  OBVIOUS
<1>2. a + 0 = a /\ a < m
  OBVIOUS
<1> QED BY <1>1, <1>2 DEF Ahead

\* heartbeat_op's view of package_no_: since its request, package_no_ is as far
\* ahead of last_package_no as packages were handled, modulo its width.
CountInv ==
  /\ last_package_no \in 0..(PackageNoModulus - 1)
  /\ heard \in Nat
  /\ interval_stage \in BOOLEAN
  /\ ~interval_stage => package_no = Ahead(last_package_no, heard, PackageNoModulus)

\* In the interval stage a package was handled since the last request.
StageInv == interval_stage => heard > 0

HeartbeatInv == TypeOK /\ CountInv /\ StageInv

LEMMA HeartbeatPackages == HeartbeatRequest \in ClientPackage
  BY DEF HeartbeatRequest, ClientPackage

LEMMA HeartbeatInit == HInit => HeartbeatInv
<1> SUFFICES ASSUME HInit PROVE HeartbeatInv
  OBVIOUS
<1>1. TypeOK
  <2>1. \A S : <<>> \in Seq(S)
    BY EmptySeq
  <2>2. results \in [Ops -> Seq(Outcome)]
    BY <2>1 DEF HInit, ConnectedWith
  <2>3. package_no \in 0..(PackageNoModulus - 1)
    BY ModulusAssumption DEF HInit, ConnectedWith
  <2>4. deadline \in [Ops -> {"unused", "armed", "expired", "failed", "aborted", "done"}]
    BY DEF HInit, ConnectedWith
  <2>5. <<HeartbeatRequest>> \in Seq(ClientPackage)
    BY HeartbeatPackages
  <2> QED BY <2>1, <2>2, <2>3, <2>4, <2>5 DEF HInit, ConnectedWith, TypeOK
<1>2. CountInv
  <2>1. 0 \in 0..(PackageNoModulus - 1)
    BY ModulusAssumption
  <2>2. Ahead(0, 0, PackageNoModulus) = 0
    BY <2>1, ModulusAssumption, AheadByNone
  <2> QED BY <2>1, <2>2 DEF HInit, ConnectedWith, CountInv
<1>3. StageInv
  BY DEF HInit, StageInv
<1> QED BY <1>1, <1>2, <1>3 DEF HeartbeatInv

\* The steps of the chain and of the connection that HNext is made of.
LEMMA HeartbeatTypeNext == TypeOK /\ [HNext]_hvars => TypeOK'
<1> SUFFICES ASSUME TypeOK, [HNext]_hvars PROVE TypeOK'
  OBVIOUS
<1>1. CASE [Next]_vars
  BY <1>1, TypeNext
<1>2. CASE (HPackage \/ HOtherStep) /\ ~thrown
  BY <1>1, <1>2 DEF HPackage, HOtherStep, Next, HandlerStep
<1>3. CASE HeartbeatTimerError \/ HeartbeatTimeout
  BY <1>3 DEF HeartbeatTimerError, HeartbeatTimeout, TypeOK
<1>4. CASE HeartbeatSendRequest
  BY <1>4, AppendProperties, HeartbeatPackages DEF HeartbeatSendRequest, async_send, TypeOK
<1>5. CASE HeartbeatExpires \/ HeartbeatSocketClosed \/ HeartbeatPackagesCame \/ UNCHANGED hvars
  BY <1>1, <1>5 DEF HeartbeatExpires, HeartbeatSocketClosed, HeartbeatPackagesCame, hvars
<1> QED BY <1>2, <1>3, <1>4, <1>5 DEF HNext, HeartbeatHandler

LEMMA HeartbeatNext == HeartbeatInv /\ [HNext]_hvars => HeartbeatInv'
<1> SUFFICES ASSUME HeartbeatInv, [HNext]_hvars PROVE HeartbeatInv'
  OBVIOUS
<1> USE DEF HeartbeatInv
<1>0. TypeOK'
  BY HeartbeatTypeNext
<1>1. CASE UNCHANGED <<last_package_no, interval_stage, heard, package_no>>
  BY <1>0, <1>1 DEF CountInv, StageInv
<1>2. CASE HOtherStep /\ ~thrown
  <2>1. UNCHANGED package_no
    BY <1>2 DEF HOtherStep, RunPostedSend, HandleWritten, HandleWriteError, HandleReadError,
       HandleTimeout, HandleAborted, HandleTimerError, SystemStep, UserStep, WriteCompletes,
       WriteFails, ReadCompletes, ReadFails, ServerSends, DeadlineExpires, DeadlineFails,
       Close, AsyncSendWithHandler
  <2> QED BY <1>1, <1>2, <2>1 DEF HOtherStep, hbVars
<1>3. CASE HPackage /\ ~thrown
  <2>2. /\ package_no' = (package_no + 1) % PackageNoModulus
        /\ heard' = heard + 1
        /\ UNCHANGED <<last_package_no, interval_stage>>
    BY <1>3 DEF HPackage, HandlePackage
  <2>3. CountInv'
    <3>1. PICK n \in Nat, m \in Nat \ {0}, p \in Nat, a \in Nat :
            n = heard /\ m = PackageNoModulus /\ p = package_no /\ a = last_package_no
      BY ModulusAssumption DEF TypeOK, CountInv
    <3>2. p < m /\ a < m
      BY <3>1, ModulusAssumption DEF TypeOK, CountInv
    <3>3. p = Ahead(a, n, m) => (p + 1) % m = Ahead(a, n + 1, m)
      <4>1. PICK r \in 0..(m - 1) : r = (n % m)
        OBVIOUS
      <4>2. (n + 1) % m = IF r + 1 = m THEN 0 ELSE r + 1
        BY <4>1, NextRemainder
      <4>3. (p + 1) % m = IF p + 1 = m THEN 0 ELSE p + 1
        <5>1. p % m = p
          BY <3>2
        <5>2. (p + 1) % m = IF (p % m) + 1 = m THEN 0 ELSE (p % m) + 1
          BY NextRemainder
        <5> QED BY <5>1, <5>2
      <4> QED BY <3>2, <4>1, <4>2, <4>3 DEF Ahead
    <3> QED BY <2>2, <3>1, <3>3 DEF CountInv
  <2>4. StageInv'
    BY <2>2 DEF StageInv, CountInv
  <2> QED BY <1>0, <2>3, <2>4
<1>4. CASE HeartbeatPackagesCame
  <2>1. CountInv'
    BY <1>4 DEF HeartbeatPackagesCame, vars, CountInv, TypeOK
  <2>2. ~interval_stage => heard > 0
    <3>1. SUFFICES ASSUME ~interval_stage, heard = 0 PROVE FALSE
      BY DEF CountInv
    <3>2. 0 % PackageNoModulus = 0
      BY ModulusAssumption
    <3> QED BY <1>4, <3>1, <3>2, ModulusAssumption DEF HeartbeatPackagesCame, CountInv, Ahead
  <2>3. StageInv'
    BY <1>4, <2>2 DEF HeartbeatPackagesCame, StageInv
  <2> QED BY <1>0, <2>1, <2>3
<1>5. CASE HeartbeatSendRequest
  <2>1. CountInv'
    <3>1. Ahead(last_package_no, 0, PackageNoModulus) = last_package_no
      BY ModulusAssumption, AheadByNone DEF CountInv
    <3> QED BY <1>5, <3>1 DEF HeartbeatSendRequest, CountInv
  <2>2. StageInv'
    BY <1>5 DEF HeartbeatSendRequest, StageInv
  <2> QED BY <1>0, <2>1, <2>2
<1>6. CASE /\ HeartbeatTimerError \/ HeartbeatTimeout \/ HeartbeatExpires
                \/ HeartbeatSocketClosed \/ UNCHANGED hvars
  <2>1. UNCHANGED <<last_package_no, interval_stage, heard, package_no>>
    BY <1>6 DEF HeartbeatTimerError, HeartbeatTimeout, HeartbeatExpires, HeartbeatSocketClosed,
                hvars, vars, hbVars
  <2> QED BY <1>1, <2>1
<1> QED BY <1>2, <1>3, <1>4, <1>5, <1>6 DEF HNext, HeartbeatHandler

LEMMA HeartbeatInvariance == HSpec => []HeartbeatInv
  BY HeartbeatInit, HeartbeatNext, PTL DEF HSpec

\* heartbeat_op closes a connection for silence only if no package was handled
\* since its request, or a multiple of what package_no_ can count.
THEOREM TimeoutMeansSilence == HSpec => TimeoutOnlyOnSilence
<1>1. HeartbeatInv /\ [HNext]_hvars
        => [HeartbeatTimeout => heard % PackageNoModulus = 0]_hvars
  <2> SUFFICES ASSUME HeartbeatInv, HeartbeatTimeout PROVE heard % PackageNoModulus = 0
    OBVIOUS
  <2>1. PICK r \in 0..(PackageNoModulus - 1) : r = heard % PackageNoModulus
    BY ModulusAssumption DEF HeartbeatInv, CountInv
  <2> QED BY <2>1, ModulusAssumption DEF HeartbeatInv, CountInv, HeartbeatTimeout, Ahead
<1> QED BY <1>1, HeartbeatInvariance, PTL DEF HSpec, TimeoutOnlyOnSilence

\* heartbeat_op sends a request only if a package was handled since the one
\* before, however far package_no_ has wrapped around: a request is never sent
\* into silence.
THEOREM RequestsAnswered == HSpec => NoRequestIntoSilence
<1>1. HeartbeatInv /\ [HNext]_hvars => [HeartbeatSendRequest => heard > 0]_hvars
  BY DEF HeartbeatInv, StageInv, HeartbeatSendRequest
<1> QED BY <1>1, HeartbeatInvariance, PTL DEF HSpec, NoRequestIntoSilence
==============================================================================

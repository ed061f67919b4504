-------------------------- MODULE Transaction_proofs --------------------------
(****************************************************************************)
(* Proofs about the transaction and the one-request operations, for any     *)
(* number of calls.                                                         *)
(****************************************************************************)
EXTENDS Transaction, SequenceTheorems, TLAPS

USE DEF objectVars, serverVars, streamVars, callVars

------------------------------------------------------------------------------
(* The calls and the tables of the operations.                              *)

LEMMA CallKinds ==
  /\ SingleCall \cup WriteCall \cup CommitCall \cup {StartCall} = Call
  /\ SingleCall \cap (WriteCall \cup CommitCall \cup {StartCall}) = {}
  /\ WriteCall \cap (CommitCall \cup {StartCall}) = {}
  /\ StartCall \notin CommitCall
  BY DEF Call, SingleCall, WriteCall, CommitCall, StartCall

LEMMA WriteNumbers ==
  /\ \A c \in WriteCall : c[1] = "write" /\ c[2] \in 1..MaxWrites /\ c = <<c[1], c[2]>>
  /\ \A n \in 1..MaxWrites : <<"write", n>> \in WriteCall
  BY DEF WriteCall

Silent == {"append", "set_metadata", "conditional_append", "commit"}

\* Which results an operation keeps silent about, and which it takes for
\* success or for a deleted stream.
LEMMA OperationTable ==
  ASSUME NEW op \in DOMAIN Operation
  PROVE  /\ Operation[op].silent = IF op \in Silent THEN {"Timeout"} ELSE {}
         /\ \A r \in DOMAIN Operation[op].outcome :
              /\ Operation[op].outcome[r] = "success" =>
                   r = "Success" \/ (r = "Timeout" /\ op # "commit")
              /\ Operation[op].outcome[r] \in {"stream_deleted", "is_deleted"} =>
                   r = "StreamDeleted"
<1> USE DEF Silent
<1>1. CASE op \in {"append", "set_metadata"}
  BY <1>1 DEF Operation, append_to_stream, set_stream_metadata
<1>2. CASE op = "conditional_append"
  BY <1>2 DEF Operation, conditional_append_to_stream, append_to_stream
<1>3. CASE op = "delete"
  BY <1>3 DEF Operation, delete_stream
<1>4. CASE op = "read_event"
  BY <1>4 DEF Operation, read_stream_event
<1>5. CASE op = "get_metadata"
  <2>1. /\ get_stream_metadata.silent = {}
        /\ get_stream_metadata.outcome
             = [Success |-> "success", NotFound |-> "empty", NoStream |-> "empty",
                StreamDeleted |-> "is_deleted", Error |-> "server_error",
                AccessDenied |-> "access_denied"]
    BY DEF get_stream_metadata, read_stream_event
  <2> QED BY <1>5, <2>1 DEF Operation
<1>6. CASE op = "read_events"
  BY <1>6 DEF Operation, read_stream_events
<1>7. CASE op = "read_all"
  BY <1>7 DEF Operation, read_all_events
<1>8. CASE op = "create"
  BY <1>8 DEF Operation, create_persistent_subscription
<1>9. CASE op = "update"
  BY <1>9 DEF Operation, update_persistent_subscription
<1>10. CASE op = "delete_group"
  BY <1>10 DEF Operation, delete_persistent_subscription
<1>11. CASE op = "start"
  BY <1>11 DEF Operation, start_transaction
<1>12. CASE op = "write"
  BY <1>12 DEF Operation, transactional_write
<1>13. CASE op = "commit"
  BY <1>13 DEF Operation, commit_transaction
<1> QED
  BY <1>1, <1>2, <1>3, <1>4, <1>5, <1>6, <1>7, <1>8, <1>9, <1>10, <1>11, <1>12, <1>13
  DEF Operation

------------------------------------------------------------------------------
(* Types, and which operation a call is.                                    *)

Refusal == {"transaction_committed", "transaction_rolled_back"}

KindOf(c, op) ==
  /\ c \in SingleCall => op \in SingleOperation
  /\ c \in WriteCall => op = "write"
  /\ c \in CommitCall => op = "commit"
  /\ c = StartCall => op = "start"

Typed ==
  /\ called \in [Call -> [op : DOMAIN Operation \cup {"none"}, expected : Int]]
  /\ status \in [Call -> {"idle", "posted", "pending", "done"}]
  /\ DOMAIN told = Call
  /\ DOMAIN answer = Call
  /\ wire \in Seq(Call)
  /\ events \in [stream : Seq(Call), metastream : Seq(Call)]
  /\ deleted \in BOOLEAN
  /\ posted \subseteq [call : Call, ec : Refusal]
  /\ open \in {"none", "open", "committed"}
  /\ staged \in Seq(WriteCall)

Kinds ==
  /\ \A c \in Call : IF status[c] = "idle" THEN called[c].op = "none"
                                          ELSE KindOf(c, called[c].op)
  /\ \A p \in posted : status[p.call] \in {"posted", "done"}

TypedKinds == Typed /\ Kinds

LEMMA KindsNamed ==
  ASSUME NEW c \in Call, NEW op, KindOf(c, op)
  PROVE  op \in DOMAIN Operation /\ op # "none"
  BY CallKinds DEF KindOf, SingleOperation, Operation

LEMMA VersionsInt ==
  ASSUME Typed
  PROVE  /\ AnyVersion \in Int
         /\ \A target \in {"stream", "metastream"} : Version(target) \in Int
         /\ \A op : Target(op) \in {"stream", "metastream"}
<1>1. \A target \in {"stream", "metastream"} : events[target] \in Seq(Call)
  BY DEF Typed
<1> QED BY <1>1, LenProperties DEF AnyVersion, Version, Target

------------------------------------------------------------------------------
(* The shapes of a step.                                                    *)

\* A call whose request is sent.
Sends(c, op) ==
  /\ KindOf(c, op)
  /\ \E expected \in Int : Send(c, op, expected)
  /\ IF c \in CommitCall
     THEN ~is_committed /\ ~is_rolled_back /\ is_committed' = TRUE
     ELSE UNCHANGED is_committed
  /\ UNCHANGED <<started, is_rolled_back, posted, serverVars>>

\* A call of the transaction that its flags forbid.
Refuses(c, op) ==
  /\ KindOf(c, op)
  /\ Refuse(c, op)
  /\ UNCHANGED <<started, is_rolled_back, serverVars>>

ServerStep ==
  \/ /\ \E c \in Call : ServerExecutes(c) \/ ServerRejects(c)
     /\ UNCHANGED <<objectVars, serverVars>>
  \/ ServerStarts
  \/ \E c \in Call : ServerWrites(c) \/ ServerCommits(c)

LEMMA Steps ==
  ASSUME Typed, [Next]_vars
  PROVE  \/ \E c \in Call : \E op : Sends(c, op) \/ Refuses(c, op)
         \/ rollback \/ RunPosted
         \/ \E c \in Call : Complete(c)
         \/ ServerStep
         \/ UNCHANGED vars
<1>1. ASSUME NEW c \in SingleCall, CallOperation(c), UNCHANGED <<objectVars, serverVars>>
      PROVE  c \in Call /\ \E op : Sends(c, op)
  <2>1. PICK op \in SingleOperation, expected \in Int : Send(c, op, expected)
    BY <1>1, VersionsInt DEF CallOperation
  <2>2. c \in Call /\ c \notin CommitCall /\ KindOf(c, op)
    BY CallKinds DEF KindOf
  <2> QED BY <1>1, <2>1, <2>2 DEF Sends
<1>2. CASE StartTransaction
  <2>1. PICK expected \in Int : Send(StartCall, "start", expected)
    BY <1>2, VersionsInt DEF StartTransaction
  <2>2. StartCall \in Call /\ StartCall \notin CommitCall /\ KindOf(StartCall, "start")
    BY CallKinds DEF KindOf
  <2>3. Sends(StartCall, "start")
    BY <1>2, <2>1, <2>2 DEF StartTransaction, Sends
  <2> QED BY <2>2, <2>3
<1>3. ASSUME NEW c \in WriteCall, async_write(c)
      PROVE  c \in Call /\ (Sends(c, "write") \/ Refuses(c, "write"))
  <2>1. c \in Call /\ c \notin CommitCall /\ KindOf(c, "write")
    BY CallKinds DEF KindOf
  <2> QED BY <1>3, <2>1, VersionsInt DEF async_write, Sends, Refuses
<1>4. ASSUME NEW c \in CommitCall, async_commit(c)
      PROVE  c \in Call /\ (Sends(c, "commit") \/ Refuses(c, "commit"))
  <2>1. c \in Call /\ KindOf(c, "commit")
    BY CallKinds DEF KindOf
  <2> QED BY <1>4, <2>1, VersionsInt DEF async_commit, Sends, Refuses
<1> QED BY <1>1, <1>2, <1>3, <1>4 DEF Next, ServerStep

\* A step of the server changes nothing that the client keeps.
LEMMA ServerKeepsClient == ServerStep => UNCHANGED <<callVars, objectVars>>
  BY DEF ServerStep, ServerExecutes, ServerRejects, ServerStarts, ServerWrites,
         ServerCommits, Receive

------------------------------------------------------------------------------
LEMMA TypedInit == Init => TypedKinds
<1> SUFFICES ASSUME Init PROVE TypedKinds
  OBVIOUS
<1>1. NoCall \in [op : DOMAIN Operation \cup {"none"}, expected : Int]
  BY DEF NoCall, AnyVersion
<1>2. \A S : <<>> \in Seq(S)
  BY EmptySeq
<1> QED BY <1>1, <1>2 DEF Init, OpsInit, TypedKinds, Typed, Kinds, NoCall

LEMMA SendTyped ==
  ASSUME TypedKinds, NEW c \in Call, NEW op, KindOf(c, op), NEW expected \in Int,
         Send(c, op, expected),
         UNCHANGED <<posted, serverVars>>
  PROVE  TypedKinds'
<1> USE DEF Send, NextCall, TypedKinds
<1>1. op \in DOMAIN Operation /\ op # "none"
  BY KindsNamed
<1>2. called' \in [Call -> [op : DOMAIN Operation \cup {"none"}, expected : Int]]
  BY <1>1 DEF Typed
<1>3. wire' \in Seq(Call)
  BY AppendProperties DEF Typed
<1>4. Typed'
  BY <1>2, <1>3 DEF Typed
<1>5. Kinds'
  BY DEF Typed, Kinds, KindOf
<1> QED BY <1>4, <1>5

LEMMA RefuseTyped ==
  ASSUME TypedKinds, NEW c \in Call, NEW op, KindOf(c, op), Refuse(c, op),
         UNCHANGED serverVars
  PROVE  TypedKinds'
<1> USE DEF Refuse, NextCall, TypedKinds
<1>1. op \in DOMAIN Operation /\ op # "none"
  BY KindsNamed
<1>2. called' \in [Call -> [op : DOMAIN Operation \cup {"none"}, expected : Int]]
  BY <1>1 DEF Typed, AnyVersion
<1>3. posted' \subseteq [call : Call, ec : Refusal]
  BY DEF Typed, Refusal
<1>4. Typed'
  BY <1>2, <1>3 DEF Typed
<1>5. Kinds'
  <2>1. \A d \in Call : IF status'[d] = "idle" THEN called'[d].op = "none"
                                              ELSE KindOf(d, called'[d].op)
    BY DEF Typed, Kinds
  <2>2. \A p \in posted' : status'[p.call] \in {"posted", "done"}
    BY DEF Typed, Kinds
  <2> QED BY <2>1, <2>2 DEF Kinds, KindOf
<1> QED BY <1>4, <1>5

LEMMA ReceiveTyped ==
  ASSUME TypedKinds, NEW c, Receive(c), NEW results, NEW a,
         Answers(c, results) \/ PutAnswer(c, a), UNCHANGED objectVars
  PROVE  /\ c \in Call /\ wire' \in Seq(Call) /\ Kinds'
         /\ DOMAIN answer' = Call /\ UNCHANGED callVars
<1>1. c \in Call /\ wire' \in Seq(Call)
  BY HeadTailProperties DEF Receive, TypedKinds, Typed
<1>2. DOMAIN answer' = Call
  BY DEF Answers, PutAnswer, TypedKinds, Typed
<1> QED BY <1>1, <1>2 DEF Receive, TypedKinds, Kinds

LEMMA TypedNext == TypedKinds /\ [Next]_vars => TypedKinds'
<1> SUFFICES ASSUME TypedKinds, [Next]_vars PROVE TypedKinds'
  OBVIOUS
<1>1. CASE UNCHANGED vars
  BY <1>1 DEF vars, TypedKinds, Typed, Kinds
<1>2. ASSUME NEW c \in Call, NEW op, Sends(c, op) PROVE TypedKinds'
  BY <1>2, SendTyped DEF Sends
<1>3. ASSUME NEW c \in Call, NEW op, Refuses(c, op) PROVE TypedKinds'
  BY <1>3, RefuseTyped DEF Refuses
<1>6. CASE rollback
  BY <1>6 DEF rollback, opsVars, TypedKinds, Typed, Kinds
<1>7. CASE RunPosted
  <2>1. PICK p \in posted :
          /\ posted' = posted \ {p}
          /\ told' = [told EXCEPT ![p.call] = <<p.ec>>]
          /\ status' = [status EXCEPT ![p.call] = "done"]
          /\ UNCHANGED <<called, timedOut, wire, answer, streamVars, started,
                         is_rolled_back, is_committed, serverVars>>
    BY <1>7 DEF RunPosted
  <2> QED BY <2>1 DEF TypedKinds, Typed, Kinds
<1>8. ASSUME NEW c \in Call, Complete(c) PROVE TypedKinds'
  <2>1. /\ status[c] = "pending" /\ status' = [status EXCEPT ![c] = "done"]
        /\ DOMAIN told' = Call /\ DOMAIN answer' = Call
        /\ UNCHANGED <<called, wire, events, deleted, posted, open, staged>>
    BY <1>8 DEF Complete, HandleAnswer, HandleTimeout, TypedKinds, Typed
  <2>2. Typed'
    BY <2>1 DEF TypedKinds, Typed
  <2>3. Kinds'
    BY <2>1 DEF TypedKinds, Typed, Kinds
  <2> QED BY <2>2, <2>3 DEF TypedKinds
<1>9. ASSUME NEW c \in Call, ServerExecutes(c) \/ ServerRejects(c),
             UNCHANGED <<objectVars, serverVars>>
      PROVE  TypedKinds'
  <2>1. /\ c \in Call /\ wire' \in Seq(Call) /\ Kinds'
        /\ DOMAIN answer' = Call /\ UNCHANGED callVars
    BY <1>9, ReceiveTyped DEF ServerExecutes, ServerRejects
  <2>2. events' \in [stream : Seq(Call), metastream : Seq(Call)] /\ deleted' \in BOOLEAN
    <3>1. CASE UNCHANGED streamVars
      BY <3>1 DEF TypedKinds, Typed
    <3>2. CASE Perform(c)
      <4>1. \A s \in Seq(Call) : Append(s, c) \in Seq(Call)
        BY <2>1, AppendProperties
      <4> QED BY <3>2, <4>1 DEF Perform, Target, TypedKinds, Typed
    <3> QED BY <1>9, <3>1, <3>2 DEF ServerExecutes, ServerRejects
  <2> QED BY <1>9, <2>1, <2>2 DEF TypedKinds, Typed
<1>10. CASE ServerStarts
  <2>1. /\ wire' \in Seq(Call) /\ Kinds'
        /\ DOMAIN answer' = Call /\ UNCHANGED callVars
    BY <1>10, ReceiveTyped DEF ServerStarts, Executed, Refused
  <2> QED BY <1>10, <2>1 DEF ServerStarts, TypedKinds, Typed
<1>11. ASSUME NEW c \in Call, ServerWrites(c) PROVE TypedKinds'
  <2>1. /\ wire' \in Seq(Call) /\ Kinds'
        /\ DOMAIN answer' = Call /\ UNCHANGED callVars
    BY <1>11, ReceiveTyped DEF ServerWrites, Executed, Refused
  <2>2. Append(staged, c) \in Seq(WriteCall)
    BY <1>11, AppendProperties DEF ServerWrites, TypedKinds, Typed
  <2> QED BY <1>11, <2>1, <2>2 DEF ServerWrites, TypedKinds, Typed
<1>12. ASSUME NEW c \in Call, ServerCommits(c) PROVE TypedKinds'
  <2>1. /\ wire' \in Seq(Call) /\ Kinds'
        /\ DOMAIN answer' = Call /\ UNCHANGED callVars
    BY <1>12, ReceiveTyped DEF ServerCommits, Executed, Refused
  <2>2. events' \in [stream : Seq(Call), metastream : Seq(Call)]
    <3>1. staged \in Seq(Call)
      BY SeqMonotonic, CallKinds DEF TypedKinds, Typed
    <3>2. events.stream \o staged \in Seq(Call)
      BY <3>1, ConcatProperties DEF TypedKinds, Typed
    <3> QED BY <1>12, <3>2 DEF ServerCommits, TypedKinds, Typed
  <2> QED BY <1>12, <2>1, <2>2 DEF ServerCommits, TypedKinds, Typed
<1> QED
  BY <1>1, <1>2, <1>3, <1>6, <1>7, <1>8, <1>9, <1>10, <1>11, <1>12, Steps
  DEF TypedKinds, ServerStep

------------------------------------------------------------------------------
(* What a handler makes of an answer, and what a call has told when.        *)

LEMMA AnswerTold ==
  ASSUME NEW op \in DOMAIN Operation, NEW a,
         NEW o, o = AnswerOutcome(Operation[op], a)
  PROVE  /\ (\E x : o = <<x>>) \/ (o = <<>> /\ a.result = "Timeout" /\ op \in Silent)
         /\ o = <<"success">> =>
              a.result = "Success" \/ (a.result = "Timeout" /\ op # "commit")
         /\ o \in {<<"stream_deleted">>, <<"is_deleted">>} => a.result = "StreamDeleted"
<1> DEFINE oper == Operation[op]
<1>1. CASE a.command = oper.completed /\ a.result \in oper.silent
  <2>1. o = <<>> /\ a.result = "Timeout" /\ op \in Silent
    BY <1>1, OperationTable DEF AnswerOutcome
  <2> QED BY <2>1
<1>2. CASE ~(a.command = oper.completed /\ a.result \in oper.silent)
  <2>1. CASE a.command = oper.completed /\ a.result \in DOMAIN oper.outcome
    <3>1. o = <<oper.outcome[a.result]>>
      BY <1>2, <2>1 DEF AnswerOutcome
    <3>2. o = <<"success">> =>
            a.result = "Success" \/ (a.result = "Timeout" /\ op # "commit")
      BY <2>1, <3>1, OperationTable
    <3>3. o \in {<<"stream_deleted">>, <<"is_deleted">>} => a.result = "StreamDeleted"
      BY <2>1, <3>1, OperationTable
    <3> QED BY <3>1, <3>2, <3>3
  <2>2. CASE ~(a.command = oper.completed /\ a.result \in DOMAIN oper.outcome)
    <3>1. o = <<"unexpected_response">>
      BY <1>2, <2>2 DEF AnswerOutcome
    <3> QED BY <3>1
  <2> QED BY <2>1, <2>2
<1> QED BY <1>1, <1>2

ToldInv ==
  \A c \in Call :
    IF status[c] = "done"
    THEN \/ \E x : told[c] = <<x>>
         \/ told[c] = <<>> /\ c \in timedOut /\ called[c].op \in Silent
    ELSE told[c] = <<>>

LEMMA ToldInit == Init => ToldInv
  BY DEF Init, OpsInit, ToldInv

LEMMA ToldNext == TypedKinds /\ ToldInv /\ [Next]_vars => ToldInv'
<1> SUFFICES ASSUME TypedKinds, ToldInv, [Next]_vars PROVE ToldInv'
  OBVIOUS
<1> USE DEF TypedKinds
<1>1. ASSUME NEW c \in Call, NEW op, Sends(c, op) \/ Refuses(c, op) PROVE ToldInv'
  <2>1. /\ status[c] = "idle" /\ called' = [called EXCEPT ![c] = called'[c]]
        /\ status' = [status EXCEPT ![c] = status'[c]] /\ status'[c] # "done"
        /\ UNCHANGED <<told, timedOut>>
    BY <1>1 DEF Sends, Refuses, Send, Refuse, NextCall, Typed
  <2> QED BY <2>1 DEF ToldInv, Typed
<1>2. CASE RunPosted
  <2>1. PICK p \in posted :
          /\ told' = [told EXCEPT ![p.call] = <<p.ec>>]
          /\ status' = [status EXCEPT ![p.call] = "done"]
          /\ UNCHANGED <<called, timedOut>>
    BY <1>2 DEF RunPosted
  <2>2. p.call \in Call
    BY DEF Typed
  <2> QED BY <2>1, <2>2 DEF ToldInv, Typed
<1>3. ASSUME NEW c \in Call, Complete(c) PROVE ToldInv'
  <2>1. CASE HandleTimeout(c)
    BY <2>1 DEF HandleTimeout, ToldInv, Typed
  <2>2. CASE HandleAnswer(c)
    <3>1. called[c].op \in DOMAIN Operation
      BY <2>2, KindsNamed DEF HandleAnswer, Kinds
    <3>2. /\ told' = [told EXCEPT ![c] = told'[c]]
          /\ told'[c] = AnswerOutcome(Operation[called[c].op], answer[c])
      BY <2>2 DEF HandleAnswer, Typed
    <3>3. \/ \E x : told'[c] = <<x>>
          \/ told'[c] = <<>> /\ answer[c].result = "Timeout" /\ called[c].op \in Silent
      BY <3>1, <3>2, AnswerTold
    <3>4. /\ status' = [status EXCEPT ![c] = "done"]
          /\ timedOut' = IF answer[c].result = "Timeout" THEN timedOut \cup {c} ELSE timedOut
          /\ UNCHANGED called
      BY <2>2 DEF HandleAnswer
    <3> QED BY <3>2, <3>3, <3>4 DEF ToldInv, Typed
  <2> QED BY <1>3, <2>1, <2>2 DEF Complete
<1>4. CASE rollback \/ ServerStep \/ UNCHANGED vars
  BY <1>4, ServerKeepsClient DEF rollback, opsVars, vars, ToldInv
<1> QED BY <1>1, <1>2, <1>3, <1>4, Steps

------------------------------------------------------------------------------
(* The flags: a commit that was sent has set is_committed.                  *)

Sent(c) == /\ status[c] \in {"pending", "done"}
           /\ told[c] \notin {<<"transaction_committed">>, <<"transaction_rolled_back">>}

FlagInv ==
  /\ ~(is_committed /\ is_rolled_back)
  /\ \A c \in CommitCall : Sent(c) => is_committed
  /\ \A c, d \in CommitCall : Sent(c) /\ Sent(d) => c = d

LEMMA FlagInit == Init => FlagInv
  BY CallKinds DEF Init, OpsInit, FlagInv, Sent

LEMMA FlagNext == TypedKinds /\ ToldInv /\ FlagInv /\ [Next]_vars => FlagInv'
<1> SUFFICES ASSUME TypedKinds, ToldInv, FlagInv, [Next]_vars PROVE FlagInv'
  OBVIOUS
<1> USE DEF TypedKinds
<1>0. CommitCall \subseteq Call
  BY CallKinds
<1>1. ASSUME NEW c \in Call, NEW op, Sends(c, op) PROVE FlagInv'
  <2>1. /\ status' = [status EXCEPT ![c] = "pending"] /\ UNCHANGED told
        /\ IF c \in CommitCall
           THEN ~is_committed /\ ~is_rolled_back /\ is_committed' = TRUE
           ELSE UNCHANGED is_committed
        /\ UNCHANGED is_rolled_back
    BY <1>1 DEF Sends, Send
  <2>2. \A d \in CommitCall : d # c => (Sent(d)' <=> Sent(d))
    BY <1>0, <2>1 DEF Sent, Typed
  <2> QED BY <2>1, <2>2 DEF FlagInv
<1>2. ASSUME NEW c \in Call, NEW op, Refuses(c, op) PROVE FlagInv'
  <2>1. /\ status' = [status EXCEPT ![c] = "posted"] /\ UNCHANGED told
        /\ UNCHANGED <<is_committed, is_rolled_back>>
    BY <1>2 DEF Refuses, Refuse
  <2>2. \A d \in CommitCall : Sent(d)' => Sent(d)
    BY <1>0, <2>1 DEF Sent, Typed
  <2> QED BY <2>1, <2>2 DEF FlagInv
<1>3. CASE RunPosted
  <2>1. PICK p \in posted :
          /\ told' = [told EXCEPT ![p.call] = <<p.ec>>]
          /\ status' = [status EXCEPT ![p.call] = "done"]
          /\ UNCHANGED <<is_committed, is_rolled_back>>
    BY <1>3 DEF RunPosted
  <2>2. p.call \in Call /\ p.ec \in Refusal
    BY DEF Typed
  <2>3. told'[p.call] \in {<<"transaction_committed">>, <<"transaction_rolled_back">>}
    BY <2>1, <2>2 DEF Typed, Refusal
  <2>4. \A d \in CommitCall : Sent(d)' => Sent(d)
    BY <1>0, <2>1, <2>2, <2>3 DEF Sent, Typed
  <2> QED BY <2>1, <2>4 DEF FlagInv
<1>4. ASSUME NEW c \in Call, Complete(c) PROVE FlagInv'
  <2>1. /\ status[c] = "pending" /\ status' = [status EXCEPT ![c] = "done"]
        /\ told' = [told EXCEPT ![c] = told'[c]]
        /\ UNCHANGED <<is_committed, is_rolled_back>>
    BY <1>4 DEF Complete, HandleAnswer, HandleTimeout, Typed
  <2>2. told[c] = <<>>
    BY <2>1 DEF ToldInv
  <2>3. Sent(c)
    BY <2>1, <2>2 DEF Sent
  <2>4. \A d \in CommitCall : d # c => (Sent(d)' <=> Sent(d))
    BY <1>0, <2>1 DEF Sent, Typed
  <2>5. \A d \in CommitCall : Sent(d)' => Sent(d)
    BY <2>3, <2>4
  <2> QED BY <2>1, <2>5 DEF FlagInv
<1>5. CASE rollback
  BY <1>5 DEF rollback, opsVars, FlagInv, Sent
<1>6. CASE ServerStep \/ UNCHANGED vars
  BY <1>6, ServerKeepsClient DEF vars, FlagInv, Sent
<1> QED BY <1>1, <1>2, <1>3, <1>4, <1>5, <1>6, Steps

------------------------------------------------------------------------------
(* Sequences of calls.                                                      *)

LEMMA HoldsAppend ==
  ASSUME NEW S, NEW s \in Seq(S), NEW e \in S
  PROVE  /\ Append(s, e) \in Seq(S) /\ Append(s, e) # <<>>
         /\ Len(Append(s, e)) = Len(s) + 1
         /\ \A i \in 1..Len(s) : Append(s, e)[i] = s[i]
         /\ Append(s, e)[Len(s) + 1] = e
         /\ Holds(Append(s, e), e)
         /\ \A c : Holds(s, c) => Holds(Append(s, e), c)
<1>1. /\ Append(s, e) \in Seq(S) /\ Append(s, e) # <<>>
      /\ Len(Append(s, e)) = Len(s) + 1 /\ Len(s) \in Nat
      /\ \A i \in 1..Len(s) : Append(s, e)[i] = s[i]
      /\ Append(s, e)[Len(s) + 1] = e
  BY AppendProperties, LenProperties
<1>2. 1..Len(s) \subseteq 1..Len(Append(s, e)) /\ Len(s) + 1 \in 1..Len(Append(s, e))
  BY <1>1
<1> QED BY <1>1, <1>2 DEF Holds

LEMMA HoldsConcat ==
  ASSUME NEW S, NEW s \in Seq(S), NEW t \in Seq(S)
  PROVE  /\ s \o t \in Seq(S) /\ Len(s \o t) = Len(s) + Len(t)
         /\ \A i \in 1..Len(s) : (s \o t)[i] = s[i]
         /\ \A i \in 1..Len(t) : (s \o t)[Len(s) + i] = t[i]
         /\ \A c : Holds(s, c) \/ Holds(t, c) => Holds(s \o t, c)
<1>1. /\ s \o t \in Seq(S) /\ Len(s \o t) = Len(s) + Len(t)
      /\ Len(s) \in Nat /\ Len(t) \in Nat
  BY ConcatProperties, LenProperties
<1>2. \A i \in 1..Len(s) : (s \o t)[i] = s[i] /\ i \in 1..Len(s \o t)
  BY <1>1, ConcatProperties
<1>3. \A i \in 1..Len(t) : (s \o t)[Len(s) + i] = t[i] /\ Len(s) + i \in 1..Len(s \o t)
  BY <1>1, ConcatProperties
<1> QED BY <1>1, <1>2, <1>3 DEF Holds

LEMMA WireReceived ==
  ASSUME Typed, NEW c, Receive(c)
  PROVE  /\ 1 \in 1..Len(wire) /\ c = wire[1] /\ c \in Call
         /\ Len(wire) \in Nat /\ Len(wire') = Len(wire) - 1
         /\ \A i \in 1..Len(wire') : wire'[i] = wire[i + 1] /\ i + 1 \in 1..Len(wire)
<1>1. wire \in Seq(Call) /\ wire # <<>> /\ c = Head(wire) /\ wire' = Tail(wire)
  BY DEF Receive, Typed
<1>2. Len(wire) \in Nat \ {0}
  BY <1>1, LenProperties, EmptySeq
<1>3. c = wire[1] /\ wire[1] \in Call
  BY <1>1, <1>2, HeadTailProperties, ElementOfSeq
<1>4. /\ Len(wire') = Len(wire) - 1
      /\ \A i \in 1..Len(wire') : wire'[i] = wire[i + 1]
  BY <1>1, HeadTailProperties
<1> QED BY <1>2, <1>3, <1>4

------------------------------------------------------------------------------
(* Requests on their way: each is there once, and the transaction is        *)
(* started once.                                                            *)

FlowInv ==
  /\ \A i \in 1..Len(wire) : status[wire[i]] # "idle"
  /\ \A i, j \in 1..Len(wire) : wire[i] = wire[j] => i = j
  /\ status[StartCall] = "idle" => open = "none"
  /\ \A i \in 1..Len(wire) : wire[i] = StartCall => open = "none"
  /\ \A i \in 1..Len(wire) : wire[i] \in CommitCall => is_committed
  /\ open = "committed" => is_committed

LEMMA FlowInit == Init => FlowInv
<1> SUFFICES ASSUME Init PROVE FlowInv
  OBVIOUS
<1>1. wire = <<>> /\ Len(<<>>) = 0 /\ 1..0 = {}
  BY DEF Init, OpsInit
<1> QED BY <1>1 DEF Init, OpsInit, FlowInv

LEMMA FlowNext == TypedKinds /\ FlowInv /\ [Next]_vars => FlowInv'
<1> SUFFICES ASSUME TypedKinds, FlowInv, [Next]_vars PROVE FlowInv'
  OBVIOUS
<1> USE DEF TypedKinds
<1>0. StartCall \in Call /\ CommitCall \subseteq Call /\ StartCall \notin CommitCall
  BY CallKinds
<1>w. wire \in Seq(Call) /\ Len(wire) \in Nat /\ \A i \in 1..Len(wire) : wire[i] \in Call
  BY LenProperties, ElementOfSeq DEF Typed
<1>1. ASSUME NEW c \in Call, NEW op, Sends(c, op) PROVE FlowInv'
  <2>1. /\ status[c] = "idle" /\ status' = [status EXCEPT ![c] = "pending"]
        /\ wire' = Append(wire, c)
        /\ c \in CommitCall => is_committed' = TRUE
        /\ is_committed => is_committed'
        /\ UNCHANGED open
    BY <1>1 DEF Sends, Send, NextCall
  <2>2. /\ Len(wire') = Len(wire) + 1
        /\ \A i \in 1..Len(wire) : wire'[i] = wire[i]
        /\ wire'[Len(wire) + 1] = c
    BY <1>w, <2>1, HoldsAppend
  <2>3. \A i \in 1..Len(wire') : (i \in 1..Len(wire) /\ wire'[i] = wire[i] /\ wire[i] # c)
                                 \/ (i = Len(wire) + 1 /\ wire'[i] = c)
    BY <1>w, <2>1, <2>2 DEF FlowInv
  <2>4. \A i \in 1..Len(wire') : status'[wire'[i]] # "idle"
    BY <1>w, <2>1, <2>3 DEF FlowInv, Typed
  <2>5. \A i, j \in 1..Len(wire') : wire'[i] = wire'[j] => i = j
    BY <2>3 DEF FlowInv
  <2>6. status'[StartCall] = "idle" => open' = "none"
    BY <1>0, <2>1 DEF FlowInv, Typed
  <2>7. \A i \in 1..Len(wire') : wire'[i] = StartCall => open' = "none"
    BY <2>1, <2>3 DEF FlowInv
  <2>8. \A i \in 1..Len(wire') : wire'[i] \in CommitCall => is_committed'
    BY <2>1, <2>3 DEF FlowInv
  <2>9. open' = "committed" => is_committed'
    BY <2>1 DEF FlowInv
  <2> QED BY <2>4, <2>5, <2>6, <2>7, <2>8, <2>9 DEF FlowInv
<1>2. ASSUME NEW c \in Call, NEW op, Refuses(c, op) PROVE FlowInv'
  <2>1. /\ status' = [status EXCEPT ![c] = "posted"]
        /\ UNCHANGED <<wire, is_committed, open>>
    BY <1>2 DEF Refuses, Refuse
  <2> QED BY <1>0, <1>w, <2>1 DEF FlowInv, Typed
<1>3. CASE RunPosted
  <2>1. PICK p \in posted :
          /\ status' = [status EXCEPT ![p.call] = "done"]
          /\ UNCHANGED <<wire, is_committed, open>>
    BY <1>3 DEF RunPosted
  <2> QED BY <1>0, <1>w, <2>1 DEF FlowInv, Typed
<1>4. ASSUME NEW c \in Call, Complete(c) PROVE FlowInv'
  <2>1. /\ status' = [status EXCEPT ![c] = "done"]
        /\ UNCHANGED <<wire, is_committed, open>>
    BY <1>4 DEF Complete, HandleAnswer, HandleTimeout
  <2> QED BY <1>0, <1>w, <2>1 DEF FlowInv, Typed
<1>5. CASE rollback \/ UNCHANGED vars
  BY <1>5 DEF rollback, opsVars, vars, FlowInv
<1>6. CASE ServerStep
  <2>1. PICK c \in Call :
          /\ Receive(c)
          /\ \/ UNCHANGED open
             \/ c = StartCall /\ open' = "open"
             \/ c \in CommitCall /\ open = "open" /\ open' = "committed"
    BY <1>0, <1>6 DEF ServerStep, ServerExecutes, ServerRejects, ServerStarts, ServerWrites,
                ServerCommits
  <2>2. /\ 1 \in 1..Len(wire) /\ c = wire[1]
        /\ \A i \in 1..Len(wire') : wire'[i] = wire[i + 1] /\ i + 1 \in 1..Len(wire)
    BY <2>1, WireReceived, Zenon
  <2>3. UNCHANGED <<status, is_committed>>
    BY <1>6, ServerKeepsClient
  <2>4. ASSUME NEW i \in 1..Len(wire') PROVE wire'[i] # c
    <3>1. i + 1 # 1 /\ i + 1 \in 1..Len(wire) /\ wire'[i] = wire[i + 1]
      BY <2>2
    <3> QED BY <2>2, <3>1 DEF FlowInv
  <2>5. /\ \A i \in 1..Len(wire') : status'[wire'[i]] # "idle"
        /\ \A i, j \in 1..Len(wire') : wire'[i] = wire'[j] => i = j
        /\ \A i \in 1..Len(wire') : wire'[i] \in CommitCall => is_committed'
    BY <2>2, <2>3 DEF FlowInv
  <2>6. CASE UNCHANGED open
    BY <2>2, <2>3, <2>5, <2>6 DEF FlowInv
  <2>7. CASE c = StartCall /\ open' = "open"
    <3>1. status'[StartCall] # "idle"
      <4>1. status[wire[1]] # "idle"
        BY <2>2, Zenon DEF FlowInv
      <4> QED BY <2>2, <2>3, <2>7, <4>1
    <3>2. \A i \in 1..Len(wire') : wire'[i] # StartCall
      BY <2>4, <2>7
    <3> QED BY <2>5, <2>7, <3>1, <3>2 DEF FlowInv
  <2>8. CASE c \in CommitCall /\ open = "open" /\ open' = "committed"
    BY <2>2, <2>3, <2>5, <2>8 DEF FlowInv
  <2> QED BY <2>1, <2>6, <2>7, <2>8
<1> QED BY <1>1, <1>2, <1>3, <1>4, <1>5, <1>6, Steps

------------------------------------------------------------------------------
(* What the server holds only grows.                                        *)

Grows ==
  /\ \A c : Holds(events.stream, c) => Holds(events'.stream, c)
  /\ \A c : Holds(events.metastream, c) => Holds(events'.metastream, c)
  /\ \A c : Holds(staged, c) => Holds(staged', c)
  /\ events.stream # <<>> => events'.stream # <<>>
  /\ events.metastream # <<>> => events'.metastream # <<>>
  /\ deleted => deleted'
  /\ open # "none" => open' # "none"
  /\ open = "committed" => open' = "committed"

LEMMA PerformGrows ==
  ASSUME Typed, NEW c \in Call, Perform(c)
  PROVE  /\ \A target \in {"stream", "metastream"} :
              \/ events'[target] = events[target]
              \/ /\ events'[target] = Append(events[target], c)
                 /\ target = Target(called[c].op)
                 /\ called[c].op \in {"append", "conditional_append", "set_metadata"}
         /\ deleted => deleted'
<1>1. CASE UNCHANGED events
  BY <1>1 DEF Perform
<1>2. CASE /\ called[c].op \in {"append", "conditional_append", "set_metadata"}
           /\ events' = [events EXCEPT ![Target(called[c].op)] = Append(@, c)]
           /\ UNCHANGED deleted
  BY <1>2 DEF Typed, Target
<1> QED BY <1>1, <1>2 DEF Perform

LEMMA ServerGrows == TypedKinds /\ FlowInv /\ [Next]_vars => Grows
<1> SUFFICES ASSUME TypedKinds, FlowInv, [Next]_vars PROVE Grows
  OBVIOUS
<1> USE DEF TypedKinds
<1>t. /\ events.stream \in Seq(Call) /\ events.metastream \in Seq(Call)
      /\ staged \in Seq(Call) /\ staged \in Seq(WriteCall)
  BY SeqMonotonic, CallKinds DEF Typed
<1>1. CASE UNCHANGED <<events, deleted, open, staged>>
  BY <1>1 DEF Grows
<1>2. ASSUME NEW c \in Call, Perform(c), UNCHANGED serverVars PROVE Grows
  <2>1. \A target \in {"stream", "metastream"} :
          events'[target] = events[target] \/ events'[target] = Append(events[target], c)
    BY <1>2, PerformGrows
  <2>2. /\ events'.stream = events.stream \/ events'.stream = Append(events.stream, c)
        /\ events'.metastream = events.metastream
             \/ events'.metastream = Append(events.metastream, c)
        /\ deleted => deleted'
    BY <1>2, <2>1, PerformGrows
  <2>3. \A d : Holds(events.stream, d) => Holds(events'.stream, d)
    <3>1. \A d : Holds(events.stream, d) => Holds(Append(events.stream, c), d)
      BY <1>t, HoldsAppend
    <3>2. CASE events'.stream = events.stream
      BY <3>2
    <3>3. CASE events'.stream = Append(events.stream, c)
      BY <3>1, <3>3
    <3> QED BY <2>2, <3>2, <3>3
  <2>4. \A d : Holds(events.metastream, d) => Holds(events'.metastream, d)
    <3>1. \A d : Holds(events.metastream, d) => Holds(Append(events.metastream, c), d)
      BY <1>t, HoldsAppend
    <3>2. CASE events'.metastream = events.metastream
      BY <3>2
    <3>3. CASE events'.metastream = Append(events.metastream, c)
      BY <3>1, <3>3
    <3> QED BY <2>2, <3>2, <3>3
  <2>5. /\ events.stream # <<>> => events'.stream # <<>>
        /\ events.metastream # <<>> => events'.metastream # <<>>
    BY <1>t, <2>2, HoldsAppend
  <2> QED BY <1>2, <2>2, <2>3, <2>4, <2>5 DEF Grows
<1>3. CASE ServerStarts
  <2>1. CASE UNCHANGED open
    BY <1>3, <1>1, <2>1 DEF ServerStarts
  <2>2. CASE open' = "open"
    <3>1. 1 \in 1..Len(wire) /\ wire[1] = StartCall
      BY <1>3, WireReceived DEF ServerStarts
    <3>2. open = "none"
      BY <3>1, Zenon DEF FlowInv
    <3> QED BY <1>3, <2>2, <3>2 DEF ServerStarts, Grows
  <2> QED BY <1>3, <2>1, <2>2 DEF ServerStarts
<1>4. ASSUME NEW c \in Call, ServerWrites(c) PROVE Grows
  <2>1. CASE UNCHANGED staged
    BY <1>4, <1>1, <2>1 DEF ServerWrites
  <2>2. CASE staged' = Append(staged, c)
    <3>1. \A d : Holds(staged, d) => Holds(staged', d)
      BY <1>4, <1>t, <2>2, HoldsAppend
    <3> QED BY <1>4, <3>1 DEF ServerWrites, Grows
  <2> QED BY <1>4, <2>1, <2>2 DEF ServerWrites
<1>5. ASSUME NEW c \in Call, ServerCommits(c) PROVE Grows
  <2>1. CASE UNCHANGED <<open, events>>
    BY <1>5, <1>1, <2>1 DEF ServerCommits
  <2>2. CASE /\ open' = "committed"
             /\ events' = [events EXCEPT !.stream = @ \o staged]
    <3>1. events'.stream = events.stream \o staged /\ events'.metastream = events.metastream
      BY <2>2 DEF Typed
    <3>2. \A d : Holds(events.stream, d) => Holds(events'.stream, d)
      BY <1>t, <3>1, HoldsConcat
    <3>3. events.stream # <<>> => events'.stream # <<>>
      BY <1>t, <3>1, ConcatProperties, EmptySeq, LenProperties
    <3> QED BY <1>5, <2>2, <3>1, <3>2, <3>3 DEF ServerCommits, Grows
  <2> QED BY <1>5, <2>1, <2>2 DEF ServerCommits
<1>6. ASSUME NEW c \in Call, ServerExecutes(c) \/ ServerRejects(c),
             UNCHANGED <<objectVars, serverVars>>
      PROVE  Grows
  BY <1>1, <1>2, <1>6 DEF ServerExecutes, ServerRejects
<1>7. CASE rollback \/ UNCHANGED vars
  BY <1>1, <1>7 DEF rollback, opsVars, vars
<1>8. CASE RunPosted
  BY <1>1, <1>8 DEF RunPosted
<1>9. ASSUME NEW c \in Call, Complete(c) PROVE Grows
  BY <1>1, <1>9 DEF Complete, HandleAnswer, HandleTimeout
<1>10. ASSUME NEW c \in Call, NEW op, Sends(c, op) \/ Refuses(c, op) PROVE Grows
  BY <1>1, <1>10 DEF Sends, Refuses, Send, Refuse
<1> QED
  BY <1>3, <1>4, <1>5, <1>6, <1>7, <1>8, <1>9, <1>10, Steps DEF ServerStep

------------------------------------------------------------------------------
(* Answers, and what the user is told, are true on the server.              *)

Truth(c) ==
  /\ status[c] # "pending" => answer[c] = NoAnswer
  /\ answer[c].result = "Success" => TrueOnServer(c)
  /\ answer[c].result = "StreamDeleted" => deleted
  /\ told[c] = <<"success">> =>
       TrueOnServer(c) \/ (c \in timedOut /\ called[c].op # "commit")
  /\ told[c] \in {<<"stream_deleted">>, <<"is_deleted">>} => deleted

TruthInv == \A c \in Call : Truth(c)

LEMMA TruthInit == Init => TruthInv
  BY DEF Init, OpsInit, TruthInv, Truth, NoAnswer

LEMMA TrueStays ==
  ASSUME Grows, NEW c, TrueOnServer(c), called'[c] = called[c]
  PROVE  TrueOnServer(c)'
  BY DEF Grows, TrueOnServer

\* A step that leaves a call alone keeps the truth about it.
LEMMA TruthStays ==
  ASSUME Grows, NEW c \in Call, Truth(c), called'[c] = called[c],
         status'[c] = status[c], told'[c] = told[c], answer'[c] = answer[c],
         timedOut \subseteq timedOut'
  PROVE  Truth(c)'
  BY TrueStays DEF Truth, Grows

\* A step that ends a call, or leaves it without an answer and silent.
LEMMA NothingClaimed ==
  ASSUME NEW c \in Call, answer'[c] = NoAnswer,
         told'[c] \notin {<<"success">>, <<"stream_deleted">>, <<"is_deleted">>}
  PROVE  Truth(c)'
  BY DEF Truth, NoAnswer

LEMMA ClientTruth ==
  ASSUME TypedKinds, ToldInv, TruthInv, Grows, [Next]_vars, ~ServerStep
  PROVE  TruthInv'
<1> USE DEF TypedKinds
<1>0. /\ \A x \in Refusal :
           <<x>> \notin {<<"success">>, <<"stream_deleted">>, <<"is_deleted">>}
      /\ <<"operation_timeout">>
           \notin {<<"success">>, <<"stream_deleted">>, <<"is_deleted">>}
      /\ <<>> \notin {<<"success">>, <<"stream_deleted">>, <<"is_deleted">>}
  BY DEF Refusal
<1>1. ASSUME NEW c \in Call, NEW op, Sends(c, op) \/ Refuses(c, op) PROVE TruthInv'
  <2>1. /\ status[c] = "idle" /\ called' = [called EXCEPT ![c] = called'[c]]
        /\ status' = [status EXCEPT ![c] = status'[c]]
        /\ UNCHANGED <<told, timedOut, answer>>
    BY <1>1 DEF Sends, Refuses, Send, Refuse, NextCall, Typed
  <2>2. answer'[c] = NoAnswer /\ told'[c] = <<>>
    BY <2>1 DEF TruthInv, Truth, ToldInv
  <2>3. \A d \in Call : d # c => Truth(d)'
    BY <2>1, TruthStays DEF TruthInv, Typed
  <2>4. Truth(c)'
    BY <1>0, <2>2, NothingClaimed
  <2> QED BY <2>3, <2>4 DEF TruthInv
<1>2. CASE RunPosted
  <2>1. PICK p \in posted :
          /\ told' = [told EXCEPT ![p.call] = <<p.ec>>]
          /\ status' = [status EXCEPT ![p.call] = "done"]
          /\ UNCHANGED <<called, timedOut, answer>>
    BY <1>2 DEF RunPosted
  <2>2. p.call \in Call /\ p.ec \in Refusal /\ status[p.call] # "pending"
    BY DEF Typed, Kinds
  <2>3. answer'[p.call] = NoAnswer /\ told'[p.call] = <<p.ec>>
    BY <2>1, <2>2 DEF TruthInv, Truth, Typed
  <2>4. \A d \in Call : d # p.call => Truth(d)'
    BY <2>1, <2>2, TruthStays DEF TruthInv, Typed
  <2>5. Truth(p.call)'
    BY <1>0, <2>2, <2>3, NothingClaimed
  <2> QED BY <2>4, <2>5 DEF TruthInv
<1>3. ASSUME NEW c \in Call, Complete(c) PROVE TruthInv'
  <2>1. /\ status' = [status EXCEPT ![c] = "done"]
        /\ told' = [told EXCEPT ![c] = told'[c]]
        /\ answer' = [answer EXCEPT ![c] = NoAnswer]
        /\ timedOut \subseteq timedOut' /\ UNCHANGED called
    BY <1>3 DEF Complete, HandleAnswer, HandleTimeout, Typed
  <2>2. \A d \in Call : d # c => Truth(d)'
    BY <2>1, TruthStays DEF TruthInv, Typed
  <2>3. CASE HandleTimeout(c)
    <3>1. told'[c] = <<"operation_timeout">>
      BY <2>3 DEF HandleTimeout, Typed
    <3>2. answer'[c] = NoAnswer
      BY <2>1 DEF Typed
    <3>3. Truth(c)'
      BY <1>0, <3>1, <3>2, NothingClaimed
    <3> QED BY <2>2, <3>3 DEF TruthInv
  <2>4. CASE HandleAnswer(c)
    <3>1. called[c].op \in DOMAIN Operation
      BY <2>4, KindsNamed DEF HandleAnswer, Kinds
    <3>2. told'[c] = AnswerOutcome(Operation[called[c].op], answer[c])
      BY <2>4 DEF HandleAnswer, Typed
    <3>3. told'[c] = <<"success">> =>
            \/ answer[c].result = "Success"
            \/ answer[c].result = "Timeout" /\ called[c].op # "commit"
      BY <3>1, <3>2, AnswerTold
    <3>4. told'[c] \in {<<"stream_deleted">>, <<"is_deleted">>} =>
            answer[c].result = "StreamDeleted"
      BY <3>1, <3>2, AnswerTold
    <3>5. answer[c].result = "Timeout" => c \in timedOut'
      BY <2>4 DEF HandleAnswer
    <3>6. /\ answer[c].result = "Success" => TrueOnServer(c)'
          /\ answer[c].result = "StreamDeleted" => deleted'
      BY <2>1, TrueStays DEF TruthInv, Truth, Grows
    <3>7. answer'[c] = NoAnswer /\ status'[c] = "done" /\ called' = called
      BY <2>1 DEF Typed
    <3>8. Truth(c)'
      BY <3>3, <3>4, <3>5, <3>6, <3>7 DEF Truth, NoAnswer
    <3> QED BY <2>2, <3>8 DEF TruthInv
  <2> QED BY <1>3, <2>3, <2>4 DEF Complete
<1>4. CASE rollback \/ UNCHANGED vars
  <2>1. UNCHANGED <<called, status, told, answer, timedOut>>
    BY <1>4 DEF rollback, opsVars, vars
  <2> QED BY <2>1, TruthStays DEF TruthInv
<1> QED BY <1>1, <1>2, <1>3, <1>4, Steps

LEMMA ServerTruth ==
  ASSUME Typed, TruthInv, Grows, UNCHANGED callVars, NEW c \in Call, NEW a,
         PutAnswer(c, a),
         a.result = "Success" => TrueOnServer(c)',
         a.result = "StreamDeleted" => deleted'
  PROVE  TruthInv'
<1>1. CASE answer' = answer
  BY <1>1, TruthStays DEF TruthInv
<1>2. CASE status[c] = "pending" /\ answer' = [answer EXCEPT ![c] = a]
  <2>1. \A d \in Call : d # c => Truth(d)'
    BY <1>2, TruthStays DEF TruthInv, Typed
  <2>2. answer'[c] = a
    BY <1>2 DEF Typed
  <2>3. Truth(c)
    BY DEF TruthInv
  <2>4. TrueOnServer(c) => TrueOnServer(c)'
    BY TrueStays
  <2>5. Truth(c)'
    BY <1>2, <2>2, <2>3, <2>4 DEF Truth, Grows
  <2> QED BY <2>1, <2>5 DEF TruthInv
<1> QED BY <1>1, <1>2 DEF PutAnswer

LEMMA AnswersPut ==
  ASSUME NEW c, NEW results, Answers(c, results)
  PROVE  \E a : a.result \in results /\ PutAnswer(c, a)
<1>1. PICK r \in results : PutAnswer(c, Answer(Operation[called[c].op].completed, r))
  BY DEF Answers
<1>2. Answer(Operation[called[c].op].completed, r).result = r
  BY DEF Answer
<1> QED BY <1>1, <1>2

LEMMA RefusalsTrue ==
  ASSUME NEW c \in Call, called[c].op \in SingleOperation
  PROVE  \A r \in Refusals(c) : r # "Success" /\ (r = "StreamDeleted" => deleted)
<1>1. \A r \in WriteConflict(c) : r # "Success" /\ (r = "StreamDeleted" => deleted)
  BY DEF WriteConflict
<1>2. called[c].op \in {"append", "conditional_append", "set_metadata", "delete",
                        "read_event", "get_metadata", "read_events", "read_all",
                        "create", "update", "delete_group"}
  BY DEF SingleOperation, TransactionOperation, Operation
<1>3. CASE called[c].op \in {"append", "conditional_append", "set_metadata", "delete"}
  BY <1>1, <1>3 DEF Refusals
<1>4. CASE called[c].op \in {"read_event", "get_metadata"}
  BY <1>4 DEF Refusals
<1>5. CASE called[c].op \in {"read_events", "read_all"}
  BY <1>5 DEF Refusals
<1>6. CASE called[c].op \in {"create", "update", "delete_group"}
  BY <1>6 DEF Refusals
<1> QED BY <1>2, <1>3, <1>4, <1>5, <1>6

LEMMA PerformTrue ==
  ASSUME Typed, NEW c \in Call, Perform(c), UNCHANGED called
  PROVE  TrueOnServer(c)'
<1>t. events.stream \in Seq(Call) /\ events.metastream \in Seq(Call)
  BY DEF Typed
<1>1. CASE /\ called[c].op \in {"append", "conditional_append", "set_metadata"}
           /\ events' = [events EXCEPT ![Target(called[c].op)] = Append(@, c)]
  <2>1. CASE called[c].op = "set_metadata"
    <3>1. events'.metastream = Append(events.metastream, c)
      BY <1>1, <2>1 DEF Typed, Target
    <3> QED BY <1>t, <2>1, <3>1, HoldsAppend DEF TrueOnServer
  <2>2. CASE called[c].op \in {"append", "conditional_append"}
    <3>1. events'.stream = Append(events.stream, c)
      BY <1>1, <2>2 DEF Typed, Target
    <3> QED BY <1>t, <2>2, <3>1, HoldsAppend DEF TrueOnServer
  <2> QED BY <1>1, <2>1, <2>2
<1>2. CASE called[c].op = "delete" /\ deleted'
  BY <1>2 DEF TrueOnServer
<1>3. CASE /\ called[c].op \in {"read_event", "get_metadata", "read_events"}
           /\ Version(Target(called[c].op)) >= 0
           /\ UNCHANGED events
  <2>1. Version("stream") >= 0 => events.stream # <<>>
    BY <1>t, LenProperties, EmptySeq DEF Version
  <2>2. Version("metastream") >= 0 => events.metastream # <<>>
    BY <1>t, LenProperties, EmptySeq DEF Version
  <2> QED BY <1>3, <2>1, <2>2 DEF TrueOnServer, Target
<1>4. CASE called[c].op \in {"read_all", "create", "update", "delete_group"}
  BY <1>4 DEF TrueOnServer
<1> QED BY <1>1, <1>2, <1>3, <1>4 DEF Perform

LEMMA ReceivedCalled ==
  ASSUME TypedKinds, FlowInv, NEW c, Receive(c)
  PROVE  c \in Call /\ KindOf(c, called[c].op)
<1>1. 1 \in 1..Len(wire) /\ c = wire[1] /\ c \in Call
  BY WireReceived DEF TypedKinds
<1>2. status[wire[1]] # "idle"
  BY <1>1, Zenon DEF FlowInv
<1> QED BY <1>1, <1>2 DEF TypedKinds, Kinds

LEMMA TruthNext == TypedKinds /\ ToldInv /\ FlowInv /\ TruthInv /\ [Next]_vars => TruthInv'
<1> SUFFICES ASSUME TypedKinds, ToldInv, FlowInv, TruthInv, [Next]_vars PROVE TruthInv'
  OBVIOUS
<1> USE DEF TypedKinds
<1>0. Grows
  BY ServerGrows
<1>1. ASSUME NEW c \in Call, ServerRejects(c) PROVE TruthInv'
  <2>1. PutAnswer(c, OtherCommand) /\ OtherCommand.result = "none" /\ UNCHANGED callVars
    BY <1>1 DEF ServerRejects, Receive, OtherCommand, Answer
  <2> QED BY <1>0, <2>1, ServerTruth
<1>2. ASSUME NEW c \in Call, ServerExecutes(c) PROVE TruthInv'
  <2>0. called[c].op \in SingleOperation /\ UNCHANGED callVars
    BY <1>2, ReceivedCalled DEF ServerExecutes, KindOf, Receive
  <2>1. CASE Perform(c) /\ Answers(c, DoneResults(c))
    <3>1. PICK a : a.result \in DoneResults(c) /\ PutAnswer(c, a)
      BY <2>1, AnswersPut
    <3>2. a.result # "StreamDeleted"
      BY <3>1 DEF DoneResults
    <3>3. TrueOnServer(c)'
      BY <2>0, <2>1, PerformTrue
    <3> QED BY <1>0, <2>0, <3>1, <3>2, <3>3, ServerTruth
  <2>2. CASE Answers(c, Refusals(c)) /\ UNCHANGED streamVars
    <3>1. PICK a : a.result \in Refusals(c) /\ PutAnswer(c, a)
      BY <2>2, AnswersPut
    <3>2. a.result # "Success" /\ (a.result = "StreamDeleted" => deleted)
      BY <2>0, <3>1, RefusalsTrue
    <3> QED BY <1>0, <2>0, <2>2, <3>1, <3>2, ServerTruth
  <2> QED BY <1>2, <2>1, <2>2 DEF ServerExecutes
<1>3. CASE ServerStarts
  <2>0. StartCall \in Call /\ called[StartCall].op = "start" /\ UNCHANGED callVars
    BY <1>3, ReceivedCalled DEF ServerStarts, KindOf, Receive
  <2>1. CASE Executed(StartCall) /\ open' = "open"
    <3>1. PICK a : a.result \in {"Success", "Timeout"} /\ PutAnswer(StartCall, a)
      BY <2>1, AnswersPut DEF Executed
    <3>2. TrueOnServer(StartCall)'
      BY <2>0, <2>1 DEF TrueOnServer
    <3> QED BY <1>0, <2>0, <3>1, <3>2, ServerTruth
  <2>2. CASE Refused(StartCall, WriteConflict(StartCall))
    <3>1. PICK a : /\ a.result \in WriteConflict(StartCall)
                                     \cup {"Timeout", "InvalidTransaction", "AccessDenied"}
                   /\ PutAnswer(StartCall, a)
      BY <2>2, AnswersPut DEF Refused
    <3>2. a.result # "Success" /\ (a.result = "StreamDeleted" => deleted)
      BY <3>1 DEF WriteConflict
    <3> QED BY <1>0, <2>0, <3>1, <3>2, ServerTruth DEF Grows
  <2> QED BY <1>3, <2>1, <2>2 DEF ServerStarts
<1>4. ASSUME NEW c \in Call, ServerWrites(c) PROVE TruthInv'
  <2>0. c \in WriteCall /\ called[c].op = "write" /\ UNCHANGED callVars
    BY <1>4, ReceivedCalled DEF ServerWrites, KindOf, Receive
  <2>1. CASE Executed(c) /\ staged' = Append(staged, c)
    <3>1. PICK a : a.result \in {"Success", "Timeout"} /\ PutAnswer(c, a)
      BY <2>1, AnswersPut DEF Executed
    <3>2. Holds(staged', c)
      BY <2>0, <2>1, HoldsAppend DEF Typed
    <3>3. TrueOnServer(c)'
      BY <2>0, <3>2 DEF TrueOnServer
    <3> QED BY <1>0, <2>0, <3>1, <3>3, ServerTruth
  <2>2. CASE Refused(c, {})
    <3>1. PICK a : /\ a.result \in {} \cup {"Timeout", "InvalidTransaction", "AccessDenied"}
                   /\ PutAnswer(c, a)
      BY <2>2, AnswersPut DEF Refused
    <3> QED BY <1>0, <2>0, <3>1, ServerTruth
  <2> QED BY <1>4, <2>1, <2>2 DEF ServerWrites
<1>5. ASSUME NEW c \in Call, ServerCommits(c) PROVE TruthInv'
  <2>0. called[c].op = "commit" /\ UNCHANGED callVars
    BY <1>5, ReceivedCalled DEF ServerCommits, KindOf, Receive
  <2>1. CASE Executed(c) /\ open' = "committed"
    <3>1. PICK a : a.result \in {"Success", "Timeout"} /\ PutAnswer(c, a)
      BY <2>1, AnswersPut DEF Executed
    <3>2. TrueOnServer(c)'
      BY <2>0, <2>1 DEF TrueOnServer
    <3> QED BY <1>0, <2>0, <3>1, <3>2, ServerTruth
  <2>2. ASSUME NEW conflict, Refused(c, conflict),
               \A r \in conflict : r # "Success" /\ (r = "StreamDeleted" => deleted)
        PROVE  TruthInv'
    <3>1. PICK a : /\ a.result \in conflict \cup {"Timeout", "InvalidTransaction", "AccessDenied"}
                   /\ PutAnswer(c, a)
      BY <2>2, AnswersPut DEF Refused
    <3>2. a.result # "Success" /\ (a.result = "StreamDeleted" => deleted)
      BY <2>2, <3>1
    <3> QED BY <1>0, <2>0, <3>1, <3>2, ServerTruth DEF Grows
  <2> QED BY <1>5, <2>1, <2>2 DEF ServerCommits
<1>6. CASE ~ServerStep
  BY <1>0, <1>6, ClientTruth
<1> QED BY <1>1, <1>2, <1>3, <1>4, <1>5, <1>6 DEF ServerStep

------------------------------------------------------------------------------
(* Writes keep the order of their calls, on the wire, in the transaction    *)
(* and in the stream.                                                       *)

\* Numbers of writes ascend along s.
Ascending(s) ==
  \A i, j \in 1..Len(s) :
    i < j /\ s[i] \in WriteCall /\ s[j] \in WriteCall => s[i][2] < s[j][2]

Before(s, t) ==
  \A i \in 1..Len(s), j \in 1..Len(t) :
    s[i] \in WriteCall /\ t[j] \in WriteCall => s[i][2] < t[j][2]

OrderInv ==
  /\ \A c, d \in WriteCall : status[d] # "idle" /\ c[2] <= d[2] => status[c] # "idle"
  /\ \A i \in 1..Len(staged) : status[staged[i]] # "idle"
  /\ Ascending(wire)
  /\ Ascending(staged)
  /\ Before(staged, wire)

LEMMA OrderInit == Init => OrderInv
<1> SUFFICES ASSUME Init PROVE OrderInv
  OBVIOUS
<1>1. wire = <<>> /\ staged = <<>> /\ Len(<<>>) = 0 /\ 1..0 = {}
  BY DEF Init, OpsInit
<1>2. \A c \in WriteCall : status[c] = "idle"
  BY CallKinds DEF Init, OpsInit
<1> QED BY <1>1, <1>2 DEF OrderInv, Ascending, Before

LEMMA AscendingAppend ==
  ASSUME NEW S, NEW s \in Seq(S), NEW e \in S, Ascending(s),
         e \in WriteCall => \A i \in 1..Len(s) : s[i] \in WriteCall => s[i][2] < e[2]
  PROVE  Ascending(Append(s, e))
<1>1. /\ Len(Append(s, e)) = Len(s) + 1 /\ Len(s) \in Nat
      /\ \A i \in 1..Len(s) : Append(s, e)[i] = s[i]
      /\ Append(s, e)[Len(s) + 1] = e
  BY HoldsAppend, LenProperties
<1> SUFFICES ASSUME NEW i \in 1..(Len(s) + 1), NEW j \in 1..(Len(s) + 1), i < j,
                    Append(s, e)[i] \in WriteCall, Append(s, e)[j] \in WriteCall
             PROVE  Append(s, e)[i][2] < Append(s, e)[j][2]
  BY <1>1 DEF Ascending
<1>2. i \in 1..Len(s) /\ Append(s, e)[i] = s[i]
  BY <1>1
<1>3. CASE j \in 1..Len(s)
  <2>1. Append(s, e)[j] = s[j]
    BY <1>1, <1>3
  <2> QED BY <1>2, <1>3, <2>1 DEF Ascending
<1>4. CASE j = Len(s) + 1
  <2>1. Append(s, e)[j] = e
    BY <1>1, <1>4
  <2> QED BY <1>2, <2>1
<1> QED BY <1>1, <1>3, <1>4

\* A write that was not called yet has a greater number than any that was.
LEMMA IdleIsLast ==
  ASSUME OrderInv, NEW c \in WriteCall, NEW d \in WriteCall,
         status[c] = "idle", status[d] # "idle"
  PROVE  d[2] < c[2]
<1>1. c[2] \in Int /\ d[2] \in Int
  BY WriteNumbers
<1>2. ~(c[2] <= d[2])
  BY DEF OrderInv
<1> QED BY <1>1, <1>2

\* Beginning a call keeps the calls made closed downwards.
LEMMA PrefixCalled ==
  ASSUME Typed, OrderInv, NEW c \in Call, NextCall(c), NEW st, st # "idle",
         status' = [status EXCEPT ![c] = st]
  PROVE  \A a, b \in WriteCall : status'[b] # "idle" /\ a[2] <= b[2] => status'[a] # "idle"
<1>0. WriteCall \subseteq Call
  BY CallKinds
<1> SUFFICES ASSUME NEW a \in WriteCall, NEW b \in WriteCall,
                    status'[b] # "idle", a[2] <= b[2]
             PROVE  status'[a] # "idle"
  OBVIOUS
<1>1. \A d \in WriteCall : status[d] # "idle" => status'[d] # "idle"
  BY <1>0 DEF Typed
<1>2. CASE status[b] # "idle"
  BY <1>1, <1>2 DEF OrderInv
<1>3. CASE status[b] = "idle"
  <2>1. b = c /\ status'[c] # "idle"
    BY <1>0, <1>3 DEF Typed
  <2>2. CASE a[2] = b[2]
    BY <2>1, <2>2, WriteNumbers
  <2>3. CASE a[2] # b[2]
    <3>1. /\ a[2] \in Nat /\ b[2] \in 1..MaxWrites /\ a[2] >= 1 /\ MaxWrites \in Nat
          /\ b[1] = "write"
      BY WriteNumbers, BoundAssumption
    <3>2. b[2] > 1 /\ b[2] - 1 \in 1..MaxWrites /\ a[2] <= b[2] - 1
      BY <2>3, <3>1
    <3> DEFINE p == <<"write", b[2] - 1>>
    <3>3. p \in WriteCall /\ p[2] = b[2] - 1
      BY <3>2, WriteNumbers
    <3>4. status[p] # "idle"
      BY <2>1, <3>1, <3>2 DEF NextCall
    <3>5. status[a] # "idle"
      BY <3>2, <3>3, <3>4 DEF OrderInv
    <3> QED BY <1>1, <3>5
  <2> QED BY <2>2, <2>3
<1> QED BY <1>2, <1>3

LEMMA OrderNext == TypedKinds /\ FlowInv /\ OrderInv /\ [Next]_vars => OrderInv'
<1> SUFFICES ASSUME TypedKinds, FlowInv, OrderInv, [Next]_vars PROVE OrderInv'
  OBVIOUS
<1> USE DEF TypedKinds
<1>0. WriteCall \subseteq Call
  BY CallKinds
<1>s. StartCall \in Call
  BY CallKinds
<1>w. /\ wire \in Seq(Call) /\ Len(wire) \in Nat /\ \A i \in 1..Len(wire) : wire[i] \in Call
      /\ staged \in Seq(WriteCall) /\ Len(staged) \in Nat
      /\ \A i \in 1..Len(staged) : staged[i] \in WriteCall
  BY LenProperties, ElementOfSeq DEF Typed
<1>1. ASSUME NEW c \in Call, NEW op, Sends(c, op) PROVE OrderInv'
  <2>1. /\ NextCall(c) /\ status[c] = "idle" /\ status' = [status EXCEPT ![c] = "pending"]
        /\ wire' = Append(wire, c) /\ UNCHANGED staged
    BY <1>1 DEF Sends, Send, NextCall
  <2>2. \A a, b \in WriteCall : status'[b] # "idle" /\ a[2] <= b[2] => status'[a] # "idle"
    BY <2>1, PrefixCalled
  <2>3. \A i \in 1..Len(staged') : status'[staged'[i]] # "idle"
    BY <1>0, <1>w, <2>1 DEF OrderInv, Typed
  <2>4. c \in WriteCall => \A i \in 1..Len(wire) : wire[i] \in WriteCall => wire[i][2] < c[2]
    BY <2>1, IdleIsLast DEF FlowInv
  <2>5. c \in WriteCall => \A i \in 1..Len(staged) : staged[i][2] < c[2]
    BY <1>w, <2>1, IdleIsLast DEF OrderInv
  <2>6. Ascending(wire')
    BY <1>w, <2>1, <2>4, AscendingAppend DEF OrderInv
  <2>7. Before(staged', wire')
    <3> SUFFICES ASSUME NEW i \in 1..Len(staged), NEW j \in 1..Len(wire'),
                        wire'[j] \in WriteCall
                 PROVE  staged[i][2] < wire'[j][2]
      BY <2>1 DEF Before
    <3>1. /\ Len(wire') = Len(wire) + 1 /\ wire'[Len(wire) + 1] = c
          /\ \A k \in 1..Len(wire) : wire'[k] = wire[k]
      BY <1>w, <2>1, HoldsAppend
    <3>2. CASE j \in 1..Len(wire)
      BY <1>w, <3>1, <3>2 DEF OrderInv, Before
    <3>3. CASE j = Len(wire) + 1
      BY <2>5, <3>1, <3>3
    <3> QED BY <1>w, <3>1, <3>2, <3>3
  <2> QED BY <2>1, <2>2, <2>3, <2>6, <2>7 DEF OrderInv
<1>2. ASSUME NEW c \in Call, NEW op, Refuses(c, op) PROVE OrderInv'
  <2>1. /\ NextCall(c) /\ status' = [status EXCEPT ![c] = "posted"]
        /\ UNCHANGED <<wire, staged>>
    BY <1>2 DEF Refuses, Refuse
  <2>2. \A a, b \in WriteCall : status'[b] # "idle" /\ a[2] <= b[2] => status'[a] # "idle"
    BY <2>1, PrefixCalled
  <2>3. \A i \in 1..Len(staged') : status'[staged'[i]] # "idle"
    BY <1>0, <1>w, <2>1 DEF OrderInv, Typed
  <2> QED BY <2>1, <2>2, <2>3 DEF OrderInv
<1>3. ASSUME NEW c \in Call, status[c] # "idle", status' = [status EXCEPT ![c] = "done"],
             UNCHANGED <<wire, staged>>
      PROVE  OrderInv'
  <2>1. \A d \in WriteCall : status'[d] # "idle" <=> status[d] # "idle"
    BY <1>0, <1>3 DEF Typed
  <2>2. \A i \in 1..Len(staged') : status'[staged'[i]] # "idle"
    BY <1>w, <1>3, <2>1 DEF OrderInv
  <2> QED BY <1>3, <2>1, <2>2 DEF OrderInv
<1>4. CASE RunPosted
  <2>1. PICK p \in posted : /\ status' = [status EXCEPT ![p.call] = "done"]
                            /\ UNCHANGED <<wire, staged>>
    BY <1>4 DEF RunPosted
  <2> QED BY <1>3, <2>1 DEF Typed, Kinds
<1>5. ASSUME NEW c \in Call, Complete(c) PROVE OrderInv'
  BY <1>3, <1>5 DEF Complete, HandleAnswer, HandleTimeout
<1>6. CASE rollback \/ UNCHANGED vars
  BY <1>6 DEF rollback, opsVars, vars, OrderInv
<1>7. CASE ServerStep
  <2>1. PICK c \in Call : Receive(c) /\ (\/ UNCHANGED staged
                                         \/ c \in WriteCall /\ staged' = Append(staged, c))
    BY <1>7, <1>s DEF ServerStep, ServerExecutes, ServerRejects, ServerStarts,
                      ServerWrites, ServerCommits
  <2>2. UNCHANGED status
    BY <1>7, ServerKeepsClient
  <2>3. /\ 1 \in 1..Len(wire) /\ c = wire[1]
        /\ \A i \in 1..Len(wire') : wire'[i] = wire[i + 1] /\ i + 1 \in 1..Len(wire)
    BY <2>1, WireReceived, Zenon
  <2>4. Ascending(wire')
    BY <2>3 DEF OrderInv, Ascending
  <2>5. \A i \in 1..Len(wire') : c \in WriteCall /\ wire'[i] \in WriteCall => c[2] < wire'[i][2]
    <3> SUFFICES ASSUME NEW i \in 1..Len(wire'), c \in WriteCall, wire'[i] \in WriteCall
                 PROVE  c[2] < wire'[i][2]
      OBVIOUS
    <3>1. 1 < i + 1 /\ i + 1 \in 1..Len(wire) /\ wire'[i] = wire[i + 1]
      BY <2>3
    <3> QED BY <2>3, <3>1 DEF OrderInv, Ascending
  <2>6. Before(staged, wire')
    BY <2>3 DEF OrderInv, Before
  <2>7. CASE UNCHANGED staged
    BY <2>2, <2>4, <2>6, <2>7 DEF OrderInv
  <2>8. CASE c \in WriteCall /\ staged' = Append(staged, c)
    <3>1. /\ Len(staged') = Len(staged) + 1 /\ staged'[Len(staged) + 1] = c
          /\ \A k \in 1..Len(staged) : staged'[k] = staged[k]
      BY <1>w, <2>8, HoldsAppend
    <3>2. \A k \in 1..Len(staged') : (k \in 1..Len(staged) /\ staged'[k] = staged[k])
                                     \/ staged'[k] = c
      BY <1>w, <3>1
    <3>3. status[wire[1]] # "idle"
      BY <2>3, Zenon DEF FlowInv
    <3>4. \A i \in 1..Len(staged') : status'[staged'[i]] # "idle"
      BY <2>2, <2>3, <3>2, <3>3 DEF OrderInv
    <3>5. \A i \in 1..Len(staged) : staged[i][2] < c[2]
      BY <1>w, <2>3, <2>8, Zenon DEF OrderInv, Before
    <3>6. Ascending(staged')
      BY <1>w, <2>8, <3>5, AscendingAppend DEF OrderInv
    <3>7. Before(staged', wire')
      BY <2>5, <2>6, <3>2 DEF Before
    <3> QED BY <2>2, <2>4, <3>4, <3>6, <3>7 DEF OrderInv
  <2> QED BY <2>1, <2>7, <2>8
<1> QED BY <1>1, <1>2, <1>4, <1>5, <1>6, <1>7, Steps

------------------------------------------------------------------------------
(* The stream holds writes of the transaction only through its commit.      *)

StreamInv ==
  /\ open # "committed" => \A i \in 1..Len(events.stream) : events.stream[i] \notin WriteCall
  /\ open = "committed" => \A c : Holds(staged, c) => Holds(events.stream, c)
  /\ Ascending(events.stream)

LEMMA StreamInit == Init => StreamInv
<1> SUFFICES ASSUME Init PROVE StreamInv
  OBVIOUS
<1>1. events.stream = <<>> /\ Len(<<>>) = 0 /\ 1..0 = {} /\ open = "none"
  BY DEF Init, OpsInit
<1> QED BY <1>1 DEF StreamInv, Ascending

LEMMA StreamNext == TypedKinds /\ FlowInv /\ OrderInv /\ StreamInv /\ [Next]_vars => StreamInv'
<1> SUFFICES ASSUME TypedKinds, FlowInv, OrderInv, StreamInv, [Next]_vars PROVE StreamInv'
  OBVIOUS
<1> USE DEF TypedKinds
<1> DEFINE stream == events.stream
<1>0. SingleCall \cap WriteCall = {} /\ StartCall \in Call
  BY CallKinds
<1>t. /\ stream \in Seq(Call) /\ Len(stream) \in Nat
      /\ staged \in Seq(Call) /\ Len(staged) \in Nat
      /\ \A i \in 1..Len(staged) : staged[i] \in WriteCall
  <2>1. WriteCall \subseteq Call
    BY CallKinds
  <2> QED BY <2>1, SeqMonotonic, LenProperties, ElementOfSeq DEF Typed
<1>1. CASE UNCHANGED <<events, open, staged>>
  BY <1>1 DEF StreamInv
<1>2. ASSUME NEW c \in SingleCall, Perform(c), UNCHANGED serverVars PROVE StreamInv'
  <2>1. c \in Call /\ c \notin WriteCall
    BY <1>0, CallKinds
  <2>2. events'.stream = stream \/ events'.stream = Append(stream, c)
    BY <1>2, <2>1, PerformGrows
  <2>3. CASE events'.stream = stream
    BY <1>2, <2>3 DEF StreamInv
  <2>4. CASE events'.stream = Append(stream, c)
    <3>1. /\ Len(events'.stream) = Len(stream) + 1 /\ events'.stream[Len(stream) + 1] = c
          /\ \A k \in 1..Len(stream) : events'.stream[k] = stream[k]
          /\ \A d : Holds(stream, d) => Holds(events'.stream, d)
      BY <1>t, <2>1, <2>4, HoldsAppend
    <3>2. \A k \in 1..Len(events'.stream) :
            (k \in 1..Len(stream) /\ events'.stream[k] = stream[k]) \/ events'.stream[k] = c
      BY <1>t, <3>1
    <3>3. Ascending(events'.stream)
      BY <1>t, <2>1, <2>4, AscendingAppend DEF StreamInv
    <3>4. open' # "committed" =>
            \A i \in 1..Len(events'.stream) : events'.stream[i] \notin WriteCall
      BY <1>2, <2>1, <3>2 DEF StreamInv
    <3> QED BY <1>2, <3>1, <3>3, <3>4 DEF StreamInv
  <2> QED BY <2>2, <2>3, <2>4
<1>3. CASE ServerStarts
  <2>1. 1 \in 1..Len(wire) /\ wire[1] = StartCall
    BY <1>3, WireReceived DEF ServerStarts
  <2>2. open = "none"
    BY <2>1, Zenon DEF FlowInv
  <2>3. open' # "committed" /\ UNCHANGED <<events, staged>>
    BY <1>3, <2>2 DEF ServerStarts
  <2> QED BY <2>2, <2>3 DEF StreamInv
<1>4. ASSUME NEW c \in Call, ServerWrites(c) PROVE StreamInv'
  <2>1. UNCHANGED <<events, open>> /\ (UNCHANGED staged \/ open = "open")
    BY <1>4 DEF ServerWrites
  <2> QED BY <2>1 DEF StreamInv
<1>5. ASSUME NEW c \in Call, ServerCommits(c) PROVE StreamInv'
  <2>1. CASE UNCHANGED <<open, events>>
    BY <1>1, <1>5, <2>1 DEF ServerCommits
  <2>2. CASE /\ open = "open" /\ open' = "committed"
             /\ events' = [events EXCEPT !.stream = @ \o staged]
    <3>1. events'.stream = stream \o staged /\ UNCHANGED staged
      BY <1>5, <2>2 DEF ServerCommits, Typed
    <3>2. /\ Len(events'.stream) = Len(stream) + Len(staged)
          /\ \A i \in 1..Len(stream) : events'.stream[i] = stream[i]
          /\ \A i \in 1..Len(staged) : events'.stream[Len(stream) + i] = staged[i]
          /\ \A d : Holds(staged, d) => Holds(events'.stream, d)
      BY <1>t, <3>1, HoldsConcat
    <3>3. \A i \in 1..Len(stream) : events'.stream[i] \notin WriteCall
      BY <2>2, <3>2 DEF StreamInv
    <3>4. Ascending(events'.stream)
      <4> SUFFICES ASSUME NEW i \in 1..Len(events'.stream), NEW j \in 1..Len(events'.stream),
                          i < j, events'.stream[i] \in WriteCall,
                          events'.stream[j] \in WriteCall
                   PROVE  events'.stream[i][2] < events'.stream[j][2]
        BY DEF Ascending
      <4> DEFINE k == i - Len(stream)
                 m == j - Len(stream)
      <4>1. i \notin 1..Len(stream) /\ j \notin 1..Len(stream)
        BY <3>3
      <4>2. /\ k \in 1..Len(staged) /\ m \in 1..Len(staged) /\ k < m
            /\ i = Len(stream) + k /\ j = Len(stream) + m
        <5>1. i \in 1..(Len(stream) + Len(staged)) /\ j \in 1..(Len(stream) + Len(staged))
          BY <3>2
        <5> HIDE DEF stream
        <5> QED BY <1>t, <4>1, <5>1
      <4>3. events'.stream[i] = staged[k] /\ events'.stream[j] = staged[m]
        BY <3>2, <4>2
      <4> QED BY <1>t, <4>2, <4>3 DEF OrderInv, Ascending
    <3> QED BY <2>2, <3>1, <3>2, <3>4 DEF StreamInv
  <2> QED BY <1>5, <2>1, <2>2 DEF ServerCommits
<1>6. ASSUME NEW c \in Call, ServerExecutes(c) \/ ServerRejects(c),
             UNCHANGED <<objectVars, serverVars>>
      PROVE  StreamInv'
  BY <1>1, <1>2, <1>6 DEF ServerExecutes, ServerRejects
<1>7. CASE rollback \/ UNCHANGED vars
  BY <1>1, <1>7 DEF rollback, opsVars, vars
<1>8. CASE RunPosted
  BY <1>1, <1>8 DEF RunPosted
<1>9. ASSUME NEW c \in Call, Complete(c) PROVE StreamInv'
  BY <1>1, <1>9 DEF Complete, HandleAnswer, HandleTimeout
<1>10. ASSUME NEW c \in Call, NEW op, Sends(c, op) \/ Refuses(c, op) PROVE StreamInv'
  BY <1>1, <1>10 DEF Sends, Refuses, Send, Refuse
<1> QED
  BY <1>3, <1>4, <1>5, <1>6, <1>7, <1>8, <1>9, <1>10, Steps DEF ServerStep

------------------------------------------------------------------------------
(* The theorems.                                                            *)

TransactionInv ==
  TypedKinds /\ ToldInv /\ FlagInv /\ FlowInv /\ TruthInv /\ OrderInv /\ StreamInv

LEMMA TransactionInvariance == Spec => []TransactionInv
<1>1. Init => TransactionInv
  BY TypedInit, ToldInit, FlagInit, FlowInit, TruthInit, OrderInit, StreamInit
  DEF TransactionInv
<1>2. TransactionInv /\ [Next]_vars => TransactionInv'
  BY TypedNext, ToldNext, FlagNext, FlowNext, TruthNext, OrderNext, StreamNext
  DEF TransactionInv
<1> QED BY <1>1, <1>2, PTL DEF Spec

\* What an operation tells its user is so on the server, in every order of
\* requests, answers and deadlines: success is claimed without its effect only
\* when the server gave up on the request, and a deleted stream is deleted.
THEOREM SuccessHolds == Spec => []SuccessIsTrue
<1>1. TransactionInv => SuccessIsTrue
  BY DEF TransactionInv, TruthInv, Truth, SuccessIsTrue
<1> QED BY <1>1, TransactionInvariance, PTL

\* commit_transaction reports success only when every write reported as
\* successful is in the stream, in the order of the async_write calls.
THEOREM CommittedWritesKept == Spec => []CommitKeepsWrites
<1>1. ASSUME TransactionInv PROVE CommitKeepsWrites
  <2> USE DEF TransactionInv
  <2> SUFFICES ASSUME NEW c \in CommitCall, told[c] = <<"success">>
               PROVE  /\ \A w \in WriteCall : told[w] = <<"success">> /\ w \notin timedOut
                            => Holds(events.stream, w)
                      /\ \A i, j \in 1..Len(events.stream) :
                           /\ i < j
                           /\ {events.stream[i], events.stream[j]} \subseteq WriteCall
                           => events.stream[i][2] < events.stream[j][2]
    BY DEF CommitKeepsWrites
  <2>0. CommitCall \subseteq Call /\ WriteCall \subseteq Call
    BY CallKinds
  <2>1. ASSUME NEW d \in Call, told[d] = <<"success">>
        PROVE  KindOf(d, called[d].op)
    BY <1>1, <2>1 DEF ToldInv, TypedKinds, Kinds
  <2>2. called[c].op = "commit"
    BY <2>0, <2>1 DEF KindOf
  <2>3. open = "committed"
    BY <1>1, <2>0, <2>2 DEF TruthInv, Truth, TrueOnServer
  <2>4. ASSUME NEW w \in WriteCall, told[w] = <<"success">>, w \notin timedOut
        PROVE  Holds(events.stream, w)
    <3>1. called[w].op = "write"
      BY <2>0, <2>1, <2>4 DEF KindOf
    <3>2. Holds(staged, w)
      BY <1>1, <2>0, <2>4, <3>1 DEF TruthInv, Truth, TrueOnServer
    <3> QED BY <1>1, <2>3, <3>2 DEF StreamInv
  <2>5. \A i, j \in 1..Len(events.stream) :
          /\ i < j
          /\ {events.stream[i], events.stream[j]} \subseteq WriteCall
          => events.stream[i][2] < events.stream[j][2]
    BY <1>1 DEF StreamInv, Ascending
  <2> QED BY <2>4, <2>5
<1> QED BY <1>1, TransactionInvariance, PTL

\* After transaction::rollback() nothing of the transaction is in the stream.
THEOREM RolledBackOut == Spec => []RolledBackStaysOut
<1>1. ASSUME TransactionInv PROVE RolledBackStaysOut
  BY <1>1 DEF TransactionInv, FlagInv, FlowInv, StreamInv, RolledBackStaysOut, Holds
<1> QED BY <1>1, TransactionInvariance, PTL

\* Of all calls of async_commit at most one sends a commit.
THEOREM OneCommitSent == Spec => []CommitSentOnce
<1>1. ASSUME TransactionInv PROVE CommitSentOnce
  <2> SUFFICES ASSUME NEW c \in CommitCall, NEW d \in CommitCall, c # d,
                      status[c] # "idle", status[d] # "idle"
               PROVE  \E e \in {c, d} :
                        \/ status[e] = "posted"
                        \/ told[e] \in {<<"transaction_committed">>,
                                        <<"transaction_rolled_back">>}
    BY DEF CommitSentOnce
  <2>1. ~Sent(c) \/ ~Sent(d)
    BY <1>1 DEF TransactionInv, FlagInv
  <2>2. /\ c \in Call /\ d \in Call
        /\ status[c] \in {"idle", "posted", "pending", "done"}
        /\ status[d] \in {"idle", "posted", "pending", "done"}
    BY <1>1, CallKinds DEF TransactionInv, TypedKinds, Typed
  <2> QED BY <2>1, <2>2 DEF Sent
<1> QED BY <1>1, TransactionInvariance, PTL

\* Every operation calls its handler exactly once, unless the server answered
\* with a timeout that the operation keeps silent about.
THEOREM HandlerTold == Spec => []ToldUnlessServerTimedOut
<1>1. ASSUME TransactionInv PROVE ToldUnlessServerTimedOut
  <2> SUFFICES ASSUME NEW c \in Call
               PROVE  \/ Len(told[c]) = IF status[c] = "done" THEN 1 ELSE 0
                      \/ /\ told[c] = <<>>
                         /\ c \in timedOut
                         /\ called[c].op \in {"append", "set_metadata",
                                              "conditional_append", "commit"}
    BY DEF ToldUnlessServerTimedOut
  <2>1. CASE status[c] = "done" /\ \E x : told[c] = <<x>>
    <3>1. PICK x : told[c] = <<x>>
      BY <2>1
    <3>2. Len(told[c]) = 1
      BY <3>1
    <3> QED BY <2>1, <3>2
  <2>2. CASE told[c] = <<>> /\ (status[c] = "done" => c \in timedOut /\ called[c].op \in Silent)
    BY <2>2 DEF Silent
  <2> QED BY <1>1, <2>1, <2>2 DEF TransactionInv, ToldInv
<1> QED BY <1>1, TransactionInvariance, PTL
==============================================================================

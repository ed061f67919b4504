----------------------------- MODULE Transaction -----------------------------
(****************************************************************************)
(* transaction.hpp: an object with two flags in front of three requests.    *)
(* It is handed out when start_transaction succeeds; writes are added to it *)
(* on the server until async_commit; rollback() only sets a flag.  Other    *)
(* operations work on the same stream meanwhile.                            *)
(****************************************************************************)
EXTENDS StreamOperations

VARIABLES
  started,          \* the user holds the transaction object
  is_rolled_back,   \* is_rolled_back_
  is_committed,     \* is_committed_
  posted,           \* posted lambdas: a refused call and its error
  open,             \* the server's transaction: "none", "open", "committed"
  staged,           \* writes the server holds for the transaction
  baseVersion       \* the version the transaction expects at its commit

objectVars == <<started, is_rolled_back, is_committed, posted>>
serverVars == <<open, staged, baseVersion>>
vars == <<called, status, told, timedOut, wire, answer, events, deleted,
          started, is_rolled_back, is_committed, posted,
          open, staged, baseVersion>>

Init ==
  /\ OpsInit
  /\ started = FALSE
  /\ is_rolled_back = FALSE
  /\ is_committed = FALSE
  /\ posted = {}
  /\ open = "none"
  /\ staged = <<>>
  /\ baseVersion = AnyVersion

------------------------------------------------------------------------------
(* The user.                                                                *)

StartTransaction ==
  /\ \E expected \in {AnyVersion, Version("stream")} :
       Send(StartCall, "start", expected)
  /\ UNCHANGED <<started, is_rolled_back, is_committed, posted,
                 serverVars>>

\* A call the flags forbid: its handler is posted with the error, and
\* transaction_committed is looked at last.
Refuse(c, op) ==
  /\ NextCall(c)
  /\ called' = [called EXCEPT ![c] = [op |-> op, expected |-> AnyVersion]]
  /\ status' = [status EXCEPT ![c] = "posted"]
  /\ posted' = posted \cup {[call |-> c,
                             ec |-> IF is_committed THEN "transaction_committed"
                                    ELSE "transaction_rolled_back"]}
  /\ UNCHANGED <<told, timedOut, wire, answer, streamVars, is_committed>>

\* Mistake: the flag is not set before the request is sent.
async_commit_unflagged(c) ==
  /\ \/ /\ ~is_committed /\ ~is_rolled_back
        /\ Send(c, "commit", AnyVersion)
        /\ UNCHANGED <<posted, is_committed>>
     \/ /\ is_committed \/ is_rolled_back
        /\ Refuse(c, "commit")
  /\ UNCHANGED <<started, is_rolled_back, serverVars>>

\* The flag is set before the request is sent and never cleared, so a commit
\* that fails cannot be tried again.
async_commit(c) ==
  /\ \/ /\ ~is_committed /\ ~is_rolled_back
        /\ is_committed' = TRUE
        /\ Send(c, "commit", AnyVersion)
        /\ UNCHANGED posted
     \/ /\ is_committed \/ is_rolled_back
        /\ Refuse(c, "commit")
  /\ UNCHANGED <<started, is_rolled_back, serverVars>>

async_write(c) ==
  /\ \/ /\ ~is_committed /\ ~is_rolled_back
        /\ Send(c, "write", AnyVersion)
        /\ UNCHANGED <<posted, is_committed>>
     \/ /\ is_committed \/ is_rolled_back
        /\ Refuse(c, "write")
  /\ UNCHANGED <<started, is_rolled_back, serverVars>>

\* Mistake: a commit that was sent is not looked at.
rollback_always ==
  /\ is_rolled_back' = TRUE
  /\ UNCHANGED <<opsVars, started, is_committed, posted, serverVars>>

\* After a commit was sent it returns transaction_committed and changes
\* nothing; otherwise it sets the flag.  Nothing is sent.
rollback ==
  /\ ~is_committed
  /\ is_rolled_back' = TRUE
  /\ UNCHANGED <<opsVars, started, is_committed, posted, serverVars>>

RunPosted ==
  \E p \in posted :
    /\ posted' = posted \ {p}
    /\ told' = [told EXCEPT ![p.call] = <<p.ec>>]
    /\ status' = [status EXCEPT ![p.call] = "done"]
    /\ UNCHANGED <<called, timedOut, wire, answer, streamVars, started,
                   is_rolled_back, is_committed, serverVars>>

\* The handler of start_transaction makes the object when it tells success.
Complete(c) ==
  /\ HandleAnswer(c) \/ HandleTimeout(c)
  /\ started' = (started \/ told'[StartCall] = <<"success">>)
  /\ UNCHANGED <<is_rolled_back, is_committed, posted, serverVars>>

------------------------------------------------------------------------------
(* The server (external).  The expected version is checked at the commit.   *)

Executed(c) == Answers(c, {"Success", "Timeout"})
Refused(c, results) ==
  Answers(c, results \cup {"Timeout", "InvalidTransaction", "AccessDenied"})

ServerStarts ==
  /\ Receive(StartCall)
  /\ \/ /\ Executed(StartCall)
        /\ open' = "open"
        /\ baseVersion' = called[StartCall].expected
     \/ /\ Refused(StartCall, WriteConflict(StartCall))
        /\ UNCHANGED <<open, baseVersion>>
  /\ UNCHANGED <<streamVars, objectVars, staged>>

ServerWrites(c) ==
  /\ c \in WriteCall
  /\ Receive(c)
  /\ \/ /\ open = "open"
        /\ Executed(c)
        /\ staged' = Append(staged, c)
     \/ /\ Refused(c, {})
        /\ UNCHANGED staged
  /\ UNCHANGED <<streamVars, objectVars, open, baseVersion>>

ServerCommits(c) ==
  /\ c \in CommitCall
  /\ Receive(c)
  /\ LET conflict == IF deleted THEN {"StreamDeleted"}
                     ELSE IF baseVersion \in {AnyVersion, Version("stream")} THEN {}
                     ELSE {"WrongExpectedVersion"}
     IN
       \/ /\ open = "open"
          /\ conflict = {}
          /\ Executed(c)
          /\ open' = "committed"
          /\ events' = [events EXCEPT !.stream = @ \o staged]
       \/ /\ Refused(c, conflict)
          /\ UNCHANGED <<open, events>>
  /\ UNCHANGED <<deleted, objectVars, staged, baseVersion>>

------------------------------------------------------------------------------
Next ==
  \/ \E c \in SingleCall : CallOperation(c) /\ UNCHANGED <<objectVars, serverVars>>
  \/ StartTransaction
  \/ started /\ \E c \in WriteCall : async_write(c)
  \/ started /\ \E c \in CommitCall : async_commit(c)
  \/ started /\ rollback
  \/ RunPosted
  \/ \E c \in Call : Complete(c)
  \/ /\ \E c \in Call : ServerExecutes(c) \/ ServerRejects(c)
     /\ UNCHANGED <<objectVars, serverVars>>
  \/ ServerStarts
  \/ \E c \in Call : ServerWrites(c) \/ ServerCommits(c)

Spec == Init /\ [][Next]_vars

------------------------------------------------------------------------------
(* Properties.                                                              *)

Holds(seq, c) == \E i \in 1..Len(seq) : seq[i] = c

\* What success of a call says about the server.
TrueOnServer(c) ==
  LET op == called[c].op IN
  /\ op \in {"append", "conditional_append"} => Holds(events.stream, c)
  /\ op = "set_metadata" => Holds(events.metastream, c)
  /\ op = "delete" => deleted
  /\ op \in {"read_event", "read_events"} => events.stream # <<>>
  /\ op = "get_metadata" => events.metastream # <<>>
  /\ op = "start" => open # "none"
  /\ op = "write" => Holds(staged, c)
  /\ op = "commit" => open = "committed"

\* Success told to the user is a fact on the server, whatever the order of
\* answers, deadlines and other requests, except when the server answered
\* with a timeout of its own: delete_stream, start_transaction and
\* transactional_write report that as success.
SuccessIsTrue ==
  \A c \in Call :
    /\ told[c] = <<"success">> /\ c \notin timedOut => TrueOnServer(c)
    /\ told[c] \in {<<"stream_deleted">>, <<"is_deleted">>} => deleted

\* A commit told as successful loses no write told as successful, and keeps
\* the order of the async_write calls, although writes may still be in flight
\* when it is sent; a write the server timed out on may be missing.
CommitKeepsWrites ==
  (\E c \in CommitCall : told[c] = <<"success">>) =>
    /\ \A w \in WriteCall :
         told[w] = <<"success">> /\ w \notin timedOut => Holds(events.stream, w)
    /\ \A i, j \in 1..Len(events.stream) :
         /\ i < j
         /\ {events.stream[i], events.stream[j]} \subseteq WriteCall
         => events.stream[i][2] < events.stream[j][2]

\* Once rollback() has returned without an error nothing of the transaction
\* ever reaches the stream, whichever calls were made before and after.
RolledBackStaysOut ==
  is_rolled_back => \A w \in WriteCall : ~Holds(events.stream, w)

\* However often async_commit is called, and whatever became of the first
\* call, at most one commit of the transaction is sent.
CommitSentOnce ==
  \A c, d \in CommitCall :
    c # d /\ status[c] # "idle" /\ status[d] # "idle" =>
      \E e \in {c, d} : \/ status[e] = "posted"
                       \/ told[e] \in {<<"transaction_committed">>,
                                       <<"transaction_rolled_back">>}

\* A call that has ended has called its handler once, except that
\* append_to_stream, conditional_append_to_stream and commit_transaction keep
\* silent about a timeout reported by the server.
ToldUnlessServerTimedOut ==
  \A c \in Call :
    \/ Len(told[c]) = IF status[c] = "done" THEN 1 ELSE 0
    \/ /\ told[c] = <<>>
       /\ c \in timedOut
       /\ called[c].op \in {"append", "set_metadata", "conditional_append", "commit"}

==============================================================================

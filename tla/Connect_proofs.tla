---------------------------- MODULE Connect_proofs ----------------------------
(****************************************************************************)
(* Proofs about async_connect for any max_reconnections and any number of   *)
(* answers of the server.                                                   *)
(****************************************************************************)
EXTENDS Connect, SequenceTheorems, TLAPS

USE DEF opVars, serverVars

Timer == {"unused", "armed", "expired", "failed", "aborted", "done"}

------------------------------------------------------------------------------
(* The inductive invariant.                                                 *)

\* The requests are counted by the reconnections; the second identify_op is
\* not in use while the authentication handler can still be called, and the
\* first one only after the authentication timed out.
HandshakeInv ==
  /\ \A k \in Keys : deadline[k] = "unused" => requests[k] = 0 /\ k \notin operations_map
  /\ \A k \in Identify : requests[k] <= 1 + reconnections[k]
  /\ requests["auth"] <= 1
  /\ stage \in {"idle", "discovering", "connecting"} =>
       calls = <<>> /\ \A k \in Keys : deadline[k] = "unused"
  /\ "auth" \in operations_map =>
       /\ deadline["identify2"] = "unused"
       /\ deadline["auth"] # "done" => deadline["identify1"] = "unused"

\* Where "authenticated" is, the server said it.
GrantInv ==
  /\ \A k \in Identify : authenticated[k] => granted
  /\ \A i \in 1..Len(inbox) : inbox[i].cmd = "authenticated" => granted
  /\ SuccessOnlyIfGranted

\* How many calls of the user's handler operation k can still lead to without
\* another deadline ending.
Open(k) ==
  IF k \in operations_map
  THEN IF deadline[k] \in {"expired", "failed"} THEN 2 ELSE 1
  ELSE IF deadline[k] = "expired" THEN 1 ELSE 0

CallInv == Len(calls) + Open("auth") + Open("identify1") + Open("identify2") <= 1 + expiries

ConnectInv == TypeOK /\ HandshakeInv /\ GrantInv /\ CallInv

------------------------------------------------------------------------------
LEMMA KeyFacts ==
  /\ Keys = {"auth", "identify1", "identify2"} /\ Identify = {"identify1", "identify2"}
  /\ Identify \subseteq Keys /\ "auth" \notin Identify /\ "auth" \in Keys
  BY DEF Keys, Identify

LEMMA ConnectInit == Init => ConnectInv
<1> SUFFICES ASSUME Init PROVE ConnectInv
  OBVIOUS
<1>1. TypeOK
  <2>1. 0 \in 0..MaxReconnections /\ 0 \in 0..(1 + MaxReconnections) /\ 0 \in 0..MaxServerPackages
    BY ReconnectionsAssumption, AnswersAssumption
  <2>2. calls \in Seq(Result) /\ inbox \in Seq(Answer)
    BY EmptySeq DEF Init
  <2> QED BY <2>1, <2>2 DEF Init, TypeOK
<1>2. HandshakeInv
  BY KeyFacts, ReconnectionsAssumption DEF Init, HandshakeInv
<1>3. Len(<<>>) = 0 /\ 1..0 = {}
  OBVIOUS
<1>4. GrantInv
  BY <1>3 DEF Init, GrantInv, SuccessOnlyIfGranted
<1>5. CallInv
  <2>1. \A k \in Keys : Open(k) = 0
    BY DEF Init, Open
  <2> QED BY <1>3, <2>1, KeyFacts DEF Init, CallInv
<1> QED BY <1>1, <1>2, <1>4, <1>5 DEF ConnectInv

\* One more call of the user's handler.
LEMMA CallMade ==
  ASSUME TypeOK, GrantInv, NEW result \in Result, calls' = Append(calls, result)
  PROVE  /\ calls' \in Seq(Result) /\ Len(calls') = Len(calls) + 1 /\ Len(calls) \in Nat
         /\ (result = "success" => granted') /\ (granted => granted')
              => SuccessOnlyIfGranted'
<1>1. /\ calls' \in Seq(Result) /\ Len(calls') = Len(calls) + 1 /\ Len(calls) \in Nat
      /\ \A i \in 1..Len(calls) : calls'[i] = calls[i]
      /\ calls'[Len(calls) + 1] = result
  BY AppendProperties, LenProperties DEF TypeOK
<1>2. \A i \in 1..Len(calls') : (i \in 1..Len(calls) /\ calls'[i] = calls[i]) \/ calls'[i] = result
  BY <1>1
<1> QED BY <1>1, <1>2 DEF GrantInv, SuccessOnlyIfGranted

\* What operation k can still lead to bounds the calls.
LEMMA CallsCounted ==
  ASSUME CallInv, NEW k \in Keys, \A j \in Keys : j # k => Open(j)' = Open(j),
         Len(calls) \in Nat, Len(calls') \in Nat, expiries \in Nat, expiries' \in Nat,
         Len(calls') + Open(k)' + expiries <= Len(calls) + Open(k) + expiries'
  PROVE  CallInv'
<1>1. \A j \in Keys : Open(j) \in Nat /\ Open(j)' \in Nat
  BY DEF Open
<1>2. /\ Open("auth") \in Nat /\ Open("identify1") \in Nat /\ Open("identify2") \in Nat
      /\ Open("auth")' \in Nat /\ Open("identify1")' \in Nat /\ Open("identify2")' \in Nat
  BY <1>1, KeyFacts
<1>3. PICK l \in Nat, a \in Nat, b \in Nat, c \in Nat, e \in Nat :
        /\ l = Len(calls) /\ e = expiries
        /\ a = Open("auth") /\ b = Open("identify1") /\ c = Open("identify2")
  BY <1>2
<1>4. PICK l1 \in Nat, a1 \in Nat, b1 \in Nat, c1 \in Nat, e1 \in Nat :
        /\ l1 = Len(calls') /\ e1 = expiries'
        /\ a1 = Open("auth")' /\ b1 = Open("identify1")' /\ c1 = Open("identify2")'
  BY <1>2
<1>5. l + a + b + c <= 1 + e
  BY <1>3 DEF CallInv
<1>6. \/ b1 = b /\ c1 = c /\ l1 + a1 + e <= l + a + e1
      \/ a1 = a /\ c1 = c /\ l1 + b1 + e <= l + b + e1
      \/ a1 = a /\ b1 = b /\ l1 + c1 + e <= l + c + e1
  <2>1. CASE k = "auth"
    BY <1>3, <1>4, <2>1, KeyFacts
  <2>2. CASE k = "identify1"
    BY <1>3, <1>4, <2>2, KeyFacts
  <2>3. CASE k = "identify2"
    BY <1>3, <1>4, <2>3, KeyFacts
  <2> QED BY <2>1, <2>2, <2>3, KeyFacts
<1>7. l1 + a1 + b1 + c1 <= 1 + e1
  BY <1>5, <1>6
<1> QED BY <1>4, <1>7 DEF CallInv

\* The identify_op that the authentication handler starts is a new one.
LEMMA NextIsUnused ==
  ASSUME TypeOK, HandshakeInv, "auth" \in operations_map
  PROVE  /\ NextIdentify \in Identify /\ deadline[NextIdentify] = "unused"
         /\ requests[NextIdentify] = 0 /\ NextIdentify \notin operations_map
         /\ deadline["auth"] # "done" => NextIdentify = "identify1"
  BY KeyFacts DEF NextIdentify, HandshakeInv

------------------------------------------------------------------------------
(* The steps before the handshake.                                          *)

LEMMA EarlyStep ==
  ASSUME ConnectInv, AsyncConnect \/ Discovered \/ DiscoveryFails \/ ConnectFails
  PROVE  ConnectInv'
<1> USE DEF ConnectInv
<1>1. CASE AsyncConnect \/ Discovered
  <2>1. TypeOK'
    BY <1>1 DEF AsyncConnect, Discovered, TypeOK
  <2>2. HandshakeInv'
    BY <1>1 DEF AsyncConnect, Discovered, HandshakeInv
  <2>3. GrantInv' /\ CallInv'
    BY <1>1 DEF AsyncConnect, Discovered, GrantInv, SuccessOnlyIfGranted, CallInv, Open
  <2> QED BY <2>1, <2>2, <2>3
<1>2. CASE DiscoveryFails \/ ConnectFails
  <2>1. PICK result \in Result : result # "success" /\ calls' = Append(calls, result)
    BY <1>2 DEF DiscoveryFails, ConnectFails, Result
  <2>2. /\ stage' = "failed"
        /\ UNCHANGED <<opVars, thrown, serverVars, expiries, ignored>>
        /\ calls = <<>> /\ \A k \in Keys : deadline[k] = "unused"
    BY <1>2 DEF DiscoveryFails, ConnectFails, HandshakeInv
  <2>3. TypeOK'
    BY <2>1, <2>2, CallMade DEF TypeOK
  <2>4. HandshakeInv'
    BY <2>2 DEF HandshakeInv
  <2>5. GrantInv'
    <3>1. SuccessOnlyIfGranted'
      BY <2>1, <2>2, CallMade
    <3> QED BY <2>2, <3>1 DEF GrantInv
  <2>6. CallInv'
    <3>1. \A k \in Keys : Open(k)' = 0
      BY <2>2 DEF Open, HandshakeInv
    <3>2. Len(calls') = 1
      BY <2>1, <2>2, CallMade
    <3> QED BY <2>2, <3>1, <3>2, KeyFacts DEF CallInv, TypeOK
  <2> QED BY <2>3, <2>4, <2>5, <2>6
<1> QED BY <1>1, <1>2

LEMMA ConnectedStep ==
  ASSUME ConnectInv, TcpConnected
  PROVE  ConnectInv'
<1> USE DEF ConnectInv
<1> DEFINE k == IF credentials THEN "auth" ELSE "identify1"
<1>0. /\ k \in Keys
      /\ calls = <<>> /\ \A j \in Keys : deadline[j] = "unused" /\ requests[j] = 0
                                         /\ j \notin operations_map
  BY KeyFacts DEF TcpConnected, HandshakeInv
<1>1. /\ stage' = "handshake"
      /\ requests' = [requests EXCEPT ![k] = 1]
      /\ operations_map' = operations_map \cup {k}
      /\ deadline' = [deadline EXCEPT ![k] = "armed"]
      /\ UNCHANGED <<credentials, reconnections, authenticated, calls, thrown,
                     serverVars, expiries, ignored>>
  <2>1. /\ stage' = "handshake" /\ initiate(k, operations_map, deadline)
        /\ UNCHANGED <<credentials, reconnections, authenticated, calls, thrown,
                       serverVars, expiries, ignored>>
    BY DEF TcpConnected
  <2> HIDE DEF k
  <2>2. requests[k] + 1 = 1
    BY <1>0
  <2> QED BY <2>1, <2>2 DEF initiate
<1> HIDE DEF k
<1>2. TypeOK'
  BY <1>0, <1>1, ReconnectionsAssumption DEF TypeOK
<1>3. HandshakeInv'
  BY <1>0, <1>1, KeyFacts, ReconnectionsAssumption DEF TypeOK, HandshakeInv
<1>4. GrantInv'
  BY <1>1 DEF GrantInv, SuccessOnlyIfGranted
<1>5. CallInv'
  <2>1. \A j \in Keys : Open(j)' = IF j = k THEN 1 ELSE 0
    BY <1>0, <1>1 DEF Open, TypeOK
  <2>2. Len(calls') = 0
    BY <1>0, <1>1
  <2> QED BY <1>0, <1>1, <2>1, <2>2, KeyFacts DEF CallInv, TypeOK
<1> QED BY <1>2, <1>3, <1>4, <1>5

------------------------------------------------------------------------------
(* The handshake.                                                           *)

\* The authentication handler starts an identify_op.  timer is what becomes of
\* the deadline of the authentication, map what is left in operations_map_.
LEMMA AuthHandled ==
  ASSUME ConnectInv, "auth" \in operations_map, NEW n, n = NextIdentify,
         NEW map \in SUBSET Keys, NEW timer \in Timer, NEW auth \in BOOLEAN,
         initiate(n, map, [deadline EXCEPT !["auth"] = timer]),
         timer # "unused" \/ deadline["auth"] = "unused",
         \/ map = operations_map \ {"auth"} /\ timer \in {deadline["auth"], "aborted"}
         \/ /\ map = operations_map /\ timer = "done"
            /\ deadline["auth"] \in {"expired", "failed"},
         authenticated' = [authenticated EXCEPT ![n] = auth],
         auth => granted, granted' = granted,
         inbox' = inbox \/ (inbox # <<>> /\ inbox' = Tail(inbox)),
         UNCHANGED <<credentials, stage, reconnections, calls, thrown, served, expiries, ignored>>
  PROVE  ConnectInv'
<1> USE DEF ConnectInv
<1>0. /\ n \in Identify /\ deadline[n] = "unused" /\ requests[n] = 0 /\ n \notin operations_map
      /\ deadline["auth"] # "done" => n = "identify1"
      /\ n \in Keys /\ n # "auth"
  BY NextIsUnused, KeyFacts
<1>1. /\ requests' = [requests EXCEPT ![n] = 1]
      /\ operations_map' = map \cup {n}
      /\ deadline' = [deadline EXCEPT !["auth"] = timer, ![n] = "armed"]
      /\ authenticated' = [authenticated EXCEPT ![n] = auth]
  <2>1. requests[n] + 1 = 1
    BY <1>0
  <2> QED BY <2>1 DEF initiate
<1>2. /\ deadline'["auth"] = timer /\ deadline'[n] = "armed"
      /\ \A j \in Keys \ {"auth", n} : deadline'[j] = deadline[j]
      /\ deadline' \in [Keys -> Timer]
  BY <1>0, <1>1, KeyFacts DEF TypeOK, Timer
<1>3. stage \notin {"idle", "discovering", "connecting"}
  BY KeyFacts DEF HandshakeInv
<1>4. TypeOK'
  <2>1. inbox' \in Seq(Answer)
    <3>1. inbox # <<>> => Tail(inbox) \in Seq(Answer)
      BY HeadTailProperties DEF TypeOK
    <3> QED BY <3>1 DEF TypeOK
  <2>2. /\ requests' \in [Keys -> 0..(1 + MaxReconnections)]
        /\ authenticated' \in [Identify -> BOOLEAN]
        /\ operations_map' \in SUBSET Keys
    <3>1. 1 \in 0..(1 + MaxReconnections)
      BY ReconnectionsAssumption
    <3> QED BY <1>0, <1>1, <3>1 DEF TypeOK
  <2> QED BY <1>2, <2>1, <2>2 DEF TypeOK, Timer
<1>5. HandshakeInv'
  <2>1. \A k \in Keys : deadline'[k] = "unused" => requests'[k] = 0 /\ k \notin operations_map'
    BY <1>0, <1>1, <1>2 DEF HandshakeInv, TypeOK
  <2>2. \A k \in Identify : requests'[k] <= 1 + reconnections'[k]
    BY <1>0, <1>1, KeyFacts DEF HandshakeInv, TypeOK
  <2>3. requests'["auth"] <= 1
    BY <1>0, <1>1, KeyFacts DEF HandshakeInv, TypeOK
  <2>4. "auth" \in operations_map' =>
          /\ deadline'["identify2"] = "unused"
          /\ deadline'["auth"] # "done" => deadline'["identify1"] = "unused"
    BY <1>0, <1>1, <1>2, KeyFacts DEF HandshakeInv
  <2> QED BY <1>3, <2>1, <2>2, <2>3, <2>4 DEF HandshakeInv
<1>6. GrantInv'
  <2>1. \A i \in 1..Len(inbox') : inbox'[i].cmd = "authenticated" => granted'
    <3>1. CASE inbox' = inbox
      BY <3>1 DEF GrantInv
    <3>2. CASE inbox # <<>> /\ inbox' = Tail(inbox)
      <4>1. /\ Len(inbox) \in Nat /\ Len(inbox') = Len(inbox) - 1
            /\ \A i \in 1..Len(inbox') : inbox'[i] = inbox[i + 1]
        BY <3>2, HeadTailProperties, LenProperties DEF TypeOK
      <4>2. \A i \in 1..Len(inbox') : i + 1 \in 1..Len(inbox) /\ inbox'[i] = inbox[i + 1]
        BY <4>1
      <4> QED BY <4>2 DEF GrantInv
    <3> QED BY <3>1, <3>2
  <2>2. \A k \in Identify : authenticated'[k] => granted'
    BY <1>0, <1>1 DEF GrantInv, TypeOK
  <2> QED BY <2>1, <2>2 DEF GrantInv, SuccessOnlyIfGranted
<1>7. CallInv'
  <2>1. Open(n) = 0 /\ Open(n)' = 1
    BY <1>0, <1>1, <1>2 DEF Open
  <2>2. \A j \in Keys \ {"auth", n} : Open(j)' = Open(j)
    BY <1>1, <1>2 DEF Open
  <2>3. Open("auth")' + 1 <= Open("auth")
    BY <1>0, <1>1, <1>2 DEF Open
  <2>4. \A j \in Keys : Open(j) \in 0..2 /\ Open(j)' \in 0..2
    BY DEF Open
  <2>5. Open("identify1")' + Open("identify2")' = Open("identify1") + Open("identify2") + 1
    <3>1. CASE n = "identify1"
      BY <2>1, <2>2, <2>4, <3>1, KeyFacts
    <3>2. CASE n = "identify2"
      BY <2>1, <2>2, <2>4, <3>2, KeyFacts
    <3> QED BY <1>0, <3>1, <3>2, KeyFacts
  <2>6. Len(calls) \in Nat /\ expiries \in Nat
    BY LenProperties DEF TypeOK
  <2> QED BY <2>3, <2>4, <2>5, <2>6, KeyFacts DEF CallInv
<1> QED BY <1>4, <1>5, <1>6, <1>7

LEMMA InboxTaken ==
  ASSUME TypeOK, GrantInv, inbox # <<>>, inbox' = Tail(inbox), granted' = granted
  PROVE  /\ inbox' \in Seq(Answer) /\ Head(inbox) \in Answer
         /\ Head(inbox).cmd = "authenticated" => granted
         /\ \A i \in 1..Len(inbox') : inbox'[i].cmd = "authenticated" => granted'
<1>1. /\ inbox' \in Seq(Answer) /\ Head(inbox) \in Answer /\ Head(inbox) = inbox[1]
      /\ Len(inbox) \in Nat \ {0} /\ Len(inbox') = Len(inbox) - 1
      /\ \A i \in 1..Len(inbox') : inbox'[i] = inbox[i + 1]
  BY HeadTailProperties, LenProperties, EmptySeq DEF TypeOK
<1>2. 1 \in 1..Len(inbox)
  BY <1>1
<1>3. \A i \in 1..Len(inbox') : i + 1 \in 1..Len(inbox) /\ inbox'[i] = inbox[i + 1]
  BY <1>1
<1>4. inbox[1].cmd = "authenticated" => granted
  BY <1>2, Zenon DEF GrantInv
<1> QED BY <1>1, <1>3, <1>4 DEF GrantInv

\* A handler is called with an answer and erased; it may call the user.
LEMMA Released ==
  ASSUME ConnectInv, NEW k \in Keys, k \in operations_map,
         operations_map' = operations_map \ {k}, deadline' = Cancelled(k),
         inbox # <<>>, inbox' = Tail(inbox), ignored' \in BOOLEAN,
         \/ calls' = calls
         \/ \E result \in Result : /\ calls' = Append(calls, result)
                                   /\ result = "success" => granted,
         UNCHANGED <<credentials, stage, reconnections, authenticated, thrown, requests,
                     served, granted, expiries>>
  PROVE  ConnectInv'
<1> USE DEF ConnectInv
<1>0. stage \notin {"idle", "discovering", "connecting"}
  BY DEF HandshakeInv
<1>1. /\ calls' \in Seq(Result) /\ SuccessOnlyIfGranted'
      /\ Len(calls) \in Nat /\ Len(calls') \in Nat /\ Len(calls') <= Len(calls) + 1
  <2>0. calls \in Seq(Result) /\ Len(calls) \in Nat
    BY LenProperties DEF TypeOK
  <2>1. CASE calls' = calls
    BY <2>0, <2>1 DEF GrantInv, SuccessOnlyIfGranted
  <2>2. CASE calls' # calls
    <3>1. PICK result \in Result : calls' = Append(calls, result)
                                   /\ (result = "success" => granted)
      BY <2>2
    <3> QED BY <2>0, <3>1, CallMade
  <2> QED BY <2>1, <2>2
<1>2. TypeOK'
  <2>1. inbox' \in Seq(Answer)
    BY InboxTaken
  <2>2. deadline' \in [Keys -> Timer]
    BY DEF Cancelled, TypeOK, Timer
  <2> QED BY <1>1, <2>1, <2>2 DEF TypeOK, Timer
<1>3. HandshakeInv'
  BY <1>0, KeyFacts DEF HandshakeInv, Cancelled, TypeOK
<1>4. GrantInv'
  BY <1>1, InboxTaken DEF GrantInv
<1>5. CallInv'
  <2>1. \A j \in Keys : Open(j) \in 0..2 /\ Open(j)' \in 0..2
    BY DEF Open
  <2>2. \A j \in Keys : j # k => Open(j)' = Open(j)
    BY DEF Open, Cancelled, TypeOK
  <2>3. Open(k)' + 1 <= Open(k)
    BY DEF Open, Cancelled, TypeOK
  <2>4. expiries \in Nat
    BY DEF TypeOK
  <2>5. Len(calls') + Open(k)' + expiries <= Len(calls) + Open(k) + expiries'
    BY <1>1, <2>1, <2>3, <2>4
  <2> QED BY <1>1, <2>2, <2>4, <2>5, CallsCounted
<1> QED BY <1>2, <1>3, <1>4, <1>5

LEMMA PackageStep ==
  ASSUME ConnectInv, HandlePackage
  PROVE  ConnectInv'
<1> USE DEF ConnectInv
<1> DEFINE p == Head(inbox)
<1>0. /\ inbox # <<>> /\ inbox' = Tail(inbox)
      /\ UNCHANGED <<credentials, stage, reconnections, thrown, served, granted, expiries>>
  BY DEF HandlePackage
<1>1. /\ inbox' \in Seq(Answer) /\ p \in Answer
      /\ p.cmd = "authenticated" => granted
      /\ \A i \in 1..Len(inbox') : inbox'[i].cmd = "authenticated" => granted'
  BY <1>0, InboxTaken
<1> HIDE DEF p
<1>2. CASE p.corr = "auth" /\ "auth" \in operations_map /\ AuthAnswered(p.cmd)
  <2>1. CASE /\ p.cmd \in {"authenticated", "not_authenticated"}
             /\ initiate(NextIdentify, operations_map \ {"auth"}, Cancelled("auth"))
             /\ authenticated' = [authenticated EXCEPT ![NextIdentify]
                                                         = (p.cmd = "authenticated")]
             /\ UNCHANGED <<ignored, calls>>
    <3> DEFINE timer == IF deadline["auth"] = "armed" THEN "aborted" ELSE deadline["auth"]
               map == operations_map \ {"auth"}
               auth == (p.cmd = "authenticated")
    <3>1. PICK n : n = NextIdentify
      OBVIOUS
    <3>2. /\ map \in SUBSET Keys /\ timer \in Timer /\ auth \in BOOLEAN
          /\ timer \in {deadline["auth"], "aborted"}
          /\ timer # "unused" \/ deadline["auth"] = "unused"
          /\ auth => granted
      BY <1>1, KeyFacts DEF TypeOK, Timer
    <3>3. /\ initiate(n, map, [deadline EXCEPT !["auth"] = timer])
          /\ authenticated' = [authenticated EXCEPT ![n] = auth]
      BY <2>1, <3>1, KeyFacts DEF Cancelled, TypeOK
    <3>4. PICK t, m, a : t = timer /\ m = map /\ a = auth
      OBVIOUS
    <3> HIDE DEF timer, map, auth
    <3>5. m = operations_map \ {"auth"}
      BY <3>4 DEF map
    <3> QED BY <1>0, <1>2, <2>1, <3>1, <3>2, <3>3, <3>4, <3>5, AuthHandled
  <2>2. CASE /\ operations_map' = operations_map \ {"auth"} /\ deadline' = Cancelled("auth")
             /\ ignored' = TRUE /\ UNCHANGED <<requests, authenticated, calls>>
    BY <1>0, <1>2, <2>2, Released, KeyFacts
  <2> QED BY <1>2, <2>1, <2>2 DEF AuthAnswered
<1>3. CASE p.corr \in Identify /\ p.corr \in operations_map /\ IdentifyAnswered(p.corr, p.cmd)
  <2>1. PICK k \in Identify : k = p.corr
    BY <1>3
  <2>2. /\ k \in Keys /\ k \in operations_map
        /\ operations_map' = operations_map \ {k} /\ deadline' = Cancelled(k)
        /\ UNCHANGED <<requests, authenticated>> /\ ignored' \in BOOLEAN
    BY <1>3, <2>1, KeyFacts DEF IdentifyAnswered, TypeOK
  <2>3. \/ calls' = calls
        \/ \E result \in Result : calls' = Append(calls, result)
                                  /\ (result = "success" => granted)
    BY <1>3, <2>1 DEF IdentifyAnswered, Result, GrantInv
  <2> QED BY <1>0, <2>2, <2>3, Released
<1>4. CASE UNCHANGED <<operations_map, deadline, requests, authenticated, calls, ignored>>
  <2>1. TypeOK' /\ HandshakeInv'
    BY <1>0, <1>1, <1>4 DEF TypeOK, HandshakeInv
  <2>2. GrantInv' /\ CallInv'
    BY <1>0, <1>1, <1>4 DEF GrantInv, SuccessOnlyIfGranted, CallInv, Open
  <2> QED BY <2>1, <2>2
<1> QED BY <1>2, <1>3, <1>4 DEF HandlePackage, p

\* The deadline of k ends, is armed again, or is done: only k, the calls and
\* what is counted with them change.
LEMMA TimerMoved ==
  ASSUME ConnectInv, NEW k \in Keys, NEW timer \in Timer \ {"unused"},
         deadline' = [deadline EXCEPT ![k] = timer], deadline[k] # "unused",
         k = "auth" => timer # "done",
         \/ operations_map' = operations_map /\ requests' = requests
         \/ /\ k \in Identify /\ operations_map' = operations_map \cup {k}
            /\ requests' = [requests EXCEPT ![k] = @ + 1]
            /\ reconnections'[k] = reconnections[k] + 1,
         k = "auth" => deadline["auth"] # "done",
         reconnections' \in [Identify -> 0..MaxReconnections],
         \A j \in Identify : reconnections[j] <= reconnections'[j],
         expiries' \in Nat, calls' \in Seq(Result), SuccessOnlyIfGranted',
         Len(calls') + Open(k)' + expiries <= Len(calls) + Open(k) + expiries',
         UNCHANGED <<credentials, stage, authenticated, thrown, inbox, served, granted, ignored>>
  PROVE  ConnectInv'
<1> USE DEF ConnectInv
<1>0. stage \notin {"idle", "discovering", "connecting"}
  BY DEF HandshakeInv
<1>1. deadline'[k] = timer /\ \A j \in Keys : j # k => deadline'[j] = deadline[j]
  BY DEF TypeOK
<1>2. HandshakeInv'
  <2>1. \A j \in Keys : deadline'[j] = "unused" => requests'[j] = 0 /\ j \notin operations_map'
    BY <1>1 DEF HandshakeInv, TypeOK
  <2>2. ASSUME NEW j \in Identify PROVE requests'[j] <= 1 + reconnections'[j]
    <3>1. /\ requests[j] \in Nat /\ reconnections[j] \in Nat /\ reconnections'[j] \in Nat
          /\ requests[j] <= 1 + reconnections[j] /\ reconnections[j] <= reconnections'[j]
      <4>0. j \in Keys
        BY KeyFacts
      <4>1. requests[j] \in 0..(1 + MaxReconnections)
        BY <4>0 DEF TypeOK
      <4>2. reconnections[j] \in 0..MaxReconnections /\ reconnections'[j] \in 0..MaxReconnections
        BY DEF TypeOK
      <4>3. requests[j] <= 1 + reconnections[j] /\ reconnections[j] <= reconnections'[j]
        BY DEF HandshakeInv
      <4> QED BY <4>1, <4>2, <4>3, ReconnectionsAssumption
    <3>2. CASE requests'[j] = requests[j]
      BY <3>1, <3>2
    <3>3. CASE requests'[j] # requests[j]
      <4>1. requests'[j] = requests[j] + 1 /\ reconnections'[j] = reconnections[j] + 1
        BY <3>3, KeyFacts DEF TypeOK
      <4> QED BY <3>1, <4>1
    <3> QED BY <3>2, <3>3
  <2>3. requests'["auth"] <= 1
    BY KeyFacts DEF HandshakeInv, TypeOK
  <2>4. "auth" \in operations_map' =>
          /\ deadline'["identify2"] = "unused"
          /\ deadline'["auth"] # "done" => deadline'["identify1"] = "unused"
    BY <1>1, KeyFacts DEF HandshakeInv, TypeOK
  <2> QED BY <1>0, <2>1, <2>2, <2>3, <2>4 DEF HandshakeInv
<1>3. TypeOK'
  <2>1. deadline' \in [Keys -> Timer]
    BY DEF TypeOK, Timer
  <2>2. requests' \in [Keys -> 0..(1 + MaxReconnections)]
    <3> SUFFICES ASSUME NEW j \in Keys
                 PROVE  requests'[j] \in Nat /\ requests'[j] <= 1 + MaxReconnections
      BY ReconnectionsAssumption DEF TypeOK
    <3>1. requests'[j] \in Nat
      <4>1. \A i \in Keys : requests[i] \in Nat /\ requests[i] + 1 \in Nat
        BY ReconnectionsAssumption DEF TypeOK
      <4>2. DOMAIN requests = Keys
        BY DEF TypeOK
      <4>3. requests'[j] = requests[j] \/ requests'[j] = requests[j] + 1
        BY <4>2
      <4> QED BY <4>1, <4>3
    <3>2. CASE j = "auth"
      BY <1>2, <3>1, <3>2, ReconnectionsAssumption DEF HandshakeInv
    <3>3. CASE j \in Identify
      <4>1. /\ requests'[j] <= 1 + reconnections'[j] /\ reconnections'[j] \in Nat
            /\ reconnections'[j] <= MaxReconnections
        BY <1>2, <3>3, ReconnectionsAssumption DEF HandshakeInv
      <4> QED BY <3>1, <4>1, ReconnectionsAssumption
    <3> QED BY <3>2, <3>3, KeyFacts
  <2>3. operations_map' \in SUBSET Keys
    BY DEF TypeOK
  <2> QED BY <2>1, <2>2, <2>3 DEF TypeOK, Timer
<1>4. GrantInv'
  BY DEF GrantInv
<1>5. CallInv'
  <2>1. \A j \in Keys : Open(j) \in 0..2 /\ Open(j)' \in 0..2
    BY DEF Open
  <2>2. \A j \in Keys : j # k => Open(j)' = Open(j)
    BY <1>1 DEF Open
  <2>3. expiries \in Nat /\ Len(calls) \in Nat /\ Len(calls') \in Nat
    BY LenProperties DEF TypeOK
  <2> QED BY <2>2, <2>3, CallsCounted
<1> QED BY <1>2, <1>3, <1>4, <1>5

LEMMA DeadlineStep ==
  ASSUME ConnectInv, NEW k \in Keys, DeadlineEnds(k)
  PROVE  ConnectInv'
<1> USE DEF ConnectInv
<1>1. PICK how \in {"expired", "failed"} : deadline' = [deadline EXCEPT ![k] = how]
  BY DEF DeadlineEnds
<1>2. /\ deadline[k] = "armed" /\ expiries' = expiries + 1
      /\ UNCHANGED <<credentials, stage, operations_map, reconnections, authenticated,
                     calls, thrown, requests, inbox, served, granted, ignored>>
  BY DEF DeadlineEnds
<1>3. how \in Timer \ {"unused"} /\ how # "done"
  BY DEF Timer
<1>4. expiries \in Nat /\ expiries' \in Nat /\ Len(calls) \in Nat
  BY <1>2, LenProperties DEF TypeOK
<1>5. Open(k) \in Nat /\ Open(k)' \in Nat /\ Open(k)' <= Open(k) + 1
  BY <1>1, <1>2 DEF Open, TypeOK
<1>6. Len(calls') + Open(k)' + expiries <= Len(calls) + Open(k) + expiries'
  BY <1>2, <1>4, <1>5
<1>7. /\ reconnections' \in [Identify -> 0..MaxReconnections] /\ calls' \in Seq(Result)
      /\ SuccessOnlyIfGranted'
  BY <1>2 DEF TypeOK, GrantInv, SuccessOnlyIfGranted
<1>8. \A j \in Identify : reconnections[j] <= reconnections'[j]
  BY <1>2, ReconnectionsAssumption DEF TypeOK
<1> QED BY <1>1, <1>2, <1>3, <1>4, <1>6, <1>7, <1>8, TimerMoved

\* Sending the request again opens no further call.
LEMMA RetryStep ==
  ASSUME ConnectInv, NEW k \in Identify, RetryIdentify(k)
  PROVE  ConnectInv'
<1> USE DEF ConnectInv
<1>0. k \in Keys /\ k # "auth"
  BY KeyFacts
<1>1. /\ deadline[k] = "expired" /\ reconnections[k] < MaxReconnections
      /\ reconnections' = [reconnections EXCEPT ![k] = @ + 1]
      /\ deadline' = [deadline EXCEPT ![k] = "armed"]
      /\ operations_map' = operations_map \cup {k}
      /\ requests' = [requests EXCEPT ![k] = @ + 1]
      /\ UNCHANGED <<credentials, stage, authenticated, calls, thrown, inbox, served, granted,
                     expiries, ignored>>
  BY DEF RetryIdentify, Reconnects, initiate
<1>2. \A j \in Identify : reconnections[j] \in Nat /\ reconnections[j] <= MaxReconnections
  BY ReconnectionsAssumption DEF TypeOK
<1>3. /\ reconnections'[k] = reconnections[k] + 1
      /\ \A j \in Identify : j # k => reconnections'[j] = reconnections[j]
      /\ reconnections' = [j \in Identify |-> reconnections'[j]]
  BY <1>1 DEF TypeOK
<1>4. reconnections'[k] \in 0..MaxReconnections /\ reconnections[k] <= reconnections'[k]
  BY <1>1, <1>2, <1>3, ReconnectionsAssumption
<1>5. \A j \in Identify : /\ reconnections'[j] \in 0..MaxReconnections
                          /\ reconnections[j] <= reconnections'[j]
  BY <1>2, <1>3, <1>4, ReconnectionsAssumption
<1>6. reconnections' \in [Identify -> 0..MaxReconnections]
  BY <1>3, <1>5
<1>7. /\ expiries' \in Nat /\ calls' \in Seq(Result) /\ SuccessOnlyIfGranted'
      /\ expiries \in Nat /\ Len(calls) \in Nat
  BY <1>1, LenProperties DEF TypeOK, GrantInv, SuccessOnlyIfGranted
<1>8. Open(k) \in Nat /\ Open(k)' \in Nat /\ Open(k)' <= Open(k)
  BY <1>0, <1>1 DEF Open, TypeOK
<1>9. Len(calls') + Open(k)' + expiries <= Len(calls) + Open(k) + expiries'
  BY <1>1, <1>7, <1>8
<1>10. "armed" \in Timer \ {"unused"}
  BY DEF Timer
<1> QED BY <1>0, <1>1, <1>3, <1>5, <1>6, <1>7, <1>9, <1>10, TimerMoved

LEMMA TimeoutStep ==
  ASSUME ConnectInv, NEW k \in Keys, HandleTimeout(k)
  PROVE  ConnectInv'
<1> USE DEF ConnectInv
<1>0. /\ deadline[k] \in {"expired", "failed"}
      /\ UNCHANGED <<credentials, stage, reconnections, inbox, served, granted, expiries, ignored>>
  BY DEF HandleTimeout
<1>1. CASE /\ k = "auth" /\ k \in operations_map
           /\ initiate(NextIdentify, operations_map, [deadline EXCEPT ![k] = "done"])
           /\ authenticated' = [authenticated EXCEPT ![NextIdentify] = FALSE]
           /\ UNCHANGED <<calls, thrown>>
  <2>1. PICK n : n = NextIdentify
    OBVIOUS
  <2>2. PICK map \in SUBSET Keys : map = operations_map
    BY DEF TypeOK
  <2>3. "done" \in Timer /\ FALSE \in BOOLEAN
    BY DEF Timer
  <2>4. /\ initiate(n, map, [deadline EXCEPT !["auth"] = "done"])
        /\ authenticated' = [authenticated EXCEPT ![n] = FALSE]
    BY <1>1, <2>1, <2>2
  <2> QED BY <1>0, <1>1, <2>1, <2>2, <2>3, <2>4, AuthHandled
<1>2. CASE /\ k \in Identify /\ k \in operations_map
           /\ calls' = Append(calls, IF deadline[k] = "expired" THEN "operation_timeout"
                                     ELSE "timer_error")
           /\ deadline' = [deadline EXCEPT ![k] = "done"]
           /\ UNCHANGED <<operations_map, requests, authenticated, thrown>>
  <2>1. PICK result \in Result : calls' = Append(calls, result) /\ result # "success"
    BY <1>2 DEF Result
  <2>2. /\ calls' \in Seq(Result) /\ Len(calls') = Len(calls) + 1 /\ Len(calls) \in Nat
        /\ SuccessOnlyIfGranted'
    BY <1>0, <2>1, CallMade
  <2>3. Open(k) = 2 /\ Open(k)' = 1
    BY <1>0, <1>2 DEF Open, TypeOK
  <2>4. expiries' = expiries /\ expiries \in Nat
    BY <1>0 DEF TypeOK
  <2>5. Len(calls') + Open(k)' + expiries <= Len(calls) + Open(k) + expiries'
    BY <2>2, <2>3, <2>4
  <2>6. /\ reconnections' \in [Identify -> 0..MaxReconnections]
        /\ \A j \in Identify : reconnections[j] <= reconnections'[j]
    BY <1>0, ReconnectionsAssumption DEF TypeOK
  <2>7. "done" \in Timer \ {"unused"} /\ k # "auth"
    BY <1>2, KeyFacts DEF Timer
  <2> QED BY <1>0, <1>2, <2>2, <2>4, <2>5, <2>6, <2>7, TimerMoved
<1>3. CASE /\ thrown' = TRUE
           /\ UNCHANGED <<operations_map, deadline, requests, authenticated, calls>>
  <2>1. TypeOK' /\ HandshakeInv'
    BY <1>0, <1>3 DEF TypeOK, HandshakeInv
  <2>2. GrantInv' /\ CallInv'
    BY <1>0, <1>3 DEF GrantInv, SuccessOnlyIfGranted, CallInv, Open
  <2> QED BY <2>1, <2>2
<1> QED BY <1>1, <1>2, <1>3 DEF HandleTimeout

LEMMA AnswerStep ==
  ASSUME ConnectInv, NEW p \in Answer, ServerAnswers(p)
  PROVE  ConnectInv'
<1> USE DEF ConnectInv
<1>0. /\ served < MaxServerPackages /\ served' = served + 1
      /\ inbox' = Append(inbox, p)
      /\ granted' = (granted \/ p.cmd = "authenticated")
      /\ UNCHANGED <<stage, opVars, calls, thrown, expiries, ignored>>
  BY DEF ServerAnswers
<1>1. /\ inbox' \in Seq(Answer) /\ Len(inbox) \in Nat /\ Len(inbox') = Len(inbox) + 1
      /\ \A i \in 1..Len(inbox) : inbox'[i] = inbox[i]
      /\ inbox'[Len(inbox) + 1] = p
  BY <1>0, AppendProperties, LenProperties DEF TypeOK
<1>2. granted' \in BOOLEAN /\ (granted => granted') /\ (p.cmd = "authenticated" => granted')
  BY <1>0 DEF TypeOK
<1>3. served' \in 0..MaxServerPackages
  BY <1>0, AnswersAssumption DEF TypeOK
<1>4. TypeOK'
  BY <1>0, <1>1, <1>2, <1>3 DEF TypeOK
<1>5. HandshakeInv'
  BY <1>0 DEF HandshakeInv
<1>6. GrantInv'
  <2>1. \A i \in 1..Len(inbox') : (i \in 1..Len(inbox) /\ inbox'[i] = inbox[i]) \/ inbox'[i] = p
    BY <1>1
  <2>2. \A i \in 1..Len(inbox') : inbox'[i].cmd = "authenticated" => granted'
    BY <1>2, <2>1 DEF GrantInv
  <2> QED BY <1>0, <1>2, <2>2 DEF GrantInv, SuccessOnlyIfGranted
<1>7. CallInv'
  BY <1>0 DEF CallInv, Open
<1> QED BY <1>4, <1>5, <1>6, <1>7

LEMMA ConnectNext == ConnectInv /\ [Next]_vars => ConnectInv'
<1> SUFFICES ASSUME ConnectInv, [Next]_vars PROVE ConnectInv'
  OBVIOUS
<1>1. CASE AsyncConnect \/ Discovered \/ DiscoveryFails \/ ConnectFails
  BY <1>1, EarlyStep
<1>2. CASE TcpConnected
  BY <1>2, ConnectedStep
<1>3. CASE HandlePackage
  BY <1>3, PackageStep
<1>4. CASE \E k \in Keys : DeadlineEnds(k)
  BY <1>4, DeadlineStep
<1>5. CASE \E k \in Keys : HandleTimeout(k)
  BY <1>5, TimeoutStep
<1>6. CASE \E k \in Identify : RetryIdentify(k)
  BY <1>6, RetryStep
<1>7. CASE \E p \in Answer : ServerAnswers(p)
  BY <1>7, AnswerStep
<1>8. CASE UNCHANGED vars
  BY <1>8 DEF vars, ConnectInv, TypeOK, HandshakeInv, GrantInv, SuccessOnlyIfGranted,
              CallInv, Open
<1> QED BY <1>1, <1>2, <1>3, <1>4, <1>5, <1>6, <1>7, <1>8, Zenon DEF Next

LEMMA ConnectInvariance == Spec => []ConnectInv
  BY ConnectInit, ConnectNext, PTL DEF Spec

------------------------------------------------------------------------------
\* The state of async_connect keeps its types; in it, identify_op sends its
\* request at most once and max_reconnections times more.
THEOREM HandshakeTyped == Spec => []TypeOK
<1>1. ConnectInv => TypeOK
  BY DEF ConnectInv
<1> QED BY <1>1, ConnectInvariance, PTL

\* async_connect tells its handler "success" only if the server answered
\* "authenticated", whatever answers came late, twice or after a timeout.
THEOREM SuccessIsGranted == Spec => []SuccessOnlyIfGranted
<1>1. ConnectInv => SuccessOnlyIfGranted
  BY DEF ConnectInv, GrantInv
<1> QED BY <1>1, ConnectInvariance, PTL

\* The handlers of the handshake that stay registered after a timeout call the
\* user at most once more for each deadline that ended.
THEOREM CallsAreCounted == Spec => []ExtraCallsNeedExpiry
<1>1. ConnectInv => ExtraCallsNeedExpiry
  <2> SUFFICES ASSUME ConnectInv PROVE ExtraCallsNeedExpiry
    OBVIOUS
  <2>1. /\ Open("auth") \in Nat /\ Open("identify1") \in Nat /\ Open("identify2") \in Nat
        /\ Len(calls) \in Nat /\ expiries \in Nat
    BY LenProperties DEF Open, ConnectInv, TypeOK
  <2>2. PICK a \in Nat, b \in Nat, c \in Nat :
          a = Open("auth") /\ b = Open("identify1") /\ c = Open("identify2")
    BY <2>1
  <2>3. Len(calls) + a + b + c <= 1 + expiries
    BY <2>2 DEF ConnectInv, CallInv
  <2> QED BY <2>1, <2>3 DEF ExtraCallsNeedExpiry
<1> QED BY <1>1, ConnectInvariance, PTL

==============================================================================

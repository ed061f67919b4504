------------------------ MODULE ClusterDiscovery_proofs -----------------------
(****************************************************************************)
(* Proofs about ClusterDiscovery for any set of connections, any number of  *)
(* seeds and attempts, and any gossip: what a discovery counts, how often   *)
(* it calls back, and which node it calls back with.                        *)
(****************************************************************************)
EXTENDS ClusterDiscovery, Integers, SequenceTheorems, FiniteSetTheorems, TLAPS

USE DEF settingsVars

------------------------------------------------------------------------------
(* The inductive invariant.                                                 *)

Stage == {"idle", "posted", "asking", "waiting", "done"}

Typed ==
  /\ gossip_seeds \in Nat
  /\ stage \in [Connections -> Stage]
  /\ attempt \in [Connections -> Nat]
  /\ candidates \in Nat
  /\ asked \in [Connections -> Nat]
  /\ calls = [c \in Connections |-> calls[c]]

\* One call, made by the step that ends the discovery.
CallsMade ==
  \A c \in Connections :
    IF stage[c] = "done" THEN \E r : calls[c] = <<r>> ELSE calls[c] = <<>>

\* The attempt is one handler: no two connections are inside one.
OneAttempt ==
  \A c, d \in Connections : stage[c] = "asking" /\ stage[d] = "asking" => c = d

\* How many seeds a discovery has asked, read off its stage and the number of
\* its attempt, as long as the settings name the seeds.  An attempt in which the
\* program stopped is over.
Asked(c) ==
  /\ stage[c] = "idle" => asked[c] = 0
  /\ stage[c] = "posted" => /\ attempt[c] \in 1..(MaxDiscoverAttempts + 1)
                            /\ asked[c] = (attempt[c] - 1) * gossip_seeds
  /\ stage[c] = "asking" /\ halted = "no" =>
                            /\ attempt[c] \in 1..MaxDiscoverAttempts
                            /\ asked[c] + candidates = attempt[c] * gossip_seeds
  /\ stage[c] = "waiting" => /\ attempt[c] \in 1..MaxDiscoverAttempts
                             /\ asked[c] = attempt[c] * gossip_seeds
  /\ stage[c] = "done" /\ calls[c][1].ec = "endpoint_discovery" =>
       asked[c] = MaxDiscoverAttempts * gossip_seeds

AskedInAttempts == gossip_seeds # 0 => \A c \in Connections : Asked(c)

\* An attempt that is running has a candidate left.
CandidateLeft == (\E c \in Connections : stage[c] = "asking") => candidates # 0

DiscoveryInv == Typed /\ CallsMade /\ OneAttempt /\ CandidateLeft /\ AskedInAttempts

------------------------------------------------------------------------------
LEMMA Distributive ==
  ASSUME NEW a \in Nat, NEW n \in Nat
  PROVE  (a + 1) * n = a * n + n /\ 0 * n = 0 /\ a * n \in Nat
  BY SMTT(30)

LEMMA DiscoveryInit == Init => DiscoveryInv
<1> SUFFICES ASSUME Init PROVE DiscoveryInv
  OBVIOUS
<1>1. Typed
  BY SeedsAssumption DEF Init, Typed, Stage
<1>2. AskedInAttempts
  BY DEF Init, AskedInAttempts, Asked
<1> QED BY <1>1, <1>2 DEF Init, DiscoveryInv, CallsMade, OneAttempt, CandidateLeft

------------------------------------------------------------------------------
(* One lemma per kind of step.                                              *)

LEMMA DiscoverStep ==
  ASSUME DiscoveryInv, NEW c \in Connections, async_discover_node_endpoints(c)
  PROVE  DiscoveryInv'
<1> USE DEF async_discover_node_endpoints, DiscoveryInv
<1>1. Typed' /\ CallsMade' /\ OneAttempt' /\ CandidateLeft'
  BY DEF Typed, CallsMade, OneAttempt, CandidateLeft, Stage
<1>2. ASSUME gossip_seeds' # 0, NEW d \in Connections PROVE Asked(d)'
  <2>1. CASE d = c
    BY <1>2, <2>1, Distributive, AttemptsAssumption DEF Typed, AskedInAttempts, Asked
  <2>2. CASE d # c
    BY <1>2, <2>2, AttemptsAssumption DEF Typed, AskedInAttempts, Asked
  <2> QED BY <2>1, <2>2
<1> QED BY <1>1, <1>2 DEF AskedInAttempts

LEMMA BeginStep ==
  ASSUME DiscoveryInv, NEW c \in Connections, BeginAttempt(c)
  PROVE  DiscoveryInv'
<1> USE DEF BeginAttempt, DiscoveryInv
<1> PICK n \in dnsCandidates : attemptGoesOn(c, n)
  OBVIOUS
<1>0. n \in Nat /\ (gossip_seeds # 0 => n = gossip_seeds)
  BY SeedsAssumption DEF dnsCandidates, Typed
<1>1. Typed' /\ CallsMade'
  BY <1>0 DEF Typed, CallsMade, Stage, attemptGoesOn
<1>2. OneAttempt' /\ CandidateLeft'
  BY <1>0 DEF Typed, OneAttempt, CandidateLeft, Free, attemptGoesOn
<1>3. ASSUME gossip_seeds' # 0, NEW d \in Connections PROVE Asked(d)'
  <2>1. CASE d = c
    <3>1. /\ attempt[c] \in 1..MaxDiscoverAttempts
          /\ asked[c] = (attempt[c] - 1) * gossip_seeds
      BY <1>3, AttemptsAssumption DEF Typed, AskedInAttempts, Asked
    <3>2. attempt[c] * gossip_seeds = asked[c] + gossip_seeds
      <4>1. attempt[c] - 1 \in Nat /\ gossip_seeds \in Nat /\ (attempt[c] - 1) + 1 = attempt[c]
        BY <3>1, AttemptsAssumption DEF Typed
      <4> QED BY <3>1, <4>1, Distributive
    <3>3. /\ candidates' = gossip_seeds /\ gossip_seeds # 0
          /\ stage'[c] = "asking" /\ attempt' = attempt /\ asked' = asked
          /\ gossip_seeds' = gossip_seeds
      BY <1>0, <1>3 DEF attemptGoesOn, Typed
    <3> QED BY <2>1, <3>1, <3>2, <3>3 DEF Asked
  <2>2. CASE d # c
    BY <1>3, <2>2, AttemptsAssumption DEF Typed, AskedInAttempts, Asked, Free, attemptGoesOn
  <2> QED BY <2>1, <2>2
<1> QED BY <1>1, <1>2, <1>3 DEF AskedInAttempts

LEMMA ArrangeStep ==
  ASSUME DiscoveryInv, NEW c \in Connections, ArrangeGossipCandidates(c)
  PROVE  DiscoveryInv'
<1> USE DEF ArrangeGossipCandidates, DiscoveryInv
<1> QED BY DEF Typed, CallsMade, OneAttempt, CandidateLeft, AskedInAttempts, Asked

LEMMA GiveUpStep ==
  ASSUME DiscoveryInv, NEW c \in Connections, GiveUp(c)
  PROVE  DiscoveryInv'
<1> USE DEF GiveUp, DiscoveryInv
<1> DEFINE r == [ec |-> "endpoint_discovery", node |-> null]
<1>0. calls'[c] = <<r>> /\ stage'[c] = "done" /\ r.ec = "endpoint_discovery"
  <2>1. calls[c] = <<>> /\ calls'[c] = Append(<<>>, r)
    BY DEF CallsMade, Typed
  <2> QED BY <2>1 DEF Typed
<1>1. Typed'
  BY DEF Typed, Stage
<1>2. CallsMade' /\ OneAttempt' /\ CandidateLeft'
  BY <1>0 DEF Typed, CallsMade, OneAttempt, CandidateLeft
<1>3. ASSUME gossip_seeds' # 0, NEW d \in Connections PROVE Asked(d)'
  <2>1. CASE d = c
    <3>1. attempt[c] = MaxDiscoverAttempts + 1 /\ asked[c] = (attempt[c] - 1) * gossip_seeds
      BY <1>3, AttemptsAssumption DEF Typed, AskedInAttempts, Asked
    <3>2. asked[c] = MaxDiscoverAttempts * gossip_seeds
      BY <3>1, AttemptsAssumption
    <3> QED BY <1>0, <2>1, <3>2 DEF Asked
  <2>2. CASE d # c
    BY <1>3, <2>2 DEF Typed, AskedInAttempts, Asked
  <2> QED BY <2>1, <2>2
<1> QED BY <1>1, <1>2, <1>3 DEF AskedInAttempts

LEMMA WaitStep ==
  ASSUME DiscoveryInv, NEW c \in Connections, WaitEnds(c)
  PROVE  DiscoveryInv'
<1> USE DEF WaitEnds, DiscoveryInv
<1>1. Typed' /\ CallsMade' /\ OneAttempt' /\ CandidateLeft'
  BY DEF Typed, CallsMade, OneAttempt, CandidateLeft, Stage
<1>2. ASSUME gossip_seeds' # 0, NEW d \in Connections PROVE Asked(d)'
  <2>1. CASE d = c
    BY <1>2, <2>1, AttemptsAssumption DEF Typed, AskedInAttempts, Asked
  <2>2. CASE d # c
    BY <1>2, <2>2 DEF Typed, AskedInAttempts, Asked
  <2> QED BY <2>1, <2>2
<1> QED BY <1>1, <1>2 DEF AskedInAttempts

\* A candidate was asked and gave no node.
LEMMA NextCandidateStep ==
  ASSUME DiscoveryInv, NEW c \in Connections, ask(c),
         attemptGoesOn(c, candidates - 1), UNCHANGED calls
  PROVE  DiscoveryInv'
<1> USE DEF ask, attemptGoesOn, DiscoveryInv
<1>0. candidates - 1 \in Nat
  BY DEF CandidateLeft, Typed
<1>1. Typed' /\ CallsMade'
  BY <1>0 DEF Typed, CallsMade, Stage
<1>2. OneAttempt' /\ CandidateLeft'
  BY <1>0 DEF Typed, OneAttempt, CandidateLeft
<1>3. ASSUME gossip_seeds' # 0, NEW d \in Connections PROVE Asked(d)'
  <2>1. CASE d = c
    BY <1>0, <1>3, <2>1, AttemptsAssumption DEF Typed, AskedInAttempts, Asked
  <2>2. CASE d # c
    BY <1>3, <2>2 DEF Typed, OneAttempt, AskedInAttempts, Asked
  <2> QED BY <2>1, <2>2
<1> QED BY <1>1, <1>2, <1>3 DEF AskedInAttempts

\* A candidate was asked and the program stopped.
LEMMA HaltStep ==
  ASSUME DiscoveryInv, NEW c \in Connections, ask(c), halted' # "no",
         UNCHANGED <<stage, candidates, calls>>
  PROVE  DiscoveryInv'
<1> USE DEF ask, DiscoveryInv
<1>1. Typed' /\ CallsMade' /\ OneAttempt' /\ CandidateLeft'
  BY DEF Typed, CallsMade, OneAttempt, CandidateLeft
<1>2. AskedInAttempts'
  BY DEF Typed, AskedInAttempts, Asked
<1> QED BY <1>1, <1>2

\* A candidate was asked and gave the node that the handler is called with.
LEMMA DiscoveredStep ==
  ASSUME DiscoveryInv, NEW c \in Connections, ask(c),
         NEW r, r.ec = "success",
         calls' = [calls EXCEPT ![c] = Append(@, r)],
         stage' = [stage EXCEPT ![c] = "done"],
         candidates' = 0, UNCHANGED halted
  PROVE  DiscoveryInv'
<1> USE DEF ask, DiscoveryInv
<1>1. calls'[c] = <<r>> /\ stage'[c] = "done"
  <2>1. calls[c] = <<>> /\ calls'[c] = Append(<<>>, r)
    BY DEF CallsMade, Typed
  <2> QED BY <2>1 DEF Typed
<1>2. Typed'
  <2>1. calls' = [d \in Connections |-> calls'[d]]
    BY Zenon DEF Typed
  <2>2. stage' \in [Connections -> Stage] /\ asked' \in [Connections -> Nat]
    BY DEF Typed, Stage
  <2> QED BY <2>1, <2>2 DEF Typed
<1>3. CallsMade'
  <2> SUFFICES ASSUME NEW d \in Connections
               PROVE  IF stage'[d] = "done" THEN \E q : calls'[d] = <<q>>
                                            ELSE calls'[d] = <<>>
    BY DEF CallsMade
  <2>1. CASE d = c
    BY <1>1, <2>1
  <2>2. CASE d # c
    BY <2>2 DEF Typed, CallsMade
  <2> QED BY <2>1, <2>2
<1>4. OneAttempt' /\ CandidateLeft'
  BY DEF Typed, OneAttempt, CandidateLeft
<1>5. ASSUME gossip_seeds' # 0, NEW d \in Connections PROVE Asked(d)'
  <2>1. CASE d = c
    BY <1>1, <2>1 DEF Asked
  <2>2. CASE d # c
    BY <1>5, <2>2 DEF Typed, OneAttempt, AskedInAttempts, Asked
  <2> QED BY <2>1, <2>2
<1> QED BY <1>2, <1>3, <1>4, <1>5 DEF AskedInAttempts

------------------------------------------------------------------------------
LEMMA DiscoveryNext == DiscoveryInv /\ [Next]_vars => DiscoveryInv'
<1> SUFFICES ASSUME DiscoveryInv, [Next]_vars PROVE DiscoveryInv'
  OBVIOUS
<1>1. CASE UNCHANGED vars
  BY <1>1 DEF vars, DiscoveryInv, Typed, CallsMade, OneAttempt, CandidateLeft,
              AskedInAttempts, Asked
<1>2. ASSUME NEW c \in Connections, AskCandidate(c) PROVE DiscoveryInv'
  <2>1. CASE AskFails(c)
    BY <2>1, NextCandidateStep DEF AskFails
  <2>2. CASE AskHalts(c)
    BY <2>2, HaltStep DEF AskHalts
  <2>3. ASSUME NEW ms \in Gossip, NoBestNode(c, ms) PROVE DiscoveryInv'
    <3>1. ask(c) /\ attemptGoesOn(c, candidates - 1) /\ UNCHANGED calls
      BY <2>3, Zenon DEF NoBestNode
    <3> QED BY <3>1, NextCandidateStep
  <2>4. ASSUME NEW ms \in Gossip, BestNodeThrows(c, ms) PROVE DiscoveryInv'
    <3>1. ask(c) /\ halted' = "address" /\ UNCHANGED <<stage, candidates, calls>>
      BY <2>4, Zenon DEF BestNodeThrows
    <3> QED BY <3>1, HaltStep
  <2>5. ASSUME NEW ms \in Gossip, Discovered(c, ms) PROVE DiscoveryInv'
    <3>1. PICK best :
            /\ ask(c)
            /\ calls' = [calls EXCEPT ![c] = Append(@, [ec |-> "success", node |-> best])]
            /\ stage' = [stage EXCEPT ![c] = "done"]
            /\ candidates' = 0 /\ UNCHANGED halted
      BY <2>5, Zenon DEF Discovered
    <3>2. [ec |-> "success", node |-> best].ec = "success"
      OBVIOUS
    <3> QED BY <3>1, <3>2, DiscoveredStep, Zenon
  <2> QED BY <1>2, <2>1, <2>2, <2>3, <2>4, <2>5 DEF AskCandidate
<1> QED
  BY <1>1, <1>2, DiscoverStep, BeginStep, ArrangeStep, GiveUpStep, WaitStep DEF Next

LEMMA DiscoveryInvariance == Spec => []DiscoveryInv
  BY DiscoveryInit, DiscoveryNext, PTL DEF Spec

\* However many connections look for a node at once, the handler passed to
\* async_discover_node_endpoints is called at most once, and has been called
\* when the discovery is over.
THEOREM HandlerCalledOnce == Spec => []CalledOnce
<1>1. ASSUME DiscoveryInv PROVE CalledOnce
  <2> SUFFICES ASSUME NEW c \in Connections
               PROVE  Len(calls[c]) = (IF stage[c] = "done" THEN 1 ELSE 0)
    BY DEF CalledOnce
  <2>1. CASE stage[c] = "done"
    <3>1. PICK r : calls[c] = <<r>>
      BY <1>1, <2>1 DEF DiscoveryInv, CallsMade
    <3> QED BY <2>1, <3>1
  <2>2. CASE stage[c] # "done"
    BY <1>1, <2>2 DEF DiscoveryInv, CallsMade
  <2> QED BY <2>1, <2>2
<1> QED BY <1>1, DiscoveryInvariance, PTL

\* discover_endpoints reports endpoint_discovery only when it has asked every
\* configured seed max_discover_attempts times.
THEOREM AllAskedBeforeGivingUp == Spec => []GivesUpOnlyAfterAllAsked
<1>1. ASSUME DiscoveryInv PROVE GivesUpOnlyAfterAllAsked
  <2> SUFFICES ASSUME NEW c \in Connections, NEW i \in DOMAIN calls[c],
                      calls[c][i].ec = "endpoint_discovery", gossip_seeds # 0
               PROVE  asked[c] = MaxDiscoverAttempts * gossip_seeds
    BY DEF GivesUpOnlyAfterAllAsked
  <2>1. stage[c] = "done" /\ i = 1
    <3>1. calls[c] # <<>>
      OBVIOUS
    <3>2. PICK r : calls[c] = <<r>> /\ stage[c] = "done"
      BY <1>1, <3>1 DEF DiscoveryInv, CallsMade
    <3> QED BY <3>2
  <2> QED BY <1>1, <2>1 DEF DiscoveryInv, AskedInAttempts, Asked
<1> QED BY <1>1, DiscoveryInvariance, PTL

------------------------------------------------------------------------------
(* How try_determine_best_node chooses, operator by operator.               *)

\* Exactly the elements of s at the places K: no other gets in, and none is lost.
PickedAt(s, K) ==
  /\ Cardinality(K) \in Nat
  /\ DOMAIN pick(s, K) = 1..Cardinality(K)
  /\ \A i \in 1..Cardinality(K) : \E k \in K : pick(s, K)[i] = s[k]
  /\ \A k \in K : \E i \in 1..Cardinality(K) : pick(s, K)[i] = s[k]

LEMMA Picked ==
  ASSUME NEW n \in Nat, NEW K \in SUBSET (1..n), NEW s
  PROVE  PickedAt(s, K)
<1> DEFINE N == Cardinality(K)
           upTo(k) == {j \in K : j <= k}
           rank == [k \in K |-> Cardinality(upTo(k))]
<1>1. IsFiniteSet(K) /\ N \in Nat
  <2>1. IsFiniteSet(1..n)
    BY FS_Interval
  <2> QED BY <2>1, FS_Subset, FS_CardinalityType
<1>2. ASSUME NEW k \in K PROVE rank[k] \in 1..N
  <2>1. upTo(k) \in SUBSET K /\ k \in upTo(k)
    OBVIOUS
  <2>2. IsFiniteSet(upTo(k)) /\ Cardinality(upTo(k)) <= N
    BY <1>1, <2>1, FS_Subset
  <2>3. Cardinality(upTo(k)) \in Nat /\ Cardinality(upTo(k)) # 0
    BY <2>1, <2>2, FS_CardinalityType, FS_EmptySet
  <2>4. rank[k] = Cardinality(upTo(k))
    OBVIOUS
  <2> HIDE DEF N, upTo, rank
  <2> QED BY <1>1, <2>2, <2>3, <2>4
<1>3. ASSUME NEW k \in K, NEW l \in K, k < l PROVE rank[k] # rank[l]
  <2>1. upTo(k) \in SUBSET upTo(l) /\ l \in upTo(l) /\ l \notin upTo(k)
    <3>1. k \in Int /\ l \in Int /\ \A j \in K : j \in Int
      OBVIOUS
    <3>2. \A j \in K : j <= k => j <= l
      BY <1>3, <3>1
    <3>3. l \in upTo(l)
      BY <3>1
    <3>4. l \notin upTo(k)
      BY <1>3, <3>1
    <3>5. upTo(k) \subseteq upTo(l)
      BY <3>2
    <3> HIDE DEF upTo
    <3> QED BY <3>3, <3>4, <3>5
  <2>2. IsFiniteSet(upTo(l))
    BY <1>1, FS_Subset, upTo(l) \in SUBSET K
  <2>3. Cardinality(upTo(l)) # Cardinality(upTo(k))
    <3> HIDE DEF upTo
    <3> QED BY <2>1, <2>2, FS_Subset
  <2> QED BY <2>3
<1>4. rank \in Injection(K, 1..N)
  <2>1. rank \in [K -> 1..N]
    BY <1>2
  <2>2. ASSUME NEW k \in K, NEW l \in K, rank[k] = rank[l] PROVE k = l
    <3>1. k \in Nat /\ l \in Nat
      OBVIOUS
    <3>2. ~(k < l) /\ ~(l < k)
      BY <1>3, <2>2
    <3> QED BY <3>1, <3>2
  <2> HIDE DEF rank
  <2> QED BY <2>1, <2>2 DEF Injection, IsInjective
<1>5. rank \in Surjection(K, 1..N)
  <2>1. IsFiniteSet(1..N) /\ Cardinality(1..N) = N
    BY <1>1, FS_Interval
  <2> HIDE DEF rank
  <2> QED BY <1>4, <2>1, FS_Injection
<1>6. ASSUME NEW i \in 1..N
      PROVE  \E k \in K : rank[k] = i /\ pick(s, K)[i] = s[k]
  <2>1. PICK l \in K : rank[l] = i
    BY <1>5 DEF Surjection
  <2>2. \E k \in K : Cardinality({j \in K : j <= k}) = i
    BY <2>1
  <2> DEFINE c == CHOOSE k \in K : Cardinality({j \in K : j <= k}) = i
  <2>3. c \in K /\ Cardinality({j \in K : j <= c}) = i
    BY <2>2
  <2>4. pick(s, K)[i] = s[c]
    BY DEF pick
  <2>5. rank[c] = i
    BY <2>3
  <2> HIDE DEF c, rank
  <2> QED BY <2>3, <2>4, <2>5
<1>7. ASSUME NEW k \in K PROVE \E i \in 1..N : pick(s, K)[i] = s[k]
  <2>1. rank[k] \in 1..N
    BY <1>2
  <2>2. PICK l \in K : rank[l] = rank[k] /\ pick(s, K)[rank[k]] = s[l]
    BY <1>6, <2>1
  <2>3. l = k
    <3> HIDE DEF rank
    <3> QED BY <1>4, <2>2 DEF Injection, IsInjective
  <2> QED BY <2>1, <2>2, <2>3
<1>8. DOMAIN pick(s, K) = 1..N
  BY DEF pick
<1> HIDE DEF rank
<1> QED BY <1>1, <1>6, <1>7, <1>8 DEF PickedAt

LEMMA PickedType ==
  ASSUME NEW n \in Nat, NEW K \in SUBSET (1..n), NEW R, NEW s, \A k \in K : s[k] \in R
  PROVE  pick(s, K) \in Seq(R) /\ Len(pick(s, K)) = Cardinality(K)
<1>0. PickedAt(s, K)
  BY Picked
<1>1. Cardinality(K) \in Nat /\ DOMAIN pick(s, K) = 1..Cardinality(K)
  BY <1>0 DEF PickedAt
<1>2. pick(s, K) = [i \in 1..Cardinality(K) |-> pick(s, K)[i]]
  BY DEF pick
<1>3. ASSUME NEW i \in 1..Cardinality(K) PROVE pick(s, K)[i] \in R
  <2>1. PICK k \in K : pick(s, K)[i] = s[k]
    BY <1>0 DEF PickedAt
  <2> QED BY <2>1
<1>4. pick(s, K) \in [1..Cardinality(K) -> R]
  BY <1>2, <1>3
<1> QED BY <1>1, <1>4

\* The elements of s in another order.
Reordered(t, s) ==
  \E p \in [DOMAIN s -> DOMAIN s] :
    /\ \A k \in DOMAIN s : \E i \in DOMAIN s : p[i] = k
    /\ t = [i \in DOMAIN s |-> s[p[i]]]

LEMMA Shuffled ==
  ASSUME NEW s, NEW t \in shuffled(s)
  PROVE  Reordered(t, s)
  BY Zenon DEF shuffled, Reordered

LEMMA ShuffledType ==
  ASSUME NEW D, NEW R, NEW s \in [D -> R], NEW t \in shuffled(s)
  PROVE  t \in [D -> R]
<1>0. DOMAIN s = D /\ Reordered(t, s)
  BY Shuffled
<1>1. PICK p \in [D -> D] : t = [i \in D |-> s[p[i]]]
  BY <1>0 DEF Reordered
<1> QED BY <1>1

\* The members a report is made of: from_json gives an address to every member
\* that it says is alive.
LEMMA ReportedMembers ==
  ASSUME NEW ms \in Gossip
  PROVE  \E n \in Nat :
           /\ ms = [k \in 1..n |-> ms[k]] /\ DOMAIN ms = 1..n /\ ms \in Seq(Range(ms)) /\ Len(ms) = n
           /\ \A k \in 1..n : ms[k].state \in StateNames /\ (allowed(ms[k]) => ms[k].addr)
<1>1. PICK n \in 0..MaxMembers : \E raw \in [1..n -> RawMember] :
        ms = [k \in 1..n |-> from_json(raw[k], k)]
  BY Zenon DEF Gossip
<1>2. PICK raw \in [1..n -> RawMember] : ms = [k \in 1..n |-> from_json(raw[k], k)]
  BY <1>1
<1>3. n \in Nat
  BY MembersAssumption
<1>4. "initializing" \in StateNames
  <2>1. virtual_node_state[1] = "initializing" /\ 1 \in DOMAIN virtual_node_state
    BY DEF virtual_node_state
  <2> QED BY <2>1, Zenon DEF StateNames
<1>5. ASSUME NEW k \in 1..n
      PROVE  ms[k].state \in StateNames /\ (allowed(ms[k]) => ms[k].addr)
  <2>1. ms[k] = from_json(raw[k], k) /\ raw[k] \in RawMember
    BY <1>2
  <2>2. CASE raw[k].state = "{}"
    <3>1. ms[k] = null
      BY <2>1, <2>2 DEF from_json
    <3> QED BY <1>4, <3>1 DEF null, allowed
  <2>3. CASE raw[k].state = "unheard of"
    <3>1. ms[k] = [null EXCEPT !.node = k]
      BY <2>1, <2>3 DEF from_json
    <3>2. ms[k].state = "initializing" /\ ms[k].alive = FALSE
      BY <3>1 DEF null
    <3> QED BY <1>4, <3>2 DEF allowed
  <2>4. CASE raw[k].state # "{}" /\ raw[k].state # "unheard of"
    <3>1. ms[k] = [node |-> k, state |-> raw[k].state, alive |-> raw[k].alive, addr |-> TRUE]
      BY <2>1, <2>4 DEF from_json
    <3>2. raw[k].state \in States
      BY <2>1, <2>4 DEF RawMember
    <3>3. ms[k].state = raw[k].state /\ ms[k].addr = TRUE
      BY <3>1
    <3> QED BY <3>2, <3>3, StatesAssumption
  <2> QED BY <2>2, <2>3, <2>4
<1>6. ms = [k \in 1..n |-> ms[k]] /\ DOMAIN ms = 1..n
  BY <1>2
<1>7. ms \in Seq(Range(ms)) /\ Len(ms) = n
  <2>1. ms \in [1..n -> Range(ms)]
    BY <1>6 DEF Range
  <2> QED BY <1>3, <1>6, <2>1
<1> QED BY <1>3, <1>5, <1>6, <1>7

\* erase takes away one member of the leftover, so where at most one is to be
\* removed it takes away what remove_if left, and the members kept remain.
LEMMA RemovedFromSane ==
  ASSUME NEW ms \in Gossip, Sane(ms)
  PROVE  \E m \in Nat \ {0} :
           /\ DOMAIN removed(ms) = 1..m
           /\ removed(ms) = [i \in 1..m |-> removed(ms)[i]]
           /\ \A i \in 1..m : \E k \in DOMAIN ms \ Unusable(ms) : removed(ms)[i] = ms[k]
           /\ \A k \in DOMAIN ms \ Unusable(ms) : \E i \in 1..m : removed(ms)[i] = ms[k]
<1> DEFINE K == {k \in DOMAIN ms : allowed(ms[k])}
           m == Cardinality(K)
<1>1. PICK n \in Nat : DOMAIN ms = 1..n /\ Len(ms) = n
  BY ReportedMembers
<1>2. K \in SUBSET (1..n) /\ K = DOMAIN ms \ Unusable(ms)
  BY <1>1 DEF Unusable
<1>3. IsFiniteSet(1..n) /\ Cardinality(1..n) = n
  BY FS_Interval
<1>4. m = n - Cardinality(Unusable(ms)) /\ IsFiniteSet(Unusable(ms)) /\ IsFiniteSet(K)
  <2>1. Unusable(ms) \in SUBSET (1..n)
    BY <1>1 DEF Unusable
  <2>2. (1..n) \cap Unusable(ms) = Unusable(ms)
    BY <2>1
  <2>3. K = (1..n) \ Unusable(ms)
    BY <1>1, <1>2
  <2> HIDE DEF K
  <2>4. Cardinality(K) = n - Cardinality(Unusable(ms)) /\ IsFiniteSet(K)
    <3> DEFINE D == 1..n
               U == Unusable(ms)
    <3>1. IsFiniteSet(D) /\ Cardinality(D) = n /\ D \cap U = U /\ K = D \ U
      BY <1>3, <2>2, <2>3
    <3> HIDE DEF D, U
    <3>2. IsFiniteSet(D \ U) /\ Cardinality(D \ U) = Cardinality(D) - Cardinality(D \cap U)
      BY <3>1, FS_Difference, Zenon
    <3>3. IsFiniteSet(K) /\ Cardinality(K) = n - Cardinality(U)
      BY <3>1, <3>2, Zenon
    <3> QED BY <3>3 DEF U
  <2> QED BY <1>3, <2>1, <2>4, FS_Subset
<1>5. Cardinality(Unusable(ms)) \in {0, 1}
  BY <1>4, FS_CardinalityType DEF Sane
<1>6. m \in Nat \ {0}
  <2>1. K # {}
    BY <1>2 DEF Sane, Unusable
  <2> QED BY <1>4, <2>1, FS_CardinalityType, FS_EmptySet
<1> HIDE DEF m, K
<1>7. /\ DOMAIN kept(ms) = 1..m
      /\ kept(ms) = [i \in 1..m |-> kept(ms)[i]]
      /\ \A i \in 1..m : \E k \in K : kept(ms)[i] = ms[k]
      /\ \A k \in K : \E i \in 1..m : kept(ms)[i] = ms[k]
  <2>1. kept(ms) = pick(ms, K)
    BY DEF kept, K
  <2>0. PickedAt(ms, K)
    BY <1>2, Picked
  <2>2. DOMAIN pick(ms, K) = 1..m
    BY <2>0 DEF PickedAt, m
  <2>3. pick(ms, K) = [i \in 1..m |-> pick(ms, K)[i]]
    BY DEF pick, m
  <2>4. ASSUME NEW i \in 1..m PROVE \E k \in K : pick(ms, K)[i] = ms[k]
    BY <2>0 DEF PickedAt, m
  <2>5. ASSUME NEW k \in K PROVE \E i \in 1..m : pick(ms, K)[i] = ms[k]
    BY <2>0 DEF PickedAt, m
  <2> QED BY <2>1, <2>2, <2>3, <2>4, <2>5
<1>8. kept(ms) \in Seq(Range(kept(ms))) /\ Len(kept(ms)) = m
  <2>1. kept(ms) \in [1..m -> Range(kept(ms))]
    BY <1>7 DEF Range
  <2> QED BY <1>6, <1>7, <2>1
<1>9. removed(ms) = kept(ms)
  <2> DEFINE e(i) == IF allowed(ms[m + i]) THEN moved(ms[m + i]) ELSE ms[m + i]
  <2>1. leftover(ms) = [i \in 1..(n - m) |-> e(i)]
    BY <1>1, <1>8 DEF leftover
  <2> HIDE DEF e
  <2>2. CASE n - m = 0
    <3>1. leftover(ms) = <<>>
      BY <2>1, <2>2
    <3>2. removed(ms) = kept(ms) \o <<>>
      BY <3>1 DEF removed
    <3> QED BY <1>8, <3>2
  <2>3. CASE n - m = 1
    <3>1. leftover(ms) = <<e(1)>>
      BY <2>1, <2>3
    <3>2. leftover(ms) # <<>> /\ Tail(leftover(ms)) = <<>>
      BY <3>1
    <3>3. removed(ms) = kept(ms) \o <<>>
      BY <3>2 DEF removed
    <3> QED BY <1>8, <3>3
  <2>4. n - m \in {0, 1}
    BY <1>4, <1>5, <1>6
  <2> QED BY <2>2, <2>3, <2>4
<1> QED BY <1>2, <1>6, <1>7, <1>9

LEMMA OrderType ==
  ASSUME NEW m, m.state \in StateNames
  PROVE  order(m) \in Nat
<1>1. \E i \in DOMAIN virtual_node_state : virtual_node_state[i] = m.state
  BY DEF StateNames
<1>2. order(m) \in DOMAIN virtual_node_state
  BY <1>1 DEF order
<1>3. DOMAIN virtual_node_state = 1..11
  BY DEF virtual_node_state
<1> QED BY <1>2, <1>3

\* The stable_partition and the shuffle of the slave preference keep the number
\* of members, and bring in no member that was not there.
LEMMA SlavesArranged ==
  ASSUME NEW R, NEW m \in Nat, NEW u \in [1..m -> R], NEW t \in slavesArranged(u)
  PROVE  t \in [1..m -> R]
<1> DEFINE Q == slaves(u)
           P == (DOMAIN u) \ Q
           n == Cardinality(Q)
           q == pick(u, P) \o pick(u, Q)
<1>1. DOMAIN u = 1..m /\ Q \in SUBSET (1..m) /\ P = (1..m) \ Q
  BY DEF slaves
<1>2. IsFiniteSet(1..m) /\ Cardinality(1..m) = m
  BY FS_Interval
<1>3. IsFiniteSet(Q) /\ n \in Nat /\ n <= m
  BY <1>1, <1>2, FS_Subset, FS_CardinalityType
<1>4. Cardinality(P) = m - n
  <2> DEFINE D == 1..m
  <2>1. IsFiniteSet(D) /\ Cardinality(D) = m /\ D \cap Q = Q /\ P = D \ Q
    BY <1>1, <1>2
  <2> HIDE DEF D, P, Q
  <2>2. Cardinality(D \ Q) = Cardinality(D) - Cardinality(D \cap Q)
    BY <2>1, FS_Difference, Zenon
  <2> QED BY <2>1, <2>2, Zenon
<1>5. ASSUME NEW K \in SUBSET (1..m)
      PROVE  pick(u, K) \in Seq(R) /\ Len(pick(u, K)) = Cardinality(K)
  <2>1. \A k \in K : u[k] \in R
    OBVIOUS
  <2> QED BY <2>1, PickedType
<1>6. q \in Seq(R) /\ Len(q) = m
  <2>1. pick(u, P) \in Seq(R) /\ Len(pick(u, P)) = m - n
    BY <1>1, <1>4, <1>5
  <2>2. pick(u, Q) \in Seq(R) /\ Len(pick(u, Q)) = n
    BY <1>1, <1>5
  <2> HIDE DEF P, Q, n
  <2> QED BY <1>3, <2>1, <2>2
<1>7. PICK f \in shuffled(SubSeq(q, 1, n)) : t = f \o SubSeq(q, n + 1, Len(q))
  BY Zenon DEF slavesArranged
<1> HIDE DEF P, Q, n, q
<1>8. /\ SubSeq(q, 1, n) \in Seq(R) /\ Len(SubSeq(q, 1, n)) = n
      /\ SubSeq(q, n + 1, m) \in Seq(R) /\ Len(SubSeq(q, n + 1, m)) = m - n
  BY <1>3, <1>6, SubSeqProperties
<1>9. f \in Seq(R) /\ Len(f) = n
  <2> DEFINE g == SubSeq(q, 1, n)
  <2>0. g \in Seq(R) /\ Len(g) = n
    BY <1>8
  <2> HIDE DEF g
  <2>1. g \in [1..n -> R]
    BY <2>0
  <2>2. f \in shuffled(g)
    BY <1>7 DEF g
  <2>3. f \in [1..n -> R]
    BY <2>1, <2>2, ShuffledType
  <2> QED BY <1>3, <2>3
<1>10. t = f \o SubSeq(q, n + 1, m)
  BY <1>6, <1>7
<1>11. t \in Seq(R) /\ Len(t) = m
  <2> DEFINE g == SubSeq(q, n + 1, m)
  <2>1. g \in Seq(R) /\ Len(g) = m - n /\ t = f \o g
    BY <1>8, <1>10
  <2> HIDE DEF g
  <2>2. t \in Seq(R) /\ Len(t) = Len(f) + Len(g)
    BY <1>9, <2>1, ConcatProperties
  <2> QED BY <1>3, <1>9, <2>1, <2>2
<1> QED BY <1>11

\* The member in front is one of the members, and with the master preference
\* none of them is further.
LEMMA FirstArranged ==
  ASSUME NEW m \in Nat \ {0}, NEW R, \A r \in R : r.state \in StateNames,
         NEW s \in [1..m -> R],
         NEW node_preference \in Preferences, NEW t \in arranged(s, node_preference)
  PROVE  /\ t[1] \in R
         /\ node_preference = "master" => \A k \in 1..m : order(t[1]) >= order(s[k])
<1>0. 1 \in 1..m /\ DOMAIN s = 1..m
  OBVIOUS
<1>1. CASE node_preference = "master"
  <2>1. t \in sorted(s)
    BY <1>1 DEF arranged
  <2>2. t \in shuffled(s) /\ \A i, j \in 1..m : i < j => order(t[i]) >= order(t[j])
    BY <1>0, <2>1 DEF sorted
  <2>3. t \in [1..m -> R]
    BY <2>2, ShuffledType
  <2>4. ASSUME NEW k \in 1..m PROVE order(t[1]) >= order(s[k])
    <3>1. PICK i \in 1..m : t[i] = s[k]
      <4>1. Reordered(t, s)
        BY <2>2, Shuffled
      <4>2. PICK p \in [DOMAIN s -> DOMAIN s] :
              /\ \A l \in DOMAIN s : \E i \in DOMAIN s : p[i] = l
              /\ t = [i \in DOMAIN s |-> s[p[i]]]
        BY <4>1, Zenon DEF Reordered
      <4>3. PICK i \in DOMAIN s : p[i] = k
        BY <1>0, <4>2
      <4>4. t[i] = s[k]
        BY <4>2, <4>3
      <4> QED BY <1>0, <4>4
    <3>2. CASE i = 1
      <4>1. order(s[k]) \in Nat
        BY OrderType
      <4> QED BY <3>1, <3>2, <4>1
    <3>3. CASE i # 1
      <4>1. 1 < i
        BY <3>3
      <4> QED BY <1>0, <2>2, <3>1, <4>1
    <3> QED BY <3>2, <3>3
  <2> QED BY <1>0, <2>3, <2>4
<1>2. CASE node_preference = "slave"
  <2>1. PICK u \in sorted(s) : t \in slavesArranged(u)
    BY <1>2 DEF arranged
  <2>2. u \in shuffled(s)
    BY <2>1 DEF sorted
  <2>3. u \in [1..m -> R]
    BY <2>2, ShuffledType
  <2>4. t \in [1..m -> R]
    BY <2>1, <2>3, SlavesArranged
  <2> QED BY <1>0, <1>2, <2>4
<1>3. CASE node_preference = "random"
  <2>1. t \in shuffled(s)
    BY <1>3 DEF arranged
  <2>2. t \in [1..m -> R]
    BY <2>1, ShuffledType
  <2> QED BY <1>0, <1>3, <2>2
<1> QED BY <1>1, <1>2, <1>3 DEF Preferences

\* From a sane report try_determine_best_node chooses one of the members that
\* may be chosen, which has an address, and with the master preference one in
\* the furthest state.
LEMMA BestOfSane ==
  ASSUME NEW ms \in Gossip, Sane(ms), NEW node_preference \in Preferences,
         NEW best \in bestNodes[ms][node_preference]
  PROVE  /\ \E k \in DOMAIN ms : ms[k] = best
         /\ allowed(best)
         /\ best.addr
         /\ node_preference = "master" =>
              \A k \in DOMAIN ms \ Unusable(ms) : order(best) >= order(ms[k])
<1>1. PICK n \in Nat :
        /\ DOMAIN ms = 1..n
        /\ \A k \in 1..n : ms[k].state \in StateNames /\ (allowed(ms[k]) => ms[k].addr)
  BY ReportedMembers
<1> DEFINE s == removed(ms)
<1>2. PICK m \in Nat \ {0} :
        /\ DOMAIN s = 1..m /\ s = [i \in 1..m |-> s[i]]
        /\ \A i \in 1..m : \E k \in DOMAIN ms \ Unusable(ms) : s[i] = ms[k]
        /\ \A k \in DOMAIN ms \ Unusable(ms) : \E i \in 1..m : s[i] = ms[k]
  BY RemovedFromSane
<1>3. s # <<>>
  <2>1. 1 \in DOMAIN s
    BY <1>2
  <2> HIDE DEF s
  <2> QED BY <2>1
<1>4. ms \in Gossip \ {<<>>}
  BY DEF Sane
<1>5. PICK t \in arranged(s, node_preference) : best = t[1]
  <2>1. bestNodes[ms][node_preference] =
          IF removed(ms) = <<>> THEN {ms[1], moved(ms[1])}
          ELSE {t[1] : t \in arranged(removed(ms), node_preference)}
    BY <1>4 DEF bestNodes
  <2> QED BY <1>3, <2>1, Zenon
<1> DEFINE R == {ms[k] : k \in DOMAIN ms \ Unusable(ms)}
<1>6. \A r \in R : r.state \in StateNames
  BY <1>1
<1> HIDE DEF s
<1>7. s \in [1..m -> R]
  <2>1. \A i \in 1..m : s[i] \in R
    BY <1>2
  <2> HIDE DEF R
  <2> QED BY <1>2, <2>1
<1>8. /\ best \in R
      /\ node_preference = "master" => \A i \in 1..m : order(best) >= order(s[i])
  <2> HIDE DEF R
  <2> QED BY <1>5, <1>6, <1>7, FirstArranged
<1>9. PICK k \in DOMAIN ms \ Unusable(ms) : best = ms[k]
  BY <1>8
<1>10. allowed(best) /\ best.addr
  BY <1>1, <1>9 DEF Unusable
<1>11. ASSUME node_preference = "master", NEW l \in DOMAIN ms \ Unusable(ms)
       PROVE  order(best) >= order(ms[l])
  <2>1. PICK i \in 1..m : s[i] = ms[l]
    BY <1>2
  <2> QED BY <1>8, <1>11, <2>1
<1> QED BY <1>9, <1>10, <1>11

------------------------------------------------------------------------------
(* The node a discovery calls back with.                                    *)

\* No attempt starts once there is gossip, and the one that found it is over.
AskedWithoutGossip == (\E c \in Connections : stage[c] = "asking") => old_gossip = <<>>

\* A node the handler was called with was chosen from the gossip that is kept:
\* no later attempt has replaced it.
ChosenFromGossip ==
  \A c \in Connections : \A i \in DOMAIN calls[c] :
    calls[c][i].ec = "success" =>
      /\ old_gossip \in Gossip \ {<<>>}
      /\ calls[c][i].node \in bestNodes[old_gossip][preference]

\* Without gossip kept, it is the choice of a node that threw.
ThrownByChoice ==
  (halted = "address" /\ old_gossip = <<>>) =>
    /\ gossip \in Gossip \ {<<>>}
    /\ \E best \in bestNodes[gossip][preference] : ~best.addr

ChoiceInv ==
  /\ preference \in Preferences
  /\ AskedWithoutGossip
  /\ ChosenFromGossip
  /\ ThrownByChoice

LEMMA ChoiceInit == Init => ChoiceInv
  BY DEF Init, ChoiceInv, AskedWithoutGossip, ChosenFromGossip, ThrownByChoice

\* A step that neither calls back nor keeps gossip, and does not stop the program
\* at an address.
LEMMA ChoiceKept ==
  ASSUME ChoiceInv, halted = "no", halted' # "address",
         UNCHANGED <<preference, old_gossip, calls>>,
         (\E c \in Connections : stage'[c] = "asking") => old_gossip = <<>>
  PROVE  ChoiceInv'
  BY DEF ChoiceInv, AskedWithoutGossip, ChosenFromGossip, ThrownByChoice

LEMMA ChoiceNext == DiscoveryInv /\ ChoiceInv /\ [Next]_vars => ChoiceInv'
<1> SUFFICES ASSUME DiscoveryInv, ChoiceInv, [Next]_vars PROVE ChoiceInv'
  OBVIOUS
<1>0. stage \in [Connections -> Stage] /\ calls = [c \in Connections |-> calls[c]]
  BY DEF DiscoveryInv, Typed
<1>1. CASE UNCHANGED vars
  BY <1>1 DEF vars, ChoiceInv, AskedWithoutGossip, ChosenFromGossip, ThrownByChoice
<1>2. ASSUME NEW c \in Connections, async_discover_node_endpoints(c) PROVE ChoiceInv'
  <2>1. (\E d \in Connections : stage'[d] = "asking") => old_gossip = <<>>
    BY <1>0, <1>2 DEF async_discover_node_endpoints, Free
  <2> QED BY <1>2, <2>1, ChoiceKept DEF async_discover_node_endpoints, Free
<1>3. ASSUME NEW c \in Connections, BeginAttempt(c) PROVE ChoiceInv'
  BY <1>3, ChoiceKept DEF BeginAttempt, Free
<1>4. ASSUME NEW c \in Connections, ArrangeGossipCandidates(c) PROVE ChoiceInv'
  BY <1>4 DEF ArrangeGossipCandidates, Free,
              ChoiceInv, AskedWithoutGossip, ChosenFromGossip, ThrownByChoice
<1>5. ASSUME NEW c \in Connections, GiveUp(c) PROVE ChoiceInv'
  <2> DEFINE r == [ec |-> "endpoint_discovery", node |-> null]
  <2>1. calls[c] = <<>>
    BY <1>5 DEF GiveUp, DiscoveryInv, CallsMade
  <2>2. calls'[c] = <<r>> /\ r.ec = "endpoint_discovery"
    BY <1>0, <1>5, <2>1 DEF GiveUp
  <2>3. ASSUME NEW d \in Connections, NEW i \in DOMAIN calls'[d],
               calls'[d][i].ec = "success"
        PROVE  /\ old_gossip \in Gossip \ {<<>>}
               /\ calls'[d][i].node \in bestNodes[old_gossip][preference]
    <3>1. d # c
      <4> HIDE DEF r
      <4> QED BY <2>2, <2>3
    <3>2. calls'[d] = calls[d]
      BY <1>0, <1>5, <3>1 DEF GiveUp
    <3> QED BY <2>3, <3>2 DEF ChoiceInv, ChosenFromGossip
  <2>4. UNCHANGED <<preference, old_gossip, halted>> /\ halted = "no"
    BY <1>5 DEF GiveUp, Free
  <2>5. ChosenFromGossip'
    BY <2>3, <2>4 DEF ChosenFromGossip
  <2>6. AskedWithoutGossip'
    BY <1>0, <1>5 DEF GiveUp, Free, AskedWithoutGossip
  <2> QED BY <2>4, <2>5, <2>6 DEF ChoiceInv, ThrownByChoice
<1>6. ASSUME NEW c \in Connections, WaitEnds(c) PROVE ChoiceInv'
  <2>1. (\E d \in Connections : stage'[d] = "asking") => old_gossip = <<>>
    BY <1>0, <1>6 DEF WaitEnds, Free
  <2> QED BY <1>6, <2>1, ChoiceKept DEF WaitEnds, Free
<1>7. ASSUME NEW c \in Connections, AskCandidate(c) PROVE ChoiceInv'
  <2>0. ask(c)
    BY <1>7, Zenon DEF AskCandidate, AskFails, AskHalts, NoBestNode, BestNodeThrows, Discovered
  <2>1. old_gossip = <<>> /\ halted = "no" /\ UNCHANGED preference
    BY <2>0 DEF ask, ChoiceInv, AskedWithoutGossip
  <2>2. CASE AskFails(c)
    BY <2>1, <2>2, ChoiceKept DEF AskFails
  <2>3. CASE AskHalts(c)
    BY <2>1, <2>3, ChoiceKept DEF AskHalts
  <2>4. ASSUME NEW ms \in Gossip, NoBestNode(c, ms) PROVE ChoiceInv'
    <3>1. UNCHANGED <<old_gossip, calls, halted>>
      BY <2>4, Zenon DEF NoBestNode
    <3> QED BY <2>1, <3>1, ChoiceKept
  <2>5. ASSUME NEW ms \in Gossip, BestNodeThrows(c, ms) PROVE ChoiceInv'
    <3>1. PICK best \in bestNodes[ms][preference] : ~best.addr
      BY <2>5, Zenon DEF BestNodeThrows
    <3>2. /\ ms # <<>> /\ gossip' = ms
          /\ UNCHANGED <<old_gossip, stage, calls>>
      BY <2>5, Zenon DEF BestNodeThrows
    <3>3. ThrownByChoice'
      BY <2>1, <3>1, <3>2 DEF ThrownByChoice
    <3> QED BY <2>1, <3>2, <3>3 DEF ChoiceInv, AskedWithoutGossip, ChosenFromGossip
  <2>6. ASSUME NEW ms \in Gossip, Discovered(c, ms) PROVE ChoiceInv'
    <3>1. PICK best \in bestNodes[ms][preference] :
            calls' = [calls EXCEPT ![c] = Append(@, [ec |-> "success", node |-> best])]
      BY <2>6, Zenon DEF Discovered
    <3>2. /\ ms # <<>> /\ old_gossip' = ms /\ stage' = [stage EXCEPT ![c] = "done"]
          /\ UNCHANGED halted
      BY <2>6, Zenon DEF Discovered
    <3> DEFINE r == [ec |-> "success", node |-> best]
    <3>3. calls[c] = <<>>
      BY <2>0 DEF ask, DiscoveryInv, CallsMade
    <3>4. calls'[c] = <<r>> /\ r.node = best
      BY <1>0, <3>1, <3>3
    <3>5. ASSUME NEW d \in Connections, NEW i \in DOMAIN calls'[d],
                 calls'[d][i].ec = "success"
          PROVE  calls'[d][i].node \in bestNodes[ms][preference]
      <4>1. CASE d = c
        <5>1. calls'[d][i] = r
          <6> HIDE DEF r
          <6> QED BY <3>4, <3>5, <4>1
        <5> QED BY <3>4, <5>1
      <4>2. CASE d # c
        <5>1. calls'[d] = calls[d]
          BY <1>0, <3>1, <4>2
        <5> QED BY <2>1, <3>5, <5>1 DEF ChoiceInv, ChosenFromGossip
      <4> QED BY <4>1, <4>2
    <3>6. ChosenFromGossip'
      BY <2>1, <3>2, <3>5 DEF ChosenFromGossip
    <3>7. AskedWithoutGossip'
      <4> SUFFICES ASSUME NEW d \in Connections, stage'[d] = "asking" PROVE FALSE
        BY DEF AskedWithoutGossip
      <4>1. d # c /\ stage[d] = "asking"
        BY <1>0, <3>2
      <4> QED BY <2>0, <4>1 DEF ask, DiscoveryInv, OneAttempt
    <3> QED BY <2>1, <3>2, <3>6, <3>7 DEF ChoiceInv, ThrownByChoice
  <2> QED BY <1>7, <2>2, <2>3, <2>4, <2>5, <2>6 DEF AskCandidate
<1> QED BY <1>1, <1>2, <1>3, <1>4, <1>5, <1>6, <1>7 DEF Next

LEMMA ChoiceInvariance == Spec => []ChoiceInv
<1>1. DiscoveryInv /\ ChoiceInv /\ [Next]_vars => (DiscoveryInv /\ ChoiceInv)'
  BY DiscoveryNext, ChoiceNext
<1> QED BY <1>1, DiscoveryInit, ChoiceInit, PTL DEF Spec

\* Whatever the seeds report and however many connections share the service, from
\* a report with at most one member to remove the node passed to the handler is
\* one that may be chosen, in the furthest state if the master is preferred, and
\* make_address_v4 throws only on a report that is not of that kind or on gossip
\* kept from an earlier discovery.
THEOREM BestNodeChosen == Spec => []ChosenNodeIsBest
<1>1. ASSUME ChoiceInv PROVE ChosenNodeIsBest
  <2>1. ASSUME NEW c \in Connections, NEW i \in DOMAIN calls[c],
               calls[c][i].ec = "success", Sane(old_gossip)
        PROVE  LET best == calls[c][i].node IN
               /\ \E k \in DOMAIN old_gossip : old_gossip[k] = best
               /\ allowed(best)
               /\ preference = "master" =>
                    \A k \in DOMAIN old_gossip \ Unusable(old_gossip) :
                      order(best) >= order(old_gossip[k])
    <3>1. PICK ms : ms = old_gossip
      OBVIOUS
    <3>2. PICK best : best = calls[c][i].node
      OBVIOUS
    <3>3. ms \in Gossip /\ Sane(ms) /\ best \in bestNodes[ms][preference]
      BY <1>1, <2>1, <3>1, <3>2 DEF ChoiceInv, ChosenFromGossip
    <3>4. /\ \E k \in DOMAIN ms : ms[k] = best
          /\ allowed(best)
          /\ preference = "master" =>
               \A k \in DOMAIN ms \ Unusable(ms) : order(best) >= order(ms[k])
      BY <1>1, <3>3, BestOfSane DEF ChoiceInv
    <3> QED BY <3>1, <3>2, <3>4
  <2>2. ASSUME halted = "address", old_gossip = <<>> PROVE ~Sane(gossip)
    <3>1. PICK ms : ms = gossip
      OBVIOUS
    <3>2. PICK best \in bestNodes[ms][preference] : ~best.addr
      BY <1>1, <2>2, <3>1 DEF ChoiceInv, ThrownByChoice
    <3>3. ms \in Gossip /\ preference \in Preferences
      BY <1>1, <2>2, <3>1 DEF ChoiceInv, ThrownByChoice
    <3> QED BY <3>1, <3>2, <3>3, BestOfSane
  <2> QED BY <2>1, <2>2 DEF ChosenNodeIsBest
<1> QED BY <1>1, ChoiceInvariance, PTL
==============================================================================

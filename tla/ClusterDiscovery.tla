--------------------------- MODULE ClusterDiscovery ---------------------------
(****************************************************************************)
(* cluster_discovery_service (tcp/cluster_discovery_service.hpp): the       *)
(* discoveries of several connections on one io_context, which share the    *)
(* service and its old_gossip_.                                             *)
(*                                                                          *)
(* An attempt is one handler: it asks one candidate after the other with    *)
(* blocking calls.  It is split into one step per candidate; stage[c] =     *)
(* "asking" keeps every other handler from running meanwhile.               *)
(****************************************************************************)
EXTENDS Naturals, Sequences, FiniteSets

CONSTANTS
  Connections,          \* connections that look for a node
  Seeds,                \* number of gossip seeds, configured or found by DNS
  MaxDiscoverAttempts,  \* settings_.max_discover_attempts()
  States,               \* bound: node states the servers report
  MaxMembers            \* bound: members of a cluster

\* The enumerators of virtual_node_state, in their order.
virtual_node_state ==
  <<"initializing", "unknown", "pre_replica", "catching_up", "clone", "slave",
    "pre_master", "master", "manager", "shutting_down", "shutdown">>

StateNames == {virtual_node_state[i] : i \in DOMAIN virtual_node_state}

ASSUME SeedsAssumption == Seeds \in Nat
ASSUME AttemptsAssumption == MaxDiscoverAttempts \in Nat
ASSUME StatesAssumption == States \subseteq StateNames
ASSUME MembersAssumption == MaxMembers \in Nat

VARIABLES
  preference,    \* settings_.preference()
  gossip_seeds,  \* how many settings_.gossip_seeds(); with none DNS is asked
  old_gossip,    \* old_gossip_: members of the last successful gossip
  stage,         \* "idle", "posted", "asking", "waiting" (timer), "done"
  attempt,       \* attempt[c]: number of the current attempt
  candidates,    \* how many candidates the running attempt has yet to ask
  calls,         \* calls[c]: arguments the discovery handler was called with
  halted,        \* why the event loop stopped, or "no"
  asked,         \* history: asked[c], how many times c asked a seed
  gossip         \* history: members among which the best node had no address

settingsVars == <<preference, gossip_seeds>>
vars == <<preference, gossip_seeds, old_gossip, stage, attempt, candidates,
          calls, halted, asked, gossip>>

------------------------------------------------------------------------------
(* Gossip: what the servers send, and what from_json makes of it.           *)

\* member_info: node 0 is no instance id, addr says that the addresses are set.
Member == [node : 0..MaxMembers, state : StateNames, alive : BOOLEAN, addr : BOOLEAN]

null == [node |-> 0, state |-> "initializing", alive |-> FALSE, addr |-> FALSE]

\* A member as a server (external) reports it: an empty object, one in a state
\* that from_string does not know, or a node.
RawMember == [state : States, alive : BOOLEAN]
               \cup [state : {"{}", "unheard of"}, alive : {FALSE}]

\* from_json of member_info: it leaves the member as it was constructed at an
\* empty object, and stops behind the two ids at an unknown state.  member_info
\* initializes none of its numbers; the JSON library (external) is taken to
\* value-initialize the member it fills, which makes them zero.
from_json(raw, k) ==
  CASE raw.state = "{}"         -> null
    [] raw.state = "unheard of" -> [null EXCEPT !.node = k]
    [] OTHER -> [node |-> k, state |-> raw.state, alive |-> raw.alive, addr |-> TRUE]

\* The members of every cluster_info a server may report.
Gossip == UNION {{[k \in 1..n |-> from_json(raw[k], k)] : raw \in [1..n -> RawMember]} :
                   n \in 0..MaxMembers}

------------------------------------------------------------------------------
(* try_determine_best_node.                                                 *)

order(m) == CHOOSE i \in DOMAIN virtual_node_state : virtual_node_state[i] = m.state

allowed(m) == m.alive /\ m.state \notin {"manager", "shutting_down", "shutdown"}

\* A moved-from member has lost its strings.
moved(m) == [m EXCEPT !.addr = FALSE]

\* The elements of s at the places K, in their order: the i-th of them is the one
\* with i places of K up to it.
pick(s, K) ==
  [i \in 1..Cardinality(K) |-> s[CHOOSE k \in K : Cardinality({j \in K : j <= k}) = i]]

\* The members remove_if keeps, moved to the front.
kept(ms) == pick(ms, {k \in DOMAIN ms : allowed(ms[k])})

\* What remove_if leaves behind the members it keeps: members to remove, and
\* moved-from ones.
leftover(ms) ==
  LET n == Len(kept(ms)) IN
  [i \in 1..(Len(ms) - n) |->
     IF allowed(ms[n + i]) THEN moved(ms[n + i]) ELSE ms[n + i]]

\* remove_if, and erase of the one member at the iterator it returned.
removed(ms) ==
  kept(ms) \o (IF leftover(ms) = <<>> THEN <<>> ELSE Tail(leftover(ms)))

\* Every order of the elements of s: p names, for each place, where its element
\* was.
shuffled(s) ==
  {[i \in DOMAIN s |-> s[p[i]]] :
     p \in {q \in [DOMAIN s -> DOMAIN s] : \A k \in DOMAIN s : \E i \in DOMAIN s : q[i] = k}}

\* Mistake: the states in ascending order.
SortedAscending(s) ==
  {t \in shuffled(s) : \A i, j \in DOMAIN s : i < j => order(t[i]) <= order(t[j])}

\* sort by state, descending; it is not stable.
sorted(s) ==
  {t \in shuffled(s) : \A i, j \in DOMAIN s : i < j => order(t[i]) >= order(t[j])}

slaves(t) == {k \in DOMAIN t : t[k].state = "slave"}

\* The slave preference: slaves behind the others, then a shuffle of as many
\* places at the front as there are slaves.
slavesArranged(t) ==
  LET s == pick(t, DOMAIN t \ slaves(t)) \o pick(t, slaves(t))
      n == Cardinality(slaves(t))
  IN {f \o SubSeq(s, n + 1, Len(s)) : f \in shuffled(SubSeq(s, 1, n))}

Preferences == {"master", "slave", "random"}

\* The orders the members may end up in.
arranged(s, node_preference) ==
  CASE node_preference = "master" -> sorted(s)
    [] node_preference = "slave"  -> UNION {slavesArranged(t) : t \in sorted(s)}
    [] node_preference = "random" -> shuffled(s)

\* *nodes.begin().  If the only member was erased that is undefined: it reads
\* the destroyed member, with its strings or without.
bestNodes ==
  [ms \in Gossip \ {<<>>} |-> [node_preference \in Preferences |->
     IF removed(ms) = <<>> THEN {ms[1], moved(ms[1])}
     ELSE {t[1] : t \in arranged(removed(ms), node_preference)}]]

------------------------------------------------------------------------------
Init ==
  /\ preference \in Preferences
  /\ gossip_seeds \in {0, Seeds}
  /\ old_gossip = <<>>
  /\ stage = [c \in Connections |-> "idle"]
  /\ attempt = [c \in Connections |-> 0]
  /\ candidates = 0
  /\ calls = [c \in Connections |-> <<>>]
  /\ halted = "no"
  /\ asked = [c \in Connections |-> 0]
  /\ gossip = <<>>

\* The event loop is free to run the next handler.
Free == halted = "no" /\ \A c \in Connections : stage[c] # "asking"

async_discover_node_endpoints(c) ==
  /\ Free
  /\ stage[c] = "idle"
  /\ stage' = [stage EXCEPT ![c] = "posted"]
  /\ attempt' = [attempt EXCEPT ![c] = 1]
  /\ UNCHANGED <<settingsVars, old_gossip, candidates, calls, halted, asked, gossip>>

\* Mistake: the timer is not armed.
AttemptForgotten(c, rest) ==
  /\ candidates' = rest
  /\ stage' = [stage EXCEPT ![c] = IF rest = 0 THEN "idle" ELSE "asking"]

\* The attempt goes on with the candidates that are left, or ends without a
\* node and arms the timer.
attemptGoesOn(c, rest) ==
  /\ candidates' = rest
  /\ stage' = [stage EXCEPT ![c] = IF rest = 0 THEN "waiting" ELSE "asking"]

\* get_dns_candidates: the seeds, or what DNS resolves to, shuffled.  Only
\* their number matters: any of them may answer anything.  DNS (external) may
\* fail.
dnsCandidates == IF gossip_seeds # 0 THEN {gossip_seeds} ELSE {0, Seeds}

\* The posted handler, with an attempt left and no gossip to start from.
BeginAttempt(c) ==
  /\ Free
  /\ stage[c] = "posted"
  /\ attempt[c] <= MaxDiscoverAttempts
  /\ old_gossip = <<>>
  /\ \E n \in dnsCandidates : attemptGoesOn(c, n)
  /\ UNCHANGED <<settingsVars, old_gossip, attempt, calls, halted, asked, gossip>>

\* The posted handler, with gossip of an earlier discovery, of any connection.
\* arrange_gossip_candidates makes an address of every member, which throws if
\* it is not set, and then copies the candidates into an empty vector, through
\* a null pointer.
ArrangeGossipCandidates(c) ==
  /\ Free
  /\ stage[c] = "posted"
  /\ attempt[c] <= MaxDiscoverAttempts
  /\ old_gossip # <<>>
  /\ halted' = IF \A k \in DOMAIN old_gossip : old_gossip[k].addr THEN "crash"
               ELSE "address"
  /\ UNCHANGED <<settingsVars, old_gossip, stage, attempt, candidates, calls,
                 asked, gossip>>

\* Mistake: the handler reports the failure but asks to be run again.
GiveUpAndRetry(c) ==
  /\ Free
  /\ stage[c] = "posted"
  /\ attempt[c] > MaxDiscoverAttempts
  /\ calls' = [calls EXCEPT ![c] = Append(@, [ec |-> "endpoint_discovery", node |-> null])]
  /\ stage' = [stage EXCEPT ![c] = IF Len(calls[c]) = 0 THEN "waiting" ELSE "done"]
  /\ UNCHANGED <<settingsVars, old_gossip, attempt, candidates, halted, asked, gossip>>

\* The posted handler, with no attempt left.
GiveUp(c) ==
  /\ Free
  /\ stage[c] = "posted"
  /\ attempt[c] > MaxDiscoverAttempts
  /\ calls' = [calls EXCEPT ![c] = Append(@, [ec |-> "endpoint_discovery", node |-> null])]
  /\ stage' = [stage EXCEPT ![c] = "done"]
  /\ UNCHANGED <<settingsVars, old_gossip, attempt, candidates, halted, asked, gossip>>

\* Mistake: the attempt counter is incremented twice.
WaitEndsCountedTwice(c) ==
  /\ Free
  /\ stage[c] = "waiting"
  /\ stage' = [stage EXCEPT ![c] = "posted"]
  /\ attempt' = [attempt EXCEPT ![c] = @ + 2]
  /\ UNCHANGED <<settingsVars, old_gossip, candidates, calls, halted, asked, gossip>>

\* The timer's handler: the next attempt is posted.
WaitEnds(c) ==
  /\ Free
  /\ stage[c] = "waiting"
  /\ stage' = [stage EXCEPT ![c] = "posted"]
  /\ attempt' = [attempt EXCEPT ![c] = @ + 1]
  /\ UNCHANGED <<settingsVars, old_gossip, candidates, calls, halted, asked, gossip>>

------------------------------------------------------------------------------
(* try_get_gossip_from and the rest of the loop of discover_endpoints.      *)

ask(c) ==
  /\ halted = "no"
  /\ stage[c] = "asking"
  /\ asked' = [asked EXCEPT ![c] = @ + 1]
  /\ UNCHANGED <<settingsVars, attempt>>

\* Connecting, writing or reading fails, or the status is not 200.
AskFails(c) ==
  /\ ask(c)
  /\ attemptGoesOn(c, candidates - 1)
  /\ UNCHANGED <<old_gossip, calls, halted, gossip>>

\* The body is not the JSON expected, and parsing throws; or the seed accepts
\* the connection and never answers: the blocking read has no timeout.
AskHalts(c) ==
  /\ ask(c)
  /\ halted' \in {"json", "silent seed"}
  /\ UNCHANGED <<old_gossip, stage, candidates, calls, gossip>>

\* The seed reports a cluster without members, or with null for the best node.
NoBestNode(c, ms) ==
  /\ ask(c)
  /\ ms = <<>> \/ (ms # <<>> /\ null \in bestNodes[ms][preference])
  /\ attemptGoesOn(c, candidates - 1)
  /\ UNCHANGED <<old_gossip, calls, halted, gossip>>

\* The best node has no address: make_address_v4 throws.
BestNodeThrows(c, ms) ==
  /\ ask(c)
  /\ ms # <<>>
  /\ \E best \in bestNodes[ms][preference] : best # null /\ ~best.addr
  /\ halted' = "address"
  /\ gossip' = ms
  /\ UNCHANGED <<old_gossip, stage, candidates, calls>>

\* The best node is the result, and the gossip is kept.
Discovered(c, ms) ==
  /\ ask(c)
  /\ ms # <<>>
  /\ \E best \in bestNodes[ms][preference] :
       /\ best.addr
       /\ calls' = [calls EXCEPT ![c] = Append(@, [ec |-> "success", node |-> best])]
  /\ old_gossip' = ms
  /\ stage' = [stage EXCEPT ![c] = "done"]
  /\ candidates' = 0
  /\ UNCHANGED <<halted, gossip>>

\* What an attempt does with its next candidate.
AskCandidate(c) ==
  \/ AskFails(c)
  \/ AskHalts(c)
  \/ \E ms \in Gossip :
       \/ NoBestNode(c, ms)
       \/ BestNodeThrows(c, ms)
       \/ Discovered(c, ms)

Next ==
  \E c \in Connections :
    \/ async_discover_node_endpoints(c)
    \/ BeginAttempt(c)
    \/ ArrangeGossipCandidates(c)
    \/ GiveUp(c)
    \/ WaitEnds(c)
    \/ AskCandidate(c)

Spec == Init /\ [][Next]_vars

\* Ready handlers run, the timer expires, and an attempt does not rest between
\* two candidates: AskFails is enabled as long as there is one, and any other
\* step of the attempt uses up a candidate too.
FairSpec ==
  /\ Spec
  /\ \A c \in Connections :
       /\ WF_vars(BeginAttempt(c) \/ ArrangeGossipCandidates(c) \/ GiveUp(c))
       /\ WF_vars(WaitEnds(c))
       /\ WF_vars(AskFails(c))

------------------------------------------------------------------------------
Unusable(ms) == {k \in DOMAIN ms : ~allowed(ms[k])}

\* A cluster report the choice of a node can cope with: some member may be
\* chosen, and at most one may not.
Sane(ms) == ms # <<>> /\ Cardinality(Unusable(ms)) <= 1 /\ Unusable(ms) # DOMAIN ms

\* The discovery handler is called at most once, and a discovery that is over
\* has called it: neither success nor the last failed attempt is retried.
CalledOnce ==
  \A c \in Connections : Len(calls[c]) = (IF stage[c] = "done" THEN 1 ELSE 0)

\* A discovery fails only after max_discover_attempts attempts, each of which
\* asked every configured seed, whatever other connections found meanwhile.
GivesUpOnlyAfterAllAsked ==
  \A c \in Connections : \A i \in DOMAIN calls[c] :
    (calls[c][i].ec = "endpoint_discovery" /\ gossip_seeds # 0) =>
      asked[c] = MaxDiscoverAttempts * gossip_seeds

\* From a sane report the node chosen is one of its members, alive and allowed,
\* and with the master preference none of the others is further than it.  A node
\* without an address, on which make_address_v4 throws, is chosen only from a
\* report that is not sane, or after a discovery that began with old gossip.
ChosenNodeIsBest ==
  /\ \A c \in Connections : \A i \in DOMAIN calls[c] :
       (calls[c][i].ec = "success" /\ Sane(old_gossip)) =>
         LET best == calls[c][i].node IN
         /\ \E k \in DOMAIN old_gossip : old_gossip[k] = best
         /\ allowed(best)
         /\ preference = "master" =>
              \A k \in DOMAIN old_gossip \ Unusable(old_gossip) :
                order(best) >= order(old_gossip[k])
  /\ (halted = "address" /\ old_gossip = <<>>) => ~Sane(gossip)

\* Every discovery ends: the handler is called, or the program has stopped.
DiscoveryEnds ==
  \A c \in Connections : stage[c] = "posted" ~> (calls[c] # <<>> \/ halted # "no")

==============================================================================

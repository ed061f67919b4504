# A TLA+ verification of EventStore.Client.Api.Cpp

EventStore.Client.Api.Cpp is a header-only C++17 client for EventStore's TCP
protocol, built on Boost.Asio. Everything it does is a completion handler run by
one `io_context`: the user posts packages, the operating system completes reads,
writes and timers, and the handlers race in the windows between a completion
becoming ready and being run. These windows are what unit tests hardly reach
and what this project models.

Paths below are relative to `src/include/` of the repository.

## Inventory

| Part | State | Operations | What makes it correct |
|---|---|---|---|
| TCP connection (`connection/basic_tcp_connection.hpp`) | `socket_`, `message_queue_`, `package_no_`, the two maps, the read buffer | `async_connect`, `async_send` (with and without handler), `async_start_receive`, `on_package_received`, `do_async_send`, `close` | one write at a time, none forgotten, packages in order; every handler called exactly once |
| Operations map (`operations_map.hpp`) | handlers by correlation id | `register_op` (keeps an existing key), `operator[]` (throws), `contains`, `erase` | a lookup is only made for a registered key |
| Request with a deadline (`tcp/operation.hpp`) | deadline, key | `initiate`, completion of the deadline | the answer and the deadline do not both complete a request |
| Package reader (`tcp/read.hpp`) | one buffer for all packages, length prefix | read a length, check it, read the rest | a package is handed over whole or the connection ends; no byte of one shows in another |
| Heartbeats (`tcp/heartbeat.hpp`) | last package number, stage, timer | `initiate`, completion of the timer | closes on silence and only on silence |
| Connection establishment (`tcp/connect.hpp`, `tcp/authenticate.hpp`, `tcp/identify.hpp`, `tcp/discovery_service.hpp`) | stage, deadlines, reconnections | discovery, TCP connect, authenticate, identify | the user is told once, and told the truth |
| Cluster discovery (`tcp/cluster_discovery_service.hpp`) | gossip seeds, known nodes, attempt | attempt loop, gossip, choice of a node | ends within `max_discover_attempts`, chooses an allowed live node |
| Subscription base (`subscription/subscription_base.hpp`) | guard, subscribed flag, key in both maps | `async_start`, `unsubscribe` in three forms | exactly one drop notification, no event after it |
| Volatile and persistent subscriptions (`subscription/volatile_subscription.hpp`, `subscription/persistent_subscription.hpp`) | acknowledgement mode, window | start, confirmation, events, `acknowledge`, `fail`, drop, `unsubscribe` from inside a callback | events keep flowing through the window; every end is notified |
| Catch-up subscription (`subscription/catchup_subscription.hpp`) | next event number, live buffer, outstanding read, posted drains | start, initial batches, switch to live, missed events, live events | every event once, in order, across the switch |
| Catch-up subscription to all streams (`subscription/catchup_all_subscription.hpp`, `position.hpp`) | current position, position to catch up to, live buffer | as above, by commit and prepare position | as above, and the catch-up ends |
| Buffer queue (`buffer/buffer_queue.hpp`) | chunks, two unsigned indices | `push_back`, `emplace_back`, `pop_front`, `front`, `size`, `clear` | it is a first-in first-out queue |
| Package codec (`tcp/tcp_package.hpp`, `tcp/tcp_flags.hpp`) | bytes | two constructors, a view that checks them | a package read back is the package written, and no view leaves its frame |
| Transactions (`transaction.hpp`, `start_transaction.hpp`, `transactional_write.hpp`, `commit_transaction.hpp`) | committed and rolled-back flags, requests in flight | start, write, commit, roll back | one commit, with all its writes, and none after a roll-back |
| Stream operations (`append_to_stream.hpp`, `delete_stream.hpp`, `read_*.hpp`, `*_stream_metadata.hpp`, `*_persistent_subscription.hpp`) | none | one request each, and a mapping of its results | success told is true, and the user is always told |
| Settings, results, errors, `guid`, logger, generated protobuf | plain data | | |

Interactions: user code and all parts call `async_send`, which posts a lambda;
the receive loop calls handlers found in `operations_map_`, then in
`subscriptions_map_`, then answers heartbeats; deadlines call the same handlers
from their own completions; subscriptions register under one key in both maps;
the heartbeat chain sends through the connection's queue and reads its package
counter. `PROJECT.json` lists the hazards with their lines.

## Modules

| Module | Models | Composition |
|---|---|---|
| `TcpConnection` | connection, operations map, `operation_op` | refines `Requests` |
| `Requests` | what `async_send(package, handler)` promises | abstract |
| `TcpConnection_proofs` | theorems about `TcpConnection` and `Heartbeat` | extends `Heartbeat` |
| `Heartbeat` | `heartbeat_op` on a connection | extends `TcpConnection` |
| `Connect` | `async_connect` from discovery to identification | own channel |
| `ClusterDiscovery` | `cluster_discovery_service`, used by several connections | own environment |
| `SubscriptionBase` | what all subscriptions share | |
| `Subscription` | volatile and persistent subscription, and its server | extends `SubscriptionBase` |
| `CatchupSubscription` | catch-up subscription, the stream and its server | extends `SubscriptionBase` |
| `CatchupAllSubscription` | catch-up subscription to all streams, the log and its server | extends `SubscriptionBase` |
| `StreamOperations` | the operations that are one request, and a stream on the server | |
| `Transaction` | the transaction object next to other operations | extends `StreamOperations` |
| `TcpPackage` | package format and reader over a stream of bytes | own peer |
| `BufferQueue` | chunked queue | refines `FifoQueue` |
| `FifoQueue` | first-in first-out queue | abstract |
| `Connect_proofs`, `ClusterDiscovery_proofs`, `Subscription_proofs`, `CatchupSubscription_proofs`, `CatchupAllSubscription_proofs`, `Transaction_proofs`, `BufferQueue_proofs` | theorems about the module they are named after | extend it |

`MC*` modules instantiate them for TLC. An operator whose comment starts with
"Mistake:" is a plausible error in the definition after it; no specification
uses it. They document which error each property catches: replacing the
definition by the mistake makes TLC report the property (`mutants` in
`PROJECT.json`).

### How state and steps correspond

*One completion handler is one action.* The `io_context` is run by one thread,
as in every example of the repository, so a handler is atomic. What the
operating system does is a separate action that only makes a completion ready:
`WriteCompletes`, `ReadCompletes`, `DeadlineExpires`, `HeartbeatExpires`. The
handler (`HandleWritten`, `HandlePackage`, `HandleTimeout`, ...) runs later. A timer
that is cancelled while armed becomes `aborted`; one that has already expired
cannot be cancelled, as Asio specifies.

*Posted lambdas are sequences.* `posted` in `TcpConnection` holds the packages
captured by the lambdas of `async_send`; `posted` in `SubscriptionBase` the error
codes of the "erase and drop" lambdas; `drains` in `CatchupSubscription` counts
the posted calls of `read_subscription_events`.

*Exceptions.* `operations_map::operator[]` is `unordered_map::at`. Where its key
may be absent the action sets `thrown`, after which nothing happens: the
exception leaves `io_context::run`.

*Undefined behaviour* is a choice. The completion of a read of missed events refers to
a handler that a drop may have erased: either the memory still holds the handler and
the completion goes on with it (`HandleMissedSlice`, `HandleMissedError`, which look at
neither the guard nor the map), or the program ends (`HandleMissedDangling` sets
`dangling`, after which nothing happens). Two cases are taken to work as if nothing
had happened: a handler called after it was moved from during the handshake
(`tcp/identify.hpp:89` when a request is sent again after its answer was handled,
`tcp/connect.hpp:132` when authentication is answered a second time; a handler without
state of its own, or one whose moves are copies, does), and the numbers that
`from_json` leaves alone in a `member_info` (`message/cluster_messages.hpp:248`), which are
zero if the JSON library value-initializes the object it fills and indeterminate if
it does not: then a member without a known state could pass for a live node.

*Packages* carry a command and a correlation id, or for subscriptions a command
and the one number or reason that is looked at. Commands that share a branch of
the code share a value ("other", "unexpected", "garbage").

*The subscription modules* abstract the connection to two ordered channels and a
`connected` flag. `TcpConnection!SendOrder` is what justifies the order. The
deadline and map entry of the unsubscription request are kept, because the key
it is registered under is the subscription's own.

*The catch-up stream* is its length: events are numbered from 0 without gaps.
The server answers a read with any number of events between one and what was
asked for, and pushes events written after the subscription.

*The log of all streams* is the sequence of the positions of its events. An event
written on its own has its commit position as prepare position too; an event of
a transaction has an earlier prepare position. A read begins with the event at
the given position; the confirmation carries the last commit position. `seen`
records an event given twice in a row once, and `repeated` that it was.

*An operation on a stream* is a record: the command it sends, the command it accepts,
what it tells the user for each result, and the results it is silent about.
`HandleAnswer` looks the answer up in it. The server executes requests in the
order in which they were sent, or refuses them for any reason the protocol has,
and may report a timeout for a request it executed or not; answers are handled
in any order, before or after other calls. A deadline may pass at any time.
`Transaction` adds the object with its flags and the server's side of a
transaction, which checks the expected version at the commit.

*Bytes* in `TcpPackage` are numbers below `ByteModulus`; the characters of logins,
passwords and messages are three different bytes, so that a field read at a
wrong offset differs. Whether a read returns its bytes in one piece is invisible
to `async_read`, so it completes once all have arrived.

*Callbacks that re-enter.* `UnsubscribeInEvent` of `Subscription` is the delivery of an
event whose `event_appeared` calls `unsubscribe()`; an automatic acknowledgement
follows in the same step, as in `persistent_subscription.hpp`.

*Cluster discovery* runs an attempt in one handler, with blocking calls. Its steps,
one per candidate, exclude every other handler of the event loop. `from_json`,
`remove_if` with `erase`, `sort`, `stable_partition` and `shuffle` are modelled by what
they may leave in the vector, moved-from members included; seeds are counted,
because any of them may answer anything. `halted` says why the event loop stopped:
an exception, an access through a null pointer, or a seed that never answers.

*History variables* are named as such: `requested`, `wire`, `results`, `heard`,
`received` (of `TcpPackage`), `granted`, `expiries`, `ignored`, `seen`, `repeated`, `dropped`, `asked`,
`gossip`, `told`, `timedOut`, `sent`. They record calls
and never enable or disable an action of the client; the server's actions read
`wire` and the request counts, because it answers only what it received.

## Runs

| Run | Configuration | Distinct states | Result |
|---|---|---|---|
| `tcp_connection` | 2 requests, counter modulo 2, 2 server packages, fair | 292,634 | passes |
| `tcp_timer_race` | 1 request | | violation, see Findings |
| `heartbeat` | 1 request, counter modulo 2, 2 server packages, fair | 329,627 | passes |
| `subscription` | both classes, automatic and manual acknowledgement, window 2, 3 events, fair | 59,382 | passes |
| `catchup_subscription` | batches of 2, live queue 1, stream up to 6, fair | 234,576 | passes |
| `catchup_missing` | the same, stream up to 3 | | violation, see Findings |
| `catchup_all` | batches of 2, live queue 1, log up to 3, fair | 741,734 | passes |
| `buffer_queue` | chunks of 2, indices modulo 4, up to 6 elements | 379 | passes |
| `connect_handshake` | 1 reconnection, 4 answers, fair | 260,811 | passes |
| `cluster_discovery` | 2 connections, 2 seeds, 2 attempts, reports of up to 3 members, fair | 309,582 | passes |
| `transaction` | 4 calls: up to 1 single operation, 2 writes, 2 commits, the start | 946,754 | passes |
| `package` | bytes modulo 4, ids of 2 bytes, credentials up to 5, 2 packages, fair | 247,359 | passes |

What they show:

- `tcp_connection`: `HandledExactlyOnce` and `RegisteredWithDeadline` settle the race of
  answer, deadline and timer error; `WriterAwake`, `SendOrder` and `SendsDrain` the write
  chain; `ThrowsOnlyOnLateCancel` says that the one way out of the event loop is the
  race under Findings; `ImplementsRequestsFairly` is the refinement to `Requests`, its
  liveness included: a request ends even when the server never answers, a write
  fails or `close()` is called, by the deadline alone.
- `heartbeat`: `TimeoutOnlyOnSilence` is exact up to wrap-around: 2^32 packages in
  one interval look like silence. `NoRequestIntoSilence`: each request needs a package
  handled since the one before. `SilenceEndsConnection`.
- `subscription`: `OneDropPath` counts the ways a drop can still reach the user and
  finds one once the guard is locked, none before; `NoEventAfterStop`;
  `EndIsNotified`: an unsubscription completes without any help of the server, and a
  drop for a reason the code lists reaches the user; `EventsKeepFlowing` through the
  window when acknowledgement is automatic.
- `catchup_subscription`: `OnlyConfirmedEventSkipped` describes exactly what the switch to
  live does (no duplicate, no reordering, one event that may be lost);
  `LiveEventsDelivered` that the chain of drains does not break;
  `OnlyMissedEventsAfterStop` and `DroppedTwiceOnlyByRead` what a read of missed events
  may still do after the end, through the erased handler too.
- `catchup_all`: `OnlyConfirmedEventSkipped` and `InOrder` by position; `CatchUpEnds`
  states when the catch-up ends. See "Limits the runs describe".
- `buffer_queue`: `ImplementsFifo` with `QueriesAgree`; slots that were never
  constructed hold `Garbage`, which may not come out.
- `connect_handshake`: `SuccessOnlyIfGranted` with answers that come late;
  `ExtraCallsNeedExpiry` bounds how often `async_connect` completes;
  `TypeOK` bounds the requests sent again; `ConnectNotifiesUnlessIgnored`.
- `cluster_discovery`: `CalledOnce` and `GivesUpOnlyAfterAllAsked` across the retries
  of two connections; `ChosenNodeIsBest` says for which reports the choice of the
  node is right and has an address, namely those with at most one member that may
  not be chosen; `DiscoveryEnds`.
- `transaction`: `SuccessIsTrue` relates what each operation tells to what the server
  did, also when deadlines and other requests come in between; `CommitKeepsWrites`
  although writes may be in flight when the commit is sent (it rests on the order
  that `TcpConnection!SendOrder` gives); `RolledBackStaysOut`; `CommitSentOnce`;
  `ToldUnlessServerTimedOut` says exactly which calls never end.
- `package`: `FramesInOrder` over the reused buffer; `ViewStaysInFrame` even when a size
  byte wrapped around; `EveryPackageRead` for the smallest and the largest package.

### Bounds

Every bound is a constant named in its module. Two requests make two handlers
compete for the queue and the map. Two server packages cover an answer and a
repeated or late answer or a heartbeat. A counter modulo 2 makes
wrap-around happen. Three events fill a window of two and leave one to
wait. A stream of six spans two batches, events missed during the switch, and
live events; a live queue of one makes every drain post itself. A log of three
events leaves one for each of the initial batches, the missed and the live ones,
or three for one of them, which is more than a batch. Chunks of two
and six elements give queues of up to four chunks, and modulo 4 is the smallest
modulus in which -1 is not a slot. Two connections let one succeed while the other
retries; three members are the least with which a member that may be chosen
meets two that may not. Four answers let both handshake requests be
answered twice. Four calls are a start, two writes and a commit, or a start with a
write, a commit and another operation, or two commits. Bytes modulo 4 and names
of up to five characters make a size byte wrap around, to zero and to one;
`kMaxPackageSize` is 17, the length of the largest package of the model, and the
prefixes just below the smallest and just above the largest are sent too; two
packages make the reader reuse its buffer.

### Fairness

Weak fairness on handlers: the `io_context` runs every handler that is ready. On
timers: time passes. On a started write: it completes or fails. On a read with
data waiting: it completes. Nothing is assumed of the user, and of the server
only where a property is about what it sends: `ServerIsFair`, a premise of
`EventsKeepFlowing` (the server reads acknowledgements and sends what the window
allows), and `FairSpec` of
`CatchupSubscription` and `CatchupAllSubscription` (it answers reads, or they fail, and
it pushes events). In `Connect` discovery
and the TCP connect end in success or failure. In `TcpPackage` the handlers of
completed reads run; the peer may stop at any time. In `ClusterDiscovery` an attempt goes
on from candidate to candidate; a seed that never answers is a step of its own,
after which nothing happens.

Deadlock is not checked, except for `buffer_queue`: a closed connection with
nothing pending, a dropped subscription, calls that have all ended and a program
that ended by an exception really stop.

## Proofs

TLAPS checks every theorem below for all values of the constants. The proofs use
the `ASSUME`s of the modules they extend and no others: sets of requests or
connections, numbers of events, calls, attempts and packages, window, batch and
chunk sizes and counter widths are arbitrary within them.

| Theorem | Module (`_proofs`) | States |
|---|---|---|
| `TypeCorrect`, `HandledOnce`, `AlwaysDeadline`, `ThrowsOnlyLate`, `WriterNeverSleeps`, `SentInOrder` | `TcpConnection` | `TypeOK`, `HandledExactlyOnce`, `RegisteredWithDeadline`, `ThrowsOnlyOnLateCancel`, `WriterAwake`, `SendOrder` |
| `ImplementsRequests` | `TcpConnection` | `Spec => Contract!RSpec`: the refinement of `Requests`, without its fairness |
| `TimeoutMeansSilence`, `RequestsAnswered` | `TcpConnection` | `TimeoutOnlyOnSilence`, `NoRequestIntoSilence` of `Heartbeat` |
| `HandshakeTyped`, `SuccessIsGranted`, `CallsAreCounted` | `Connect` | `TypeOK`, `SuccessOnlyIfGranted`, `ExtraCallsNeedExpiry` |
| `HandlerCalledOnce`, `AllAskedBeforeGivingUp`, `BestNodeChosen` | `ClusterDiscovery` | `CalledOnce`, `GivesUpOnlyAfterAllAsked`, `ChosenNodeIsBest` |
| `DropIsUnique`, `SilentAfterStop` | `Subscription` | `OneDropPath`, `NoEventAfterStop` |
| `NothingElseSkipped`, `SecondDropIsRead`, `OnlyMissedAfterStop` | `CatchupSubscription` | `OnlyConfirmedEventSkipped`, `DroppedTwiceOnlyByRead`, `OnlyMissedEventsAfterStop` |
| `NothingElseSkipped`, `EventsInOrder` | `CatchupAllSubscription` | `OnlyConfirmedEventSkipped`, `InOrder` |
| `SuccessHolds`, `CommittedWritesKept`, `RolledBackOut`, `OneCommitSent`, `HandlerTold` | `Transaction` | `SuccessIsTrue`, `CommitKeepsWrites`, `RolledBackStaysOut`, `CommitSentOnce`, `ToldUnlessServerTimedOut` |
| `QueueIsFifo`, `QueriesAreRight` | `BufferQueue` | `ImplementsFifo`, `QueriesAgree` |

### The arguments

*Connection.* `TypeOK` is inductive because it also says that a write is
outstanding only for a queued package and a package ready only if one arrived.
The operations need `OpInv`: `HandledExactlyOnce` alone is not inductive, since an
armed deadline outside the map, or a registered operation whose deadline is done,
could call a handler a second time or never; `RegisteredWithDeadline` excludes
both, and `LateAnswered` (an expired deadline that lost its operation lost it to an
answer) is what `ThrowsOnlyOnLateCancel` rests on. `InvokeOpInv` proves once that
calling and erasing an operation preserves `OpInv`; the answer, the timeout and the
timer error cite it. `SentInOrder` rests on three lemmas about sequences, one for
each move of a package: posted, queued, written. The refinement adds `TravelInv`:
what travels to the server was submitted, and what the server sends answers a
request it received. Each action of `TcpConnection` then is one action of
`Requests` under the mapping, or a stutter.

*Heartbeats.* The code compares counters modulo their width. `CountInv` says that
since its last request `package_no_` is ahead of the remembered number by the
packages handled, modulo the width, so that equality means a multiple of it.
`StageInv` says that the chain is in the interval stage only if a package was handled
since the last request. It follows from `CountInv` where the stage begins: the two
numbers differ, so at least one package came. Without it
`NoRequestIntoSilence` does not follow, since a request is sent when the numbers are
equal, which by itself says nothing about what came since the request before.

*Establishing a connection.* `ExtraCallsNeedExpiry` is not inductive, because a
pending operation can still lead to calls. `CallInv` strengthens it with a
potential: `Open(k)` is the number of calls operation `k` can still lead to without
another deadline ending. `HandshakeInv` says which operations can be pending
together, `GrantInv` that "authenticated" is nowhere unless the server said it.

*Cluster discovery.* `DiscoveryInv` relates the number of seeds asked to the attempts
made and the candidates left, and says that at most one connection is in an
attempt, because an attempt is one handler. `ChosenNodeIsBest` needs two things more.
`ChoiceInv` says that the node passed to a handler was chosen from the very gossip that
is kept: nobody asks a seed once there is gossip, so no later report replaces it.
`BestOfSane` says what the choice returns for one report, along the operators it is
made of: `pick` returns the elements at its places and no others (the ranks of the
places are an injection into as many numbers, hence onto them), `erase` takes away
all that `remove_if` left if that is at most one member, a shuffle and the slave
arrangement keep length and members, and the first of a sorted sequence is the
furthest. Filters and permutations are written without `SelectSeq` and
`Permutations`, about which the prover knows nothing; TLC found both forms to give
the same `bestNodes` for all reports of up to four members in three states.

*Subscriptions.* `DropInv` of `Subscription_proofs` is the life of a subscription in
four states: unlocked, asking the server, ending by a posted lambda, ended. Each
action moves it forward or leaves it. For the catch-up subscription the states
overlap, because a read of missed events can fail at any time; there `CallInv`
counts the calls of `dropped` that were made or are on their way (one once the
guard is locked, and a second one only with a "read_failed" among them and no
such read left), and `EndInv` says that the end empties the live buffer.

*Order of a catch-up subscription.* The events given are `Straight`, numbered from the
first without a gap, or `Bent`, with the confirmed event left out. `OrderInv` follows
the subscription through four stages (`Reading`, `Waiting`, `Live`, `Stopped`) and says in
each where the next event comes from: `NextLive(n)` fixes the number `n` of the next
live event by whether missed events are still to be read and whether the
confirmed one was skipped, and `Numbered` that buffer and channel go on from there.
`MissedInv` says that a read of missed events starts at the user's place and ends
at the confirmed event, whatever the guard says. Then every slice, live event and
posted drain continues what was given. `OnlyMissedEventsAfterStop` follows from the same
invariant: once the guard is locked the live buffer is empty (`EndInv`) and no package
is dispatched, so only a read of missed events can give any, and by `MissedInv` it
ends before the confirmed event. Neither needs the subscription to be in the
map. TLC checked `DropInv` and `OrderInv` on the
instance of `catchup_subscription` before they were proved.

*Order of a catch-up subscription to all streams.* Positions take the place of
numbers. `LogInv` says that positions ascend along the log, so that a position
`Splits` it into the events before it and the rest (the cardinality a read starts
from); `Confirmed` relates the confirmed commit position to the event that was the
last one when the server answered. The stages are those above; what is new is in
`MissedTo(m, n, f, h)`. The reads of missed events have given `f` events, `h` are given
in all, the confirmed event is the `m`-th and the next live one the `n`-th. While `f`
has not passed `m`, live events are held back and `f = h`. A read begins with the
last event of the one before (`Splits(slice.from, f - 1)`), which `seen` records
once. If no event has the confirmed position twice, `f` runs past `m` and the reads go
on next to the live events: then only `n <= h + 1` holds, which is enough for
`OnlyConfirmedEventSkipped` and is why `InOrder` has a premise. `SortedInv` is
`InOrder` for all pairs; `CallInv` says that nothing that ends the subscription is on
its way while the guard is unlocked, and that the position to catch up to lies
within the log. `InOrder` alone is not inductive, since it says nothing of
what lies in the buffer, the channel and the outstanding read. TLC checked the whole
invariant first, for first positions 0, 1 and 2, batches and live queues of 1 and 2
and logs of up to 4 events.

The attempt to prove `InOrder` found a case its premise did not exclude. On a log
that is empty when the subscription is confirmed, the confirmed position can lie
behind the start without being that of any event; events written later are then read
as missed events and pushed as live ones too. The server of the model confirms such
a position if the first event of a log lies at position 2 or higher, which the
instance of `catchup_all` (1) does not show. `EndsAtEvent` now says directly that
the confirmed position, if it leaves anything to catch up to, is that of an event.

*Transactions.* `TransactionInv` has seven parts. `ToldInv` and `FlagInv` (the two flags
exclude each other, and a commit that was sent set one) give `CommitSentOnce` and
`ToldUnlessServerTimedOut`. `FlowInv` says that a request is on its way once and that
the server commits only what was asked to be committed, `StreamInv` that the stream
holds writes of the transaction only through its commit: together
`RolledBackStaysOut`. `OrderInv` keeps the writes ascending from the calls over the wire
to what the server staged, and `TruthInv` follows each answer from the server's
step to the user.

*Buffer queue.* The invariant is `TypeOK` itself. The work is arithmetic: where element
`k` lies (`Division`, `Remainder`, `Located`), that a chunk is entered or left exactly
when an index wraps around (`NextChunk`), and that writing one slot changes one
element of the view. `PushStep` and `PopStep` map to `Append` and `Tail` of the abstract
queue.

### Only model-checked

- All liveness properties (`SendsDrain`, `SilenceEndsConnection`, `EndIsNotified`,
  `EventsKeepFlowing`, `LiveEventsDelivered`, `CatchUpEnds`, `ConnectNotifiesUnlessIgnored`,
  `DiscoveryEnds`, `EveryPackageRead`) and the fairness part of
  `ImplementsRequestsFairly`: the prover has no rules for fairness.
- `FramesInOrder` and `ViewStaysInFrame` of `TcpPackage`: reading a length back rests on
  division and remainder by powers of `ByteModulus`. The provers know nothing of `^`
  (not that `b ^ 2 = b * b`), and with the powers written as products they do not
  find by themselves that four digits give back the number they were taken from.

## Findings

1. **A late answer ends the program** (`tcp_timer_race`, `tcp/operation.hpp:82`). If
   the deadline of a request has expired, and the answer is handled before the
   deadline's completion handler, `cancel()` comes too late, the operation is
   erased, and the completion handler's `op_map_[key_]` throws out of
   `io_context::run`. The comment there takes success to mean a timeout.
2. **The last confirmed event is skipped** (`catchup_missing`,
   `subscription/catchup_subscription.hpp:106`). `current_event_number_` is the next
   event to read and `last_event_number` the last one in the stream, so
   `last - current` is one short and the comparison should include equality.
   `OnlyConfirmedEventSkipped` shows this is the only event that can be lost.

## Limits the runs describe

Some runs pass because their properties say what the code does, which is less
than its users may expect:

- **`async_connect` may never complete** (`connection/basic_tcp_connection.hpp:105`,
  `tcp/connect.hpp:126`). An unexpected answer during the handshake cancels the
  deadline and returns silently; `examples/catchup_subscription.cpp:76` says that the
  handler is called "on error or success". `ConnectNotifiesUnlessIgnored` excludes it.
- **A dead node may be chosen** (`tcp/cluster_discovery_service.hpp:279`). `erase(it)` erases
  one member where `remove_if` may have left several, so with two members that are
  not alive or not allowed one of them, or a member whose strings were moved away,
  stays and can come first. `Sane`, the premise of `ChosenNodeIsBest`, excludes these
  reports, and those whose only member may not be chosen: line 315 then reads
  the first element of an empty vector.
- `tcp/cluster_discovery_service.hpp:214` copies into an empty vector. Whenever a discovery begins after another
  one on the same `io_context` has succeeded (a second connection, or a retry of a
  connection that was slower), the program ends: `ArrangeGossipCandidates`.
- `gossip_timeout` is not used: a silent seed stops the event loop (`AskHalts`).
- With the slave preference non-slaves are put in front (as line 297 says), so a
  slave is chosen for certain only if no other node may be.
- **Catching up by position** (`subscription/catchup_all_subscription.hpp:199-221`). The event at
  the confirmed commit position is not given to the user unless it was in the
  initial batches. Each read of missed events begins with the last event of the one
  before, which is given again; with a batch size of 1 that is the only event, for
  ever. If the last commit before the subscription was that of a transaction, no
  event has this position twice: the loop reads on past it, together with the live
  subscription, and does not end. Hence the premises of `InOrder` and `CatchUpEnds`.
- **Events after the end of a catch-up subscription**
  (`subscription/catchup_subscription.hpp:203-239`, `subscription/catchup_all_subscription.hpp:192-230`).
  The completion of a read of missed events does not look at the guard. It may call
  `event_appeared`, or `dropped` a second time, after the user was told of the end,
  and it does so through references into the handler that the drop has erased from
  `subscriptions_map_`: undefined behaviour, in which the program may also end.
  `OnlyMissedEventsAfterStop` and `DroppedTwiceOnlyByRead` say what happens if the memory
  still holds the handler; no property says that it does.
- **Server timeouts** (`append_to_stream.hpp:122`, `delete_stream.hpp:88`). Where a comment says
  "retry", nothing is retried: `append_to_stream`, `conditional_append_to_stream`,
  `set_stream_metadata` and `commit_transaction` never call the handler,
  `delete_stream`, `start_transaction` and `transactional_write` report success.
- A commit that fails cannot be tried again, because `is_committed_` stays set
  (`transaction.hpp:49`); nor can the transaction be rolled back then.
- A login or password of 256 bytes or more is written whole behind a size that is
  taken modulo 256 (`tcp/tcp_package.hpp:215`): the server reads other credentials and another
  message. `FramesInOrder` promises only command and correlation id then.

## Not modelled

- Generated protobuf code (`message/messages.pb.h`, `src/messages.pb.cc`): 34,700 of the
  repository's 45,500 lines, three quarters of it. It is the output of `protoc` and has no
  logic of this program, so the share of all lines that the modules stand for
  stays small however much of the hand-written code is modelled.
- Settings, result objects, error categories and their texts, `guid`, the logger and
  the names of commands: data, formatting and layout without state. Contents of
  messages; among them the `position` of a `write_result`, whose two numbers are passed
  in the other order, as a comment at `append_to_stream.hpp:157` wonders about.
- Objects used after their end: a connection destroyed while handlers are pending,
  the `string_view` in `get_stream_metadata.hpp:29`. Copies and moves of packages.
- `unsubscribe()` inside `event_appeared` of a catch-up subscription while its buffer is
  read: it empties the buffer before `pop_front()`, which is undefined there.
- A subscription object started a second time; `max_live_queue_size` 0; streams with
  truncated events in `CatchupSubscription`.
- Catch-up from beyond the end of the stream (`Init` of `CatchupSubscription`): live events with
  numbers below `from_event_number` would then be given, and `current_event_number_`
  would be counted up from the wrong number. Catch-up to all streams from a position
  other than the start of the log (`Init` of `CatchupAllSubscription`): the first batch
  then begins at the event at that position instead of the first one.
- More than one thread running the `io_context`.

## State of the project

All components with behaviour of their own are modelled, and all invariants and
action properties of the runs are proved except the two invariants of `TcpPackage`;
the liveness properties are model-checked. What could
be done next is a proof about the package format: with the powers of `ByteModulus`
written as products, a lemma that a length is read back as written, then the
offsets of the fields of one package, and last the stream of frames, which can be
followed without induction by naming, for each package sent, what the socket still
holds behind it.

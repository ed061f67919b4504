----------------------------- MODULE TcpPackage ------------------------------
(****************************************************************************)
(* The package format (tcp_package.hpp) and the reader that cuts the bytes  *)
(* of a connection into packages (read.hpp).  A package is a length of four *)
(* bytes, a command, flags, a correlation id, then, if it is authenticated, *)
(* a login and a password with a size of one byte each, and the message.    *)
(*                                                                          *)
(* A byte is a number below ByteModulus.  The characters of a login, of a   *)
(* password and of a message are three different bytes, so that a field     *)
(* read at a wrong offset shows; what they say is left out.                 *)
(****************************************************************************)
EXTENDS Integers, Sequences

CONSTANTS
  ByteModulus,       \* 256 in the code
  CorrelationSize,   \* 16 in the code
  kMaxPackageSize,   \* 64 * 1024 * 1024 in the code
  MaxName,           \* bound: characters of a login or password
  MaxMessage,        \* bound: bytes of a message
  MaxPackages        \* bound: packages on the connection

ASSUME ByteAssumption == ByteModulus \in Nat /\ ByteModulus > 3
ASSUME CorrelationAssumption == CorrelationSize \in Nat \ {0}
ASSUME PackageSizeAssumption ==
  kMaxPackageSize \in Nat /\ 2 * kMaxPackageSize < ByteModulus ^ 4
ASSUME PackageBoundAssumption ==
  MaxName \in Nat /\ MaxMessage \in Nat /\ MaxPackages \in Nat

VARIABLES
  socket,      \* bytes that arrived and were not read yet
  storage,     \* the vector behind buffer_
  size,        \* bytes of it that are committed
  reading,     \* the outstanding read: "length", "message" or "none"
  wanted,      \* bytes it waits for
  closed,      \* the socket was closed
  lost,        \* the peer is gone
  sent,        \* history: packages the peer sent, in order
  received     \* history: packages given to on_package_received

bufferVars == <<storage, size>>
vars == <<socket, storage, size, reading, wanted, closed, lost, sent, received>>

------------------------------------------------------------------------------
(* The format.                                                              *)

kCommandOffset == 4
kFlagsOffset == kCommandOffset + 1
kCorrelationOffset == kFlagsOffset + 1
kAuthOffset == kCorrelationOffset + CorrelationSize
kMandatorySize == kAuthOffset

none == 0
authenticated == 1

Bytes(char, n) == [i \in 1..n |-> char]
Login(n) == Bytes(ByteModulus - 1, n)
Password(n) == Bytes(ByteModulus - 2, n)
Message(n) == Bytes(1, n)

\* An int in four bytes, the lowest first; the upper half is negative.
LengthBytes(n) ==
  [i \in 1..4 |-> ((n % ByteModulus ^ 4) \div ByteModulus ^ (i - 1)) % ByteModulus]
Length(bytes) ==
  LET n == bytes[1] + bytes[2] * ByteModulus + bytes[3] * ByteModulus ^ 2
             + bytes[4] * ByteModulus ^ 3
  IN  IF 2 * n >= ByteModulus ^ 4 THEN n - ByteModulus ^ 4 ELSE n

\* The authenticated constructor of tcp_package: a size is cast to one byte,
\* the characters are all copied.
Authenticated(p) ==
  LET body == <<p.command, authenticated>> \o Bytes(p.id, CorrelationSize)
                \o <<p.login % ByteModulus>> \o Login(p.login)
                \o <<p.password % ByteModulus>> \o Password(p.password)
                \o Message(p.message)
  IN  LengthBytes(Len(body)) \o body

\* The unauthenticated constructor.
Unauthenticated(p) ==
  LET body == <<p.command, none>> \o Bytes(p.id, CorrelationSize)
                \o Message(p.message)
  IN  LengthBytes(Len(body)) \o body

\* A caller takes the constructor that fits the flags; with the other one the
\* package stays empty.
tcp_package(p) ==
  IF p.flags = authenticated THEN Authenticated(p) ELSE Unauthenticated(p)

\* tcp_package_view: the fields of the package in the first bytes of memory.
At(bytes, offset) == bytes[offset + 1]
From(bytes, offset, n) == SubSeq(bytes, offset + 1, offset + n)

is_authenticated(bytes) == At(bytes, kFlagsOffset) = authenticated
login_size(bytes) == At(bytes, kAuthOffset)
password_offset(bytes) == kAuthOffset + 1 + login_size(bytes) + 1
password_size(bytes) == At(bytes, password_offset(bytes) - 1)

message_offset(bytes) ==
  IF is_authenticated(bytes)
  THEN password_offset(bytes) + password_size(bytes)
  ELSE kMandatorySize

\* Mistake: a package without a message is taken for a short one.
is_valid_strict(bytes, length) ==
  /\ length > kMandatorySize
  /\ is_authenticated(bytes) =>
       length > kMandatorySize + 1 + login_size(bytes) + 1 + password_size(bytes)

\* What the constructor of the view checks.
is_valid(bytes, length) ==
  /\ length >= kMandatorySize
  /\ is_authenticated(bytes) =>
       length >= kMandatorySize + 1 + login_size(bytes) + 1 + password_size(bytes)

tcp_package_view(bytes, length) ==
  [command |-> At(bytes, kCommandOffset),
   id |-> From(bytes, kCorrelationOffset, CorrelationSize),
   login |-> IF is_authenticated(bytes)
             THEN From(bytes, kAuthOffset + 1, login_size(bytes)) ELSE <<>>,
   password |-> IF is_authenticated(bytes)
                THEN From(bytes, password_offset(bytes), password_size(bytes))
                ELSE <<>>,
   message |-> From(bytes, message_offset(bytes), length - message_offset(bytes)),
   valid |-> is_valid(bytes, length)]

------------------------------------------------------------------------------
(* The peer (external).                                                     *)

Package ==
  [command : {2}, flags : {none}, id : {1, 2}, login : {0}, password : {0},
   message : 0..MaxMessage]
  \cup
  [command : {2}, flags : {authenticated}, id : {1, 2}, login : 0..MaxName,
   password : 0..MaxName, message : 0..MaxMessage]

\* A package whose length prefix is out of range.
Garbled == [flags |-> 2]
BadLength == {kMandatorySize - kCommandOffset - 1, kMaxPackageSize + 1, -1}

\* tcp_connected_handler has called async_start_receive: the length of the first
\* package is being read.
Init ==
  /\ socket = <<>>
  /\ storage = <<>>
  /\ size = 0
  /\ reading = "length"
  /\ wanted = 4
  /\ closed = FALSE
  /\ lost = FALSE
  /\ sent = <<>>
  /\ received = <<>>

PeerSends ==
  /\ ~lost
  /\ Len(sent) < MaxPackages
  /\ \E p \in Package :
       /\ socket' = socket \o tcp_package(p)
       /\ sent' = Append(sent, p)
  /\ UNCHANGED <<bufferVars, reading, wanted, closed, lost, received>>

PeerSendsGarbled ==
  /\ ~lost
  /\ Len(sent) < MaxPackages
  /\ \E n \in BadLength : socket' = socket \o LengthBytes(n)
  /\ sent' = Append(sent, Garbled)
  /\ UNCHANGED <<bufferVars, reading, wanted, closed, lost, received>>

PeerLost ==
  /\ ~lost
  /\ lost' = TRUE
  /\ UNCHANGED <<socket, bufferVars, reading, wanted, closed, sent, received>>

------------------------------------------------------------------------------
(* The dynamic buffer over a vector (external): prepare, commit, consume.   *)

\* The bytes of a completed read lie behind the committed ones.
Prepared(kept, bytes) == kept \o bytes
Consumed(bytes, n) == SubSeq(bytes, n + 1, Len(bytes))

------------------------------------------------------------------------------
(* The reader.                                                              *)

\* Mistake: the package read before is left in the buffer.
initiate_unconsumed(bytes, n) ==
  /\ storage' = bytes
  /\ size' = n
  /\ reading' = "length"
  /\ wanted' = 4

\* read_tcp_package_op::initiate, from async_start_receive: the n bytes of the
\* package read before are dropped from the buffer and four bytes are read.
initiate(bytes, n) ==
  /\ storage' = Consumed(bytes, n)
  /\ size' = 0
  /\ reading' = "length"
  /\ wanted' = 4

\* Mistake: the smallest package is refused.
BadPrefixStrict(length) ==
  length <= kMandatorySize - kCommandOffset \/ length > kMaxPackageSize

BadPrefix(length) ==
  length < kMandatorySize - kCommandOffset \/ length > kMaxPackageSize

\* length_check_handler: the prefix is read where the buffer begins.  In range
\* it is committed and the rest is read, otherwise the connection is closed.
HandleLength ==
  /\ reading = "length"
  /\ ~closed
  /\ Len(socket) >= wanted
  /\ socket' = SubSeq(socket, wanted + 1, Len(socket))
  /\ storage' = Prepared(SubSeq(storage, 1, size), SubSeq(socket, 1, wanted))
  /\ LET length == Length(storage') IN
       \/ /\ BadPrefix(length)
          /\ closed' = TRUE
          /\ reading' = "none"
          /\ UNCHANGED <<size, wanted>>
       \/ /\ ~BadPrefix(length)
          /\ size' = size + 4
          /\ reading' = "message"
          /\ wanted' = length
          /\ UNCHANGED closed
  /\ UNCHANGED <<lost, sent, received>>

\* read_message_handler and the completion of async_start_receive: the frame
\* is committed and given to on_package_received as a view of the buffer, and
\* the next package is read.
HandleMessage ==
  /\ reading = "message"
  /\ ~closed
  /\ Len(socket) >= wanted
  /\ socket' = SubSeq(socket, wanted + 1, Len(socket))
  /\ LET frame == Prepared(SubSeq(storage, 1, size), SubSeq(socket, 1, wanted)) IN
       /\ received' = Append(received, tcp_package_view(frame, wanted + 4))
       /\ initiate(frame, size + wanted)
  /\ UNCHANGED <<closed, lost, sent>>

\* A read that fails closes the connection; one of a message takes the length
\* out of the buffer first.
HandleReadError ==
  /\ lost
  /\ reading # "none"
  /\ ~closed
  /\ Len(socket) < wanted
  /\ storage' = IF reading = "message" THEN Consumed(storage, 4) ELSE storage
  /\ size' = IF reading = "message" THEN size - 4 ELSE size
  /\ closed' = TRUE
  /\ reading' = "none"
  /\ UNCHANGED <<socket, wanted, lost, sent, received>>

Next ==
  \/ PeerSends \/ PeerSendsGarbled \/ PeerLost
  \/ HandleLength \/ HandleMessage \/ HandleReadError

Spec == Init /\ [][Next]_vars

\* The event loop runs the handlers of completed reads.
FairSpec ==
  /\ Spec
  /\ WF_vars(HandleLength \/ HandleMessage)
  /\ WF_vars(HandleReadError)

------------------------------------------------------------------------------
(* Properties.                                                              *)

\* A size of credentials that one byte holds.
Fits(p) == p.login < ByteModulus /\ p.password < ByteModulus

\* The packages given to on_package_received are the packages sent, whole and
\* in order, and none follows a bad length prefix: bytes of an earlier package
\* or of the next one never show through.  Command and correlation id are right
\* even if a login or password is too long for its size byte; the credentials
\* and the message are right if it is not.
FramesInOrder ==
  /\ Len(received) <= Len(sent)
  /\ \A i \in 1..Len(received) :
       /\ sent[i] # Garbled
       /\ received[i].command = sent[i].command
       /\ received[i].id = Bytes(sent[i].id, CorrelationSize)
       /\ Fits(sent[i]) =>
            /\ received[i].login = Login(sent[i].login)
            /\ received[i].password = Password(sent[i].password)
            /\ received[i].message = Message(sent[i].message)

\* No field of a view ends past the frame, whatever the sizes wrapped around
\* to: the fields add up to the frame at most and the view is never the
\* invalid one that on_package_received would dereference.
ViewStaysInFrame ==
  \A i \in 1..Len(received) :
    LET r == received[i]
        p == sent[i]
    IN  /\ r.valid
        /\ Len(r.login) + Len(r.password) + Len(r.message)
             = p.login + p.password + p.message

\* Every package reaches on_package_received if the peer stays, the smallest
\* and the largest one too; the reader is closed only by a bad length prefix
\* or a lost peer.
EveryPackageRead ==
  [](~lost /\ \A i \in 1..Len(sent) : sent[i] # Garbled) =>
    <>[](Len(received) = Len(sent))

==============================================================================

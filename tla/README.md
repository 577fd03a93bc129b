# A TLA+ model of concurrent-biproxy

The repository is a small instant-messaging server on tokio: `connect/` is a
library that runs connections and stacks processors on them, `im/` is a server
built with it, and `serde/` is the binary format of their packets. This
directory holds the specifications of the three, the TLC configurations that
check them on small instances, and proofs that TLAPS checks for every instance.

    tlc -config MCDuplex.cfg MCDuplex.tla           # one run; see "The runs"
    tlapm ConnectorProofs.tla                       # one module of proofs

Paths below are relative to the repository's sources (`src/`).

## 1. The system

The stack that `im/src/main.rs` builds, from the socket inwards:

    TcpConnection  --  run_connection  --  SyncMessageProcessor
                                             HeartBeatProcessor
                                               StateSupportProcessor  (login, who is where)
                                                 Server               (messages)

A processor has three callbacks, `connected`, `process` and `disconnected`,
and calls the next one's. Every packet that is read is processed by a task of
its own. Tasks talk to the connection through a `Context`, which holds the
senders of two channels and a map of attributes behind a lock.

| Component | State | Operations | Interacts with |
|---|---|---|---|
| Connection task (`connect/src/connector.rs`, `context.rs`) | the select loop, send channel (256), shutdown channel (1) | `run`, `run_connection`, `Context::send`, `Context::close` | tasks through the channels, the peer through `Connection` |
| Framing (`connect/src/connection.rs`, `im/src/tcp_connection.rs`) | the reader's buffer | `write`, `next`, `read_buf`, `advance` | the byte stream, the binary format |
| Synchronous messages (`extract/sync_message.rs`) | a map from request id to a oneshot sender, in the Context | `sync_send`, `process` | calls and tasks share the map; `Context::send` |
| Heart beat (`extract/heart_beat.rs`) | `LAST_READ` in the Context; a reactor task per connection | `connected`, `process`, `disconnected`, the reactor's loop | tasks kick `LAST_READ`, `disconnected` signals the reactor |
| Presence (`extract/online_state.rs`, `im/src/online_state.rs`) | `USER_ID` and `STATE_LAST_SYNC` in the Context; the maps `state` and `contexts`, shared by all connections | login, logout, identification, `update_state` (spawned), `disconnected` | shares `contexts` with the server |
| IM server (`im/src/server.rs`) | `request_counter`, shared by all connections | `process`, `send`, `gen_request_id`, `disconnected` | `contexts`, `sync_send` |
| Binary format (`serde/src`) | none | `to_bytes`, `from_bytes` and their `_le` forms | the framing |
| Authentication (`im/src/auth.rs`) | none | `auth`: token to user id | Presence |
| Client (`im/src/client.rs`) | a select loop like the server's, a channel (1) | `new`, `send`, `event_loop` | the server, by the two directions of a socket |

What is hard in it:

- *Concurrency.* Packets of one connection overtake one another; so do the
  tasks that `update_state` spawns. The two maps, the counters and the map of
  waiting calls are shared, each behind a lock of its own, and are read and
  written in separate critical sections.
- *Loss.* The loop returns while tasks wait in `send`, while calls wait for a
  reply, while updates are under way, and while the buffer holds a frame.
- *Order.* A reply may come before, at, or after the end of its timer; a message
  may come before the login that it needs was handled.
- *Both ends at once.* Server and client await their writes inside a select arm,
  so an end that writes reads nothing, and the socket between them is bounded.
- *Boundaries.* Full channels, sizes of numbers, a header of four bytes, times
  at the edge of an interval, a counter at zero.

What makes each component correct:

- connection: accepted packets go out in order; nobody is left waiting; a close
  ends it;
- both ends: what one wrote the other is handed, in order; an end that goes ends
  the other; nothing waits for ever but for a known reason;
- framing: what is returned is what was written, at any cut of the stream;
- synchronous messages: a call ends once, and truthfully; replies and requests
  are not confused; a sender is not lost;
- heart beat: silence, and only silence, is found out, in time; the reactor ends;
- presence: nobody is registered for a user he has not proved to be; who has
  logged in is let in; the maps have who is there and forget who left;
- server: ids of waiting messages differ; every message whose receiver is known is
  sent;
- format: what was written is read back, and nothing else is.

## 2. The modules

Each module's definitions are named after the code where they can be;
`PROJECT.json` gives the lines of every one. Definitions marked "Faulty
variant" are not part of the specification: each is a plausible bug, put in
place of the definition after it to see that a property notices.

**Connector** is one connection. `loop` is where the connection task is: in
`connected`, at the select, in a write, in `disconnected`. The two channels are
a sequence and a count. A write is a step of its own because the loop awaits it
inside the select arm: nothing else of the loop happens meanwhile. Any return of
`run_connection` drops the receivers, so `ReturnFromLoop` empties the channels,
and from then on `send` and `close` fail at once. **FifoLink** is what it
promises: items offered are delivered in order, without gaps, while the link is
up, and none after it.

**Duplex** EXTENDS Connector with the client's loop and with a socket of two
directions between the ends. Here Connector's reads and writes take place: a
write is two halves, header and body, each of which waits for room; a read moves
halves into the reader's buffer and returns a packet when there are enough.
`ServerBody` is Connector's `WriteDone`, `ServerTake` its `Receive`; the other
steps that touch the socket are stutters of Connector (`DuplexImplementsConnector`).
The socket's steps are written once, for either end. A packet is a model value;
`flow` is what was written (or begun) and not returned, and `net` and `buffer`
count its halves. The client's loop is `client` and `saying`: it answers a message
within the arm that read it. Any panic of the client is `ClientGone`, which is
always possible.

**SyncMessage** EXTENDS Connector with the calls of `sync_send` and the
processing of packets. A call is registered in the map (`notify`), sends through
the steps of Connector, waits with its timer, and takes its result from the
oneshot slot. A step that removes an entry by its request id removes whatever
entry has that id by then, as the code does. Dropping a sender ends the call
that waits for it, as `Response::poll` reports a closed oneshot.
**RequestReply** is what it promises: a call is pending and then ends once, with
a reply that carries its id and was given to no one else, by its timer, or as
disconnected when the send failed or another call took over its id.

**Framing** counts bytes instead of building them: a frame is the position of
its header and the length of its body. A read brings any number of the bytes
that are there; `next` then looks once at the front of the buffer, with the
comparison that the code makes. It implements FifoLink as well.

**HeartBeat** has time in ticks. What is ready runs before time passes
(`Quiescent`), in every order within an instant. `seen` is what the reactor
read of `LAST_READ` and may be stale when it decides.

**Presence** has several connections, users and tasks. A connection is only up,
closing or gone. `stage` is where a task is in `process`, `update` which write
the spawned update makes next: the code's three writes are three steps. A packet
of a stranger takes two: `FindStranger` looks at `USER_ID`, whose lock is then
released, and `RejectStranger` closes the connection, which may have logged in by
then. Two variables are history that the code does not keep and no action reads:
`known` are the packets that were received when a login on their connection had
been handed to the inner processor, `late` the connections of which an update wrote
a map after `disconnected` had removed the user from it.
`ForwardsDisconnect` says whether `disconnected` reaches this processor: the
heart beat does not pass it on, so it does not in `main.rs` (FALSE), and it does
where the processor is used without the heart beat (TRUE).

**ImServer** EXTENDS Presence with what `Server::process` does in place of the
step `InnerProcess`, over the same maps. `lock` is the task that keeps the lock
of the counters for good; where the code releases a lock in the same step, the
step needs `lock = None` and leaves it. `sync_send` is reduced to succeed, fail,
or never return: SyncMessage says when. The acknowledgement to the sender is a
`Context::send`: it goes into the channel of the sender's connection (`Ack`), which
may take for ever, or comes back and is ignored (`AckRefused`). So a step of a
task is either `Work`, which waits for the lock at most, or `Await`, which waits for
a channel or a client.

**Varint**, **Scalars** and **Codec** are the binary format as functions from
values to bytes and back: numbers, values with no values in them, and all others.
A byte has `Base` values, 256 in the code, and `Power[k]` is how many values k
bytes have. A type is a record; what serde's derive asks of the format for a struct
or a tagged enum is written down from how the crate's test uses it (the tag is a string) and marked
external. The content of a variant that has fields of its own (`StructVariant`) is
written field by field, but serde asks for it by `deserialize_any`, which this
format answers with a unit whatever the bytes are: reading it ends with Message. What is
written and what is read is a function over the types (`bytes` in `ToBytes`, `read`
in `Read`), because a type is made of types: `Written` and
`ReadBy` are one step of it. Codec writes a value, perhaps loses the end of it,
and reads it.
**Packet** has the types that travel: the packet of `im/src/packet.rs` with its
eight payloads, two of which are struct variants, and the struct of the crate's own
test.

An `MC` module makes a small instance of each component for TLC; Presence is
checked under ImServer, which has all its steps.

## 3. The runs

| Run | What it shows | Bounds |
|---|---|---|
| `duplex` | each end is handed what the other wrote, in order; an end that goes ends the other; each write ends, each send returns, each close ends the task, unless both ends wait in a write for each other | two packets to the client, one of which it answers, and two from it; two closers; a channel of 1; a direction of the socket holds half a packet, so both can be full: a sender waits behind another, two closes for one slot, both ends in a write |
| `sync_message` | calls end once and truthfully, and at all unless they are stuck behind a write without end; senders are not lost; replies stay out of the inner processor | two calls, a plain packet and two incoming packets, ids equal or different, a channel of 1: enough for a late reply, a stolen entry, a repeated id, and for one packet in a write that never ends, one in the channel and one waiting for room; the loop returns by errors, closes are in `duplex` |
| `sync_message_loss` | *violation*, finding 1 | one call |
| `framing` | frames come out in order at any cut; the reader is at a boundary; the end is noticed | three frames, bodies shorter and longer than a header |
| `framing_lone` | *violation*, finding 2 | one frame |
| `im_server` | only proved users are registered; strangers get nowhere, and who comes after a handled login is let in; both maps have a user who used one connection; ids of messages differ; the lock is lost only to a message that overtakes a login | two connections, two users, three packets, first id 2: two logins and a message, in all pairings (two users on one connection, one user on two); two messages after a login |
| `im_server_live` | where `disconnected` arrives: the user of a lost connection is on it in neither map, the others are in both, every good login is registered | two connections, two users, two packets: a user who comes by a second connection while the first is being left, a second user on a connection, a late update |
| `im_server_stuck`, `im_server_overtaken` | *violations*, findings 3 and 4 | one connection, a login and a message |
| `heart_beat` | silence is found in four intervals and not before three; the signal is kept | interval of 3 ticks, two tasks, times up to 14 |
| `heart_beat_close` | *violation*, finding 5 | interval of 2 |
| `codec` | values are read back at every boundary, by themselves and in packets of six of the eight payloads; what is cut is refused with Eof; reading an Error or a Login, a tuple or a little-endian float ends with a value or an error, too | bytes of 8 values, so that 8^8 fits TLC's integers |

Deadlock is checked for the heart beat, where time can always pass. In the other
models the system may stop: all packets are used up and all connections gone. In
ImServer it may also stop for the reason of finding 3, and in Duplex when both
ends wait in a write.

Bounds: tasks, calls and packets are finite sets (each is one packet or call);
`ChannelCap` stands for 256, `NetCap` for the buffers of the socket, `MaxId` for
u64::MAX, `StreamLen` limits the bytes written, `Horizon` is the longest time told apart, `Base` the size of a byte,
`MaxDepth` how deep the types of an instance are nested,
`Kind` the kinds of packets that come (a run about messages has no logouts).
Connections, users and tasks are interchangeable, and the runs without liveness
use that symmetry.

### Findings

Each is a run that TLC finds violated. The property says what the quoted comment,
message or document says of the program; the entry in `PROJECT.json` has the quote.

1. `sync_message_loss`: a call whose connection is lost is not woken; it waits
   for its timer, three seconds. A comment expects the map to be dropped with the
   Context, but the waiting calls keep both alive.
2. `framing_lone`: `next` needs four bytes more than the frame has. The last
   packet of a peer that goes quiet is not returned.
3. `im_server_stuck`: `gen_request_id` takes a lock that it holds. A message to a
   user who is just logging in stops all messages and logins of all users.
4. `im_server_overtaken`: each packet is processed by a task of its own, so a
   message may be looked at before the good login that was received before it,
   and then the connection is closed. The client, and the test, send messages
   without waiting for an answer to the login.
5. `heart_beat_close`: the heart beat finds out silence and does nothing.

Further things that the models show and that contradict no text:

- A message is acknowledged to its sender whether or not it was delivered, and the
  acknowledgement itself may be lost without notice (`Ack`, `AckRefused`).
- Packets with an Error or a Login, which are struct variants, are written but
  cannot be read: `deserialize_any` yields a unit (`StructVariant` in Codec). The
  server could not read the login that this client writes. Presence and ImServer
  begin with packets that have been read and are about what a working format
  would give them. No test reads a struct variant.
- Both ends of a connection can come to wait in a write for each other, each with
  its direction of the socket full (`MutualWait` in Duplex); there is no way out but
  an error, and `Context::close` is not seen meanwhile. Whoever then waits for room
  in the channel waits for ever: a `sync_send` before its timer has started
  (`Stuck` in SyncMessage), an acknowledgement in the server.
- `next` reads before it looks, so a second frame in the buffer waits for more
  bytes from the socket (in Framing, a frame is `Complete` only in the step after a
  read). `framing_lone` does not show this, only finding 2.
- Tuples, and floats in little-endian order, are not read as they are written
  (`Symmetric` in Codec names the values that are).
- A connection that goes from one user to another and is lost leaves the entries
  of the first: `disconnected` removes the user it finds. And it removes him even when
  another connection has registered him.

## 4. Fairness

- *Tasks that can run do*: tokio polls what is woken. Weak fairness of each
  task's steps.
- *select!* polls its arms in random order, so an arm that is ready again and
  again is taken: strong fairness of the arms that take from the two channels.
- *A write may last for ever*: `connector.rs:74` has no timeout, so nothing is
  assumed of writes in Connector and SyncMessage, and nothing of sends in ImServer.
  What depends on them is stated conditionally (`CallsReturn`) or not at all. In
  Duplex, where the other end and the socket are there, the end of writes is a
  property (`WritesEnd`): it holds of the clients of this repository as long as the
  two ends do not come to wait for each other. Duplex assumes of the socket only that
  it takes a half when it has room, delivers what it has, and reports an end that is
  gone; and weak fairness of the arms is enough there, since an arm is passed over
  only while another one has something to do, and packets are finitely many.
- *tokio's Mutex is fair* (a queue): strong fairness of the steps of the server that
  wait for the lock (`Work`), which are disabled while another task keeps it, and
  of those only: the steps of `Await` need never come.
- *Timers fire*: weak fairness of `Timeout`; in HeartBeat, of `Tick`.
- *The stream carries what was written*, so a read with bytes to read ends.

Nothing is assumed of peers: they need not send, read on purpose, or leave, and
nobody needs to start a call or to close.

## 5. The proofs

| Theorem | Says |
|---|---|
| `ConnectorTypeCorrect`, `ConnectorImplementsFifoLink` | the channel keeps its bound; Connector implements FifoLink |
| `DuplexImplementsConnector`, `DuplexImplementsFifoLink` | server, client and socket together implement Connector, so what is proved of it holds with them |
| `DuplexTypeCorrect`, `DuplexKeepsOrder` | a direction of the socket holds what it can and stays aligned to the packets; each end is handed a prefix of what the other wrote |
| `SyncTypeCorrect` | types, of both layers |
| `WaitingCallsAreReachable` | the sender of a waiting call is in the map or with one task |
| `EntriesOfTimeoutsOnly` | who may have an entry in the map |
| `RepliesAreNotRequests` | no reply to a waiting call reaches the inner processor |
| `SyncImplementsRequestReply` | SyncMessage implements RequestReply |
| `SyncImplementsConnector`, `RequestsGoOutInOrder` | it also implements Connector, so the requests go out in the order in which the channel took them |
| `FramesAreChained`, `FramingTypeCorrect`, `ReaderIsAtBoundary` | the frames lie in the stream one behind the other and the reader is at the start of one, at any cut of the stream |
| `FramingIsFifoLink` | Framing implements FifoLink |
| `PresenceTypeCorrect`, `RegisteredUsersAreProved`, `StrangersAreKeptOut` | types; the maps hold proved users only; the inner processor is guarded |
| `SettledUsersStayFound`, `LeaversStayForgotten`, `MapsAreKept` | both maps have a settled user on the one connection he used; the user that `disconnected` found on a connection is on it in neither map, but for a late update; in Presence and in the server |
| `KnownUsersAreLetIn`, `KnownUsersAreServed` | a packet that is received after a handled login of its connection is not turned away, in Presence and in the server |
| `ServerImplementsPresence` | the server is an inner processor of Presence: it does nothing to the presence of users that Presence could not do |
| `MessagesGoToProvedUsers` | so the maps hold proved users in the server, too |
| `ServerTypeCorrect`, `LockIsLostOnlyDuringLogin` | types; when the lock of the counters can be lost |
| `IdsAreDistinct` | messages that wait on one connection have different ids, if there are no more tasks than ids |
| `HeartBeatTypeCorrect`, `SilenceIsDetected`, `ReactorEndsOnSilence`, `SignalReachesReactor` | the four invariants of the run `heart_beat` |
| `NumbersAreBytes`, `NumbersAreRead`, `CutNumbersAreNoticed`, `ZigzagInverse` | numbers below 2^64 are written as bytes, read back, and refused when cut, for every size of bytes |
| `ScalarsAreBytes`, `ScalarsAreRead`, `CutScalarsAreNoticed` | the same of booleans, integers of each width, floats, strings and unit |
| `ValuesAreBytes` | every value of every type is written as bytes |
| `ValuesAreFound` | every value that is `Symmetric` (no tuple, little-endian float or struct variant in it; so no packet with an Error or a Login) is read back and what follows it left, or gives Eof when cut |
| `ReadingEnds` | reading any bytes whatever ends with a value or one of the deserializer's errors |
| `CodecTypeCorrect`, `ValuesComeBack`, `CutValuesAreNoticed` | the three invariants of the run `codec` |

Assumptions: those on the constants, named in the modules that declare them (the
channel has a capacity, an interval is not zero, a day is longer than three
intervals, and so on). One theorem assumes more: `IdsAreDistinct` needs
`FewMessages`, no more tasks than request ids. The counter wraps around, so the
ids of a connection do repeat after 2^64 messages; the code relies on fewer.
SyncMessage assumes that there is a request id at all.

*Connector.* The type invariant needs that `writing` is empty unless the loop is
writing, and that the channel is empty once the loop has returned; with that,
`written \o writing \o channel` changes only at its end (`SendAccepted`) or is
frozen (`ReturnFromLoop`), which is FifoLink.

*Duplex.* A direction is right when twice the packets of `flow` are the halves in
the socket and in the reader's buffer, and one more when the writer has begun a
packet (`Aligned`, a part of the type invariant): so a reader with three halves
has a whole packet, the first of `flow`, in front. For the order, `returned \o flow`
is what the writer has written, with the packet of a write that is under way or
was cut short at its end (`Unfinished` in `OrderInv`); that packet is never
returned, because its body never is in the buffer with a header after it.

*SyncMessage.* The properties about calls and tasks are not inductive: they say
where the sender of a *waiting* call is, but a call passes through other states
first. The invariant says it for every state of a call (`SyncInv` and its parts
in `SyncMessageProofs`): at most one holder for each sender, entries stand under
their own id, and a slot is filled only from a packet with that id. The
refinement has one step for each action: it maps to a step of RequestReply or to
a stutter.

*HeartBeat.* `DetectsInTime` speaks of the silence and the reactor's sleep, which
meet only in `LAST_READ`. `ReadInv` says that `LAST_READ` is at most as recent as
the last packet, and exact once no task has still to kick it; `ReactorInv` says
what `seen` is worth at each step of the reactor.

*Framing.* `AtBoundary` speaks of one position, and after the next frame has been
read of another. `FramingInv` speaks of all frames: each starts where the one
before it ends (`ChainInv`); the writer is at the end of the last, or in it
(`WriterInv`); the frames returned are the first of those written, and what is
consumed is where the next one starts (`ReaderInv`). `Advance` then lands on the
start of a frame because the chain says that it ends there.

*Presence.* `OnlyProvedAreRegistered` speaks of the maps only. A user gets there
from a token through a Context's `USER_ID`, a task and an update, each in a step
of its own and each able to wait; `ProvedInv` says of every station that the user
there was proved on this connection, and `ProvedStays` that a proof is not taken
back. `InnerIsGuarded` is a part of it. `HandledLoginIsEnough` is about the packets of
`known` in every state: `KnownInv` says that a connection with a handled login has a
`USER_ID`, whatever happened to it since, and `LetInInv` that the packets that came
after it find one at each step of theirs.

`SettledUsersAreFound` needs facts that hold of unsettled users, too. A login that
was handed on has its update still to come or has registered (`LoginInv`); a user in
`state` is in `contexts`, and one in `contexts` is in `state` or about to be
(`PairInv`); all unless a connection of his is being left. So a settled user is in
both, and where he is was proved: on the one connection that was ever his.
`LeaversAreForgotten` is about the end of three steps of `disconnected`: `ForgetInv`
says what each of them has done, as long as no update has undone it.

*ImServer.* `ServerSteps` maps every step of the server to a step of Presence or to
a stutter, so what is proved of Presence holds without another proof. `LockInv`
is why the lock is lost only during a login: it is lost for want of a counter;
while it is lost nobody can add one; and a login that was handled has left one,
which only `Server::disconnected` takes away. For the ids, `CountInv` says that the
used ones are those above the counter, or all (it counts down from `MaxId` and
wraps around); with no more tasks than ids, a task that still needs one finds the
counter's unused (`NotAllUsed`), so the new id is new.

*Numbers.* Induction is proved first, from the fact of the library that the order
of the naturals is well-founded (`LeastNumber`, `Induction`); it is about sets, so
the provers can use it. `Recursion` proves that functions by recursion exist, and
`PowerFacts` then takes `Power` apart; `GetIsSum` says that whatever adds up like
the bytes of a number is what `Get` returns. What the first bytes are worth is a
remainder by a power of `Base`, in either order, and `LowDigits` says how it grows by
one byte, from the uniqueness of quotients (`DivUnique`, `DivDiv`). So `Get` undoes
`Put` (`GetOfPut`) and the rest is what lies where in the bytes.

*Codec.* `Induction` also goes over the depth of the types: `Beneath(n)` are those
less than n deep, and a type's components lie beneath it. That way the functions
over types are shown to exist and to satisfy their definitions (`BytesExist`,
`ReadExists`, `WithinExist`; `ToBytesIs`, `ReadIs`, `WithinIs`); before that
nothing can be said about them, as each is a CHOOSE. `Finds` is what a reader must do to be put together with
others: it returns the value *and what follows it* where all of the bytes are
there, and Eof where the end is missing. The round trip alone would not do: the
reader of a list reads its elements in front of other elements. `FoundBehind`
is the one step: bytes cut short are cut inside the first of two values or
after it (`TwoCuts`). `ReadAllFinds` repeats it along a sequence, `OptionFinds`,
`ListFinds`, `StructFinds` and `TaggedFinds` apply it to a kind of type each,
and `ValuesAreFound` to all. The invariant `CodecInv` then has only to say that
what is there to read is the first bytes of what was written. Which values are read
as they are written is a matter of the types in the value (`Within`), not of all that
its type allows: a packet with a Message is one although a packet may hold a Login;
`WithinIs` passes that on from a value to the values in it. The types are any
set that has a type's components with it (`TypeAssumption`) and is not nested
without end (`MaxDepth`); types as the code has them are.

Only model-checked: liveness, since TLAPS does not reason about fairness here. That
is `WritesEnd`, `SendsReturnUnlessMutual`, `ClosesEndUnlessMutual`, `LossEndsBoth`,
`CallsReturn`, `LossIsNoticed` and `LoginsRegister`. Every
other property of a passing run is stated by a theorem.

## 6. What is not modelled

- How a packet's bytes become the packet that Presence, HeartBeat and ImServer
  process: see the second of the further things above.
- Authentication: a pure function; its result is an input of Presence.
- `main.rs`: the wiring is in `ForwardsDisconnect`; the accept loop and the logs
  have no state.
- `Server::send_oneway`, which nothing calls.
- In the format: externally tagged enums and `char`, which have no reader that
  matches their writer, and borrowed strings, whose reader panics. How serde
  writes the tag of a tagged enum depends on its version, and the repository pins
  none.
- `src/src`, `src/tests`: commented out or empty.

## 7. Plan

Done: the connection and its two ends, synchronous messages, framing, heart beat,
presence and server, each with proofs of its invariants and of what it implements;
the format and the packets, with proofs for all types. Left:

- Presence and `sync_send` with re-login on one connection: the entries that stay
  in `contexts`, and ids that start again while calls wait for them.

# Verification of the binary market data feed handler

TLA+ models, TLC runs and TLAPS proofs for `exchange_sim` and `feed_handler`.
Paths below are relative to the repository (`src/common/...`,
`src/feed_handler/main.cpp`, ...).

## 1. The system

Two programs. `exchange_sim` generates order messages, packs them into numbered
packets, keeps every packet in a history and publishes it over UDP multicast; a
second thread serves the history over TCP. Each `feed_handler` reads the feed,
asks that server for whatever a sequence gap shows to be missing, and applies
all messages, in order, to a limit order book.

| Component | State | Operations | Talks to |
|---|---|---|---|
| Order book (`order_book.cpp`) | `live_orders_`, `bids_`, `asks_` | `apply` of Add, Modify, Delete, Trade; `bbo` | called by the handler |
| Wire protocol (`protocol.cpp`) | none | make, decode, `parse_packet`, `message_at`, `serialize_packet` | both programs |
| Multicast feed (`udp_multicast.cpp`) | a socket each | `send`, `try_receive` | publisher to handlers, by datagram |
| Packet history (`recovery.cpp`) | `packets_` under `mutex_` | `store`, `lookup_range` | publisher thread and server thread share it |
| Recovery server (`recovery.cpp`) | `stop_`, listening socket, thread | `run`, `handle_client`, destructor | one client connection at a time |
| Recovery client (`recovery.cpp`) | `socket_fd_` | `request_packets`, `ensure_connected`, `close_connection` | called by the handler; TCP to the server |
| Publisher (`exchange_sim/main.cpp`) | `emitted_messages`, `packet_sequence`, options | batch, store, skip or send, grace period, exit | generator, history, feed |
| Market data generator (`exchange_sim/main.cpp`) | `live_orders_`, `next_order_id_` | `next` | called by the publisher |
| Feed handler (`feed_handler/main.cpp`) | `expected_packet_seq`, `buffered_packets`, counters | receive loop, `process_packet_bytes`, `request_replay`, `drain_buffered_packets` | feed, recovery client, book |
| Latency measurement (`benchmark.hpp`, `CycleStats`) | samples, min, max, total | `record`, `summary` | called by the handler |

### What is hard in it

* Datagrams may be lost, repeated or reordered, and the same packet may also
  arrive by replay.
* The publisher thread stores packets while the server thread reads them, and a
  handler may ask for a packet the moment a later one is out.
* The server is sequential, its connections last as long as their client, and
  nobody has a timeout: an idle client holds the server, and the destructor that
  joins it.
* Either program may die at any moment, also between two frames of a reply.
* `--messages` may be reached inside any packet from any source.
* The book updates orders and levels apart, in `uint32_t` arithmetic; sequence
  numbers are compared as plain `uint32_t`, and a range may end at the largest.
* Generator and book keep the same orders in two programs, and only the
  messages keep them alike.
* The exchange writes packets with a serialiser of its own and the handler reads
  them through casts; a third layout is the library's.

`PROJECT.json` lists each of these as a hazard, at its line, with the properties
that cover it.

### What makes each part correct

* Book: levels always equal the sums of the live orders; the BBO is the best
  live order; no level outlives its orders.
* History and server: whatever precedes a packet in the feed can be replayed
  completely; a waiting client is always answered or hung up on.
* Handler: the book is given a prefix of the generator's messages, each once; what
  is discarded had been applied; no packet stays parked; gaps that were seen get
  filled; a replay cut off by the death of the exchange is not begun; the printed
  summary adds up.
* Shutdown: the exchange ends once its clients have.
* Recovery client: any range, whether it exists or not, is answered with the history as
  it was at one moment, and the lookup lets go of the mutex.
* Generator and book: the book holds the orders the generator held, is never crossed,
  and every message finds its order.
* Wire: what was written is what is read, and nothing else is taken for a message.

## 2. Modules

| Module | Models | How |
|---|---|---|
| `OrderBook` | `order_book.cpp` | a book is a record of two maps; each C++ method is an operator from book to book of the same name; one action per message type |
| `Generator` | `exchange_sim/main.cpp`, `MarketDataGenerator` | an action per method; each draw of the random engine is a choice |
| `MarketFeed` | the publisher's batches and the loop of `process_packet_bytes` over a packet | `Generate`, `Publish`, `ApplyMessage`; extends `Generator` and `OrderBook` |
| `WireFormat` | `protocol.hpp`, `protocol.cpp` and `serialize_packet_to_buffer`, as bytes | a struct is the bytes of its fields one after the other; an operator for each function that makes, decodes, serialises or parses; one packet travels and is read message by message |
| `Protocol` | the same packets as the feed modules need them | a packet is `[size, seq_num, msg_count, messages]`; a message is its place in the generator's output |
| `UdpMulticast` | `udp_multicast.cpp` over UDP | a growing set of datagrams, which gives loss, duplication and reordering; `Strays` are malformed datagrams |
| `Recovery` | `recovery.cpp` | server thread step by step (poll, accept, stop checks, recv, each turn of `lookup_range` under the mutex, count, each frame, every close); client calls as steps their caller takes |
| `RecoveryRequests` | `RecoveryClient` with any caller, and the publisher around `store` | `RequestNothing`, `Request`, `RequestReturns`, `RequestThrows`, `NextRequest`, `ClientLeaves`; `Stamp` before `Store` |
| `Exchange` | `exchange_sim/main.cpp`, publisher | `StorePacket`, `SendPacket`, `SendThrows`, `GraceOver`, `JoinReturns`, `ExchangeKilled` |
| `FeedHandler` | `feed_handler/main.cpp` | `Discard`, `ProcessLive`, `BufferAndRequest`, `ReplayArrives`, `ReplyEof`, `ProcessReplay`, `ReplayOver`, `ProcessDrain`, `DrainOver`, `LimitReached`, `HandlerKilled` |
| `FeedSystem` | both programs and the network | composition, fairness, properties |
| `OrderedFeed` | nothing: the abstract specification | generate messages; deliver each consumer further ones, without a hole |
| `MCOrderBook`, `MCFeedSystem`, `MCWireFormat` | TLC instances | model values, strays, symmetry, field values |
| `OrderBookProofs`, `BboProofs`, `MarketFeedProofs` | theorems about the book and the generator | section 6; each extends the one before |
| `FeedSystemProofs`, `FeedHandlerProofs`, `RecoveryProofs` | theorems about the feed | section 6; each extends the one before |
| `RequestsProofs` | theorems about `lookup_range` and `request_packets` | section 6 |
| `WireFormatProofs` | theorems about the packets' bytes | section 6 |

`Recovery` and `UdpMulticast` extend `Protocol`; `Exchange` and `FeedHandler`
extend both; `FeedSystem` extends those two and instantiates `OrderedFeed` with
`delivered <- applied`. `RecoveryRequests` extends `Exchange` and puts clients
that may ask for anything in the place of the handlers.

The system is verified in three layers that fit together. `WireFormat` shows that a packet's
bytes are read as they were written, so that the feed modules may treat a
packet as a record, and checks that its `parse_packet` and the one of `Protocol`
agree on which datagrams are discarded. `FeedSystem` shows that a handler's book
is given a prefix of the generator's messages in order (`AppliedIsPrefix`), so
that `MarketFeed` may take the channel for a queue. `MarketFeed` shows that what
arrives is a run of `OrderBook` (`BookRunsOrderBook`), so that what is shown of the
book for any messages holds of it.

### Granularity

Steps are cut where another thread or process can act. A handler is
single-threaded and shares nothing, so processing one packet is one step; the
cuts are the wait for a reply and the packets of a replay or a drain, between
which a handler can be killed. Storing and sending are separate steps of
the publisher. `lookup_range` is a step per turn, and `store` is disabled while
it runs, as `mutex_` is held throughout. A reply travels as its count and its
frames, between any two of which either end may die. TCP is `none`, `up`,
`server_closed` or `client_closed` per handler; what was sent before a close
still arrives. The queue of `listen` holds `ListenBacklog` connections. `connect` blocks while
it is full and may time out: `Unreachable` lets the call fail then, and a call that got in after a
wait is a `SendRequest` taken later. `ExchangeKilled` stands for a kill from outside and for
the `SIGPIPE` that a `send` to a dead client raises.

### Abstractions

* Message contents are left out of the feed modules and modelled in
  `MarketFeed`; the two meet in `applied`, the sequence given to
  `order_book.apply`.
* In `MarketFeed`, `history` and `mirrored` are not in the code. They
  remember the generator's orders after each message, to compare the book with.
* `publish_tsc` is a field `WireFormat` carries and a moment in `RecoveryRequests`;
  cycle counts are not modelled.
* Wording, logging and timing are left out, and so are socket set-up errors,
  the epoll error flags, and the checks of the client and
  of `message_at` that only a faulty exchange could fail.
* `Strays` never holds a well-formed packet: another publisher on the group is not
  modelled.
* A client of `RecoveryRequests` that threw is not asked again, only closed: the one
  caller in the code, `feed_handler`, exits on the exception. So what a
  count too large would leave in its stream is never read, and no property here speaks of it.
* `--messages-per-packet` is at least 1, as `parse_args` demands.

## 3. Runs

| Run | Question | Instance | Result |
|---|---|---|---|
| `order_book` | Do levels follow orders, and is the BBO the best order, for any message on the wire? | 3 ids, 3 prices, quantities 0..2, levels modulo 8 | holds |
| `order_book_overflow` | What if a level exceeds its width? | 2 orders of 2 at one price, levels modulo 4 | `LevelsMatchOrders` violated |
| `feed_system` | Is the feed applied in order and without holes? | 2 handlers, 7 messages in 4 packets, every other one dropped, limits 0 and 3 | holds, and implements `OrderedFeed` |
| `feed_liveness` | Does every wait end? | 1 handler, 5 packets, limits 0 and 2 | holds |
| `two_handlers` | Is every request answered? | 2 handlers, 2 packets | `RequestAnswered` violated |
| `shutdown` | Does the process end after its grace period? | 1 handler, 2 packets | `GraceEnds` violated |
| `seq_wrap` | Is what is discarded really stale? | sequence numbers of 2 bits, 10 packets | `StaleWasApplied` violated |
| `market_feed` | Does the book mirror the generator's orders? | 3 orders, 5 messages in packets of 2, 2 bid and 1 ask price, limits 0 and 3 | holds, and is a run of `OrderBook` |
| `bbo_samples` | Is the BBO latency sampled once a packet? | 2 packets of 2 messages, adds only | `BboSamplesArePackets` violated |
| `wire_format` | Is what was written read, and nothing else? | packets of 1, 2 and 42 messages, six strays | holds |
| `recovery_ranges` | Is any range answered with the history at one moment? | 2 clients, 3 packets, sequence numbers 0 to 3 | holds |
| `publish_stamp` | Is a packet stamped just before it is sent? | 1 client, 2 packets | `StampedThenSent` violated |

### Properties

* `LevelsMatchOrders`, `NoOrphanLevel`, `BboIsBestOrder` relate the two maps of
  the book; no single method establishes them.
* `AppliedIsPrefix` is the purpose of the handler. `FeedIsOrdered` adds that it never
  takes a message back and never receives one before it was generated.
* `StaleWasApplied` relates the network, the expected number and the book.
* `NothingParkedAtRecv`: `buffered_packets` is a map, yet it never holds more than
  the packet that revealed the gap, since the replay is synchronous.
* `ReplayIsWhole`: at every packet of a replay, what is left of it is exactly the packets from
  the expected one up to the parked one. The exchange may die between any two frames, and
  what had arrived by then must not be begun; half a batch would still be a prefix of the feed, so
  `AppliedIsPrefix` would not notice.
* `FailsOnlyAfterStop`: a handler fails only if the exchange stopped. It needs store
  before send, a `lookup_range` that includes its end, a server that is there, and room
  in the queue of `listen`: it fails for three handlers and a queue of one.
* `SummaryAddsUp`: the counters printed at exit agree with each other and with
  the limit, whichever source reached it.
* `GapIsFilled`, `ShutdownCompletes`: the two waits without a timeout end.
* `BookMirrorsGenerator`: the handler's orders are those the generator had when it
  made the last message applied, and the present ones once nothing is under
  way. A field read too late, as after the swap in `delete_order`, breaks it several
  messages on.
* `NextMessageIsValid`: at the book it meets, a Modify or Delete finds its order and
  an Add finds none; the book would ignore or replace silently.
* `NeverCrossed`: the best bid stays below the best ask, through both programs.
* `ReadsWhatWasSent`, `SerializersAgree`, `OnlyWholePackets`, `UnknownBytesRejected`: the
  three layouts of a message agree, at any place in a packet and at the ends
  of every field; datagrams of the wrong length and unknown bytes are rejected.
* `OnlyWellFormedMessages`: whatever arrives, `message_at` casts bytes of the datagram only,
  as `parse_packet` has compared its length with `msg_count`, and what is decoded is a message.
* `AnswerIsSnapshot`: a reply is the history, cut to the range, as it was at one
  moment of the call.
* `LookupVisitsOnce`, `LookupEnds`: a range that ends at the largest number is not
  walked round for ever, and a lookup lets the publisher on.

### Bounds and why they suffice

* Book: with three orders one can be replaced, one traded and a third
  stay at the same price; three prices let a modify move an order and the BBO change on
  either side of it; quantities 0, 1 and 2 tell no, partial and full execution. U32 = 8
  exceeds three orders of 2, so the wrap is out of reach of the first run and is the
  subject of the second.
* Feed: four packets allow a gap of two between an applied and a parked
  packet, with drops on purpose and in the network; 7 messages at 2
  a packet make the last packet short; limit 3 falls inside a packet. Two handlers
  compete for the server, and the queue of `listen` is just long enough for them. `MaxSeq` is 15, beyond the packets sent, except in `seq_wrap`.
* `feed_liveness` has one handler, since with two `RequestAnswered` fails; see
  section 5.
* Market feed: `MinLive` is 2 where the code has 4, so that five messages reach a
  modify and a delete and an add after them. Three orders let a delete move another
  order, and leave one behind; two bid prices let a modify change the best bid.
  The limit 3 falls inside the second packet.
* Wire: fields have their real widths, a byte has 8 values instead of 256, so that a
  `uint64_t` fits TLC's integers. Values are the ends of each field's range and numbers whose bytes
  all differ. 42 messages are what `kPacketBufferSize` holds.
* Ranges: the third packet has the largest sequence number; every pair of a start
  and an end is asked for, before and after the packets exist. The queue of `listen` has one
  place for two clients, so that a connect finds it full. Where `ListenBacklog` is 4 it is what the
  code asks for (`recovery.cpp:122`; Linux admits one more).
* Deadlock checking is off in the feed, market, wire and recovery runs because the system
  stops: both programs exit, and messages run out.

## 4. Fairness

`FairSpec` assumes weak fairness of `GraceOver` and `JoinReturns` (the publisher's
sleep ends, and a join returns when the thread has), of the server thread's steps
(the thread is scheduled, and blocking calls return when there is something to
return), and of each handler's own steps (likewise; TCP delivers what was
sent). It assumes nothing of publishing, of datagrams, of failures or
of kills. It takes `poll` on the listening socket not to fail; `Spec`, the
specification of the safety runs, lets it fail (`PollFails`), after which the server thread
has gone for good while clients can still connect.

`RequestsSpec` assumes weak fairness of the server thread alone: `LookupEnds` needs no
client to go on, and the publisher may stop where it is.

## 5. Findings

1. **Level overflow** (`order_book.cpp:152`). A level is a `uint32_t` and wraps
   when the orders at a price exceed it.
2. **Second client starves** (`recovery.cpp:202`). The server stays with a client
   until it disconnects, clients keep their connection for life, and a second
   handler with a gap waits for ever. `project.md:753` says clients are handled
   sequentially, which a reader takes to mean one after the other.
3. **Shutdown hangs** (`recovery.cpp:168`). The destructor joins a thread that
   is blocked in `recv` on an idle client, so the exchange outlives its grace period
   for as long as a handler that once recovered is alive. `ShutdownCompletes` shows
   that it does end once the handlers have.
4. **Sequence wrap** (`feed_handler/main.cpp:426`). To a handler that is behind when the number
   wraps after 2^32 packets, still expecting one from before the wrap, packet 0 and those after it look
   stale and are discarded unapplied. One that has read everything wraps too and goes on.
5. **BBO samples are messages** (`feed_handler/main.cpp:306`). The latency is
   recorded for every message that changes the BBO, all with their packet's stamp, where
   `project.md:857` reads the count as packets.
6. **The stamp is early** (`exchange_sim/main.cpp:276`). `publish_tsc` is read before
   the packet is serialised and stored, and storing waits while the server thread looks up a
   range: a replay to one handler shows as latency of the live feed. `README.md:81` has the
   stamp immediately before `sendto()`.

## 6. Proofs

TLAPS proves, for every value of the constants:

| Theorem | Statement | Hypothesis |
|---|---|---|
| `TypeCorrect` | `Spec => []TypeOK` of `OrderBook` | none |
| `LevelsAlwaysMatch` | `Spec => []LevelsMatchOrders` | `NoOverflow` |
| `LevelsAreNeverOrphaned` | `Spec => []NoOrphanLevel` | `NoOverflow` |
| `BboIsTheBestOrder` | `Spec => []BboIsBestOrder` | `NoOverflow` |
| `FeedRunsOrderBook` | `MarketSpec => BookRunsOrderBook` of `MarketFeed` | none |
| `FeedBboIsBest` | `MarketSpec => []BboIsBestOrder` | `NoOverflow` |
| `BookIsAMirror` | `MarketSpec => []BookMirrorsGenerator` | none |
| `MessagesAreValid` | `MarketSpec => []NextMessageIsValid` | none |
| `BookIsNeverCrossed` | `MarketSpec => []NeverCrossed` | `NoOverflow` |
| `Invariance` | `Spec => []IInv` of `FeedSystem` | `NoWrap` |
| `BookIsGivenAPrefix` | `Spec => []AppliedIsPrefix` | `NoWrap` |
| `StaleIsRedundant` | `Spec => []StaleWasApplied` | `NoWrap` |
| `ImplementsOrderedFeed` | `Spec => FeedIsOrdered` | `NoWrap` |
| `NothingStaysParked` | `Spec => []NothingParkedAtRecv` | `NoWrap` |
| `SummaryIsConsistent` | `Spec => []SummaryAddsUp` | `NoWrap` |
| `ReplaysAreWhole` | `Spec => []ReplayIsWhole` | `NoWrap` |
| `FailureMeansStopped` | `Spec => []FailsOnlyAfterStop` | `NoWrap`, `FewHandlers` |
| `TypesAreKept` | `Spec => []TypeOK` of `FeedSystem` | `NoWrap` |
| `EachIsLookedUpOnce` | `RequestsSpec => []LookupVisitsOnce` of `RecoveryRequests` | none |
| `AnswersAreSnapshots` | `RequestsSpec => []AnswerIsSnapshot` | none |
| `PacketsAreRead` | `WireSpec => []ReadsWhatWasSent` of `WireFormat` | none |
| `SerializersWriteTheSame` | `WireSpec => []SerializersAgree` | none |
| `WholePacketsOnly` | `WireSpec => []OnlyWholePackets` | none |
| `MessagesAreWellFormed` | `WireSpec => []OnlyWellFormedMessages` | none |
| `UnknownAreRejected` | `WireSpec => []UnknownBytesRejected` | none |

The hypotheses are what the findings say they must be. `NoOverflow`: all orders at
their largest quantity at one price fit a level. `NoWrap`: there are fewer
messages than sequence numbers. `FewHandlers`: the queue of `listen` has room for all
handlers, 4 of them by `recovery.cpp:122`; with more, a `connect` may time out while the exchange
runs. The constants' own assumptions are named in
the module that declares them and evaluated by the runs.

**Book.** `LevelsMatchOrders` with `TypeOK` is inductive. The sum at a price
is defined as the number of units resting there (`Units`, `Total`), so that it can be
split into one order's part and the others' (`TotalSplit`) without a recursive
sum. Every handler is a composition of giving an order to a level and taking one off
(`GiveMatches`, `TakeMatches`), which `AddMatches`, `ModifyMatches` and
`TradeMatches` put together. `NoOverflow` enters in one place, at the `+=` of
`add_level`.

**BBO.** `LevelsMatchOrders` already gives a level with quantity on it an order
(`QuantityRests`), so only an empty level could be orphaned. `subtract_level` leaves a level at its
price only with quantity on it, and no other price loses an order
(`TakeOrphansNone`); an insertion adds only the level its order rests on
(`InsertOrphansNone`), which may be empty, as an Add of quantity 0 makes it. The
handlers put these two together. That there is a best level for `bbo()` to read
needs the levels to be finitely many: each has an order of its own
(`LevelsAreFinite`), and a smallest set of prices without a best one would lack it
without one of its prices too (`FinitePricesHaveBest`).

**Market feed.** The book starts empty and `ApplyMessage` gives it only messages of
`OrderBook`'s types, so the feed is a run of `OrderBook` (`StepRunsOrderBook`), and the
theorems above carry over. `BookMirrorsGenerator` compares the two ends and is not
inductive. `MirrorInv` says what lies between: the messages published and not applied,
then those of the batch, each valid where it comes, lead step by step from the book's
orders to the generator's (`InStep`), with `history` the orders passed through. Generating
appends a step (`InStepGenerate`), publishing moves the batch over (`InStepPublish`), and
applying takes the first step off (`InStepApply`), where `BookFollows` says
the book does with a message what the generator did. The generator's vector is read as a map by id:
that no two orders share an id (`Distinct`) makes the swap in
`delete_order` a removal of one entry (`DeleteFollows`). That the book is never crossed is then
a fact about the generator's price ranges: a best price is some order's
price, by `NoOrphanLevel`.

**Feed.** `AppliedIsPrefix` is not inductive: what a handler applies next
depends on what the network, a reply, a replay batch or the buffer holds. `IInv`
adds where all that comes from. `HistoryInv`: the stored packets are 1 to `Stored`,
each starting with the message after the last of the one before (`Chain`), and the
packet being sent is one of them. `NetworkInv`, `ServerInv`, `BuffersInv`: every
packet in flight is the history's packet of that number. `ProgressInv`: a handler
has exactly the messages of the packets below the expected one, or has reached its
limit inside a packet. `FramesInv`: a server between two frames has one to send.
The history only grows (`GenuineGrows`), so the publisher and the server disturb
nothing; a handler's step reduces to `ProcessKeepsProgress`, in which the
expected packet is the next of the chain and `ApplyNext` extends the run 1, 2, 3, ...
The refinement follows step by step: storing a packet is `Generate`, a handler's step is
`Deliver` or a stutter (`Forward`), all others stutter. TLC checked `IInv`
as an invariant of `feed_system` before it was proved.

**Handler.** What a handler parks and counts depends on itself alone (`LocalInv`), given that
what reaches it is genuine. `ParkInv`: it has parked nothing or one packet `s`; while it
waits, the expected number is below `s`, and during the replay the expected number and what is left of
the batch add up to `s`, so that the drain finds `s` (`DrainLocal`). `SummaryInv`: the
counters add up at every step; a replay asked for and not begun is the one missing from
them, which is why the handler must not be at its limit, and the batch not empty,
until the first packet of it has been counted.

**Recovery channel.** That a handler fails only after the exchange has stopped is the
statement that no reply is ever short, wrong or refused. `AnswerInv` says where
the answer to a waiting handler is: the request is in the socket (`InSocket`); or the server is looking it
up, with all packets before `cursor` found (`LookedUp`); or it has found all (`AllFound`); or it has
sent those before `next` and has the rest in hand (`PartlySent`); or all have arrived
(`Sent`); or the exchange stopped and never will. Each server action moves the answer from one of these to the
next. The packets asked for are a `Span` of the history, which is taken apart and
put together packet by packet (`SpanAppend`, `SpanTail`) and unchanged by a store
(`SpanGrows`); that they are all stored is `GapFacts`, from `IInv`. `ServiceInv` keeps clients
apart: nobody is in the backlog twice, or there and served at once, so a step for one disturbs no
other (`Undisturbed`, `OtherClients`). It is also why a queue as long as there are handlers is never full for
one that wants in (`RoomToConnect`, by counting), which is all `FewHandlers` is for. The batch
of a handler at replay is a `Span` too, which is `ReplayIsWhole`: it was handed
over only if complete (`WholeReply`), and each packet shortens both alike (`ReplayGoesOn`). TLC checked `LocalInv` and `RecoveryInv` on
`feed_system` before they were proved.

**Requests.** For clients that ask for anything, `RequestsInv` says that what was found
lies before `cursor` and rises; the loop ends at the largest number, before the
increment could wrap (`TurnKeepsLookup`). `SnapshotInv` then follows an answer as
`RecoveryInv` does, with two differences: packets of the range may be missing, and the
history may grow while the reply is sent. During the look-up `found` is the range up to
`cursor` in the history as it stands, which a store cannot change because it waits for the
mutex (`Grows`), and each turn adds a number to that range (`StoredNext`). When the look-up ends the
answer is the snapshot of that moment and stays one, since what is stored is never
replaced (`StoredKept`, `SnapshotStays`); the frames carry it over one by one
(`FrameMoves`). A request can return only if its reply is whole. TLC checked `SnapshotInv` on `recovery_ranges`
before it was proved.

**Wire.** The theorems hold for any values of the fields, 256 or any other number of values of a
byte, and any number of messages that fits the buffer; the assumption on the constants is that
`msg_count` can count those, and that no two characters of the enums share a byte. The proof goes up from
the bytes. `Division` and `Halves` take a number apart and put it together, so
`RoundTrip16`, `RoundTrip32` and `RoundTrip64` say that the network order of a value is read
back as the value. `FieldAppended` finds a field where a struct has it and leaves those before it
alone (`SameFields`), from which follow `HeaderBytes` and, for each type of message, `MessageBytes`: 24
bytes that decode to the message. The loop of the serialisers is a recursive function over the messages;
what it has written after `n` turns is said byte by byte (`Filled`), by the message a byte belongs to and its
place in it (`PlaceOfByte`). A turn takes `Filled` from `n` to `n + 1` (`TurnFills`), for every loop that
moves on by 24 bytes, in any buffer that is large enough. That both serialisers end with the
same bytes (`PacketBytes`), and that message `i` is found at its place, follows for all lengths by
induction on `n` (`WrittenIsFilled`); the induction is on the set of the good `n`, from the well-foundedness
of `<` on the naturals (`Induction`). In the other direction, `AnyNumber16` to `AnyMessage` say
of arbitrary bytes that what is decoded from them has its type. `WireInv` carries this through a packet's
way: `datagram` is what the serialiser made of `sent`, what has been decoded is a prefix of it
(`SentInv`), and a datagram being read is as long as `msg_count` says. TLC checked `WireInv` on `wire_format`
before it was proved.

**Model-checked only:** `GapIsFilled`, `ShutdownCompletes` and `LookupEnds`, which are liveness
under fairness and out of this prover's reach. Every safety property of the passing runs is proved.

## 7. Not modelled

* Cycle counts, and so the minimum, maximum and average of the latency
  statistics: they are hardware. How often they are fed and when the stamp is read is
  modelled.
* `parse_args`, CPU pinning, `EpollInstance` and all printing, which keep no state
  the properties speak of. What the options demand is in the constants' assumptions.
* Socket set-up errors and the epoll error flags: each ends the program.
* A reply with a bad frame size, and a message inside a well-formed packet that
  `message_at` rejects: no reply or packet of this exchange is like that
  (`AnswerIsSnapshot`, `ReadsWhatWasSent`), and the handler exits on either.
* A second run of the exchange. Packets carry no session, so handlers would
  discard or mix them, and nothing in the repository says what they should do.
* A loss at the end of the feed, which `project.md:749` documents.
* The number of packets the history keeps, for which no bound is promised
  (`project.md:751`).

## 8. Plan

Done: all modules of section 2 and the proofs of section 6, which cover every safety
property of the passing runs. What is left out is listed in section 7 with the reasons. A further
step would be one model of all three layers of section 2, in which packets of bytes reach a book.

## 9. Running

    tlc -config feed_system.cfg MCFeedSystem
    tlc -config order_book.cfg MCOrderBook
    tlc -config market_feed.cfg MarketFeed
    tlc -config wire_format.cfg MCWireFormat
    tlc -config recovery_ranges.cfg RecoveryRequests
    tlapm FeedSystemProofs.tla
    tlapm FeedHandlerProofs.tla
    tlapm RecoveryProofs.tla
    tlapm RequestsProofs.tla
    tlapm WireFormatProofs.tla
    tlapm OrderBookProofs.tla
    tlapm BboProofs.tla
    tlapm MarketFeedProofs.tla

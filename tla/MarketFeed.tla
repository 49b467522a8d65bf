----------------------------- MODULE MarketFeed -----------------------------
(***************************************************************************)
(* From the generator's orders to the handler's book: the messages         *)
(* MarketDataGenerator produces are packed into packets, and feed_handler  *)
(* applies them one by one, watching the best bid and offer.               *)
(*                                                                         *)
(* Packets come once and in order, which is what FeedSystem shows of the   *)
(* channel (AppliedIsPrefix); however far the handler lags is a choice.    *)
(* history and mirrored are not in the code: they remember what the        *)
(* generator's orders were when a message was produced.                    *)
(***************************************************************************)
EXTENDS OrderBook, Generator

CONSTANTS Messages,          \* --messages of the exchange
          MessagesPerPacket, \* --messages-per-packet
          Limits             \* what --messages of the handler may be, 0 for no limit

ASSUME MarketAssumption ==
  /\ Messages \in Nat /\ MessagesPerPacket \in Nat \ {0} /\ Limits \subseteq Nat
  /\ 1 .. MaxOrders \subseteq OrderIds
  /\ BidPrices \cup AskPrices \subseteq Prices
  /\ OrderQuantities \subseteq AddQuantities

VARIABLES
  emitted_messages,
  feed,               \* messages of packets published and not yet applied,
                      \* each with whether it is the last of its packet
  limit,              \* options.messages of the handler
  received_messages,
  processed_packets,
  bbo_samples,        \* bbo_update_latency_cycles.samples
  history,            \* the generator's orders after each message of feed \o batch
  mirrored            \* the generator's orders after the last message applied

exchangeVars == <<generatorVars, emitted_messages>>
handlerVars ==
  <<order_book, limit, received_messages, processed_packets, bbo_samples, mirrored>>
marketVars == <<exchangeVars, feed, history, handlerVars>>

MarketInit ==
  /\ Init
  /\ GeneratorInit
  /\ emitted_messages = 0
  /\ feed = <<>>
  /\ limit \in Limits
  /\ received_messages = 0
  /\ processed_packets = 0
  /\ bbo_samples = 0
  /\ history = <<>>
  /\ mirrored = EmptyMap

-----------------------------------------------------------------------------
(* The exchange.                                                           *)

BatchSize ==
  IF MessagesPerPacket <= Messages - emitted_messages
  THEN MessagesPerPacket ELSE Messages - emitted_messages

\* batch.push_back(generator.next()).
Generate ==
  /\ Len(batch) < BatchSize
  /\ next
  /\ history' = Append(history, GeneratorOrders')
  /\ UNCHANGED <<emitted_messages, feed, handlerVars>>

\* The batch is full: serialise, store and send it.
Publish ==
  /\ batch # <<>>
  /\ Len(batch) = BatchSize
  /\ feed' = feed \o [i \in DOMAIN batch |-> [message |-> batch[i], last |-> i = Len(batch)]]
  /\ batch' = <<>>
  /\ emitted_messages' = emitted_messages + Len(batch)
  /\ UNCHANGED <<live_orders_, next_order_id_, history, handlerVars>>

-----------------------------------------------------------------------------
(* The handler: one turn of the loop of process_packet_bytes.              *)

\* OrderBook::apply.
apply(book, m) ==
  CASE m.type = "A" -> apply_add(book, m)
    [] m.type = "M" -> apply_modify(book, m)
    [] m.type = "D" -> apply_delete(book, m)
    [] m.type = "T" -> apply_trade(book, m)

limit_reached(received) == limit # 0 /\ received >= limit

\* if (apply_result.bbo_changed()): the latency is sampled, and an alert printed.
SampleBbo(before, after) ==
  bbo_samples' = IF before # after THEN bbo_samples + 1 ELSE bbo_samples

\* The packet is over after its last message, or at the limit.
ApplyMessage ==
  /\ ~limit_reached(received_messages)
  /\ feed # <<>>
  /\ order_book' = apply(order_book, Head(feed).message)
  /\ SampleBbo(bbo(order_book), bbo(order_book'))
  /\ received_messages' = received_messages + 1
  /\ processed_packets' = IF Head(feed).last \/ limit_reached(received_messages')
                          THEN processed_packets + 1 ELSE processed_packets
  /\ feed' = Tail(feed)
  /\ mirrored' = Head(history)
  /\ history' = Tail(history)
  /\ UNCHANGED <<exchangeVars, limit>>

MarketNext == Generate \/ Publish \/ ApplyMessage

MarketSpec == MarketInit /\ [][MarketNext]_marketVars

-----------------------------------------------------------------------------
(* Properties.                                                             *)

\* The book holds the orders the generator held when it produced the last
\* message applied, and the present ones once nothing is under way: no message
\* names the wrong order or carries a stale field (delete_order's swap,
\* modify_order), and none is misapplied (OrderBook::apply).
BookMirrorsGenerator ==
  /\ order_book.live_orders = mirrored
  /\ feed = <<>> /\ batch = <<>> => mirrored = GeneratorOrders

\* project.md:401: bids are below asks.  It takes both sides' price ranges,
\* orders that keep their side, and levels that go when their orders go.
NeverCrossed ==
  LET best == bbo(order_book)
  IN best.best_bid # NoLevel /\ best.best_ask # NoLevel =>
       best.best_bid.price < best.best_ask.price

\* README.md:32: ModifyOrder and DeleteOrder only target valid orders, and no
\* id is ever added twice, at the book the message arrives at.
NextMessageIsValid ==
  feed # <<>> =>
    LET m == Head(feed).message
    IN (m.type = "A") <=> m.order_id \notin DOMAIN order_book.live_orders

\* Seen from the book, the feed is a run of OrderBook: what the generator
\* produces are messages the theorems about the book hold for.
BookRunsOrderBook == Spec

\* project.md:857: "`samples=196` means only 196 packets changed the BBO", so
\* there are never more samples than packets, the one under way included.
BboSamplesArePackets == bbo_samples <= processed_packets + 1
=============================================================================

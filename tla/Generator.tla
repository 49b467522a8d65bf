------------------------------ MODULE Generator ------------------------------
(***************************************************************************)
(* MarketDataGenerator of the exchange simulator: the orders it keeps      *)
(* alive and the messages it derives from them, gathered in the batch the  *)
(* publisher is filling.                                                   *)
(*                                                                         *)
(* Every draw of the random engine is a choice: which action, which side,  *)
(* price and quantity, which live order.                                   *)
(***************************************************************************)
EXTENDS Integers, Sequences

CONSTANTS MinLive,          \* below so many live orders only adds: 4
          BidPrices,        \* bid_price_distribution_
          AskPrices,        \* ask_price_distribution_
          OrderQuantities,  \* quantity_distribution_
          MaxOrders         \* bound: order ids given out, 2^64 - 1 in the code

ASSUME GeneratorAssumption ==
  /\ MinLive \in Nat
  /\ \A bid \in BidPrices, ask \in AskPrices : bid < ask
  /\ 0 \notin OrderQuantities
  /\ MaxOrders \in Nat

VARIABLES live_orders_,    \* the vector of live orders
          next_order_id_,
          batch            \* messages of the packet being filled

generatorVars == <<live_orders_, next_order_id_, batch>>

\* bid_price_distribution_ or ask_price_distribution_.
PriceRange(side) == IF side = "B" THEN BidPrices ELSE AskPrices

GeneratorInit ==
  /\ live_orders_ = <<>>
  /\ next_order_id_ = 1
  /\ batch = <<>>

\* A variant that may draw the quantity 0.
MutAddZero ==
  /\ next_order_id_ <= MaxOrders
  /\ \E side \in {"B", "S"}, quantity \in OrderQuantities \cup {0} :
       \E price \in PriceRange(side) :
         /\ live_orders_' = Append(live_orders_,
              [order_id |-> next_order_id_, side |-> side, price |-> price,
               quantity |-> quantity])
         /\ batch' = Append(batch,
              [type |-> "A", order_id |-> next_order_id_, side |-> side,
               price |-> price, quantity |-> quantity])
  /\ next_order_id_' = next_order_id_ + 1

\* A variant without the ++.
MutAddSameId ==
  /\ next_order_id_ <= MaxOrders
  /\ \E side \in {"B", "S"}, quantity \in OrderQuantities : \E price \in PriceRange(side) :
       /\ live_orders_' = Append(live_orders_,
            [order_id |-> next_order_id_, side |-> side, price |-> price, quantity |-> quantity])
       /\ batch' = Append(batch,
            [type |-> "A", order_id |-> next_order_id_, side |-> side,
             price |-> price, quantity |-> quantity])
  /\ UNCHANGED next_order_id_

add_order ==
  /\ next_order_id_ <= MaxOrders
  /\ \E side \in {"B", "S"}, quantity \in OrderQuantities : \E price \in PriceRange(side) :
       /\ live_orders_' = Append(live_orders_,
            [order_id |-> next_order_id_, side |-> side, price |-> price, quantity |-> quantity])
       /\ batch' = Append(batch,
            [type |-> "A", order_id |-> next_order_id_, side |-> side,
             price |-> price, quantity |-> quantity])
  /\ next_order_id_' = next_order_id_ + 1

\* A variant that draws any price, whichever side the order is on.
MutModifyAnyPrice ==
  \E i \in DOMAIN live_orders_, quantity \in OrderQuantities :
    \E price \in BidPrices \cup AskPrices :
      /\ live_orders_' = [live_orders_ EXCEPT ![i].price = price, ![i].quantity = quantity]
      /\ batch' = Append(batch, [type |-> "M", order_id |-> live_orders_[i].order_id,
                                 price |-> price, quantity |-> quantity])
      /\ UNCHANGED next_order_id_

\* The order keeps its side, and so its range of prices.
modify_order ==
  \E i \in DOMAIN live_orders_, quantity \in OrderQuantities :
    \E price \in PriceRange(live_orders_[i].side) :
      /\ live_orders_' = [live_orders_ EXCEPT ![i].price = price, ![i].quantity = quantity]
      /\ batch' = Append(batch, [type |-> "M", order_id |-> live_orders_[i].order_id,
                                 price |-> price, quantity |-> quantity])
      /\ UNCHANGED next_order_id_

\* The last order takes the place of the one at i.
SwapErase(orders, i) ==
  [j \in 1 .. Len(orders) - 1 |-> IF j = i THEN orders[Len(orders)] ELSE orders[j]]

\* A variant that reads the id after the last order has been moved to index.
MutDeleteReadsMoved ==
  \E i \in DOMAIN live_orders_ :
    /\ live_orders_' = SwapErase(live_orders_, i)
    /\ batch' = Append(batch, [type |-> "D",
                               order_id |-> live_orders_[Len(live_orders_)].order_id])
    /\ UNCHANGED next_order_id_

delete_order ==
  \E i \in DOMAIN live_orders_ :
    /\ live_orders_' = SwapErase(live_orders_, i)
    /\ batch' = Append(batch, [type |-> "D", order_id |-> live_orders_[i].order_id])
    /\ UNCHANGED next_order_id_

\* With no order alive modify_order and delete_order fall back on add_order.
next ==
  \/ add_order
  \/ Len(live_orders_) >= MinLive /\ (modify_order \/ delete_order)

\* The orders by id, as a book keeps them.
LiveIds == {live_orders_[i].order_id : i \in DOMAIN live_orders_}

OrderOf(id) == LET i == CHOOSE i \in DOMAIN live_orders_ : live_orders_[i].order_id = id
               IN live_orders_[i]

GeneratorOrders ==
  [id \in LiveIds |-> [side |-> OrderOf(id).side, price |-> OrderOf(id).price,
                       quantity |-> OrderOf(id).quantity]]
=============================================================================

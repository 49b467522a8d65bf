-------------------------- MODULE MarketFeedProofs --------------------------
(***************************************************************************)
(* Proofs about MarketFeed: what reaches the handler's book is a run of    *)
(* OrderBook, whose theorems therefore hold of it, and the book mirrors    *)
(* the generator's orders.                                                 *)
(***************************************************************************)
EXTENDS MarketFeed, BboProofs, SequenceTheorems

LiveOrder ==
  [order_id : 1 .. MaxOrders, side : Sides, price : Prices, quantity : AddQuantities]

\* What the generator may emit: the wire's messages but for a Trade.
Message == AddOrderMsg \cup ModifyOrderMsg \cup DeleteOrderMsg

Published == [message : Message, last : BOOLEAN]

-----------------------------------------------------------------------------
(* What a message does to a set of orders.                                 *)

\* An order priced from the range of its side, and orders by id.
QuotedState == {order \in OrderState : order.price \in PriceRange(order.side)}

Maps == UNION {[ids -> QuotedState] : ids \in SUBSET OrderIds}

\* A message the orders can take, with nothing in it the book would refuse.
Valid(orders, m) ==
  /\ m.type \in {"A", "M", "D"}
  /\ m.type = "A" <=> m.order_id \notin DOMAIN orders
  /\ m.type = "A" => m.side \in Sides
  /\ m.type = "M" => m.quantity # 0

Effect(orders, m) ==
  CASE m.type = "A" -> Put(orders, m.order_id,
                           [side |-> m.side, price |-> m.price, quantity |-> m.quantity])
    [] m.type = "M" -> Put(orders, m.order_id,
                           [side |-> orders[m.order_id].side,
                            price |-> m.price, quantity |-> m.quantity])
    [] m.type = "D" -> Erase(orders, m.order_id)

Follows(old, m, new) == Valid(old, m) /\ new = Effect(old, m)

\* The book does the same to its orders.
LEMMA BookFollows ==
  ASSUME NEW book, IsBook(book), NEW m \in Message, Valid(book.live_orders, m)
  PROVE  apply(book, m).live_orders = Effect(book.live_orders, m)
<1>1. CASE m.type = "A"
  <2>1. erase_order(book, m.order_id) = book
    BY <1>1 DEF erase_order, Valid
  <2> QED  BY <1>1, <2>1 DEF apply, apply_add, Effect, Valid
<1>2. CASE m.type = "M"
  <2>1. PICK order \in OrderState : order = book.live_orders[m.order_id]
    BY <1>2 DEF Valid, IsBook, IsMap
  <2>2. [order EXCEPT !.price = m.price, !.quantity = m.quantity] =
          [side |-> order.side, price |-> m.price, quantity |-> m.quantity]
    <3>1. m.price \in Prices /\ m.quantity \in Quantities
      BY <1>2 DEF Message, AddOrderMsg, ModifyOrderMsg, DeleteOrderMsg
    <3> DEFINE changed == [order EXCEPT !.price = m.price, !.quantity = m.quantity]
    <3>2. /\ changed \in OrderState
          /\ changed.side = order.side
          /\ changed.price = m.price /\ changed.quantity = m.quantity
      BY <3>1 DEF OrderState
    <3> HIDE DEF changed
    <3>3. changed = [side |-> order.side, price |-> m.price, quantity |-> m.quantity]
      BY <3>2 DEF OrderState
    <3> QED  BY <3>3 DEF changed
  <2>3. m.quantity # 0 /\ m.order_id \in DOMAIN book.live_orders
    BY <1>2 DEF Valid
  <2>4. apply(book, m) = apply_modify(book, m)
    BY <1>2 DEF apply
  <2>5. apply_modify(book, m).live_orders =
          Put(book.live_orders, m.order_id,
              [order EXCEPT !.price = m.price, !.quantity = m.quantity])
    <3>1. apply_modify(book, m) =
            [live_orders |-> Put(book.live_orders, m.order_id,
                                 [order EXCEPT !.price = m.price, !.quantity = m.quantity]),
             levels |-> add_level(subtract_level(book.levels, order.side, order.price,
                                                 order.quantity),
                                  order.side, m.price, m.quantity)]
      BY <2>1, <2>3, Zenon DEF apply_modify
    <3> QED  BY <3>1
  <2>6. Effect(book.live_orders, m) =
          Put(book.live_orders, m.order_id,
              [side |-> order.side, price |-> m.price, quantity |-> m.quantity])
    BY <1>2, <2>1 DEF Effect
  <2> QED  BY <2>2, <2>4, <2>5, <2>6
<1>3. CASE m.type = "D"
  BY <1>3, EraseOrderType DEF apply, apply_delete, Effect
<1> QED  BY <1>1, <1>2, <1>3 DEF Valid

-----------------------------------------------------------------------------
(* The generator's vector of orders, as a map.                             *)

QuotedOrder == {order \in LiveOrder : order.price \in PriceRange(order.side)}

\* Orders that differ in their ids, none of which is still to be given out.
Distinct(orders, next_id) ==
  /\ orders \in Seq(QuotedOrder)
  /\ \A i, j \in DOMAIN orders : orders[i].order_id = orders[j].order_id => i = j
  /\ \A i \in DOMAIN orders : orders[i].order_id < next_id

Fields(order) == [side |-> order.side, price |-> order.price, quantity |-> order.quantity]

Ids(orders) == {orders[i].order_id : i \in DOMAIN orders}

ById(orders) ==
  [id \in Ids(orders) |->
     Fields(orders[CHOOSE i \in DOMAIN orders : orders[i].order_id = id])]

\* With distinct ids, no order hides another.
LEMMA ByIdFinds ==
  ASSUME NEW orders, NEW next_id, Distinct(orders, next_id)
  PROVE  /\ ById(orders) \in Maps
         /\ DOMAIN ById(orders) = Ids(orders)
         /\ \A i \in DOMAIN orders : ById(orders)[orders[i].order_id] = Fields(orders[i])
<1>1. \A i \in DOMAIN orders : orders[i] \in QuotedOrder
  BY DEF Distinct
<1>2. \A i \in DOMAIN orders :
        (CHOOSE j \in DOMAIN orders : orders[j].order_id = orders[i].order_id) = i
  BY DEF Distinct
<1>3. \A i \in DOMAIN orders : ById(orders)[orders[i].order_id] = Fields(orders[i])
  BY <1>2 DEF ById, Ids
<1>4. \A order \in QuotedOrder : Fields(order) \in QuotedState /\ order.order_id \in OrderIds
  BY ConstantsAssumption, MarketAssumption
     DEF QuotedOrder, LiveOrder, Fields, QuotedState, OrderState, Quantities
<1>5. Ids(orders) \in SUBSET OrderIds
  BY <1>1, <1>4 DEF Ids
<1>6. \A id \in Ids(orders) : ById(orders)[id] \in QuotedState
  BY <1>1, <1>3, <1>4 DEF Ids
<1>7. ById(orders) \in [Ids(orders) -> QuotedState]
  BY <1>6 DEF ById
<1> QED  BY <1>3, <1>5, <1>7 DEF Maps

\* add_order: the fresh id takes nobody's place.
LEMMA AddFollows ==
  ASSUME NEW orders, NEW next_id \in Nat, Distinct(orders, next_id),
         NEW order \in QuotedOrder, order.order_id = next_id
  PROVE  /\ Distinct(Append(orders, order), next_id + 1)
         /\ ById(Append(orders, order)) = Put(ById(orders), next_id, Fields(order))
         /\ next_id \notin DOMAIN ById(orders)
<1> DEFINE more == Append(orders, order)
<1>1. PICK n \in Nat : n = Len(orders) /\ DOMAIN orders = 1 .. n
  BY DEF Distinct
<1>2. /\ more \in Seq(QuotedOrder) /\ DOMAIN more = 1 .. n + 1
      /\ more[n + 1] = order /\ \A i \in 1 .. n : more[i] = orders[i]
  BY <1>1 DEF Distinct
<1> HIDE DEF more
<1>3. \A i \in 1 .. n : orders[i].order_id < next_id /\ orders[i].order_id \in Int
  <2>1. \A i \in 1 .. n : orders[i].order_id < next_id
    BY <1>1 DEF Distinct
  <2>2. \A i \in 1 .. n : orders[i] \in QuotedOrder
    BY <1>1 DEF Distinct
  <2> QED  BY <2>1, <2>2 DEF QuotedOrder, LiveOrder
<1>4. \A i \in 1 .. n : orders[i].order_id # next_id
  BY <1>3
<1>5. Distinct(more, next_id + 1)
  <2>1. ASSUME NEW i \in 1 .. n + 1, NEW j \in 1 .. n + 1, more[i].order_id = more[j].order_id
        PROVE  i = j
    <3>1. CASE i = n + 1 /\ j = n + 1
      BY <3>1
    <3>2. CASE i \in 1 .. n /\ j \in 1 .. n
      BY <1>1, <1>2, <2>1, <3>2 DEF Distinct
    <3>3. CASE i \in 1 .. n /\ j = n + 1
      BY <1>2, <1>4, <2>1, <3>3
    <3>4. CASE i = n + 1 /\ j \in 1 .. n
      BY <1>2, <1>4, <2>1, <3>4
    <3> QED  BY <3>1, <3>2, <3>3, <3>4
  <2>2. ASSUME NEW i \in 1 .. n + 1
        PROVE  more[i].order_id < next_id + 1
    <3>1. CASE i = n + 1
      BY <1>2, <3>1
    <3>2. CASE i \in 1 .. n
      <4>1. more[i].order_id = orders[i].order_id
        BY <1>2, <3>2
      <4> QED  BY <1>3, <3>2, <4>1
    <3> QED  BY <3>1, <3>2
  <2> QED  BY <1>2, <2>1, <2>2 DEF Distinct
<1>6. Ids(more) = Ids(orders) \cup {next_id} /\ next_id \notin Ids(orders)
  <2>1. next_id \notin Ids(orders)
    BY <1>1, <1>4 DEF Ids
  <2>2. \A i \in 1 .. n : more[i].order_id = orders[i].order_id
    BY <1>2
  <2>3. more[n + 1].order_id = next_id /\ n + 1 \in 1 .. n + 1
    BY <1>2
  <2>4. \A i \in 1 .. n + 1 : i \in 1 .. n \/ i = n + 1
    OBVIOUS
  <2>5. \A i \in 1 .. n : i \in 1 .. n + 1
    OBVIOUS
  <2> QED  BY <1>1, <1>2, <2>1, <2>2, <2>3, <2>4, <2>5 DEF Ids
<1>7. /\ DOMAIN ById(more) = Ids(more) /\ DOMAIN ById(orders) = Ids(orders)
      /\ \A i \in 1 .. n : ById(orders)[orders[i].order_id] = Fields(orders[i])
      /\ \A i \in 1 .. n + 1 : ById(more)[more[i].order_id] = Fields(more[i])
  BY <1>1, <1>2, <1>5, ByIdFinds
<1>8. ASSUME NEW id \in Ids(more)
      PROVE  ById(more)[id] = IF id = next_id THEN Fields(order) ELSE ById(orders)[id]
  <2>1. CASE id = next_id
    BY <1>2, <1>7, <2>1
  <2>2. CASE id # next_id
    <3>1. PICK i \in 1 .. n : orders[i].order_id = id
      BY <1>1, <1>6, <2>2 DEF Ids
    <3>2. more[i] = orders[i] /\ i \in 1 .. n + 1
      BY <1>2, <3>1
    <3> QED  BY <1>7, <2>2, <3>1, <3>2
  <2> QED  BY <2>1, <2>2
<1>9. ById(more) = [id \in Ids(more) |-> ById(more)[id]]
  BY DEF ById
<1>10. ById(more) = Put(ById(orders), next_id, Fields(order))
  BY <1>6, <1>7, <1>8, <1>9 DEF Put
<1> QED  BY <1>5, <1>6, <1>7, <1>10 DEF more

\* modify_order: the order stays where it is, with its id and its side.
LEMMA ModifyFollows ==
  ASSUME NEW orders, NEW next_id, Distinct(orders, next_id),
         NEW i \in DOMAIN orders, NEW changed \in QuotedOrder,
         changed.order_id = orders[i].order_id
  PROVE  /\ Distinct([orders EXCEPT ![i] = changed], next_id)
         /\ ById([orders EXCEPT ![i] = changed]) =
              Put(ById(orders), changed.order_id, Fields(changed))
         /\ changed.order_id \in DOMAIN ById(orders)
         /\ ById(orders)[changed.order_id] = Fields(orders[i])
<1> DEFINE after == [orders EXCEPT ![i] = changed]
<1>1. /\ after \in Seq(QuotedOrder) /\ DOMAIN after = DOMAIN orders
      /\ after[i] = changed /\ \A j \in DOMAIN orders : j # i => after[j] = orders[j]
  BY DEF Distinct
<1> HIDE DEF after
<1>2. \A j \in DOMAIN orders : after[j].order_id = orders[j].order_id
  BY <1>1
<1>3. Distinct(after, next_id)
  BY <1>1, <1>2 DEF Distinct
<1>4. Ids(after) = Ids(orders)
  BY <1>1, <1>2 DEF Ids
<1>5. /\ DOMAIN ById(after) = Ids(after) /\ DOMAIN ById(orders) = Ids(orders)
      /\ \A j \in DOMAIN orders : ById(orders)[orders[j].order_id] = Fields(orders[j])
      /\ \A j \in DOMAIN orders : ById(after)[after[j].order_id] = Fields(after[j])
  BY <1>1, <1>3, ByIdFinds
<1>6. changed.order_id \in Ids(orders)
  BY DEF Ids
<1>7. ASSUME NEW id \in Ids(after)
      PROVE  ById(after)[id] = IF id = changed.order_id THEN Fields(changed) ELSE ById(orders)[id]
  <2>1. CASE id = changed.order_id
    BY <1>1, <1>5, <2>1
  <2>2. CASE id # changed.order_id
    <3>1. PICK j \in DOMAIN orders : orders[j].order_id = id
      BY <1>4 DEF Ids
    <3>2. after[j] = orders[j]
      BY <1>1, <2>2, <3>1
    <3> QED  BY <1>5, <2>2, <3>1, <3>2
  <2> QED  BY <2>1, <2>2
<1>8. ById(after) = [id \in Ids(after) |-> ById(after)[id]]
  BY DEF ById
<1>9. ById(after) = Put(ById(orders), changed.order_id, Fields(changed))
  <2>1. Ids(after) = DOMAIN ById(orders) \cup {changed.order_id}
    BY <1>4, <1>5, <1>6
  <2> QED  BY <1>7, <1>8, <2>1 DEF Put
<1> QED  BY <1>3, <1>5, <1>6, <1>9 DEF after

\* delete_order: moving the last order over the deleted one loses no other.
LEMMA DeleteFollows ==
  ASSUME NEW orders, NEW next_id, Distinct(orders, next_id), NEW i \in DOMAIN orders
  PROVE  /\ Distinct(SwapErase(orders, i), next_id)
         /\ ById(SwapErase(orders, i)) = Erase(ById(orders), orders[i].order_id)
         /\ orders[i].order_id \in DOMAIN ById(orders)
<1> DEFINE fewer == SwapErase(orders, i)
           gone == orders[i].order_id
<1>1. PICK n \in Nat : n = Len(orders) /\ DOMAIN orders = 1 .. n
  BY DEF Distinct
<1>2. i \in 1 .. n /\ n >= 1 /\ n \in 1 .. n
  BY <1>1
<1>3. \A j \in 1 .. n : orders[j] \in QuotedOrder
  BY <1>1 DEF Distinct
<1>4. fewer = [j \in 1 .. n - 1 |-> IF j = i THEN orders[n] ELSE orders[j]]
  BY <1>1 DEF SwapErase
<1>5. fewer \in Seq(QuotedOrder) /\ DOMAIN fewer = 1 .. n - 1
  <2>1. fewer \in [1 .. n - 1 -> QuotedOrder]
    BY <1>2, <1>3, <1>4
  <2>2. n - 1 \in Nat
    BY <1>2
  <2> HIDE DEF fewer
  <2> QED  BY <2>1, <2>2
<1>6. \A j \in 1 .. n - 1 :
        \E k \in 1 .. n : k # i /\ fewer[j] = orders[k] /\ k = IF j = i THEN n ELSE j
  BY <1>2, <1>4
<1> HIDE DEF fewer
<1>7. Distinct(fewer, next_id)
  <2>1. ASSUME NEW j \in 1 .. n - 1, NEW l \in 1 .. n - 1,
               fewer[j].order_id = fewer[l].order_id
        PROVE  j = l
    <3>1. PICK k \in 1 .. n : fewer[j] = orders[k] /\ k = IF j = i THEN n ELSE j
      BY <1>6
    <3>2. PICK h \in 1 .. n : fewer[l] = orders[h] /\ h = IF l = i THEN n ELSE l
      BY <1>6
    <3>3. k = h
      BY <1>1, <2>1, <3>1, <3>2 DEF Distinct
    <3> QED  BY <1>2, <3>1, <3>2, <3>3
  <2>2. \A j \in 1 .. n - 1 : fewer[j].order_id < next_id
    BY <1>1, <1>6 DEF Distinct
  <2> QED  BY <1>5, <2>1, <2>2 DEF Distinct
<1>8. \A k \in 1 .. n : k # i => \E j \in 1 .. n - 1 : fewer[j] = orders[k]
  <2> SUFFICES ASSUME NEW k \in 1 .. n, k # i
               PROVE  \E j \in 1 .. n - 1 : fewer[j] = orders[k]
    OBVIOUS
  <2>1. CASE k = n
    <3>1. i \in 1 .. n - 1
      BY <1>2, <2>1
    <3> QED  BY <1>4, <2>1, <3>1
  <2>2. CASE k # n
    <3>1. k \in 1 .. n - 1
      BY <2>2
    <3> QED  BY <1>4, <3>1
  <2> QED  BY <2>1, <2>2
<1>9. \A k \in 1 .. n : k # i => orders[k].order_id # gone
  BY <1>1, <1>2 DEF Distinct
<1>10. Ids(fewer) = Ids(orders) \ {gone} /\ gone \in Ids(orders)
  <2>1. \A j \in 1 .. n - 1 : fewer[j].order_id \in Ids(orders) /\ fewer[j].order_id # gone
    BY <1>1, <1>6, <1>9 DEF Ids
  <2>2. \A k \in 1 .. n : k # i => orders[k].order_id \in Ids(fewer)
    BY <1>5, <1>8 DEF Ids
  <2>3. \A id \in Ids(orders) : \E k \in 1 .. n : id = orders[k].order_id
    BY <1>1 DEF Ids
  <2>4. \A id \in Ids(fewer) : \E j \in 1 .. n - 1 : id = fewer[j].order_id
    BY <1>5 DEF Ids
  <2>5. gone \in Ids(orders)
    BY DEF Ids
  <2> HIDE DEF gone
  <2>6. \A id \in Ids(orders) : id # gone => id \in Ids(fewer)
    BY <2>2, <2>3 DEF gone
  <2> QED  BY <2>1, <2>4, <2>5, <2>6
<1>11. /\ DOMAIN ById(fewer) = Ids(fewer) /\ DOMAIN ById(orders) = Ids(orders)
       /\ \A k \in 1 .. n : ById(orders)[orders[k].order_id] = Fields(orders[k])
       /\ \A j \in 1 .. n - 1 : ById(fewer)[fewer[j].order_id] = Fields(fewer[j])
  BY <1>1, <1>5, <1>7, ByIdFinds
<1>12. ASSUME NEW id \in Ids(fewer)
       PROVE  ById(fewer)[id] = ById(orders)[id]
  <2>1. PICK j \in 1 .. n - 1 : id = fewer[j].order_id
    BY <1>5 DEF Ids
  <2>2. PICK k \in 1 .. n : fewer[j] = orders[k]
    BY <1>6
  <2> QED  BY <1>11, <2>1, <2>2
<1>13. ById(fewer) = [id \in Ids(fewer) |-> ById(fewer)[id]]
  BY DEF ById
<1>14. ById(fewer) = Erase(ById(orders), gone)
  <2>1. Ids(fewer) = DOMAIN ById(orders) \ {gone}
    BY <1>10, <1>11
  <2> QED  BY <1>12, <1>13, <2>1 DEF Erase, Restrict
<1> QED  BY <1>7, <1>10, <1>11, <1>14 DEF fewer

-----------------------------------------------------------------------------
(* Types, and what the generator's steps do.                               *)

\* The generator's orders are orders the wire can carry, with ids of their own,
\* and so is everything between the generator and the book.
MarketType ==
  /\ next_order_id_ \in Nat \ {0}
  /\ Distinct(live_orders_, next_order_id_)
  /\ batch \in Seq(Message)
  /\ feed \in Seq(Published)

\* A message and the orders it was produced with go together.
Produces ==
  /\ next_order_id_' \in Nat \ {0}
  /\ Distinct(live_orders_', next_order_id_')
  /\ \E m \in Message : /\ batch' = Append(batch, m)
                        /\ Follows(ById(live_orders_), m, ById(live_orders_'))

\* Both ranges are prices of the wire.
LEMMA PricesOfSide ==
  ASSUME NEW side, NEW price \in PriceRange(side)
  PROVE  price \in Prices
BY MarketAssumption DEF PriceRange

\* The message of add_order adds the order to the map.
LEMMA AddProduces ==
  ASSUME MarketType, add_order
  PROVE  Produces
<1>1. PICK side \in {"B", "S"}, quantity \in OrderQuantities : \E price \in PriceRange(side) :
        /\ live_orders_' = Append(live_orders_,
             [order_id |-> next_order_id_, side |-> side, price |-> price, quantity |-> quantity])
        /\ batch' = Append(batch,
             [type |-> "A", order_id |-> next_order_id_, side |-> side,
              price |-> price, quantity |-> quantity])
  BY DEF add_order
<1>2. PICK price \in PriceRange(side) :
        /\ live_orders_' = Append(live_orders_,
             [order_id |-> next_order_id_, side |-> side, price |-> price, quantity |-> quantity])
        /\ batch' = Append(batch,
             [type |-> "A", order_id |-> next_order_id_, side |-> side,
              price |-> price, quantity |-> quantity])
  BY <1>1
<1> DEFINE order == [order_id |-> next_order_id_, side |-> side,
                     price |-> price, quantity |-> quantity]
           m == [type |-> "A", order_id |-> next_order_id_, side |-> side,
                 price |-> price, quantity |-> quantity]
<1>3. /\ next_order_id_ \in 1 .. MaxOrders
      /\ next_order_id_' = next_order_id_ + 1
      /\ next_order_id_' \in Nat \ {0}
  BY GeneratorAssumption DEF add_order, MarketType
<1>4. price \in Prices /\ quantity \in AddQuantities /\ side \in Sides
  BY PricesOfSide, MarketAssumption DEF Sides
<1>5. order \in QuotedOrder /\ order.order_id = next_order_id_
  BY <1>3, <1>4 DEF LiveOrder, QuotedOrder
<1>6. m \in Message
  BY <1>3, <1>4, MarketAssumption DEF Message, AddOrderMsg
<1>7. /\ Distinct(Append(live_orders_, order), next_order_id_ + 1)
      /\ ById(Append(live_orders_, order)) =
           Put(ById(live_orders_), next_order_id_, Fields(order))
      /\ next_order_id_ \notin DOMAIN ById(live_orders_)
  BY <1>5, AddFollows DEF MarketType
<1>8. Follows(ById(live_orders_), m, Put(ById(live_orders_), next_order_id_, Fields(order)))
  BY <1>4, <1>7 DEF Follows, Valid, Effect, Fields
<1>9. live_orders_' = Append(live_orders_, order) /\ batch' = Append(batch, m)
  BY <1>2
<1> HIDE DEF order, m
<1>10. \E x \in Message : /\ batch' = Append(batch, x)
                          /\ Follows(ById(live_orders_), x, ById(live_orders_'))
  BY <1>6, <1>7, <1>8, <1>9
<1> QED  BY <1>3, <1>7, <1>9, <1>10 DEF Produces

\* The message of modify_order changes the order in the map.
LEMMA ModifyProduces ==
  ASSUME MarketType, modify_order
  PROVE  Produces
<1>1. PICK i \in DOMAIN live_orders_, quantity \in OrderQuantities :
        \E price \in PriceRange(live_orders_[i].side) :
          /\ live_orders_' = [live_orders_ EXCEPT ![i].price = price, ![i].quantity = quantity]
          /\ batch' = Append(batch, [type |-> "M", order_id |-> live_orders_[i].order_id,
                                     price |-> price, quantity |-> quantity])
          /\ UNCHANGED next_order_id_
  BY DEF modify_order
<1>2. PICK price \in PriceRange(live_orders_[i].side) :
          /\ live_orders_' = [live_orders_ EXCEPT ![i].price = price, ![i].quantity = quantity]
          /\ batch' = Append(batch, [type |-> "M", order_id |-> live_orders_[i].order_id,
                                     price |-> price, quantity |-> quantity])
          /\ UNCHANGED next_order_id_
  BY <1>1
<1>3. live_orders_ \in Seq(QuotedOrder) /\ live_orders_[i] \in QuotedOrder
  BY DEF MarketType, Distinct
<1>4. PICK order \in QuotedOrder : order = live_orders_[i]
  BY <1>3
<1> DEFINE changed == [order EXCEPT !.price = price, !.quantity = quantity]
           m == [type |-> "M", order_id |-> order.order_id, price |-> price,
                 quantity |-> quantity]
<1>5. price \in Prices /\ quantity \in AddQuantities /\ quantity \in Quantities /\ quantity # 0
  BY PricesOfSide, MarketAssumption, ConstantsAssumption, GeneratorAssumption DEF Quantities
<1>6. /\ changed \in LiveOrder
      /\ changed.order_id = order.order_id
      /\ changed.side = order.side
      /\ changed.price = price /\ changed.quantity = quantity
  BY <1>5 DEF LiveOrder, QuotedOrder
<1>7. changed \in QuotedOrder
  BY <1>2, <1>4, <1>6 DEF QuotedOrder
<1>8. live_orders_' = [live_orders_ EXCEPT ![i] = changed] /\ batch' = Append(batch, m)
  BY <1>2, <1>3, <1>4
<1>9. m \in Message
  BY <1>5, MarketAssumption DEF QuotedOrder, LiveOrder, Message, ModifyOrderMsg
<1>10. /\ m.type = "M" /\ m.order_id = order.order_id
       /\ m.price = price /\ m.quantity = quantity
  OBVIOUS
<1> HIDE DEF changed, m
<1>11. /\ Distinct([live_orders_ EXCEPT ![i] = changed], next_order_id_)
       /\ ById([live_orders_ EXCEPT ![i] = changed]) =
            Put(ById(live_orders_), changed.order_id, Fields(changed))
       /\ changed.order_id \in DOMAIN ById(live_orders_)
       /\ ById(live_orders_)[changed.order_id] = Fields(order)
  BY <1>4, <1>6, <1>7, ModifyFollows DEF MarketType
<1>12. Fields(changed) = [side |-> Fields(order).side, price |-> price, quantity |-> quantity]
  BY <1>6 DEF Fields
<1>13. Follows(ById(live_orders_), m, ById(live_orders_'))
  <2>1. Effect(ById(live_orders_), m) =
          Put(ById(live_orders_), order.order_id,
              [side |-> Fields(order).side, price |-> price, quantity |-> quantity])
    BY <1>6, <1>10, <1>11 DEF Effect
  <2>2. Valid(ById(live_orders_), m)
    BY <1>5, <1>6, <1>10, <1>11 DEF Valid
  <2> QED  BY <1>6, <1>8, <1>11, <1>12, <2>1, <2>2 DEF Follows
<1>14. next_order_id_' \in Nat \ {0} /\ Distinct(live_orders_', next_order_id_')
  BY <1>2, <1>8, <1>11 DEF MarketType
<1> QED  BY <1>8, <1>9, <1>13, <1>14 DEF Produces

\* The message of delete_order erases the order from the map.
LEMMA DeleteProduces ==
  ASSUME MarketType, delete_order
  PROVE  Produces
<1>1. PICK i \in DOMAIN live_orders_ :
        /\ live_orders_' = SwapErase(live_orders_, i)
        /\ batch' = Append(batch, [type |-> "D", order_id |-> live_orders_[i].order_id])
        /\ UNCHANGED next_order_id_
  BY DEF delete_order
<1> DEFINE m == [type |-> "D", order_id |-> live_orders_[i].order_id]
<1>2. live_orders_[i] \in LiveOrder
  BY DEF MarketType, Distinct, QuotedOrder
<1>3. m \in Message
  BY <1>2, MarketAssumption DEF LiveOrder, Message, DeleteOrderMsg
<1>4. /\ Distinct(live_orders_', next_order_id_)
      /\ ById(live_orders_') = Erase(ById(live_orders_), live_orders_[i].order_id)
      /\ live_orders_[i].order_id \in DOMAIN ById(live_orders_)
  BY <1>1, DeleteFollows DEF MarketType
<1>5. Follows(ById(live_orders_), m, ById(live_orders_'))
  BY <1>4 DEF Follows, Valid, Effect
<1>6. batch' = Append(batch, m)
  BY <1>1
<1> HIDE DEF m
<1> QED  BY <1>1, <1>3, <1>4, <1>5, <1>6 DEF Produces, MarketType

\* So does the message of next, whichever it chooses.
LEMMA NextProduces ==
  ASSUME MarketType, Generate
  PROVE  Produces
<1>1. add_order \/ modify_order \/ delete_order
  BY DEF Generate, next
<1> QED  BY <1>1, AddProduces, ModifyProduces, DeleteProduces

\* Publishing keeps the messages and their order.
LEMMA PublishAppends ==
  ASSUME MarketType, Publish
  PROVE  /\ feed' \in Seq(Published)
         /\ Len(feed') = Len(feed) + Len(batch)
         /\ \A i \in 1 .. Len(feed) : feed'[i] = feed[i]
         /\ \A i \in 1 .. Len(batch) : feed'[Len(feed) + i].message = batch[i]
<1> DEFINE packet == [i \in DOMAIN batch |-> [message |-> batch[i], last |-> i = Len(batch)]]
<1>1. PICK n \in Nat, k \in Nat : n = Len(feed) /\ k = Len(batch)
  BY DEF MarketType
<1>2. packet \in Seq(Published) /\ Len(packet) = k /\ \A i \in 1 .. k : packet[i].message = batch[i]
  <2>1. packet \in [1 .. k -> Published]
    BY <1>1 DEF MarketType, Published
  <2>2. \A i \in 1 .. k : packet[i].message = batch[i]
    BY <1>1 DEF MarketType
  <2> HIDE DEF packet
  <2> QED  BY <2>1, <2>2
<1>3. feed' = feed \o packet
  BY DEF Publish
<1> HIDE DEF packet
<1>4. /\ feed' \in Seq(Published)
      /\ Len(feed') = n + k
      /\ \A i \in 1 .. n + k : feed'[i] = IF i <= n THEN feed[i] ELSE packet[i - n]
  <2>1. feed \in Seq(Published)
    BY DEF MarketType
  <2>2. /\ feed \o packet \in Seq(Published)
        /\ Len(feed \o packet) = Len(feed) + Len(packet)
        /\ \A i \in 1 .. Len(feed) + Len(packet) :
             (feed \o packet)[i] = IF i <= Len(feed) THEN feed[i] ELSE packet[i - Len(feed)]
    BY <1>2, <2>1, ConcatProperties
  <2> QED  BY <1>1, <1>2, <1>3, <2>2
<1>5. \A i \in 1 .. k : feed'[n + i] = packet[i]
  <2> SUFFICES ASSUME NEW i \in 1 .. k  PROVE feed'[n + i] = packet[i]
    OBVIOUS
  <2>1. n + i \in 1 .. n + k /\ ~(n + i <= n) /\ (n + i) - n = i
    BY <1>1
  <2> QED  BY <1>4, <2>1
<1>6. \A i \in 1 .. n : i \in 1 .. n + k /\ i <= n
  BY <1>1
<1> QED  BY <1>1, <1>2, <1>4, <1>5, <1>6

\* Types are kept by every step.
LEMMA MarketTypeKept ==
  ASSUME MarketType, [MarketNext]_marketVars
  PROVE  MarketType'
<1>1. CASE Generate
  <2>1. feed' = feed
    BY <1>1 DEF Generate
  <2>2. Produces
    BY <1>1, NextProduces
  <2>3. batch' \in Seq(Message)
    BY <2>2 DEF Produces, MarketType
  <2> QED  BY <2>1, <2>2, <2>3 DEF MarketType, Produces
<1>2. CASE Publish
  <2>1. batch' = <<>> /\ UNCHANGED <<next_order_id_, live_orders_>>
    BY <1>2 DEF Publish
  <2>2. feed' \in Seq(Published)
    BY <1>2, PublishAppends
  <2> QED  BY <2>1, <2>2 DEF MarketType
<1>3. CASE ApplyMessage
  <2>1. feed # <<>> /\ feed' = Tail(feed) /\ UNCHANGED <<next_order_id_, live_orders_, batch>>
    BY <1>3 DEF ApplyMessage, exchangeVars, generatorVars
  <2>2. feed' \in Seq(Published)
    BY <2>1 DEF MarketType
  <2> QED  BY <2>1, <2>2 DEF MarketType
<1>4. CASE UNCHANGED marketVars
  BY <1>4 DEF marketVars, exchangeVars, generatorVars, MarketType
<1> QED  BY <1>1, <1>2, <1>3, <1>4 DEF MarketNext

\* Types hold at the start.
LEMMA MarketTypeInit == MarketInit => MarketType
BY DEF MarketInit, GeneratorInit, MarketType, Distinct

-----------------------------------------------------------------------------
(* The book runs as OrderBook does.                                        *)

\* Every step of the whole system is a step of OrderBook, or none.
LEMMA StepRunsOrderBook ==
  ASSUME MarketType, [MarketNext]_marketVars
  PROVE  [Next]_order_book
<1>1. CASE ApplyMessage
  <2>1. PICK m \in Message : m = Head(feed).message
    <3>1. feed \in Seq(Published) /\ feed # <<>>
      BY <1>1 DEF ApplyMessage, MarketType
    <3>2. Head(feed) \in Published
      BY <3>1
    <3> QED  BY <3>2 DEF Published
  <2>2. order_book' = apply(order_book, m)
    BY <1>1, <2>1 DEF ApplyMessage
  <2>3. CASE m \in AddOrderMsg
    <3>1. order_book' = apply_add(order_book, m)
      BY <2>2, <2>3 DEF apply, AddOrderMsg
    <3> QED  BY <2>3, <3>1 DEF Next, Add
  <2>4. CASE m \in ModifyOrderMsg
    <3>1. order_book' = apply_modify(order_book, m)
      BY <2>2, <2>4 DEF apply, ModifyOrderMsg
    <3> QED  BY <2>4, <3>1 DEF Next, Modify
  <2>5. CASE m \in DeleteOrderMsg
    <3>1. order_book' = apply_delete(order_book, m)
      BY <2>2, <2>5 DEF apply, DeleteOrderMsg
    <3> QED  BY <2>5, <3>1 DEF Next, Delete
  <2> QED  BY <2>1, <2>3, <2>4, <2>5 DEF Message
<1>2. CASE UNCHANGED order_book
  BY <1>2
<1>3. Generate \/ Publish => UNCHANGED order_book
  BY DEF Generate, Publish, handlerVars
<1>4. UNCHANGED marketVars => UNCHANGED order_book
  BY DEF marketVars, handlerVars
<1> QED  BY <1>1, <1>2, <1>3, <1>4 DEF MarketNext

\* What the generator produces and the handler applies is a run of OrderBook.
THEOREM FeedRunsOrderBook == MarketSpec => BookRunsOrderBook
<1>1. MarketInit => MarketType /\ Init
  BY MarketTypeInit DEF MarketInit
<1>2. MarketType /\ [MarketNext]_marketVars => MarketType' /\ [Next]_order_book
  BY MarketTypeKept, StepRunsOrderBook
<1> QED  BY <1>1, <1>2, PTL DEF MarketSpec, BookRunsOrderBook, Spec

\* So the BBO the handler alerts with is the best price an order rests at.
THEOREM FeedBboIsBest ==
  ASSUME NoOverflow
  PROVE  MarketSpec => []BboIsBestOrder
BY FeedRunsOrderBook, BboIsTheBestOrder, PTL DEF BookRunsOrderBook

-----------------------------------------------------------------------------
(* The messages under way lead from the book's orders to the generator's.  *)

MessageAt(published, filling, i) ==
  IF i <= Len(published) THEN published[i].message ELSE filling[i - Len(published)]

OrdersAfter(first, later, i) == IF i = 0 THEN first ELSE later[i]

InStep(published, filling, first, later, last) ==
  /\ first \in Maps
  /\ later \in Seq(Maps)
  /\ Len(later) = Len(published) + Len(filling)
  /\ \A i \in 1 .. Len(later) :
       Follows(OrdersAfter(first, later, i - 1), MessageAt(published, filling, i), later[i])
  /\ OrdersAfter(first, later, Len(later)) = last

\* A message more at the end.
LEMMA InStepGenerate ==
  ASSUME NEW f \in Seq(Published), NEW b \in Seq(Message), NEW first, NEW later, NEW last,
         InStep(f, b, first, later, last),
         NEW m \in Message, NEW new \in Maps, Follows(last, m, new)
  PROVE  InStep(f, Append(b, m), first, Append(later, new), new)
<1> DEFINE b2 == Append(b, m)
           later2 == Append(later, new)
<1>1. PICK n \in Nat, k \in Nat, l \in Nat : n = Len(f) /\ k = Len(b) /\ l = Len(later)
  BY DEF InStep
<1>2. l = n + k
  BY <1>1 DEF InStep
<1>3. /\ later2 \in Seq(Maps) /\ Len(later2) = l + 1
      /\ later2[l + 1] = new /\ \A i \in 1 .. l : later2[i] = later[i]
  <2>1. later \in Seq(Maps)
    BY DEF InStep
  <2> QED  BY <1>1, <2>1, AppendProperties
<1>4. /\ Len(b2) = k + 1
      /\ b2[k + 1] = m /\ \A i \in 1 .. k : b2[i] = b[i]
  BY <1>1
<1> HIDE DEF b2, later2
<1>5. ASSUME NEW i \in 1 .. l + 1
      PROVE  Follows(OrdersAfter(first, later2, i - 1), MessageAt(f, b2, i), later2[i])
  <2>1. CASE i = l + 1
    <3>1. MessageAt(f, b2, i) = m
      BY <1>1, <1>2, <1>4, <2>1 DEF MessageAt
    <3>2. OrdersAfter(first, later2, i - 1) = OrdersAfter(first, later, l)
      BY <1>1, <1>3, <2>1 DEF OrdersAfter
    <3>3. OrdersAfter(first, later2, i - 1) = last
      BY <1>1, <3>2 DEF InStep
    <3> QED  BY <1>3, <2>1, <3>1, <3>3
  <2>2. CASE i \in 1 .. l
    <3>1. MessageAt(f, b2, i) = MessageAt(f, b, i)
      BY <1>1, <1>2, <1>4, <2>2 DEF MessageAt
    <3>2. OrdersAfter(first, later2, i - 1) = OrdersAfter(first, later, i - 1)
      BY <1>3, <2>2 DEF OrdersAfter
    <3>3. Follows(OrdersAfter(first, later, i - 1), MessageAt(f, b, i), later[i])
      BY <1>1, <2>2 DEF InStep
    <3> QED  BY <1>3, <2>2, <3>1, <3>2, <3>3
  <2> QED  BY <1>1, <2>1, <2>2
<1>6. OrdersAfter(first, later2, l + 1) = new
  BY <1>1, <1>3 DEF OrdersAfter
<1>7. InStep(f, b2, first, later2, new)
  BY <1>1, <1>2, <1>3, <1>4, <1>5, <1>6 DEF InStep
<1> QED  BY <1>7 DEF b2, later2

\* The batch joins the messages published.
LEMMA InStepPublish ==
  ASSUME NEW f \in Seq(Published), NEW b \in Seq(Message), NEW first, NEW later, NEW last,
         InStep(f, b, first, later, last),
         NEW f2, Len(f2) = Len(f) + Len(b),
         \A i \in 1 .. Len(f) : f2[i] = f[i],
         \A i \in 1 .. Len(b) : f2[Len(f) + i].message = b[i]
  PROVE  InStep(f2, <<>>, first, later, last)
<1>1. PICK n \in Nat, k \in Nat : n = Len(f) /\ k = Len(b)
  OBVIOUS
<1>2. Len(later) = n + k /\ Len(f2) = n + k
  BY <1>1 DEF InStep
<1>3. ASSUME NEW i \in 1 .. n + k
      PROVE  MessageAt(f2, <<>>, i) = MessageAt(f, b, i)
  <2>1. CASE i <= n
    BY <1>1, <1>2, <2>1 DEF MessageAt
  <2>2. CASE ~(i <= n)
    <3>1. i - n \in 1 .. k /\ n + (i - n) = i
      BY <2>2, <1>1
    <3>2. f2[n + (i - n)].message = b[i - n]
      BY <1>1, <3>1
    <3> QED  BY <1>1, <1>2, <2>2, <3>1, <3>2 DEF MessageAt
  <2> QED  BY <2>1, <2>2
<1>4. Len(<<>>) = 0
  OBVIOUS
<1>5. \A i \in 1 .. Len(later) :
        Follows(OrdersAfter(first, later, i - 1), MessageAt(f2, <<>>, i), later[i])
  BY <1>1, <1>2, <1>3 DEF InStep
<1>6. Len(later) = Len(f2) + Len(<<>>)
  BY <1>1, <1>2, <1>4
<1> QED  BY <1>5, <1>6 DEF InStep

\* The first message is applied.
LEMMA InStepApply ==
  ASSUME NEW f \in Seq(Published), NEW b \in Seq(Message), NEW first, NEW later, NEW last,
         InStep(f, b, first, later, last), f # <<>>
  PROVE  /\ Follows(first, Head(f).message, Head(later))
         /\ InStep(Tail(f), b, Head(later), Tail(later), last)
<1>1. PICK n \in Nat, k \in Nat, l \in Nat : n = Len(f) /\ k = Len(b) /\ l = Len(later)
  BY DEF InStep
<1>2. l = n + k /\ n >= 1 /\ l >= 1
  <2>1. n # 0
    BY <1>1
  <2>2. l = n + k
    BY <1>1 DEF InStep
  <2> QED  BY <2>1, <2>2
<1>3. later \in Seq(Maps) /\ later # <<>>
  BY <1>1, <1>2 DEF InStep
<1> DEFINE f2 == Tail(f)
           later2 == Tail(later)
<1>4. /\ Len(f2) = n - 1 /\ \A i \in 1 .. n - 1 : f2[i] = f[i + 1]
      /\ Head(f) = f[1]
  BY <1>1, <1>2
<1>5. /\ later2 \in Seq(Maps) /\ Len(later2) = l - 1 /\ \A i \in 1 .. l - 1 : later2[i] = later[i + 1]
      /\ Head(later) = later[1] /\ Head(later) \in Maps
  <2>1. /\ later2 \in Seq(Maps) /\ Head(later) \in Maps
        /\ Len(later2) = Len(later) - 1
        /\ \A i \in 1 .. Len(later2) : later2[i] = later[i + 1]
    BY <1>3, HeadTailProperties
  <2>2. Head(later) = later[1]
    BY <1>3
  <2> HIDE DEF later2
  <2> QED  BY <1>1, <2>1, <2>2
<1> HIDE DEF f2, later2
<1>6. \A i \in 1 .. l :
        Follows(OrdersAfter(first, later, i - 1), MessageAt(f, b, i), later[i])
  BY <1>1 DEF InStep
<1>7. Follows(first, Head(f).message, Head(later))
  <2>1. MessageAt(f, b, 1) = f[1].message
    BY <1>1, <1>2 DEF MessageAt
  <2>2. OrdersAfter(first, later, 1 - 1) = first
    BY DEF OrdersAfter
  <2>3. 1 \in 1 .. l
    BY <1>2
  <2>4. Follows(OrdersAfter(first, later, 1 - 1), MessageAt(f, b, 1), later[1])
    BY <1>6, <2>3
  <2> QED  BY <1>4, <1>5, <2>1, <2>2, <2>4
<1>8. ASSUME NEW i \in 1 .. l - 1
      PROVE  Follows(OrdersAfter(Head(later), later2, i - 1), MessageAt(f2, b, i), later2[i])
  <2>1. i + 1 \in 1 .. l
    BY <1>1
  <2>2. MessageAt(f2, b, i) = MessageAt(f, b, i + 1)
    <3>1. CASE i <= n - 1
      BY <1>1, <1>4, <3>1 DEF MessageAt
    <3>2. CASE ~(i <= n - 1)
      <4>1. i - (n - 1) = (i + 1) - n
        BY <1>1
      <4> QED  BY <1>1, <1>4, <3>2, <4>1 DEF MessageAt
    <3> QED  BY <3>1, <3>2
  <2>3. OrdersAfter(Head(later), later2, i - 1) = later[i]
    <3>1. CASE i = 1
      BY <1>5, <3>1 DEF OrdersAfter
    <3>2. CASE i # 1
      <4>1. i - 1 \in 1 .. l - 1 /\ i - 1 # 0 /\ (i - 1) + 1 = i
        BY <1>1, <3>2
      <4> QED  BY <1>5, <4>1 DEF OrdersAfter
    <3> QED  BY <3>1, <3>2
  <2>4. OrdersAfter(first, later, (i + 1) - 1) = later[i]
    BY DEF OrdersAfter
  <2>5. Follows(OrdersAfter(first, later, (i + 1) - 1), MessageAt(f, b, i + 1), later[i + 1])
    BY <1>6, <2>1
  <2> QED  BY <1>5, <2>2, <2>3, <2>4, <2>5
<1>9. OrdersAfter(Head(later), later2, l - 1) = last
  <2>1. last = later[l]
    BY <1>1, <1>2 DEF InStep, OrdersAfter
  <2>2. CASE l = 1
    BY <1>5, <2>1, <2>2 DEF OrdersAfter
  <2>3. CASE l # 1
    <3>1. l - 1 \in 1 .. l - 1 /\ (l - 1) + 1 = l /\ l - 1 # 0
      BY <1>2, <2>3
    <3> QED  BY <1>5, <2>1, <3>1 DEF OrdersAfter
  <2> QED  BY <2>2, <2>3
<1>10. Len(later2) = Len(f2) + Len(b)
  BY <1>1, <1>2, <1>4, <1>5
<1>11. InStep(f2, b, Head(later), later2, last)
  <2>1. Len(later2) = l - 1
    BY <1>5
  <2> QED  BY <1>5, <1>8, <1>9, <1>10, <2>1 DEF InStep
<1> QED  BY <1>7, <1>11 DEF f2, later2

-----------------------------------------------------------------------------
(* The book mirrors the generator.                                         *)

\* GeneratorOrders is the map the lemmas above are about.
LEMMA GeneratorOrdersById == /\ GeneratorOrders = ById(live_orders_)
                             /\ GeneratorOrders' = ById(live_orders_')
BY DEF GeneratorOrders, LiveIds, OrderOf, ById, Ids, Fields

\* The invariant: the messages not yet applied lead, one by one, from the
\* book's orders to the generator's.
MirrorInv ==
  /\ MarketType
  /\ IsBook(order_book)
  /\ order_book.live_orders = mirrored
  /\ InStep(feed, batch, mirrored, history, ById(live_orders_))

\* At the start there are no orders and no messages.
LEMMA MirrorInit == MarketInit => MirrorInv
<1> SUFFICES ASSUME MarketInit  PROVE MirrorInv
  OBVIOUS
<1>1. MarketType /\ IsBook(order_book)
  BY MarketTypeInit, EmptyBookType DEF MarketInit, Init
<1>2. order_book.live_orders = mirrored /\ mirrored = EmptyMap
  BY DEF MarketInit, Init, EmptyBook
<1>3. feed = <<>> /\ batch = <<>> /\ history = <<>> /\ live_orders_ = <<>>
  BY DEF MarketInit, GeneratorInit
<1>4. ById(<<>>) = EmptyMap
  BY DEF ById, Ids, EmptyMap
<1>5. EmptyMap \in Maps
  <2>1. EmptyMap \in [{} -> QuotedState]
    BY DEF EmptyMap
  <2> QED  BY <2>1 DEF Maps
<1>6. InStep(<<>>, <<>>, EmptyMap, <<>>, EmptyMap)
  BY <1>5 DEF InStep, OrdersAfter
<1> QED  BY <1>1, <1>2, <1>3, <1>4, <1>6 DEF MirrorInv

\* Generating adds a message at one end, applying takes one off the other.
LEMMA MirrorKept ==
  ASSUME MirrorInv, [MarketNext]_marketVars
  PROVE  MirrorInv'
<1>1. MarketType' /\ MarketType
  BY MarketTypeKept DEF MirrorInv
<1>2. IsBook(order_book')
  <2>1. [Next]_order_book
    BY StepRunsOrderBook DEF MirrorInv
  <2> QED  BY <2>1, NextKeepsType DEF MirrorInv
<1>3. ById(live_orders_') \in Maps
  BY <1>1, ByIdFinds DEF MarketType
<1>4. CASE Generate
  <2>1. PICK m \in Message : /\ batch' = Append(batch, m)
                             /\ Follows(ById(live_orders_), m, ById(live_orders_'))
    BY <1>1, <1>4, NextProduces DEF Produces
  <2>2. history' = Append(history, ById(live_orders_'))
    BY <1>4, GeneratorOrdersById DEF Generate
  <2>3. feed' = feed /\ mirrored' = mirrored /\ order_book' = order_book
    BY <1>4 DEF Generate, handlerVars
  <2>4. InStep(feed, batch', mirrored, history', ById(live_orders_'))
    BY <1>1, <1>3, <2>1, <2>2, InStepGenerate DEF MirrorInv, MarketType
  <2> QED  BY <1>1, <1>2, <2>3, <2>4 DEF MirrorInv
<1>5. CASE Publish
  <2>1. /\ batch' = <<>> /\ live_orders_' = live_orders_
        /\ history' = history /\ mirrored' = mirrored /\ order_book' = order_book
    BY <1>5 DEF Publish, handlerVars
  <2>2. InStep(feed', <<>>, mirrored, history, ById(live_orders_))
    BY <1>1, <1>5, PublishAppends, InStepPublish DEF MirrorInv, MarketType
  <2> QED  BY <1>1, <1>2, <2>1, <2>2 DEF MirrorInv
<1>6. CASE ApplyMessage
  <2>1. /\ feed # <<>> /\ feed' = Tail(feed)
        /\ mirrored' = Head(history) /\ history' = Tail(history)
        /\ batch' = batch /\ live_orders_' = live_orders_
        /\ order_book' = apply(order_book, Head(feed).message)
    BY <1>6 DEF ApplyMessage, exchangeVars, generatorVars
  <2>2. /\ Follows(mirrored, Head(feed).message, Head(history))
        /\ InStep(Tail(feed), batch, Head(history), Tail(history), ById(live_orders_))
    BY <1>1, <2>1, InStepApply DEF MirrorInv, MarketType
  <2>3. Head(feed).message \in Message
    <3>1. Head(feed) \in Published
      BY <1>1, <2>1 DEF MarketType
    <3> QED  BY <3>1 DEF Published
  <2>4. order_book'.live_orders = Head(history)
    BY <2>1, <2>2, <2>3, BookFollows DEF MirrorInv, Follows
  <2> QED  BY <1>1, <1>2, <2>1, <2>2, <2>4 DEF MirrorInv
<1>7. CASE UNCHANGED marketVars
  BY <1>1, <1>2, <1>7 DEF MirrorInv, marketVars, exchangeVars, generatorVars, handlerVars
<1> QED  BY <1>4, <1>5, <1>6, <1>7 DEF MarketNext

\* The invariant holds throughout.
LEMMA MirrorHolds == MarketSpec => []MirrorInv
BY MirrorInit, MirrorKept, PTL DEF MarketSpec

\* The handler's orders are those the generator had when it produced the last
\* message applied: no swap, modify or replacement ever parts the two.
THEOREM BookIsAMirror == MarketSpec => []BookMirrorsGenerator
<1>1. MirrorInv => BookMirrorsGenerator
  <2> SUFFICES ASSUME MirrorInv, feed = <<>>, batch = <<>>  PROVE mirrored = GeneratorOrders
    BY DEF MirrorInv, BookMirrorsGenerator
  <2>1. Len(history) = 0
    BY DEF MirrorInv, InStep
  <2> QED  BY <2>1, GeneratorOrdersById DEF MirrorInv, InStep, OrdersAfter
<1> QED  BY <1>1, MirrorHolds, PTL

\* A Modify or Delete always finds its order in the book, and an Add never
\* replaces one.
THEOREM MessagesAreValid == MarketSpec => []NextMessageIsValid
<1>1. MirrorInv => NextMessageIsValid
  <2> SUFFICES ASSUME MirrorInv, feed # <<>>
               PROVE  (Head(feed).message.type = "A")
                        <=> Head(feed).message.order_id \notin DOMAIN order_book.live_orders
    BY DEF NextMessageIsValid
  <2>1. Follows(mirrored, Head(feed).message, Head(history))
    BY InStepApply DEF MirrorInv, MarketType
  <2> QED  BY <2>1 DEF MirrorInv, Follows, Valid
<1> QED  BY <1>1, MirrorHolds, PTL

\* The book is never crossed: each side's best price is one an order of that
\* side was given from its range, and the ranges do not meet.
THEOREM BookIsNeverCrossed ==
  ASSUME NoOverflow
  PROVE  MarketSpec => []NeverCrossed
<1>1. MirrorInv /\ NoOrphanLevel => NeverCrossed
  <2> SUFFICES ASSUME MirrorInv, NoOrphan(order_book),
                      NEW bid, bid = BestOf(order_book.levels["B"], "B"), bid # NoLevel,
                      NEW ask, ask = BestOf(order_book.levels["S"], "S"), ask # NoLevel
               PROVE  bid.price < ask.price
    BY DEF NeverCrossed, NoOrphanLevel, NoOrphan, bbo
  <2>1. "B" \in Sides /\ "S" \in Sides /\ "B" # "S"
    BY DEF Sides
  <2>2. ASSUME NEW side \in Sides, NEW price \in DOMAIN order_book.levels[side]
        PROVE  price \in PriceRange(side)
    <3>1. PICK id \in DOMAIN mirrored : mirrored[id].side = side /\ mirrored[id].price = price
      BY DEF NoOrphan, OrdersAt, MirrorInv
    <3>2. mirrored[id] \in QuotedState
      BY DEF MirrorInv, InStep, Maps
    <3> QED  BY <3>1, <3>2 DEF QuotedState
  <2>3. bid.price \in PriceRange("B") /\ ask.price \in PriceRange("S")
    BY <2>1, <2>2, BestOfIsBest DEF MirrorInv
  <2> QED  BY <2>3, GeneratorAssumption DEF PriceRange
<1> QED
  <2>1. MarketSpec => []NoOrphanLevel
    BY FeedRunsOrderBook, LevelsAreNeverOrphaned, PTL DEF BookRunsOrderBook
  <2> QED  BY <1>1, <2>1, MirrorHolds, PTL
=============================================================================

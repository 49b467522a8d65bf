----------------------------- MODULE BboProofs -----------------------------
(***************************************************************************)
(* Proofs that no level outlives its orders and that the BBO is the best   *)
(* price an order rests at, from the invariants OrderBookProofs has.       *)
(***************************************************************************)
EXTENDS OrderBookProofs

NoOrphan(book) ==
  \A side \in Sides : \A price \in DOMAIN book.levels[side] : OrdersAt(book, side, price) # {}

\* A level with quantity on it has an order: only an empty one can be orphaned.
LEMMA QuantityRests ==
  ASSUME NEW book, IsBook(book), LevelsMatch(book),
         NEW side \in Sides, NEW price \in DOMAIN book.levels[side],
         book.levels[side][price] > 0
  PROVE  OrdersAt(book, side, price) # {}
<1>1. price \in Prices
  BY DEF IsBook, IsMap
<1>2. Total(book, side, price) > 0
  BY <1>1 DEF LevelsMatch
<1>3. Units(book, side, price) # {}
  BY <1>2, FS_EmptySet DEF Total
<1> QED  BY <1>3 DEF Units

\* subtract_level adds no level, and one it leaves at its price has quantity.
LEMMA SubtractLeavesQuantity ==
  ASSUME NEW levels, IsLevels(levels),
         NEW side \in Sides, NEW price \in Prices, NEW quantity \in Quantities,
         NEW left, left = subtract_level(levels, side, price, quantity)
  PROVE  /\ \A s \in Sides : DOMAIN left[s] \subseteq DOMAIN levels[s]
         /\ price \in DOMAIN left[side] => left[side][price] > 0
<1>1. CASE price \notin DOMAIN levels[side]
  BY <1>1 DEF subtract_level
<1>2. CASE price \in DOMAIN levels[side] /\ levels[side][price] <= quantity
  <2>1. left = [levels EXCEPT ![side] = Erase(levels[side], price)]
    BY <1>2 DEF subtract_level
  <2>2. /\ left[side] = Erase(levels[side], price)
        /\ \A s \in Sides : s # side => left[s] = levels[s]
    BY <2>1 DEF IsLevels
  <2> QED  BY <2>2 DEF Erase, Restrict
<1>3. CASE price \in DOMAIN levels[side] /\ ~(levels[side][price] <= quantity)
  <2>1. left = [levels EXCEPT ![side] = Put(levels[side], price, levels[side][price] - quantity)]
    BY <1>3 DEF subtract_level
  <2>2. /\ left[side] = Put(levels[side], price, levels[side][price] - quantity)
        /\ \A s \in Sides : s # side => left[s] = levels[s]
    BY <2>1 DEF IsLevels
  <2>3. levels[side][price] \in Nat /\ quantity \in Nat
    BY <1>3, ConstantsAssumption DEF IsLevels, IsMap, Quantities
  <2>4. levels[side][price] - quantity > 0
    BY <1>3, <2>3
  <2> QED  BY <1>3, <2>2, <2>4 DEF Put
<1> QED  BY <1>1, <1>2, <1>3

\* Taking quantity off an order and off its level orphans no level: the one at
\* its price stays only with quantity on it, and no other loses an order.
LEMMA TakeOrphansNone ==
  ASSUME NEW before, IsBook(before), NoOrphan(before),
         NEW after, IsBook(after), LevelsMatch(after),
         NEW at \in Sides, NEW px \in Prices, NEW quantity \in Quantities,
         NEW id, id \in OrdersAt(before, at, px),
         Erase(before.live_orders, id) = Erase(after.live_orders, id),
         after.levels = subtract_level(before.levels, at, px, quantity)
  PROVE  NoOrphan(after)
<1>1. /\ \A s \in Sides : DOMAIN after.levels[s] \subseteq DOMAIN before.levels[s]
      /\ px \in DOMAIN after.levels[at] => after.levels[at][px] > 0
  BY MatchIsAgree, SubtractLeavesQuantity
<1> SUFFICES ASSUME NEW side \in Sides, NEW price \in DOMAIN after.levels[side]
             PROVE  OrdersAt(after, side, price) # {}
  BY DEF NoOrphan
<1>2. CASE side = at /\ price = px
  BY <1>1, <1>2, QuantityRests
<1>3. CASE ~(side = at /\ price = px)
  <2>1. PICK other \in OrdersAt(before, side, price) : TRUE
    BY <1>1 DEF NoOrphan
  <2>2. other # id
    BY <1>3, <2>1 DEF OrdersAt
  <2>3. /\ other \in DOMAIN after.live_orders
        /\ after.live_orders[other] = before.live_orders[other]
    BY <2>1, <2>2 DEF OrdersAt, Erase, Restrict
  <2> QED  BY <2>1, <2>3 DEF OrdersAt
<1> QED  BY <1>2, <1>3

\* An order put where its id had none rests on the only level that is added.
LEMMA InsertOrphansNone ==
  ASSUME NEW book, IsBook(book), NoOrphan(book),
         NEW id, id \notin DOMAIN book.live_orders,
         NEW order \in OrderState
  PROVE  NoOrphan([live_orders |-> Put(book.live_orders, id, order),
                   levels |-> add_level(book.levels, order.side, order.price, order.quantity)])
<1> DEFINE after == [live_orders |-> Put(book.live_orders, id, order),
                     levels |-> add_level(book.levels, order.side, order.price, order.quantity)]
<1>1. PICK at \in Sides, px \in Prices : order.side = at /\ order.price = px
  BY DEF OrderState
<1>2. \A s \in Sides : DOMAIN after.levels[s] =
        IF s = at THEN DOMAIN book.levels[s] \cup {px} ELSE DOMAIN book.levels[s]
  BY <1>1 DEF add_level, Put, IsBook
<1>3. after.live_orders = Put(book.live_orders, id, order)
  OBVIOUS
<1> HIDE DEF after
<1>4. ASSUME NEW side \in Sides, NEW price \in DOMAIN after.levels[side]
      PROVE  OrdersAt(after, side, price) # {}
  <2>1. CASE side = at /\ price = px
    <3>1. id \in OrdersAt(after, side, price)
      BY <1>1, <1>3, <2>1 DEF OrdersAt, Put
    <3> QED  BY <3>1
  <2>2. CASE ~(side = at /\ price = px)
    <3>1. PICK other \in OrdersAt(book, side, price) : TRUE
      BY <1>2, <2>2 DEF NoOrphan
    <3>2. other \in OrdersAt(after, side, price)
      BY <1>3, <3>1 DEF OrdersAt, Put
    <3> QED  BY <3>2
  <2> QED  BY <2>1, <2>2
<1>5. NoOrphan(after)
  BY <1>4 DEF NoOrphan
<1> QED  BY <1>5 DEF after

\* Erasing an order takes its level along when nothing else rests there.
LEMMA EraseOrphansNone ==
  ASSUME NEW book, IsBook(book), LevelsMatch(book), NoOrphan(book), NEW id \in OrderIds
  PROVE  NoOrphan(erase_order(book, id))
<1>1. CASE id \notin DOMAIN book.live_orders
  BY <1>1 DEF erase_order
<1>2. CASE id \in DOMAIN book.live_orders
  <2> DEFINE after == erase_order(book, id)
  <2>1. PICK at \in Sides, px \in Prices, quantity \in Quantities :
          /\ book.live_orders[id].side = at
          /\ book.live_orders[id].price = px
          /\ book.live_orders[id].quantity = quantity
    BY <1>2 DEF IsBook, IsMap, OrderState
  <2>2. IsBook(after) /\ LevelsMatch(after) /\ after.live_orders = Erase(book.live_orders, id)
    BY EraseOrderType, EraseMatches
  <2>3. after.levels = subtract_level(book.levels, at, px, quantity)
    BY <1>2, <2>1 DEF erase_order
  <2>4. id \in OrdersAt(book, at, px)
    BY <1>2, <2>1 DEF OrdersAt
  <2> HIDE DEF after
  <2>5. Erase(book.live_orders, id) = Erase(after.live_orders, id)
    BY <2>2 DEF Erase, Restrict
  <2>6. NoOrphan(after)
    BY <2>2, <2>3, <2>4, <2>5, TakeOrphansNone
  <2> QED  BY <2>6 DEF after
<1> QED  BY <1>1, <1>2

\* An Add erases what its id had and inserts the new order.
LEMMA AddOrphansNone ==
  ASSUME NEW book, IsBook(book), LevelsMatch(book), NoOrphan(book), NEW m \in AddOrderMsg
  PROVE  NoOrphan(apply_add(book, m))
<1>1. CASE m.side \notin Sides
  BY <1>1 DEF apply_add
<1>2. CASE m.side \in Sides
  <2> DEFINE cleared == erase_order(book, m.order_id)
             order == [side |-> m.side, price |-> m.price, quantity |-> m.quantity]
  <2>1. m.order_id \in OrderIds /\ order \in OrderState
    BY <1>2, ConstantsAssumption DEF AddOrderMsg, OrderState, Quantities
  <2>2. /\ IsBook(cleared)
        /\ m.order_id \notin DOMAIN cleared.live_orders
    <3>1. m.order_id \notin DOMAIN Erase(book.live_orders, m.order_id)
      BY DEF Erase, Restrict
    <3> QED  BY <3>1, EraseOrderType
  <2>3. NoOrphan(cleared)
    BY <2>1, EraseOrphansNone
  <2>4. apply_add(book, m) =
          [live_orders |-> Put(cleared.live_orders, m.order_id, order),
           levels |-> add_level(cleared.levels, order.side, order.price, order.quantity)]
    BY <1>2 DEF apply_add
  <2> HIDE DEF cleared, order
  <2> QED  BY <2>1, <2>2, <2>3, <2>4, InsertOrphansNone
<1> QED  BY <1>1, <1>2

\* So does a Modify with the order as modified, unless its quantity is zero.
LEMMA ModifyOrphansNone ==
  ASSUME NEW book, IsBook(book), LevelsMatch(book), NoOrphan(book), NEW m \in ModifyOrderMsg
  PROVE  NoOrphan(apply_modify(book, m))
<1>1. CASE m.order_id \notin DOMAIN book.live_orders
  BY <1>1 DEF apply_modify
<1>2. CASE m.order_id \in DOMAIN book.live_orders
  <2> DEFINE order == book.live_orders[m.order_id]
             changed == [order EXCEPT !.price = m.price, !.quantity = m.quantity]
             cleared == erase_order(book, m.order_id)
  <2>1. m.order_id \in OrderIds /\ m.price \in Prices /\ m.quantity \in Quantities
    BY DEF ModifyOrderMsg
  <2>2. order \in OrderState
    BY <1>2 DEF IsBook, IsMap
  <2>3. /\ changed \in OrderState
        /\ changed.side = order.side /\ changed.price = m.price /\ changed.quantity = m.quantity
    BY <2>1, <2>2 DEF OrderState
  <2>4. /\ IsBook(cleared) /\ NoOrphan(cleared)
        /\ cleared.live_orders = Erase(book.live_orders, m.order_id)
        /\ m.order_id \notin DOMAIN cleared.live_orders
    <3>1. m.order_id \notin DOMAIN Erase(book.live_orders, m.order_id)
      BY DEF Erase, Restrict
    <3> QED  BY <2>1, <3>1, EraseOrphansNone, EraseOrderType
  <2>5. cleared = [live_orders |-> Erase(book.live_orders, m.order_id),
                   levels |-> subtract_level(book.levels, order.side, order.price,
                                             order.quantity)]
    BY <1>2 DEF erase_order
  <2>6. cleared.levels = subtract_level(book.levels, order.side, order.price, order.quantity)
    BY <2>5
  <2>7. CASE m.quantity = 0
    <3>1. apply_modify(book, m) = cleared
      BY <1>2, <2>5, <2>7 DEF apply_modify
    <3> QED  BY <2>4, <3>1
  <2>8. CASE m.quantity # 0
    <3>1. apply_modify(book, m) =
            [live_orders |-> Put(book.live_orders, m.order_id, changed),
             levels |-> add_level(cleared.levels, order.side, m.price, m.quantity)]
      BY <1>2, <2>6, <2>8 DEF apply_modify
    <3>2. Put(book.live_orders, m.order_id, changed) =
            Put(cleared.live_orders, m.order_id, changed)
      BY <2>4, PutAfterErase
    <3> HIDE DEF cleared, changed, order
    <3>3. apply_modify(book, m) =
            [live_orders |-> Put(cleared.live_orders, m.order_id, changed),
             levels |-> add_level(cleared.levels, changed.side, changed.price,
                                  changed.quantity)]
      BY <3>1, <3>2, <2>3
    <3> QED  BY <2>3, <2>4, <3>3, InsertOrphansNone
  <2> QED  BY <2>7, <2>8
<1> QED  BY <1>1, <1>2

\* A Trade takes off the level what it takes off the order.
LEMMA TradeOrphansNone ==
  ASSUME NEW book, IsBook(book), LevelsMatch(book), NoOrphan(book), NEW m \in TradeMsg
  PROVE  NoOrphan(apply_trade(book, m))
<1>1. CASE m.order_id \notin DOMAIN book.live_orders
  BY <1>1 DEF apply_trade
<1>2. CASE m.order_id \in DOMAIN book.live_orders
  <2>1. PICK id \in OrderIds : m.order_id = id
    BY DEF TradeMsg
  <2> DEFINE order == book.live_orders[id]
             after == apply_trade(book, m)
  <2>2. PICK at \in Sides, px \in Prices, quantity \in Quantities :
          order.side = at /\ order.price = px /\ order.quantity = quantity
    BY <1>2, <2>1 DEF IsBook, IsMap, OrderState
  <2>3. PICK executed \in Quantities, left \in Quantities :
          /\ executed = IF quantity <= m.quantity THEN quantity ELSE m.quantity
          /\ left = quantity - executed
    <3>1. m.quantity \in Quantities
      BY DEF TradeMsg
    <3> QED  BY <3>1, ConstantsAssumption DEF Quantities
  <2>4. /\ after.levels = subtract_level(book.levels, at, px, executed)
        /\ after.live_orders =
             IF left = 0 THEN Erase(book.live_orders, id)
             ELSE Put(book.live_orders, id, [order EXCEPT !.quantity = left])
    BY <1>2, <2>1, <2>2, <2>3 DEF apply_trade
  <2>5. IsBook(after) /\ LevelsMatch(after)
    BY TradeType, TradeMatches
  <2> HIDE DEF after
  <2>6. Erase(book.live_orders, id) = Erase(after.live_orders, id)
    BY <2>4 DEF Erase, Restrict, Put
  <2>7. id \in OrdersAt(book, at, px)
    BY <1>2, <2>1, <2>2 DEF OrdersAt
  <2>8. NoOrphan(after)
    BY <2>4, <2>5, <2>6, <2>7, TakeOrphansNone
  <2> QED  BY <2>8 DEF after
<1> QED  BY <1>1, <1>2

\* When a level cannot overflow, every level has an order resting on it, after
\* any sequence of messages: the erase in subtract_level misses none.
THEOREM LevelsAreNeverOrphaned ==
  ASSUME NoOverflow
  PROVE  Spec => []NoOrphanLevel
<1>1. Init => NoOrphanLevel
  BY DEF Init, NoOrphanLevel, EmptyBook, EmptyMap
<1>2. TypeOK /\ LevelsMatchOrders /\ NoOrphanLevel /\ [Next]_order_book => NoOrphanLevel'
  <2> SUFFICES ASSUME IsBook(order_book), LevelsMatch(order_book), NoOrphan(order_book),
                      [Next]_order_book
               PROVE  NoOrphan(order_book')
    BY DEF TypeOK, LevelsMatchOrders, NoOrphanLevel, NoOrphan
  <2>1. CASE Add
    BY <2>1, AddOrphansNone DEF Add
  <2>2. CASE Modify
    BY <2>2, ModifyOrphansNone DEF Modify
  <2>3. CASE Delete
    BY <2>3, EraseOrphansNone DEF Delete, apply_delete, DeleteOrderMsg
  <2>4. CASE Trade
    BY <2>4, TradeOrphansNone DEF Trade
  <2>5. CASE UNCHANGED order_book
    BY <2>5
  <2> QED  BY <2>1, <2>2, <2>3, <2>4, <2>5 DEF Next
<1> QED  BY <1>1, <1>2, TypeCorrect, LevelsAlwaysMatch, PTL DEF Spec

-----------------------------------------------------------------------------
(* The best level of a side.                                               *)

\* p is at least as good a price as q.
Ahead(side, p, q) == IF side = "B" THEN p >= q ELSE p <= q

HasBest(side, prices) == \E p \in prices : \A q \in prices : Ahead(side, p, q)

\* Finitely many prices have a best one: a smallest set without one would lack
\* it without any one of its prices too.
LEMMA FinitePricesHaveBest ==
  ASSUME NEW side, NEW prices, prices \subseteq Nat, IsFiniteSet(prices), prices # {}
  PROVE  HasBest(side, prices)
<1> DEFINE without == {set \in SUBSET prices : set # {} /\ ~HasBest(side, set)}
<1> SUFFICES ASSUME ~HasBest(side, prices)  PROVE FALSE
  OBVIOUS
<1>1. without # {} /\ without \subseteq FiniteSubsetsOf(prices)
  <2>1. prices \in without
    OBVIOUS
  <2>2. FiniteSubsetsOf(prices) = SUBSET prices
    BY FS_FiniteSubsetsOfFinite
  <2> QED  BY <2>1, <2>2
<1>2. IsWellFoundedOn(StrictSubsetOrdering(prices), FiniteSubsetsOf(prices))
  BY FS_StrictSubsetOrderingWellFounded
<1>3. PICK least \in without :
        \A set \in without : ~(<<set, least>> \in StrictSubsetOrdering(prices))
  <2> HIDE DEF without
  <2> QED  BY <1>1, <1>2, WFMin
<1>4. least \subseteq prices /\ least \subseteq Nat /\ least # {} /\ ~HasBest(side, least)
  OBVIOUS
<1>5. PICK price : price \in least
  BY <1>4
<1> DEFINE rest == least \ {price}
<1>6. rest \notin without
  <2>1. rest \subseteq prices /\ rest \subseteq least /\ rest # least
    BY <1>4, <1>5
  <2>2. <<rest, least>> \in StrictSubsetOrdering(prices)
    BY <1>4, <2>1 DEF StrictSubsetOrdering
  <2> HIDE DEF without
  <2> QED  BY <1>3, <2>2
<1>7. CASE rest = {}
  BY <1>4, <1>5, <1>7 DEF HasBest, Ahead
<1>8. CASE rest # {}
  <2>1. HasBest(side, rest)
    BY <1>4, <1>6, <1>8
  <2> HIDE DEF without
  <2>2. PICK best \in rest : \A q \in rest : Ahead(side, best, q)
    BY <2>1 DEF HasBest
  <2>3. best \in least /\ best \in Nat /\ price \in Nat
    BY <1>4, <1>5
  <2>4. CASE Ahead(side, best, price)
    <3>1. \A q \in least : Ahead(side, best, q)
      BY <2>2, <2>4
    <3> QED  BY <1>4, <2>3, <3>1 DEF HasBest
  <2>5. CASE ~Ahead(side, best, price)
    <3>1. \A q \in rest : q \in Nat
      BY <1>4
    <3>2. \A q \in rest : Ahead(side, price, q)
      BY <2>2, <2>3, <2>5, <3>1 DEF Ahead
    <3>3. Ahead(side, price, price)
      BY <2>3 DEF Ahead
    <3>4. \A q \in least : Ahead(side, price, q)
      BY <3>2, <3>3
    <3> QED  BY <1>4, <1>5, <3>4 DEF HasBest
  <2> QED  BY <2>4, <2>5
<1> QED  BY <1>7, <1>8

\* A side has no more levels than there are orders.
LEMMA LevelsAreFinite ==
  ASSUME NEW book, IsBook(book), NoOrphan(book), NEW side \in Sides
  PROVE  IsFiniteSet(DOMAIN book.levels[side])
<1> DEFINE prices == DOMAIN book.levels[side]
           resting == [price \in prices |-> CHOOSE id \in OrderIds :
                                              id \in OrdersAt(book, side, price)]
<1>1. \A price \in prices : resting[price] \in OrderIds
                            /\ resting[price] \in OrdersAt(book, side, price)
  <2> SUFFICES ASSUME NEW price \in prices
               PROVE  \E id \in OrderIds : id \in OrdersAt(book, side, price)
    OBVIOUS
  <2>1. PICK id : id \in OrdersAt(book, side, price)
    BY DEF NoOrphan
  <2>2. id \in OrderIds
    BY <2>1 DEF OrdersAt, IsBook, IsMap
  <2> QED  BY <2>1, <2>2
<1>2. resting \in [prices -> OrderIds]
  BY <1>1
<1> HIDE DEF resting
<1>3. \A p, q \in prices : resting[p] = resting[q] => p = q
  BY <1>1 DEF OrdersAt
<1>4. resting \in Injection(prices, OrderIds)
  BY <1>2, <1>3 DEF Injection, IsInjective
<1> QED  BY <1>4, FS_Injection, ConstantsAssumption

\* What bbo() reads from a side: its best level, or nothing if it has none.
LEMMA BestOfIsBest ==
  ASSUME NEW book, IsBook(book), NoOrphan(book), NEW side \in Sides,
         NEW best, best = BestOf(book.levels[side], side)
  PROVE  /\ best = NoLevel <=> DOMAIN book.levels[side] = {}
         /\ best # NoLevel => /\ best.price \in DOMAIN book.levels[side]
                              /\ best.quantity = book.levels[side][best.price]
                              /\ \A q \in DOMAIN book.levels[side] : Ahead(side, best.price, q)
<1> DEFINE prices == DOMAIN book.levels[side]
<1>1. CASE prices = {}
  BY <1>1 DEF BestOf
<1>2. CASE prices # {}
  <2> DEFINE top == CHOOSE p \in prices : \A q \in prices : Ahead(side, p, q)
  <2>1. IsFiniteSet(prices)
    BY LevelsAreFinite
  <2>2. prices \subseteq Nat
    BY ConstantsAssumption DEF IsBook, IsMap
  <2>3. HasBest(side, prices)
    BY <1>2, <2>1, <2>2, FinitePricesHaveBest
  <2>4. top \in prices /\ \A q \in prices : Ahead(side, top, q)
    BY <2>3 DEF HasBest
  <2>5. best = [price |-> top, quantity |-> book.levels[side][top]]
    BY <1>2 DEF BestOf, Ahead
  <2> HIDE DEF top
  <2>6. top \in Nat
    BY <2>2, <2>4
  <2>7. best.price = top /\ best.quantity = book.levels[side][top]
    BY <2>5
  <2>8. best # NoLevel
    BY <2>6, <2>7 DEF NoLevel
  <2> QED  BY <1>2, <2>4, <2>7, <2>8
<1> QED  BY <1>1, <1>2

\* An order with quantity left counts towards the total at its price.
LEMMA OrderCounts ==
  ASSUME NEW book, IsBook(book), NEW id \in DOMAIN book.live_orders,
         NEW side \in Sides, NEW price \in Prices,
         book.live_orders[id].side = side, book.live_orders[id].price = price,
         book.live_orders[id].quantity > 0
  PROVE  Total(book, side, price) > 0
<1>1. book.live_orders[id].quantity \in Quantities
  BY DEF IsBook, IsMap, OrderState
<1>2. <<id, 1>> \in Units(book, side, price)
  BY <1>1, ConstantsAssumption DEF Units, OrdersAt, Quantities
<1>3. IsFiniteSet(Units(book, side, price)) /\ Total(book, side, price) \in Nat
  BY TotalBound
<1>4. Total(book, side, price) # 0
  BY <1>2, <1>3, FS_EmptySet DEF Total
<1> QED  BY <1>3, <1>4

\* What the book prints as best bid and offer is the best price any order
\* rests at, with all that rests there, after any sequence of messages.
THEOREM BboIsTheBestOrder ==
  ASSUME NoOverflow
  PROVE  Spec => []BboIsBestOrder
<1>1. TypeOK /\ LevelsMatchOrders /\ NoOrphanLevel => BboIsBestOrder
  <2> SUFFICES ASSUME IsBook(order_book), LevelsMatch(order_book), NoOrphan(order_book),
                      NEW side \in Sides, NEW best, best = BestOf(order_book.levels[side], side)
               PROVE  /\ best # NoLevel =>
                           /\ OrdersAt(order_book, side, best.price) # {}
                           /\ best.quantity = Total(order_book, side, best.price)
                      /\ \A id \in DOMAIN order_book.live_orders :
                           order_book.live_orders[id].side = side
                           /\ order_book.live_orders[id].quantity > 0 =>
                             /\ best # NoLevel
                             /\ Ahead(side, best.price, order_book.live_orders[id].price)
    <3>1. \A side \in Sides :
            (IF side = "B" THEN bbo(order_book).best_bid ELSE bbo(order_book).best_ask)
              = BestOf(order_book.levels[side], side)
      BY DEF bbo, Sides
    <3> QED  BY <3>1, ConstantsAssumption
             DEF TypeOK, LevelsMatchOrders, NoOrphanLevel, NoOrphan, BboIsBestOrder, Ahead
  <2>1. best # NoLevel =>
          /\ OrdersAt(order_book, side, best.price) # {}
          /\ best.quantity = Total(order_book, side, best.price)
    <3> SUFFICES ASSUME best # NoLevel
                 PROVE  /\ OrdersAt(order_book, side, best.price) # {}
                        /\ best.quantity = Total(order_book, side, best.price)
      OBVIOUS
    <3>1. PICK price : price = best.price
      OBVIOUS
    <3>2. /\ price \in DOMAIN order_book.levels[side]
          /\ best.quantity = order_book.levels[side][price]
      BY <3>1, BestOfIsBest
    <3>3. price \in Prices
      BY <3>2 DEF IsBook, IsMap
    <3> QED  BY <3>1, <3>2, <3>3 DEF NoOrphan, LevelsMatch
  <2>2. ASSUME NEW id \in DOMAIN order_book.live_orders,
               order_book.live_orders[id].side = side,
               order_book.live_orders[id].quantity > 0
        PROVE  /\ best # NoLevel
               /\ Ahead(side, best.price, order_book.live_orders[id].price)
    <3>1. PICK price \in Prices : order_book.live_orders[id].price = price
      BY DEF IsBook, IsMap, OrderState
    <3>2. Total(order_book, side, price) > 0
      BY <2>2, <3>1, OrderCounts
    <3>3. price \in DOMAIN order_book.levels[side]
      BY <3>2 DEF LevelsMatch
    <3>4. best # NoLevel
      BY <3>3, BestOfIsBest
    <3>5. Ahead(side, best.price, price)
      BY <3>3, <3>4, BestOfIsBest
    <3> QED  BY <3>1, <3>4, <3>5
  <2> QED  BY <2>1, <2>2
<1> QED  BY <1>1, TypeCorrect, LevelsAlwaysMatch, LevelsAreNeverOrphaned, PTL
=============================================================================

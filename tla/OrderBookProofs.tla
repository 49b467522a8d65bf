--------------------------- MODULE OrderBookProofs ---------------------------
(***************************************************************************)
(* Proofs about OrderBook, for every set of ids, prices and quantities.    *)
(***************************************************************************)
EXTENDS OrderBook, FiniteSetTheorems, TLAPS

IsLevels(levels) ==
  /\ levels = [side \in Sides |-> levels[side]]
  /\ \A side \in Sides : IsMap(levels[side], Prices, 0 .. U32 - 1)

\* add_level keeps levels well-typed: this is where the wrap-around matters.
LEMMA AddLevelType ==
  ASSUME NEW levels, IsLevels(levels),
         NEW side \in Sides, NEW price \in Prices, NEW quantity \in Quantities
  PROVE  IsLevels(add_level(levels, side, price, quantity))
<1> DEFINE old == IF price \in DOMAIN levels[side] THEN levels[side][price] ELSE 0
<1>1. old \in 0 .. U32 - 1
  BY ConstantsAssumption DEF IsLevels, IsMap
<1>2. Wrap(old + quantity) \in 0 .. U32 - 1
  BY <1>1, ConstantsAssumption DEF Wrap, Quantities
<1> HIDE DEF old
<1>3. IsMap(Put(levels[side], price, Wrap(old + quantity)), Prices, 0 .. U32 - 1)
  BY <1>2 DEF IsLevels, IsMap, Put
<1>4. add_level(levels, side, price, quantity) =
        [levels EXCEPT ![side] = Put(levels[side], price, Wrap(old + quantity))]
  BY DEF add_level, old
<1> QED  BY <1>3, <1>4 DEF IsLevels

\* subtract_level keeps levels well-typed: it never subtracts more than a
\* level holds.
LEMMA SubtractLevelType ==
  ASSUME NEW levels, IsLevels(levels),
         NEW side \in Sides, NEW price \in Prices, NEW quantity \in Quantities
  PROVE  IsLevels(subtract_level(levels, side, price, quantity))
<1>1. CASE price \notin DOMAIN levels[side]
  BY <1>1 DEF subtract_level
<1>2. CASE price \in DOMAIN levels[side] /\ levels[side][price] <= quantity
  <2>1. IsMap(Erase(levels[side], price), Prices, 0 .. U32 - 1)
    BY DEF IsLevels, IsMap, Erase, Restrict
  <2> QED  BY <1>2, <2>1 DEF IsLevels, subtract_level
<1>3. CASE price \in DOMAIN levels[side] /\ ~(levels[side][price] <= quantity)
  <2>1. levels[side][price] - quantity \in 0 .. U32 - 1
    BY <1>3, ConstantsAssumption DEF IsLevels, IsMap, Quantities
  <2>2. IsMap(Put(levels[side], price, levels[side][price] - quantity), Prices, 0 .. U32 - 1)
    BY <2>1 DEF IsLevels, IsMap, Put
  <2> QED  BY <1>3, <2>2 DEF IsLevels, subtract_level
<1> QED  BY <1>1, <1>2, <1>3

-----------------------------------------------------------------------------
(* Levels against an arbitrary table of totals.                            *)

Agrees(levels, total) ==
  \A side \in Sides, price \in Prices :
    /\ price \in DOMAIN levels[side] => levels[side][price] = total[side][price]
    /\ total[side][price] > 0 => price \in DOMAIN levels[side]

\* Two tables that differ at most at one side and price.
SameElsewhere(f, g, side, price) ==
  \A s \in Sides, p \in Prices : ~(s = side /\ p = price) => f[s][p] = g[s][p]

\* Adding a quantity to a level adds it to the total at that price, unless the
\* uint32_t wraps.
LEMMA AddLevelAgrees ==
  ASSUME NEW levels, IsLevels(levels),
         NEW total \in [Sides -> [Prices -> Nat]], Agrees(levels, total),
         NEW side \in Sides, NEW price \in Prices, NEW quantity \in Quantities,
         NEW after \in [Sides -> [Prices -> Nat]],
         after[side][price] = total[side][price] + quantity,
         after[side][price] < U32,
         SameElsewhere(total, after, side, price)
  PROVE  Agrees(add_level(levels, side, price, quantity), after)
<1> DEFINE old == IF price \in DOMAIN levels[side] THEN levels[side][price] ELSE 0
           added == add_level(levels, side, price, quantity)
<1>1. old = total[side][price]
  BY DEF Agrees, IsLevels, IsMap
<1>2. Wrap(old + quantity) = after[side][price]
  BY <1>1, ConstantsAssumption DEF Wrap, Quantities
<1> HIDE DEF old
<1>3. added = [levels EXCEPT ![side] = Put(levels[side], price, after[side][price])]
  BY <1>2 DEF add_level, old
<1>4. /\ added[side] = Put(levels[side], price, after[side][price])
      /\ \A s \in Sides : s # side => added[s] = levels[s]
  BY <1>3 DEF IsLevels
<1> HIDE DEF added
<1>5. ASSUME NEW s \in Sides, NEW p \in Prices
      PROVE  /\ p \in DOMAIN added[s] => added[s][p] = after[s][p]
             /\ after[s][p] > 0 => p \in DOMAIN added[s]
  <2>1. CASE s = side /\ p = price
    BY <2>1, <1>4 DEF Put
  <2>2. CASE s = side /\ p # price
    BY <2>2, <1>4 DEF Put, Agrees, SameElsewhere
  <2>3. CASE s # side
    BY <2>3, <1>4 DEF Agrees, SameElsewhere
  <2> QED  BY <2>1, <2>2, <2>3
<1> QED  BY <1>5 DEF Agrees, added

\* Subtracting what an order rests for subtracts it from the total at that
\* price: erasing a level at <= loses nothing.
LEMMA SubtractLevelAgrees ==
  ASSUME NEW levels, IsLevels(levels),
         NEW total \in [Sides -> [Prices -> Nat]], Agrees(levels, total),
         NEW side \in Sides, NEW price \in Prices, NEW quantity \in Quantities,
         NEW after \in [Sides -> [Prices -> Nat]],
         total[side][price] = after[side][price] + quantity,
         SameElsewhere(total, after, side, price)
  PROVE  Agrees(subtract_level(levels, side, price, quantity), after)
<1> DEFINE left == subtract_level(levels, side, price, quantity)
<1>1. quantity \in Nat
  BY ConstantsAssumption DEF Quantities
<1>2. CASE price \notin DOMAIN levels[side]
  <2>1. total[side][price] = 0
    BY <1>2 DEF Agrees
  <2>2. \A s \in Sides, p \in Prices : after[s][p] = total[s][p]
    BY <2>1, <1>1 DEF SameElsewhere
  <2> QED  BY <1>2, <2>2 DEF Agrees, subtract_level
<1>3. CASE price \in DOMAIN levels[side]
  <2>1. levels[side][price] = total[side][price]
    BY <1>3 DEF Agrees
  <2>2. CASE levels[side][price] <= quantity
    <3>1. after[side][price] = 0
      BY <2>1, <2>2, <1>1
    <3>2. /\ left[side] = Erase(levels[side], price)
          /\ \A s \in Sides : s # side => left[s] = levels[s]
      BY <1>3, <2>2 DEF IsLevels, subtract_level
    <3> HIDE DEF left
    <3>3. ASSUME NEW s \in Sides, NEW p \in Prices
          PROVE  /\ p \in DOMAIN left[s] => left[s][p] = after[s][p]
                 /\ after[s][p] > 0 => p \in DOMAIN left[s]
      <4>1. CASE s = side
        BY <4>1, <3>1, <3>2 DEF Erase, Restrict, Agrees, SameElsewhere
      <4>2. CASE s # side
        BY <4>2, <3>2 DEF Agrees, SameElsewhere
      <4> QED  BY <4>1, <4>2
    <3> QED  BY <3>3 DEF Agrees, left
  <2>3. CASE ~(levels[side][price] <= quantity)
    <3>1. levels[side][price] - quantity = after[side][price]
      BY <2>1, <1>1
    <3>2. /\ left[side] = Put(levels[side], price, after[side][price])
          /\ \A s \in Sides : s # side => left[s] = levels[s]
      BY <1>3, <2>3, <3>1 DEF IsLevels, subtract_level
    <3> HIDE DEF left
    <3>3. ASSUME NEW s \in Sides, NEW p \in Prices
          PROVE  /\ p \in DOMAIN left[s] => left[s][p] = after[s][p]
                 /\ after[s][p] > 0 => p \in DOMAIN left[s]
      <4>1. CASE s = side /\ p = price
        BY <4>1, <3>2 DEF Put
      <4>2. CASE s = side /\ p # price
        BY <4>2, <3>2 DEF Put, Agrees, SameElsewhere
      <4>3. CASE s # side
        BY <4>3, <3>2 DEF Agrees, SameElsewhere
      <4> QED  BY <4>1, <4>2, <4>3
    <3> QED  BY <3>3 DEF Agrees, left
  <2> QED  BY <2>2, <2>3
<1> QED  BY <1>2, <1>3

-----------------------------------------------------------------------------
(* Type correctness.                                                       *)

\* erase_order returns a well-typed book without the order.
LEMMA EraseOrderType ==
  ASSUME NEW book, IsBook(book), NEW id
  PROVE  /\ IsBook(erase_order(book, id))
         /\ erase_order(book, id).live_orders = Erase(book.live_orders, id)
         /\ IsLevels(erase_order(book, id).levels)
<1>1. CASE id \notin DOMAIN book.live_orders
  <2>1. Erase(book.live_orders, id) = book.live_orders
    BY <1>1 DEF IsBook, IsMap, Erase, Restrict
  <2> QED  BY <1>1, <2>1 DEF erase_order, IsBook, IsLevels
<1>2. CASE id \in DOMAIN book.live_orders
  <2> DEFINE order == book.live_orders[id]
             left == subtract_level(book.levels, order.side, order.price, order.quantity)
  <2>1. order \in OrderState
    BY <1>2 DEF IsBook, IsMap
  <2>2. IsLevels(book.levels)
    BY DEF IsBook, IsLevels
  <2>3. IsLevels(left)
    BY <2>1, <2>2, SubtractLevelType DEF OrderState
  <2>4. IsMap(Erase(book.live_orders, id), OrderIds, OrderState)
    BY DEF IsBook, IsMap, Erase, Restrict
  <2>5. erase_order(book, id) = [live_orders |-> Erase(book.live_orders, id), levels |-> left]
    BY <1>2 DEF erase_order
  <2> HIDE DEF left
  <2> QED  BY <2>3, <2>4, <2>5 DEF IsBook, IsLevels
<1> QED  BY <1>1, <1>2

\* Putting a well-typed order into well-typed orders.
LEMMA PutOrderType ==
  ASSUME NEW orders, IsMap(orders, OrderIds, OrderState),
         NEW id \in OrderIds, NEW order \in OrderState
  PROVE  IsMap(Put(orders, id, order), OrderIds, OrderState)
BY DEF IsMap, Put

\* Removing one keeps them well-typed.
LEMMA EraseMapType ==
  ASSUME NEW orders, IsMap(orders, OrderIds, OrderState), NEW id
  PROVE  IsMap(Erase(orders, id), OrderIds, OrderState)
BY DEF IsMap, Erase, Restrict

\* A book made of well-typed orders and levels is well-typed.
LEMMA MakeBookType ==
  ASSUME NEW orders, IsMap(orders, OrderIds, OrderState),
         NEW levels, IsLevels(levels)
  PROVE  IsBook([live_orders |-> orders, levels |-> levels])
BY DEF IsBook, IsLevels

\* The book stays well-typed across an Add, which may replace a live order.
LEMMA AddType ==
  ASSUME NEW book, IsBook(book), NEW m \in AddOrderMsg
  PROVE  IsBook(apply_add(book, m))
<1>1. CASE m.side \notin Sides
  BY <1>1 DEF apply_add
<1>2. CASE m.side \in Sides
  <2> DEFINE cleared == erase_order(book, m.order_id)
             order == [side |-> m.side, price |-> m.price, quantity |-> m.quantity]
  <2>1. /\ m.order_id \in OrderIds
        /\ m.price \in Prices
        /\ m.quantity \in Quantities
        /\ order \in OrderState
    BY <1>2, ConstantsAssumption DEF AddOrderMsg, OrderState, Quantities
  <2>2. IsMap(cleared.live_orders, OrderIds, OrderState) /\ IsLevels(cleared.levels)
    BY EraseOrderType DEF IsBook
  <2>3. IsMap(Put(cleared.live_orders, m.order_id, order), OrderIds, OrderState)
    BY <2>1, <2>2, PutOrderType
  <2>4. IsLevels(add_level(cleared.levels, m.side, m.price, m.quantity))
    BY <1>2, <2>1, <2>2, AddLevelType
  <2> QED  BY <1>2, <2>3, <2>4, MakeBookType DEF apply_add
<1> QED  BY <1>1, <1>2

\* The book stays well-typed across a Modify, which may remove the order.
LEMMA ModifyType ==
  ASSUME NEW book, IsBook(book), NEW m \in ModifyOrderMsg
  PROVE  IsBook(apply_modify(book, m))
<1>1. CASE m.order_id \notin DOMAIN book.live_orders
  BY <1>1 DEF apply_modify
<1>2. CASE m.order_id \in DOMAIN book.live_orders
  <2> DEFINE order == book.live_orders[m.order_id]
             changed == [order EXCEPT !.price = m.price, !.quantity = m.quantity]
             cleared == subtract_level(book.levels, order.side, order.price, order.quantity)
  <2>1. /\ m.order_id \in OrderIds
        /\ m.price \in Prices
        /\ m.quantity \in Quantities
    BY DEF ModifyOrderMsg
  <2>2. order \in OrderState
    BY <1>2 DEF IsBook, IsMap
  <2>3. changed \in OrderState
    BY <2>1, <2>2 DEF OrderState
  <2>4. IsMap(book.live_orders, OrderIds, OrderState) /\ IsLevels(book.levels)
    BY DEF IsBook, IsLevels
  <2>5. IsLevels(cleared)
    BY <2>2, <2>4, SubtractLevelType DEF OrderState
  <2>6. IsLevels(add_level(cleared, order.side, m.price, m.quantity))
    BY <2>1, <2>2, <2>5, AddLevelType DEF OrderState
  <2>7. IsMap(Put(book.live_orders, m.order_id, changed), OrderIds, OrderState)
    BY <2>1, <2>3, <2>4, PutOrderType
  <2>8. IsMap(Erase(book.live_orders, m.order_id), OrderIds, OrderState)
    BY <2>4, EraseMapType
  <2>9. \/ apply_modify(book, m) = [live_orders |-> Erase(book.live_orders, m.order_id),
                                    levels |-> cleared]
        \/ apply_modify(book, m) = [live_orders |-> Put(book.live_orders, m.order_id, changed),
                                    levels |-> add_level(cleared, order.side, m.price, m.quantity)]
    BY <1>2 DEF apply_modify
  <2> HIDE DEF cleared, changed, order
  <2> QED  BY <2>5, <2>6, <2>7, <2>8, <2>9, MakeBookType
<1> QED  BY <1>1, <1>2

\* The book stays well-typed across a Trade, which never executes more than rests.
LEMMA TradeType ==
  ASSUME NEW book, IsBook(book), NEW m \in TradeMsg
  PROVE  IsBook(apply_trade(book, m))
<1>1. CASE m.order_id \notin DOMAIN book.live_orders
  BY <1>1 DEF apply_trade
<1>2. CASE m.order_id \in DOMAIN book.live_orders
  <2> DEFINE order == book.live_orders[m.order_id]
             executed == IF order.quantity <= m.quantity THEN order.quantity ELSE m.quantity
             filled == [order EXCEPT !.quantity = order.quantity - executed]
             cleared == subtract_level(book.levels, order.side, order.price, executed)
  <2>1. m.order_id \in OrderIds /\ m.quantity \in Quantities
    BY DEF TradeMsg
  <2>2. order \in OrderState
    BY <1>2 DEF IsBook, IsMap
  <2>3. executed \in Quantities /\ order.quantity - executed \in Quantities
    BY <2>1, <2>2, ConstantsAssumption DEF OrderState, Quantities
  <2>4. filled \in OrderState
    BY <2>2, <2>3 DEF OrderState
  <2>5. IsMap(book.live_orders, OrderIds, OrderState) /\ IsLevels(book.levels)
    BY DEF IsBook, IsLevels
  <2>6. IsLevels(cleared)
    BY <2>2, <2>3, <2>5, SubtractLevelType DEF OrderState
  <2>7. IsMap(Put(book.live_orders, m.order_id, filled), OrderIds, OrderState)
    BY <2>1, <2>4, <2>5, PutOrderType
  <2>8. IsMap(Erase(book.live_orders, m.order_id), OrderIds, OrderState)
    BY <2>5, EraseMapType
  <2>9. \/ apply_trade(book, m) = [live_orders |-> Erase(book.live_orders, m.order_id),
                                   levels |-> cleared]
        \/ apply_trade(book, m) = [live_orders |-> Put(book.live_orders, m.order_id, filled),
                                   levels |-> cleared]
    BY <1>2 DEF apply_trade
  <2> HIDE DEF cleared, filled, order, executed
  <2> QED  BY <2>6, <2>7, <2>8, <2>9, MakeBookType
<1> QED  BY <1>1, <1>2

\* The book starts well-typed.
LEMMA EmptyBookType == IsBook(EmptyBook)
BY DEF EmptyBook, EmptyMap, IsBook, IsMap, Sides

\* Every message leaves the two maps well-typed.
LEMMA NextKeepsType ==
  ASSUME IsBook(order_book), [Next]_order_book
  PROVE  IsBook(order_book')
<1>1. CASE Add
  BY <1>1, AddType DEF Add
<1>2. CASE Modify
  BY <1>2, ModifyType DEF Modify
<1>3. CASE Delete
  BY <1>3, EraseOrderType DEF Delete, apply_delete
<1>4. CASE Trade
  BY <1>4, TradeType DEF Trade
<1>5. CASE UNCHANGED order_book
  BY <1>5
<1> QED  BY <1>1, <1>2, <1>3, <1>4, <1>5 DEF Next

\* Every message, whatever it carries, leaves the two maps well-typed: no
\* level goes below zero, no order keeps a quantity out of range.
THEOREM TypeCorrect == Spec => []TypeOK
<1>1. Init => TypeOK
  BY EmptyBookType DEF Init, TypeOK
<1>2. TypeOK /\ [Next]_order_book => TypeOK'
  BY NextKeepsType DEF TypeOK
<1> QED  BY <1>1, <1>2, PTL DEF Spec

-----------------------------------------------------------------------------
(* Totals: one order's part, and the units of the others.                  *)

OtherUnits(book, id, side, price) == {u \in Units(book, side, price) : u[1] # id}

Part(book, id, side, price) ==
  IF id \in OrdersAt(book, side, price) THEN book.live_orders[id].quantity ELSE 0

\* The units at a price are finitely many, and no more than every order at its
\* largest quantity would give.
LEMMA TotalBound ==
  ASSUME NEW book, IsBook(book), NEW side \in Sides, NEW price \in Prices
  PROVE  /\ IsFiniteSet(Units(book, side, price))
         /\ Total(book, side, price) \in Nat
         /\ Total(book, side, price) <= Cardinality(OrderIds) * MaxQuantity
<1> DEFINE all == OrderIds \X (1 .. MaxQuantity)
<1>1. IsFiniteSet(1 .. MaxQuantity) /\ Cardinality(1 .. MaxQuantity) = MaxQuantity
  BY FS_Interval, ConstantsAssumption
<1>2. IsFiniteSet(all) /\ Cardinality(all) = Cardinality(OrderIds) * MaxQuantity
  BY <1>1, FS_Product, ConstantsAssumption
<1>3. Units(book, side, price) \subseteq all
  BY DEF Units, OrdersAt, IsBook, IsMap
<1> HIDE DEF all
<1> QED  BY <1>2, <1>3, FS_Subset, FS_CardinalityType DEF Total

\* The total at a price is one order's part plus the units of the others.
LEMMA TotalSplit ==
  ASSUME NEW book, IsBook(book), NEW id \in OrderIds,
         NEW side \in Sides, NEW price \in Prices
  PROVE  /\ Cardinality(OtherUnits(book, id, side, price)) \in Nat
         /\ Part(book, id, side, price) \in Quantities
         /\ Total(book, side, price) =
              Cardinality(OtherUnits(book, id, side, price)) + Part(book, id, side, price)
<1> DEFINE units == Units(book, side, price)
           other == OtherUnits(book, id, side, price)
           own == {u \in units : u[1] = id}
<1>1. IsFiniteSet(units)
  BY TotalBound
<1>2. IsFiniteSet(own) /\ IsFiniteSet(other) /\ Cardinality(other) \in Nat
  BY <1>1, FS_Subset, FS_CardinalityType DEF OtherUnits
<1>3. own \cup other = units /\ own \cap other = {}
  BY DEF OtherUnits
<1>4. Cardinality(units) = Cardinality(own) + Cardinality(other)
  <2>1. Cardinality(own) \in Nat
    BY <1>2, FS_CardinalityType
  <2>2. Cardinality(units) = Cardinality(own) + Cardinality(other) - Cardinality({})
    BY <1>2, <1>3, FS_Union
  <2> QED  BY <1>2, <2>1, <2>2, FS_EmptySet
<1>5. Cardinality(own) = Part(book, id, side, price) /\ Part(book, id, side, price) \in Quantities
  <2>1. CASE id \in OrdersAt(book, side, price)
    <3> DEFINE q == book.live_orders[id].quantity
    <3>1. q \in Quantities
      BY <2>1 DEF OrdersAt, IsBook, IsMap, OrderState
    <3>2. own = {id} \X (1 .. q)
      BY <2>1, <3>1, ConstantsAssumption DEF Units, Quantities
    <3>3. q \in Nat
      BY <3>1, ConstantsAssumption DEF Quantities
    <3>4. Part(book, id, side, price) = q
      BY <2>1 DEF Part
    <3> HIDE DEF q, own
    <3>5. IsFiniteSet(1 .. q) /\ Cardinality(1 .. q) = q
      BY <3>3, FS_Interval
    <3>6. IsFiniteSet({id}) /\ Cardinality({id}) = 1
      BY FS_Singleton
    <3>7. Cardinality({id} \X (1 .. q)) = q
      <4> DEFINE one == {id}
                 count == 1 .. q
      <4> HIDE DEF one, count
      <4>1. Cardinality(one \X count) = Cardinality(one) * Cardinality(count)
        BY <3>5, <3>6, FS_Product DEF one, count
      <4> QED  BY <3>3, <3>5, <3>6, <4>1 DEF one, count
    <3> QED  BY <3>1, <3>2, <3>4, <3>7
  <2>2. CASE id \notin OrdersAt(book, side, price)
    <3>1. own = {}
      BY <2>2 DEF Units
    <3> QED  BY <2>2, <3>1, FS_EmptySet, ConstantsAssumption DEF Part, Quantities
  <2> QED  BY <2>1, <2>2
<1> QED  BY <1>2, <1>4, <1>5, ConstantsAssumption DEF Total, Quantities

\* A handler that touches one order leaves the units of the others alone.
LEMMA OthersUnchanged ==
  ASSUME NEW before, IsBook(before), NEW after, IsBook(after), NEW id,
         Erase(before.live_orders, id) = Erase(after.live_orders, id),
         NEW side, NEW price
  PROVE  OtherUnits(before, id, side, price) = OtherUnits(after, id, side, price)
<1>1. \A other : other # id =>
        /\ other \in DOMAIN before.live_orders <=> other \in DOMAIN after.live_orders
        /\ other \in DOMAIN before.live_orders =>
             before.live_orders[other] = after.live_orders[other]
  BY DEF Erase, Restrict
<1> QED  BY <1>1 DEF OtherUnits, Units, OrdersAt

-----------------------------------------------------------------------------
(* Levels against the totals of a book.                                    *)

Totals(book) == [side \in Sides |-> [price \in Prices |-> Total(book, side, price)]]

Parts(book, id) == [side \in Sides |-> [price \in Prices |-> Part(book, id, side, price)]]

\* LevelsMatch is Agrees for the book's own totals.
LEMMA MatchIsAgree ==
  ASSUME NEW book, IsBook(book)
  PROVE  /\ Totals(book) \in [Sides -> [Prices -> Nat]]
         /\ LevelsMatch(book) <=> Agrees(book.levels, Totals(book))
         /\ IsLevels(book.levels)
<1>1. Totals(book) \in [Sides -> [Prices -> Nat]]
  BY TotalBound DEF Totals
<1>2. LevelsMatch(book) <=> Agrees(book.levels, Totals(book))
  BY DEF LevelsMatch, Agrees, Totals
<1> QED  BY <1>1, <1>2 DEF IsBook, IsLevels

\* Taking a quantity off one order and off the level it rests on.
LEMMA TakeMatches ==
  ASSUME NEW before, IsBook(before), LevelsMatch(before),
         NEW after, IsBook(after),
         NEW id \in OrderIds, NEW quantity \in Quantities,
         NEW at \in Sides, NEW px \in Prices,
         Erase(before.live_orders, id) = Erase(after.live_orders, id),
         after.levels = subtract_level(before.levels, at, px, quantity),
         Parts(before, id)[at][px] = Parts(after, id)[at][px] + quantity,
         SameElsewhere(Parts(before, id), Parts(after, id), at, px)
  PROVE  LevelsMatch(after)
<1>1. ASSUME NEW side \in Sides, NEW price \in Prices
      PROVE  Total(before, side, price) - Part(before, id, side, price)
               = Total(after, side, price) - Part(after, id, side, price)
  <2>1. OtherUnits(before, id, side, price) = OtherUnits(after, id, side, price)
    BY OthersUnchanged
  <2> QED  BY <2>1, TotalSplit, ConstantsAssumption DEF Quantities
<1>2. \A side \in Sides, price \in Prices :
        /\ Total(before, side, price) \in Nat /\ Total(after, side, price) \in Nat
        /\ Part(before, id, side, price) \in Int /\ Part(after, id, side, price) \in Int
  <2>1. Quantities \subseteq Int
    BY ConstantsAssumption DEF Quantities
  <2>2. \A side \in Sides, price \in Prices :
          Total(before, side, price) \in Nat /\ Total(after, side, price) \in Nat
    BY TotalBound
  <2>3. \A side \in Sides, price \in Prices :
          Part(before, id, side, price) \in Int /\ Part(after, id, side, price) \in Int
    BY <2>1, TotalSplit
  <2> QED  BY <2>2, <2>3
<1>3. Totals(before)[at][px] = Totals(after)[at][px] + quantity
  <2>1. Part(before, id, at, px) = Part(after, id, at, px) + quantity
    BY DEF Parts
  <2>2. quantity \in Int
    BY ConstantsAssumption DEF Quantities
  <2>3. Total(before, at, px) = Total(after, at, px) + quantity
    BY <1>1, <1>2, <2>1, <2>2
  <2> QED  BY <2>3 DEF Totals
<1>4. SameElsewhere(Totals(before), Totals(after), at, px)
  <2> SUFFICES ASSUME NEW side \in Sides, NEW price \in Prices, ~(side = at /\ price = px)
               PROVE  Totals(before)[side][price] = Totals(after)[side][price]
    BY DEF SameElsewhere
  <2>1. Part(before, id, side, price) = Part(after, id, side, price)
    BY DEF SameElsewhere, Parts
  <2>2. Total(before, side, price) - Part(after, id, side, price)
          = Total(after, side, price) - Part(after, id, side, price)
    BY <1>1, <2>1
  <2>3. Total(before, side, price) = Total(after, side, price)
    BY <1>2, <2>2
  <2> QED  BY <2>3 DEF Totals
<1>5. /\ IsLevels(before.levels) /\ Agrees(before.levels, Totals(before))
      /\ Totals(before) \in [Sides -> [Prices -> Nat]]
      /\ Totals(after) \in [Sides -> [Prices -> Nat]]
  BY MatchIsAgree
<1>6. Agrees(subtract_level(before.levels, at, px, quantity), Totals(after))
  BY <1>3, <1>4, <1>5, SubtractLevelAgrees
<1> QED  BY <1>6, MatchIsAgree

\* Putting a quantity on an order that rests nowhere and on its level.
LEMMA GiveMatches ==
  ASSUME NoOverflow,
         NEW before, IsBook(before), LevelsMatch(before),
         NEW after, IsBook(after),
         NEW id \in OrderIds, NEW quantity \in Quantities,
         NEW at \in Sides, NEW px \in Prices,
         Erase(before.live_orders, id) = Erase(after.live_orders, id),
         after.levels = add_level(before.levels, at, px, quantity),
         Parts(after, id)[at][px] = Parts(before, id)[at][px] + quantity,
         SameElsewhere(Parts(before, id), Parts(after, id), at, px)
  PROVE  LevelsMatch(after)
<1>1. ASSUME NEW side \in Sides, NEW price \in Prices
      PROVE  Total(before, side, price) - Part(before, id, side, price)
               = Total(after, side, price) - Part(after, id, side, price)
  <2>1. OtherUnits(before, id, side, price) = OtherUnits(after, id, side, price)
    BY OthersUnchanged
  <2> QED  BY <2>1, TotalSplit, ConstantsAssumption DEF Quantities
<1>2. \A side \in Sides, price \in Prices :
        /\ Total(before, side, price) \in Nat /\ Total(after, side, price) \in Nat
        /\ Part(before, id, side, price) \in Int /\ Part(after, id, side, price) \in Int
  <2>1. Quantities \subseteq Int
    BY ConstantsAssumption DEF Quantities
  <2>2. \A side \in Sides, price \in Prices :
          Total(before, side, price) \in Nat /\ Total(after, side, price) \in Nat
    BY TotalBound
  <2>3. \A side \in Sides, price \in Prices :
          Part(before, id, side, price) \in Int /\ Part(after, id, side, price) \in Int
    BY <2>1, TotalSplit
  <2> QED  BY <2>2, <2>3
<1>3. Totals(after)[at][px] = Totals(before)[at][px] + quantity
  <2>1. Part(after, id, at, px) = Part(before, id, at, px) + quantity
    BY DEF Parts
  <2>2. quantity \in Int
    BY ConstantsAssumption DEF Quantities
  <2>3. Total(after, at, px) = Total(before, at, px) + quantity
    BY <1>1, <1>2, <2>1, <2>2
  <2> QED  BY <2>3 DEF Totals
<1>4. SameElsewhere(Totals(before), Totals(after), at, px)
  <2> SUFFICES ASSUME NEW side \in Sides, NEW price \in Prices, ~(side = at /\ price = px)
               PROVE  Totals(before)[side][price] = Totals(after)[side][price]
    BY DEF SameElsewhere
  <2>1. Part(before, id, side, price) = Part(after, id, side, price)
    BY DEF SameElsewhere, Parts
  <2>2. Total(before, side, price) - Part(after, id, side, price)
          = Total(after, side, price) - Part(after, id, side, price)
    BY <1>1, <2>1
  <2>3. Total(before, side, price) = Total(after, side, price)
    BY <1>2, <2>2
  <2> QED  BY <2>3 DEF Totals
<1>5. Totals(after)[at][px] < U32
  <2>1. Cardinality(OrderIds) \in Nat
    BY FS_CardinalityType, ConstantsAssumption
  <2>2. Cardinality(OrderIds) * MaxQuantity \in Nat
    BY <2>1, ConstantsAssumption
  <2>3. Total(after, at, px) <= Cardinality(OrderIds) * MaxQuantity
    BY TotalBound
  <2> QED  BY <1>2, <2>2, <2>3, ConstantsAssumption DEF NoOverflow, Totals
<1>6. /\ IsLevels(before.levels) /\ Agrees(before.levels, Totals(before))
      /\ Totals(before) \in [Sides -> [Prices -> Nat]]
      /\ Totals(after) \in [Sides -> [Prices -> Nat]]
  BY MatchIsAgree
<1>7. Agrees(add_level(before.levels, at, px, quantity), Totals(after))
  BY <1>3, <1>4, <1>5, <1>6, AddLevelAgrees
<1> QED  BY <1>7, MatchIsAgree

\* Erasing an order takes all of it off its level.
LEMMA EraseMatches ==
  ASSUME NEW book, IsBook(book), LevelsMatch(book), NEW id \in OrderIds
  PROVE  LevelsMatch(erase_order(book, id))
<1>1. CASE id \notin DOMAIN book.live_orders
  BY <1>1 DEF erase_order
<1>2. CASE id \in DOMAIN book.live_orders
  <2> DEFINE order == book.live_orders[id]
             after == erase_order(book, id)
  <2>1. PICK at \in Sides, px \in Prices, quantity \in Quantities :
          order.side = at /\ order.price = px /\ order.quantity = quantity
    BY <1>2 DEF IsBook, IsMap, OrderState
  <2>2. IsBook(after) /\ after.live_orders = Erase(book.live_orders, id)
    BY EraseOrderType
  <2>3. after.levels = subtract_level(book.levels, at, px, quantity)
    BY <1>2, <2>1 DEF erase_order
  <2> HIDE DEF after
  <2>4. Erase(book.live_orders, id) = Erase(after.live_orders, id)
    BY <2>2 DEF Erase, Restrict
  <2>5. \A side \in Sides, price \in Prices : Part(after, id, side, price) = 0
    BY <2>2 DEF Part, OrdersAt, Erase, Restrict
  <2>6. Part(book, id, at, px) = quantity
    BY <1>2, <2>1 DEF Part, OrdersAt
  <2>7. \A side \in Sides, price \in Prices : ~(side = at /\ price = px) =>
          Part(book, id, side, price) = 0
    BY <2>1 DEF Part, OrdersAt
  <2>8. /\ Parts(book, id)[at][px] = Parts(after, id)[at][px] + quantity
        /\ SameElsewhere(Parts(book, id), Parts(after, id), at, px)
    BY <2>5, <2>6, <2>7, ConstantsAssumption DEF Parts, SameElsewhere, Quantities
  <2>9. LevelsMatch(after)
    BY <2>2, <2>3, <2>4, <2>8, TakeMatches
  <2> QED  BY <2>9 DEF after
<1> QED  BY <1>1, <1>2

\* Inserting an order whose id is not live puts all of it on its level.
LEMMA InsertMatches ==
  ASSUME NoOverflow,
         NEW book, IsBook(book), LevelsMatch(book),
         NEW id \in OrderIds, id \notin DOMAIN book.live_orders,
         NEW order \in OrderState
  PROVE  LevelsMatch([live_orders |-> Put(book.live_orders, id, order),
                      levels |-> add_level(book.levels, order.side, order.price, order.quantity)])
<1> DEFINE after == [live_orders |-> Put(book.live_orders, id, order),
                     levels |-> add_level(book.levels, order.side, order.price, order.quantity)]
<1>1. PICK at \in Sides, px \in Prices, quantity \in Quantities :
        order.side = at /\ order.price = px /\ order.quantity = quantity
  BY DEF OrderState
<1>2. IsMap(Put(book.live_orders, id, order), OrderIds, OrderState)
  BY PutOrderType DEF IsBook
<1>3. IsLevels(add_level(book.levels, at, px, quantity))
  BY MatchIsAgree, AddLevelType
<1>4. IsBook(after)
  BY <1>1, <1>2, <1>3, MakeBookType
<1>5. /\ after.live_orders = Put(book.live_orders, id, order)
      /\ after.levels = add_level(book.levels, at, px, quantity)
  BY <1>1
<1> HIDE DEF after
<1>6. Erase(book.live_orders, id) = Erase(after.live_orders, id)
  BY <1>5 DEF Erase, Restrict, Put, IsBook, IsMap
<1>7. \A side \in Sides, price \in Prices : Part(book, id, side, price) = 0
  BY DEF Part, OrdersAt
<1>8. Part(after, id, at, px) = quantity
  BY <1>1, <1>5 DEF Part, OrdersAt, Put
<1>9. \A side \in Sides, price \in Prices : ~(side = at /\ price = px) =>
        Part(after, id, side, price) = 0
  BY <1>1, <1>5 DEF Part, OrdersAt, Put
<1>10. /\ Parts(after, id)[at][px] = Parts(book, id)[at][px] + quantity
       /\ SameElsewhere(Parts(book, id), Parts(after, id), at, px)
  BY <1>7, <1>8, <1>9, ConstantsAssumption DEF Parts, SameElsewhere, Quantities
<1>11. LevelsMatch(after)
  BY <1>4, <1>5, <1>6, <1>10, GiveMatches
<1> QED  BY <1>11 DEF after

-----------------------------------------------------------------------------
(* The handlers keep levels and orders in step.                            *)

\* Replacing an entry is inserting it where it was erased.
LEMMA PutAfterErase ==
  ASSUME NEW orders, NEW id, NEW order
  PROVE  Put(Erase(orders, id), id, order) = Put(orders, id, order)
BY DEF Put, Erase, Restrict

\* An Add erases what its id had and inserts the new order.
LEMMA AddMatches ==
  ASSUME NoOverflow, NEW book, IsBook(book), LevelsMatch(book), NEW m \in AddOrderMsg
  PROVE  LevelsMatch(apply_add(book, m))
<1>1. CASE m.side \notin Sides
  BY <1>1 DEF apply_add
<1>2. CASE m.side \in Sides
  <2> DEFINE cleared == erase_order(book, m.order_id)
             order == [side |-> m.side, price |-> m.price, quantity |-> m.quantity]
  <2>1. m.order_id \in OrderIds /\ order \in OrderState
    BY <1>2, ConstantsAssumption DEF AddOrderMsg, OrderState, Quantities
  <2>2. /\ IsBook(cleared)
        /\ cleared.live_orders = Erase(book.live_orders, m.order_id)
        /\ m.order_id \notin DOMAIN cleared.live_orders
    <3>1. m.order_id \notin DOMAIN Erase(book.live_orders, m.order_id)
      BY DEF Erase, Restrict
    <3> QED  BY <3>1, EraseOrderType
  <2>3. LevelsMatch(cleared)
    BY <2>1, EraseMatches
  <2>4. apply_add(book, m) =
          [live_orders |-> Put(cleared.live_orders, m.order_id, order),
           levels |-> add_level(cleared.levels, order.side, order.price, order.quantity)]
    BY <1>2 DEF apply_add
  <2> HIDE DEF cleared, order
  <2> QED  BY <2>1, <2>2, <2>3, <2>4, InsertMatches
<1> QED  BY <1>1, <1>2

\* A Modify erases the order and inserts it again as modified; to quantity
\* zero it only erases.
LEMMA ModifyMatches ==
  ASSUME NoOverflow, NEW book, IsBook(book), LevelsMatch(book), NEW m \in ModifyOrderMsg
  PROVE  LevelsMatch(apply_modify(book, m))
<1>1. CASE m.order_id \notin DOMAIN book.live_orders
  BY <1>1 DEF apply_modify
<1>2. CASE m.order_id \in DOMAIN book.live_orders
  <2> DEFINE order == book.live_orders[m.order_id]
             changed == [order EXCEPT !.price = m.price, !.quantity = m.quantity]
             cleared == erase_order(book, m.order_id)
  <2>1. m.order_id \in OrderIds /\ m.price \in Prices /\ m.quantity \in Quantities
    BY DEF ModifyOrderMsg
  <2>2. order \in OrderState
    BY <1>2 DEF IsBook, IsMap
  <2>3. /\ changed \in OrderState
        /\ changed.side = order.side /\ changed.price = m.price /\ changed.quantity = m.quantity
    BY <2>1, <2>2 DEF OrderState
  <2>4. /\ IsBook(cleared) /\ LevelsMatch(cleared)
        /\ cleared.live_orders = Erase(book.live_orders, m.order_id)
        /\ m.order_id \notin DOMAIN cleared.live_orders
    BY <2>1, EraseMatches, EraseOrderType DEF Erase, Restrict
  <2>5. cleared = [live_orders |-> Erase(book.live_orders, m.order_id),
                   levels |-> subtract_level(book.levels, order.side, order.price,
                                             order.quantity)]
    BY <1>2 DEF erase_order
  <2>6. cleared.levels = subtract_level(book.levels, order.side, order.price, order.quantity)
    BY <2>5
  <2>7. CASE m.quantity = 0
    <3>1. apply_modify(book, m) = cleared
      BY <1>2, <2>5, <2>7 DEF apply_modify
    <3> QED  BY <2>4, <3>1
  <2>8. CASE m.quantity # 0
    <3>1. apply_modify(book, m) =
            [live_orders |-> Put(book.live_orders, m.order_id, changed),
             levels |-> add_level(cleared.levels, order.side, m.price, m.quantity)]
      BY <1>2, <2>6, <2>8 DEF apply_modify
    <3>2. Put(book.live_orders, m.order_id, changed) =
            Put(cleared.live_orders, m.order_id, changed)
      BY <2>4, PutAfterErase
    <3> HIDE DEF cleared, changed, order
    <3>3. apply_modify(book, m) =
            [live_orders |-> Put(cleared.live_orders, m.order_id, changed),
             levels |-> add_level(cleared.levels, changed.side, changed.price,
                                  changed.quantity)]
      BY <3>1, <3>2, <2>3
    <3> QED  BY <2>1, <2>3, <2>4, <3>3, InsertMatches
  <2> QED  BY <2>7, <2>8
<1> QED  BY <1>1, <1>2

\* A Trade takes off the level exactly what it takes off the order.
LEMMA TradeMatches ==
  ASSUME NEW book, IsBook(book), LevelsMatch(book), NEW m \in TradeMsg
  PROVE  LevelsMatch(apply_trade(book, m))
<1>1. CASE m.order_id \notin DOMAIN book.live_orders
  BY <1>1 DEF apply_trade
<1>2. CASE m.order_id \in DOMAIN book.live_orders
  <2>1. PICK id \in OrderIds : m.order_id = id
    BY DEF TradeMsg
  <2> DEFINE order == book.live_orders[id]
             after == apply_trade(book, m)
  <2>2. PICK at \in Sides, px \in Prices, quantity \in Quantities :
          /\ order = [side |-> at, price |-> px, quantity |-> quantity]
          /\ order.side = at /\ order.price = px /\ order.quantity = quantity
    BY <1>2, <2>1 DEF IsBook, IsMap, OrderState
  <2>3. PICK executed \in Quantities, left \in Quantities :
          /\ executed = IF quantity <= m.quantity THEN quantity ELSE m.quantity
          /\ left = quantity - executed
          /\ quantity = left + executed
    <3>1. m.quantity \in Quantities
      BY DEF TradeMsg
    <3> QED  BY <3>1, ConstantsAssumption DEF Quantities
  <2>4. /\ after.levels = subtract_level(book.levels, at, px, executed)
        /\ after.live_orders =
             IF left = 0 THEN Erase(book.live_orders, id)
             ELSE Put(book.live_orders, id, [order EXCEPT !.quantity = left])
    BY <1>2, <2>1, <2>2, <2>3 DEF apply_trade
  <2>5. IsBook(after)
    BY TradeType
  <2> HIDE DEF after
  <2>6. Erase(book.live_orders, id) = Erase(after.live_orders, id)
    BY <2>4 DEF Erase, Restrict, Put
  <2>7. [order EXCEPT !.quantity = left] = [side |-> at, price |-> px, quantity |-> left]
    BY <2>2
  <2>8. \A side \in Sides, price \in Prices :
          /\ Part(after, id, side, price) = IF side = at /\ price = px THEN left ELSE 0
          /\ Part(book, id, side, price) = IF side = at /\ price = px THEN quantity ELSE 0
    <3>1. \A side \in Sides, price \in Prices :
            Part(book, id, side, price) = IF side = at /\ price = px THEN quantity ELSE 0
      BY <1>2, <2>1, <2>2 DEF Part, OrdersAt
    <3>2. CASE left = 0
      BY <2>4, <3>1, <3>2 DEF Part, OrdersAt, Erase, Restrict
    <3>3. CASE left # 0
      <4>1. /\ id \in DOMAIN after.live_orders
            /\ after.live_orders[id] = [side |-> at, price |-> px, quantity |-> left]
        BY <2>4, <2>7, <3>3 DEF Put
      <4> QED  BY <3>1, <4>1 DEF Part, OrdersAt
    <3> QED  BY <3>2, <3>3
  <2>9. /\ Parts(book, id)[at][px] = Parts(after, id)[at][px] + executed
        /\ SameElsewhere(Parts(book, id), Parts(after, id), at, px)
    BY <2>3, <2>8 DEF Parts, SameElsewhere
  <2>10. LevelsMatch(after)
    BY <2>4, <2>5, <2>6, <2>9, TakeMatches
  <2> QED  BY <2>10 DEF after
<1> QED  BY <1>1, <1>2

\* Nothing rests on the empty book.
LEMMA EmptyBookMatches == LevelsMatch(EmptyBook)
<1>1. EmptyBook.live_orders = EmptyMap /\ \A side \in Sides : EmptyBook.levels[side] = EmptyMap
  BY DEF EmptyBook
<1>2. DOMAIN EmptyMap = {}
  BY DEF EmptyMap
<1>3. \A side \in Sides, price \in Prices : Units(EmptyBook, side, price) = {}
  BY <1>1, <1>2 DEF Units, OrdersAt
<1>4. \A side \in Sides, price \in Prices : Total(EmptyBook, side, price) = 0
  BY <1>3, FS_EmptySet DEF Total
<1> QED  BY <1>1, <1>2, <1>4 DEF LevelsMatch

\* When a level cannot overflow, the levels equal the sums of the live orders
\* after any sequence of messages, zero-quantity, oversized, unknown and
\* replacing ones included.
THEOREM LevelsAlwaysMatch ==
  ASSUME NoOverflow
  PROVE  Spec => []LevelsMatchOrders
<1>1. Init => LevelsMatchOrders
  BY EmptyBookMatches DEF Init, LevelsMatchOrders
<1>2. TypeOK /\ LevelsMatchOrders /\ [Next]_order_book => LevelsMatchOrders'
  <2> SUFFICES ASSUME TypeOK, LevelsMatchOrders, [Next]_order_book
               PROVE  LevelsMatchOrders'
    OBVIOUS
  <2>1. CASE Add
    BY <2>1, AddMatches DEF Add, TypeOK, LevelsMatchOrders
  <2>2. CASE Modify
    BY <2>2, ModifyMatches DEF Modify, TypeOK, LevelsMatchOrders
  <2>3. CASE Delete
    <3>1. PICK m \in DeleteOrderMsg : order_book' = erase_order(order_book, m.order_id)
      BY <2>3 DEF Delete, apply_delete
    <3>2. m.order_id \in OrderIds
      BY DEF DeleteOrderMsg
    <3> QED  BY <3>1, <3>2, EraseMatches DEF TypeOK, LevelsMatchOrders
  <2>4. CASE Trade
    BY <2>4, TradeMatches DEF Trade, TypeOK, LevelsMatchOrders
  <2>5. CASE UNCHANGED order_book
    BY <2>5 DEF LevelsMatchOrders
  <2> QED  BY <2>1, <2>2, <2>3, <2>4, <2>5 DEF Next
<1> QED  BY <1>1, <1>2, TypeCorrect, PTL DEF Spec
=============================================================================

------------------------------ MODULE OrderBook ------------------------------
(***************************************************************************)
(* The limit order book of the feed handler (order_book.cpp): the live     *)
(* orders, and per side the quantity aggregated at each price.  The class  *)
(* keeps the two maps apart and updates each incrementally, so what is at  *)
(* stake is that they never drift away from each other.                    *)
(*                                                                         *)
(* A book is a record, and every method is an operator from a book to a    *)
(* book, so that a module composing the handler can apply messages too.    *)
(***************************************************************************)
EXTENDS Integers, FiniteSets, Functions

CONSTANTS OrderIds,       \* order_id values on the wire
          Prices,         \* price values on the wire
          MaxQuantity,    \* largest quantity on the wire
          AddQuantities,  \* quantities an Add message may carry
          U32             \* 2^32: a level is a uint32_t and its += wraps

ASSUME ConstantsAssumption ==
  /\ IsFiniteSet(OrderIds)
  /\ Prices \subseteq Nat
  /\ MaxQuantity \in Nat
  /\ AddQuantities \subseteq 0 .. MaxQuantity
  /\ U32 \in Nat
  /\ MaxQuantity < U32

VARIABLE order_book

Sides == {"B", "S"}

\* A side byte that decode_side maps to nullopt.
BadSide == "?"

Quantities == 0 .. MaxQuantity

OrderState == [side : Sides, price : Prices, quantity : Quantities]

AddOrderMsg ==
  [type : {"A"}, order_id : OrderIds, side : Sides \cup {BadSide},
   price : Prices, quantity : AddQuantities]

ModifyOrderMsg ==
  [type : {"M"}, order_id : OrderIds, price : Prices, quantity : Quantities]

DeleteOrderMsg == [type : {"D"}, order_id : OrderIds]

\* The price of a trade is on the wire too, and apply_trade never reads it.
TradeMsg == [type : {"T"}, order_id : OrderIds, quantity : Quantities]

-----------------------------------------------------------------------------
(* std::map / std::unordered_map as functions on the keys they hold.       *)

Put(map, key, value) ==
  [k \in DOMAIN map \cup {key} |-> IF k = key THEN value ELSE map[k]]

Erase(map, key) == Restrict(map, DOMAIN map \ {key})

EmptyMap == [k \in {} |-> 0]

\* live_orders_, with bids_ and asks_ as levels["B"] and levels["S"].
EmptyBook == [live_orders |-> EmptyMap, levels |-> [side \in Sides |-> EmptyMap]]

-----------------------------------------------------------------------------
(* add_level and subtract_level.                                           *)

Wrap(n) == IF n >= U32 THEN n - U32 ELSE n

\* operator[] value-initialises a missing level to 0 before the +=.
add_level(levels, side, price, quantity) ==
  LET old == IF price \in DOMAIN levels[side] THEN levels[side][price] ELSE 0
  IN [levels EXCEPT ![side] = Put(levels[side], price, Wrap(old + quantity))]

\* A variant that erases at < and so leaves an emptied level behind.
MutSubtractKeepsZero(levels, side, price, quantity) ==
  IF price \notin DOMAIN levels[side] THEN levels
  ELSE IF levels[side][price] < quantity
  THEN [levels EXCEPT ![side] = Erase(levels[side], price)]
  ELSE [levels EXCEPT ![side] = Put(levels[side], price, levels[side][price] - quantity)]

subtract_level(levels, side, price, quantity) ==
  IF price \notin DOMAIN levels[side] THEN levels
  ELSE IF levels[side][price] <= quantity
  THEN [levels EXCEPT ![side] = Erase(levels[side], price)]
  ELSE [levels EXCEPT ![side] = Put(levels[side], price, levels[side][price] - quantity)]

-----------------------------------------------------------------------------
(* The message handlers.                                                   *)

erase_order(book, id) ==
  IF id \notin DOMAIN book.live_orders THEN book
  ELSE LET order == book.live_orders[id]
       IN [live_orders |-> Erase(book.live_orders, id),
           levels |-> subtract_level(book.levels, order.side, order.price, order.quantity)]

\* A variant that forgets to erase the order the id had.
MutAddKeepsOld(book, m) ==
  IF m.side \notin Sides THEN book
  ELSE [live_orders |-> Put(book.live_orders, m.order_id,
                            [side |-> m.side, price |-> m.price, quantity |-> m.quantity]),
        levels |-> add_level(book.levels, m.side, m.price, m.quantity)]

\* An Add for an id that is already live replaces the order.
apply_add(book, m) ==
  LET cleared == erase_order(book, m.order_id)
  IN IF m.side \notin Sides THEN book
     ELSE [live_orders |-> Put(cleared.live_orders, m.order_id,
                               [side |-> m.side, price |-> m.price, quantity |-> m.quantity]),
           levels |-> add_level(cleared.levels, m.side, m.price, m.quantity)]

apply_modify(book, m) ==
  IF m.order_id \notin DOMAIN book.live_orders THEN book
  ELSE LET order == book.live_orders[m.order_id]
           changed == [order EXCEPT !.price = m.price, !.quantity = m.quantity]
           cleared == subtract_level(book.levels, order.side, order.price, order.quantity)
       IN IF m.quantity = 0
          THEN [live_orders |-> Erase(book.live_orders, m.order_id), levels |-> cleared]
          ELSE [live_orders |-> Put(book.live_orders, m.order_id, changed),
                levels |-> add_level(cleared, order.side, m.price, m.quantity)]

apply_delete(book, m) == erase_order(book, m.order_id)

\* A variant that lets the order's quantity go below zero.
MutTradeBelowZero(book, m) ==
  IF m.order_id \notin DOMAIN book.live_orders THEN book
  ELSE LET order == book.live_orders[m.order_id]
           left == order.quantity - m.quantity
       IN [live_orders |-> IF left = 0 THEN Erase(book.live_orders, m.order_id)
                           ELSE Put(book.live_orders, m.order_id,
                                    [order EXCEPT !.quantity = left]),
           levels |-> subtract_level(book.levels, order.side, order.price, m.quantity)]

\* The executed quantity is capped at what rests, and leaves the level the
\* order rests on, whatever price the trade message carries.
apply_trade(book, m) ==
  IF m.order_id \notin DOMAIN book.live_orders THEN book
  ELSE LET order == book.live_orders[m.order_id]
           executed == IF order.quantity <= m.quantity THEN order.quantity ELSE m.quantity
           left == order.quantity - executed
       IN [live_orders |-> IF left = 0 THEN Erase(book.live_orders, m.order_id)
                           ELSE Put(book.live_orders, m.order_id,
                                    [order EXCEPT !.quantity = left]),
           levels |-> subtract_level(book.levels, order.side, order.price, executed)]

-----------------------------------------------------------------------------
(* bbo(): bids_.rbegin() and asks_.begin(); NoLevel is an empty optional.  *)

NoLevel == [price |-> -1, quantity |-> 0]

\* A variant that reads rbegin() on both sides.
MutBestOf(level, side) ==
  IF DOMAIN level = {} THEN NoLevel
  ELSE LET best == CHOOSE p \in DOMAIN level : \A q \in DOMAIN level : p >= q
       IN [price |-> best, quantity |-> level[best]]

BestOf(level, side) ==
  IF DOMAIN level = {} THEN NoLevel
  ELSE LET best == CHOOSE p \in DOMAIN level :
                     \A q \in DOMAIN level : IF side = "B" THEN p >= q ELSE p <= q
       IN [price |-> best, quantity |-> level[best]]

bbo(book) == [best_bid |-> BestOf(book.levels["B"], "B"),
              best_ask |-> BestOf(book.levels["S"], "S")]

\* ApplyResult::bbo_changed, for the books before and after a message.
bbo_changed(before, after) == bbo(before) # bbo(after)

-----------------------------------------------------------------------------
(* OrderBook::apply, one action per message type.                          *)

Init == order_book = EmptyBook

Add    == \E m \in AddOrderMsg    : order_book' = apply_add(order_book, m)
Modify == \E m \in ModifyOrderMsg : order_book' = apply_modify(order_book, m)
Delete == \E m \in DeleteOrderMsg : order_book' = apply_delete(order_book, m)
Trade  == \E m \in TradeMsg       : order_book' = apply_trade(order_book, m)

Next == Add \/ Modify \/ Delete \/ Trade

Spec == Init /\ [][Next]_order_book

-----------------------------------------------------------------------------
(* What the orders themselves say about a price.                           *)

OrdersAt(book, side, price) ==
  {id \in DOMAIN book.live_orders :
     book.live_orders[id].side = side /\ book.live_orders[id].price = price}

\* Every unit of quantity resting at a price, as <<order, n-th unit of it>>;
\* Total counts them.  (Counting units rather than folding + over the orders
\* keeps the sum within reach of first-order proof.)
Units(book, side, price) ==
  {u \in OrdersAt(book, side, price) \X (1 .. MaxQuantity) :
     u[2] <= book.live_orders[u[1]].quantity}

Total(book, side, price) == Cardinality(Units(book, side, price))

\* Even if every order rested its largest quantity at one price, the level
\* would fit a uint32_t.
NoOverflow == Cardinality(OrderIds) * MaxQuantity < U32

-----------------------------------------------------------------------------
(* Properties.                                                             *)

IsMap(map, keys, values) ==
  /\ DOMAIN map \subseteq keys
  /\ map \in [DOMAIN map -> values]

IsBook(book) ==
  /\ book = [live_orders |-> book.live_orders, levels |-> book.levels]
  /\ IsMap(book.live_orders, OrderIds, OrderState)
  /\ book.levels = [side \in Sides |-> book.levels[side]]
  /\ \A side \in Sides : IsMap(book.levels[side], Prices, 0 .. U32 - 1)

\* Orders and levels are maps of the declared types; in particular no
\* uint32_t level ever goes below zero.
TypeOK == IsBook(order_book)

\* The incrementally maintained levels agree with the orders: a level holds
\* exactly the sum of the quantities of the orders at its price, and a price
\* with quantity resting on it has a level (add_level, subtract_level and
\* every handler that calls them).
LevelsMatch(book) ==
  \A side \in Sides, price \in Prices :
    /\ price \in DOMAIN book.levels[side] =>
         book.levels[side][price] = Total(book, side, price)
    /\ Total(book, side, price) > 0 => price \in DOMAIN book.levels[side]

LevelsMatchOrders == LevelsMatch(order_book)

\* No level outlives its last order, zero-quantity orders included: the BBO
\* never shows a price at which nothing rests (the erase in subtract_level).
NoOrphanLevel ==
  \A side \in Sides : \A price \in DOMAIN order_book.levels[side] :
    OrdersAt(order_book, side, price) # {}

\* The BBO of a side is the best price at which an order rests, with the whole
\* quantity resting there: no order with quantity left is ahead of it, and the
\* side shows nothing only if nothing rests.  (An Add of quantity 0, which the
\* wire format allows and the exchange never sends, may or may not show.)
BboIsBestOrder ==
  \A side \in Sides :
    LET best == IF side = "B" THEN bbo(order_book).best_bid ELSE bbo(order_book).best_ask
        orders == order_book.live_orders
    IN /\ best # NoLevel =>
            /\ OrdersAt(order_book, side, best.price) # {}
            /\ best.quantity = Total(order_book, side, best.price)
       /\ \A id \in DOMAIN orders :
            orders[id].side = side /\ orders[id].quantity > 0 =>
              /\ best # NoLevel
              /\ IF side = "B" THEN orders[id].price <= best.price
                               ELSE orders[id].price >= best.price
=============================================================================

--------------------------- MODULE EnhancedOrderBook ---------------------------
(***************************************************************************)
(* EnhancedOrderBook (src/enhanced_order_book.cpp,                         *)
(* include/enhanced_order_book.hpp): the order-by-order book of one        *)
(* symbol.  Every order is kept twice, by its id in orders_ and summed into*)
(* the level of its price, and each operation has to change both copies.   *)
(*                                                                         *)
(* One thread owns a book, so an operation is one action.  The maps bids_  *)
(* and asks_ with their totals are one function on Sides, since the code   *)
(* for the two sides is the same line by line.  A level's price is its key.*)
(* The symbol and the timestamps an operation copies are left out.         *)
(***************************************************************************)
EXTENDS Integers, Sequences, FiniteSets, FiniteSetsExt, SequencesExt

CONSTANTS Ids,          \* order ids
          Prices,       \* prices, in the code's ticks
          Quantities,   \* quantities an order is added or replaced with
          Amounts,      \* arguments of modify, cancel and execute
          MaxMessages   \* bound on message_count_

ASSUME BookAssumption ==
  /\ Prices \subseteq Nat \ {0}
  /\ Quantities \subseteq Nat
  /\ Amounts \subseteq Nat
  /\ MaxMessages \in Nat

VARIABLES orders,         \* orders_
          side,           \* bids_, total_bid_quantity_; asks_, total_ask_quantity_
          message_count,  \* message_count_
          result          \* what the last operation returned (TRUE for clear)

vars == <<orders, side, message_count, result>>
-------------------------------------------------------------------------------
\* 'B' and 'b' name the bids, every other character the asks.
Sides == {"B", "S"}

Order == [side : Sides, price : Prices, quantity : Nat]

Level == [size : Nat, order_count : Nat]

\* A map with a key written, and with a key erased.
Put(map, key, value) ==
  [k \in DOMAIN map \cup {key} |-> IF k = key THEN value ELSE map[k]]
Erase(map, key) == Restrict(map, DOMAIN map \ {key})

EmptyMap == << >>
EmptySide == [levels |-> EmptyMap, total |-> 0]

Init == /\ orders = EmptyMap
        /\ side = [s \in Sides |-> EmptySide]
        /\ message_count = 0
        /\ result = TRUE
-------------------------------------------------------------------------------
\* add_to_price_level: operator[] makes a level of size 0 and count 0 when the
\* price has none.
AddToPriceLevel(sides, order) ==
  LET levels == sides[order.side].levels
      level == IF order.price \in DOMAIN levels
                 THEN levels[order.price]
                 ELSE [size |-> 0, order_count |-> 0]
  IN  [sides EXCEPT ![order.side] =
         [levels |-> Put(levels, order.price,
                         [size |-> level.size + order.quantity,
                          order_count |-> level.order_count + 1]),
          total |-> @.total + order.quantity]]

\* Faulty variant of RemoveFromPriceLevel: forgets the side's total.
RemoveKeepsTotal(sides, order) ==
  LET levels == sides[order.side].levels
      level == levels[order.price]
      left == [size |-> level.size - order.quantity,
               order_count |-> level.order_count - 1]
  IN  IF order.price \notin DOMAIN levels
        THEN sides
        ELSE [sides EXCEPT ![order.side].levels =
                IF left.order_count = 0 THEN Erase(levels, order.price)
                                        ELSE Put(levels, order.price, left)]

\* remove_from_price_level: takes the order's quantity and one from the count,
\* each unless that would go below zero, and drops a level when either is zero.
RemoveFromPriceLevel(sides, order) ==
  LET levels == sides[order.side].levels
      level == levels[order.price]
      taken == IF level.size >= order.quantity THEN order.quantity ELSE 0
      left == [size |-> level.size - taken,
               order_count |-> IF level.order_count > 0
                                 THEN level.order_count - 1 ELSE 0]
  IN  IF order.price \notin DOMAIN levels
        THEN sides
        ELSE [sides EXCEPT ![order.side] =
                [levels |-> IF left.size = 0 \/ left.order_count = 0
                              THEN Erase(levels, order.price)
                              ELSE Put(levels, order.price, left),
                 total |-> @.total - taken]]
-------------------------------------------------------------------------------
Known(id) == id \in DOMAIN orders

\* An operation that returns false at once.
Refuse == result' = FALSE /\ UNCHANGED <<orders, side, message_count>>

\* message_count_++, as often as the operation does it.
Count(messages) ==
  /\ message_count + messages <= MaxMessages
  /\ message_count' = message_count + messages

\* What an operation that goes through does last.
Accept(messages) == Count(messages) /\ result' = TRUE

\* add_order
AddOrder(id, order) ==
  \/ Known(id) /\ Refuse
  \/ /\ ~ Known(id)
     /\ orders' = Put(orders, id, order)
     /\ side' = AddToPriceLevel(side, order)
     /\ Accept(1)

\* Faulty variant of Requantify: the level is not told of the new quantity.
RequantifyOrderOnly(id, quantity) ==
  /\ orders' = IF quantity > 0 THEN [orders EXCEPT ![id].quantity = quantity]
                               ELSE Erase(orders, id)
  /\ UNCHANGED side
  /\ Accept(1)

\* The common part of modify_order, cancel_order and execute_order: take the
\* order out of its level, and put it back with its new quantity or forget it.
Requantify(id, quantity) ==
  LET removed == RemoveFromPriceLevel(side, orders[id])
      changed == [orders[id] EXCEPT !.quantity = quantity]
  IN  /\ \/ /\ quantity > 0
            /\ orders' = Put(orders, id, changed)
            /\ side' = AddToPriceLevel(removed, changed)
         \/ /\ quantity = 0
            /\ orders' = Erase(orders, id)
            /\ side' = removed
      /\ Accept(1)

\* modify_order
ModifyOrder(id, quantity) ==
  \/ ~ Known(id) /\ Refuse
  \/ Known(id) /\ Requantify(id, quantity)

\* What an order has left after amount of it is gone.
Reduced(quantity, amount) == IF quantity > amount THEN quantity - amount ELSE 0

\* cancel_order
CancelOrder(id, amount) ==
  \/ ~ Known(id) /\ Refuse
  \/ Known(id) /\ Requantify(id, Reduced(orders[id].quantity, amount))

\* delete_order
DeleteOrder(id) ==
  \/ ~ Known(id) /\ Refuse
  \/ /\ Known(id)
     /\ orders' = Erase(orders, id)
     /\ side' = RemoveFromPriceLevel(side, orders[id])
     /\ Accept(1)

\* execute_order
ExecuteOrder(id, amount) ==
  \/ ~ Known(id) /\ Refuse
  \/ Known(id) /\ Requantify(id, Reduced(orders[id].quantity, amount))

\* Faulty variant of ReplaceOrder: refuses a taken id, but only after the old
\* order is gone from orders_ and with its level untouched.
ReplaceHalfway(old, new, quantity, price) ==
  /\ Known(old)
  /\ orders' = Erase(orders, old)
  /\ result' = FALSE
  /\ UNCHANGED <<side, message_count>>

\* replace_order: delete_order, then add_order under the new id.  When another
\* order has that id the old order is gone and the answer is false.
ReplaceOrder(old, new, quantity, price) ==
  \/ ~ Known(old) /\ Refuse
  \/ /\ Known(old)
     /\ LET others == Erase(orders, old)
            removed == RemoveFromPriceLevel(side, orders[old])
            order == [side |-> orders[old].side, price |-> price, quantity |-> quantity]
        IN  \/ /\ new \in DOMAIN others
               /\ orders' = others
               /\ side' = removed
               /\ Count(1)
               /\ result' = FALSE
            \/ /\ new \notin DOMAIN others
               /\ orders' = Put(others, new, order)
               /\ side' = AddToPriceLevel(removed, order)
               /\ Accept(2)

\* clear
Clear ==
  /\ orders' = EmptyMap
  /\ side' = [s \in Sides |-> EmptySide]
  /\ message_count' = 0
  /\ result' = TRUE

Next == \/ \E id \in Ids, s \in Sides, p \in Prices, q \in Quantities :
             AddOrder(id, [side |-> s, price |-> p, quantity |-> q])
        \/ \E id \in Ids, q \in Amounts : ModifyOrder(id, q)
        \/ \E id \in Ids, q \in Amounts : CancelOrder(id, q)
        \/ \E id \in Ids : DeleteOrder(id)
        \/ \E id \in Ids, q \in Amounts : ExecuteOrder(id, q)
        \/ \E old, new \in Ids, q \in Quantities, p \in Prices :
             ReplaceOrder(old, new, q, p)
        \/ Clear

Spec == Init /\ [][Next]_vars
-------------------------------------------------------------------------------
(* What a reader of the book is told.                                       *)

\* Faulty variant of Better: std::greater for both maps.
BetterIsHigher(s, p, q) == p > q

\* std::greater for the bids, std::less for the asks.
Better(s, p, q) == IF s = "B" THEN p > q ELSE p < q

LevelPrices(s) == DOMAIN side[s].levels

\* begin()->first: best_bid and best_ask when there is one.
Best(s) == CHOOSE p \in LevelPrices(s) : \A q \in LevelPrices(s) \ {p} : Better(s, p, q)

TwoSided == LevelPrices("B") # {} /\ LevelPrices("S") # {}

\* Ten-thousandths of spread(), twice ten-thousandths of mid_price(), and
\* has_crossing().
Spread == IF TwoSided THEN Best("S") - Best("B") ELSE 0
DoubledMid == IF TwoSided THEN Best("B") + Best("S") ELSE 0
HasCrossing == TwoSided /\ Best("B") >= Best("S")

\* imbalance() as a numerator and a denominator.
Imbalance == <<side["B"].total - side["S"].total, side["B"].total + side["S"].total>>

\* snapshot(), with 0 for a best price or size that is not there.
Snapshot ==
  [best      |-> [s \in Sides |-> IF LevelPrices(s) = {} THEN 0 ELSE Best(s)],
   best_size |-> [s \in Sides |-> IF LevelPrices(s) = {} THEN 0
                                    ELSE side[s].levels[Best(s)].size],
   levels    |-> [s \in Sides |-> Cardinality(LevelPrices(s))],
   spread    |-> Spread,
   imbalance |-> Imbalance]

\* The prices of a side in the order in which its map is gone through.
Ranked(s) == CHOOSE ranked \in [1 .. Cardinality(LevelPrices(s)) -> LevelPrices(s)] :
               \A i, j \in DOMAIN ranked : i < j => Better(s, ranked[i], ranked[j])

\* get_bid_depth(n) and get_ask_depth(n): prices and levels, best first.
Depth(s, n) ==
  [i \in 1 .. Min({n, Cardinality(LevelPrices(s))}) |->
     LET price == Ranked(s)[i]
         level == side[s].levels[price]
     IN  [price |-> price, size |-> level.size, order_count |-> level.order_count]]
-------------------------------------------------------------------------------
(* What the readers must be told, computed from the orders alone.           *)

\* The ids of the orders on a side, and of those at one price.
OnSide(s) == {id \in DOMAIN orders : orders[id].side = s}
RestingAt(s, p) == {id \in OnSide(s) : orders[id].price = p}
QuantityOf(ids) == MapThenSumSet(LAMBDA id : orders[id].quantity, ids)

OrderPrices(s) == {orders[id].price : id \in OnSide(s)}
BestOf(s, prices) == IF s = "B" THEN Max(prices) ELSE Min(prices)
BestPrice(s) == BestOf(s, OrderPrices(s))

(* Every variable has its type. *)
TypeOK ==
  /\ DOMAIN orders \subseteq Ids
  /\ \A id \in DOMAIN orders : orders[id] \in Order
  /\ \A s \in Sides : /\ LevelPrices(s) \subseteq Prices
                      /\ \A p \in LevelPrices(s) : side[s].levels[p] \in Level
                      /\ side[s].total \in Nat
  /\ DOMAIN side = Sides
  /\ message_count \in 0 .. MaxMessages
  /\ result \in BOOLEAN

(* The two copies of every order agree: there is a level exactly where orders *)
(* rest, and it holds their number and the sum of their quantities, whatever  *)
(* sequence of partial cancels, fills, replaces and refusals came before.     *)
LevelsMatchOrders ==
  \A s \in Sides :
    /\ LevelPrices(s) = OrderPrices(s)
    /\ \A p \in LevelPrices(s) :
         side[s].levels[p] = [size |-> QuantityOf(RestingAt(s, p)),
                              order_count |-> Cardinality(RestingAt(s, p))]

(* snapshot(), has_crossing() and mid_price(), which read levels and totals,  *)
(* say what a scan of all resting orders would say.                           *)
SnapshotMatchesOrders ==
  LET empty(s) == OnSide(s) = {}
      both == ~ empty("B") /\ ~ empty("S")
      total(s) == QuantityOf(OnSide(s))
  IN  /\ Snapshot =
           [best      |-> [s \in Sides |-> IF empty(s) THEN 0 ELSE BestPrice(s)],
            best_size |-> [s \in Sides |->
                             IF empty(s) THEN 0 ELSE QuantityOf(RestingAt(s, BestPrice(s)))],
            levels    |-> [s \in Sides |-> Cardinality(OrderPrices(s))],
            spread    |-> IF both THEN BestPrice("S") - BestPrice("B") ELSE 0,
            imbalance |-> <<total("B") - total("S"), total("B") + total("S")>>]
      /\ HasCrossing <=> \E b \in OnSide("B"), a \in OnSide("S") :
                           orders[b].price >= orders[a].price
      /\ both => DoubledMid = BestPrice("B") + BestPrice("S")

(* get_bid_depth(n) and get_ask_depth(n) list the n best prices orders rest   *)
(* at, or all there are: each the best of those not listed before it, with    *)
(* the number of the orders there and the sum of their quantities.            *)
DepthMatchesOrders ==
  \A s \in Sides, n \in 0 .. Cardinality(Prices) :
    LET depth == Depth(s, n)
        before(i) == {depth[j].price : j \in 1 .. i - 1}
    IN  /\ Len(depth) = Min({n, Cardinality(OrderPrices(s))})
        /\ \A i \in DOMAIN depth :
             LET price == BestOf(s, OrderPrices(s) \ before(i))
             IN  depth[i] = [price |-> price,
                             size |-> QuantityOf(RestingAt(s, price)),
                             order_count |-> Cardinality(RestingAt(s, price))]

(* Every reader of the book says what its orders say, whichever of levels,    *)
(* totals and rankings it reads (enhanced_order_book.cpp:130-233).            *)
ReadersMatchOrders == SnapshotMatchesOrders /\ DepthMatchesOrders

(* message_count() works as a version number between two calls of clear():    *)
(* whoever sees the same count as before has missed no change, the half-done  *)
(* replace included.                                                          *)
CountsEveryChange ==
  [][orders' # orders => message_count' > message_count \/ message_count' = 0]_vars

(* The size at the best price is the sum of the quantities resting there:     *)
(* tests/test_enhanced_order_book.cpp:84-90, for any number of orders.        *)
BestSizeIsSum ==
  \A s \in Sides :
    LevelPrices(s) # {} =>
      side[s].levels[Best(s)].size = QuantityOf(RestingAt(s, Best(s)))
===============================================================================

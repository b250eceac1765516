---------------------------- MODULE TradingStrategy ----------------------------
(***************************************************************************)
(* TradingStrategy (src/src/strategy.cpp) on the books of OrderBook: it is  *)
(* shown a snapshot, tells its callback of an order to send, and takes the *)
(* order for filled.                                                       *)
(*                                                                         *)
(* Doubles are exact fractions here, prices in ticks.  Left out: on_trade, *)
(* which does nothing, and whether anybody has set the callback, which     *)
(* changes nothing else.                                                   *)
(***************************************************************************)
EXTENDS OrderBook, StrategyRules, Sequences, SequencesExt

CONSTANTS
  SpreadThresholds,     \* in ticks
  ImbalanceThresholds,  \* in tenths
  MaxOrders             \* bound on the orders

VARIABLES
  spread_threshold_, imbalance_threshold_,
  positions_,           \* by symbol: quantity and average price, a fraction
  orders                \* history: the orders taken for filled

strategyVars == <<spread_threshold_, imbalance_threshold_, positions_, orders>>
tradingVars == <<bookVars, strategyVars>>

ASSUME StrategyAssumption ==
  /\ MaxSize \in Nat \ {0}
  /\ SpreadThresholds \subseteq Nat
  /\ ImbalanceThresholds \subseteq 0 .. 10
  /\ MaxOrders \in Nat

TradingInit ==
  /\ BooksInit
  /\ spread_threshold_ \in SpreadThresholds
  /\ imbalance_threshold_ \in ImbalanceThresholds
  /\ positions_ = [symbol \in Symbols |-> Flat]
  /\ orders = << >>

SetThresholds ==
  /\ \/ /\ spread_threshold_' \in SpreadThresholds
        /\ UNCHANGED imbalance_threshold_
     \/ /\ imbalance_threshold_' \in ImbalanceThresholds
        /\ UNCHANGED spread_threshold_
  /\ UNCHANGED <<bookVars, positions_, orders>>

OnQuoteUpdate(symbol) ==
  LET snap == Snapshot(symbol)
      order == OrderFor(snap)
  IN  /\ symbol \in DOMAIN books_
      /\ Worthwhile(snap, spread_threshold_, imbalance_threshold_)
      /\ Len(orders) < MaxOrders
      /\ orders' = Append(orders, order)
      /\ positions_' = [positions_ EXCEPT ![symbol] = Filled(@, order)]
      /\ UNCHANGED <<bookVars, spread_threshold_, imbalance_threshold_>>

TradingNext ==
  \/ Feed /\ UNCHANGED strategyVars
  \/ SetThresholds
  \/ \E symbol \in Symbols : OnQuoteUpdate(symbol)

TradingSpec == TradingInit /\ [][TradingNext]_tradingVars
--------------------------------------------------------------------------------
(* Every variable has its type. *)
TradingTypeOK ==
  /\ DOMAIN books_ \subseteq Symbols
  /\ spread_threshold_ \in SpreadThresholds
  /\ imbalance_threshold_ \in ImbalanceThresholds
  /\ \A symbol \in Symbols : positions_[symbol].quantity \in Int
  /\ Len(orders) <= MaxOrders

(* An order can be filled where it is sent: it takes a positive part of what  *)
(* is offered at the best opposite price, in a book that is not crossed       *)
(* (strategy.cpp:21-44).  The one exception is a best level that an add of    *)
(* size 0 made, which add_bid and add_ask let in and the book keeps           *)
(* (order_book.cpp:10-26): there the order is for nothing.  No other          *)
(* operation of the feed leads to that.                                       *)
OrdersAreFillable ==
  [][\A symbol \in Symbols :
       orders' # orders /\ Last(orders').symbol = symbol =>
         LET order == Last(orders')
             s == IF order.buy THEN "ask" ELSE "bid"
             offered(t) == {p \in Prices : Offered(symbol, t, p) > 0}
         IN  /\ IF <<symbol, s, order.price>> \in bare
                  THEN order.size = 0
                  ELSE /\ order.size \in 1 .. Min({MaxSize, Offered(symbol, s, order.price)})
                       /\ order.price = IF order.buy THEN Min(offered(s)) ELSE Max(offered(s))
             /\ \A bid \in offered("bid"), ask \in offered("ask") : bid <= ask]_tradingVars

\* What the first n orders bought or sold of a symbol, and the position it left.
Traded(filled, symbol, buy, n) ==
  MapThenSumSet(LAMBDA m : filled[m].size,
                {m \in 1 .. n : filled[m].symbol = symbol /\ filled[m].buy = buy})
Held(filled, symbol, n) == Traded(filled, symbol, TRUE, n) - Traded(filled, symbol, FALSE, n)

\* The prices at which the orders after the n-th bought something.
Paid(filled, symbol, n) ==
  {filled[m].price : m \in {k \in n + 1 .. Len(filled) :
                              filled[k].symbol = symbol /\ filled[k].buy /\ filled[k].size > 0}}

(* As long as a position was never short since it was last flat, its average  *)
(* price lies between the prices paid since; and the quantity is what was     *)
(* bought less what was sold (strategy.cpp:46-58).                            *)
AverageBetweenPrices ==
  \A symbol \in Symbols :
    LET pos == positions_[symbol]
        flat == Max({n \in 0 .. Len(orders) : Held(orders, symbol, n) = 0})
        paid == Paid(orders, symbol, flat)
    IN  /\ pos.quantity = Held(orders, symbol, Len(orders))
        /\ (/\ pos.quantity > 0
            /\ \A n \in flat .. Len(orders) : Held(orders, symbol, n) >= 0) =>
             /\ Min(paid) * pos.avg_price[2] <= pos.avg_price[1]
             /\ pos.avg_price[1] <= Max(paid) * pos.avg_price[2]
================================================================================

----------------------------- MODULE StrategyRules -----------------------------
(***************************************************************************)
(* TradingStrategy::on_quote_update (src/src/strategy.cpp) without its     *)
(* state: when a snapshot is worth an order, which order, and what the     *)
(* order makes of a position.  Doubles are exact fractions, prices ticks.  *)
(***************************************************************************)
EXTENDS Integers, FiniteSetsExt

CONSTANT MaxSize   \* 100 in the code: the largest order

Abs(n) == IF n < 0 THEN -n ELSE n

\* The early returns, and the test of the imbalance, a fraction, against a
\* threshold in tenths.
Worthwhile(snap, spread_threshold, imbalance_threshold) ==
  /\ snap.price["bid"] # 0 /\ snap.price["ask"] # 0
  /\ snap.spread >= spread_threshold
  /\ 10 * Abs(snap.imbalance[1]) > imbalance_threshold * snap.imbalance[2]

\* It buys at the ask when more is offered at the best bid than at the best ask.
OrderFor(snap) ==
  LET buy == snap.imbalance[1] > 0
      s == IF buy THEN "ask" ELSE "bid"
  IN  [symbol |-> snap.symbol, buy |-> buy,
       price |-> snap.price[s], size |-> Min({snap.size[s], MaxSize})]

Flat == [quantity |-> 0, avg_price |-> <<0, 1>>]

Fraction(n, d) == LET k == Max({j \in 1 .. d : n % j = 0 /\ d % j = 0}) IN <<n \div k, d \div k>>

\* Faulty variant of Filled: the cost is taken after the quantity has changed.
FilledFirst(pos, order) ==
  LET quantity == pos.quantity + IF order.buy THEN order.size ELSE -order.size
      cost == pos.avg_price[1] * quantity + order.price * order.size * pos.avg_price[2]
  IN  [quantity |-> quantity,
       avg_price |-> CASE order.buy /\ quantity > 0 -> Fraction(cost, pos.avg_price[2] * quantity)
                       [] ~ order.buy /\ quantity = 0 -> <<0, 1>>
                       [] OTHER -> pos.avg_price]

\* A purchase that leaves the position short leaves its average as it was, and
\* so does a sale that does not close it.
Filled(pos, order) ==
  LET quantity == pos.quantity + IF order.buy THEN order.size ELSE -order.size
      cost == pos.avg_price[1] * pos.quantity + order.price * order.size * pos.avg_price[2]
  IN  [quantity |-> quantity,
       avg_price |-> CASE order.buy /\ quantity > 0 -> Fraction(cost, pos.avg_price[2] * quantity)
                       [] ~ order.buy /\ quantity = 0 -> <<0, 1>>
                       [] OTHER -> pos.avg_price]
================================================================================

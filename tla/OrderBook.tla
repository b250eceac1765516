------------------------------- MODULE OrderBook -------------------------------
(***************************************************************************)
(* OrderBook and OrderBookManager (src/src/order_book.cpp): for every      *)
(* symbol a book of the sizes at each price, without the orders they come  *)
(* from, as a feed of price levels changes it.                             *)
(*                                                                         *)
(* Left out: the time of the last update, and a level's order_count, which *)
(* no member function reads.                                               *)
(***************************************************************************)
EXTENDS Integers, Functions, FiniteSetsExt

CONSTANTS
  Symbols,
  Prices,       \* in ticks; snapshot() uses 0 for a price that is not there
  Sizes,        \* what is added: may be 0, as add_bid and add_ask test nothing
  Amounts,      \* what a level is set to or executed by: may be 0
  MaxMessages   \* bound on message_count between two calls of clear()

VARIABLES
  books_,        \* OrderBookManager::books_: a partial map from symbols
  bare           \* history: the levels <<symbol, side, price>> that an add of size 0
                 \* made and nothing but such adds has touched since

bookVars == <<books_, bare>>

ASSUME OrderBookAssumption ==
  /\ Prices \subseteq Nat \ {0}
  /\ Sizes \subseteq Nat
  /\ Amounts \subseteq Nat
  /\ MaxMessages \in Nat

Sides == {"bid", "ask"}
EmptyMap == [x \in {} |-> 0]
NewBook == [levels |-> [s \in Sides |-> EmptyMap], message_count |-> 0]

BooksInit == /\ books_ = EmptyMap
             /\ bare = {}

\* OrderBookManager::get_or_create.
Book(symbol) == IF symbol \in DOMAIN books_ THEN books_[symbol] ELSE NewBook

Set(map, x, y) == [z \in DOMAIN map \cup {x} |-> IF z = x THEN y ELSE map[z]]
Erase(map, x) == Restrict(map, DOMAIN map \ {x})

\* Every operation counts itself, whatever it found.
Update(symbol, s, levels) ==
  LET book == Book(symbol) IN
    /\ book.message_count < MaxMessages
    /\ books_' = Set(books_, symbol, [levels |-> [book.levels EXCEPT ![s] = levels],
                                    message_count |-> book.message_count + 1])

\* add_bid and add_ask: operator[] makes a level of size 0 when there is none.
Add(symbol, s, p, size) ==
  LET levels == Book(symbol).levels[s]
      there == p \in DOMAIN levels
  IN  /\ Update(symbol, s, Set(levels, p, size + IF there THEN levels[p] ELSE 0))
      /\ bare' = CASE size # 0         -> bare \ {<<symbol, s, p>>}
                   [] size = 0 /\ there -> bare
                   [] OTHER            -> bare \cup {<<symbol, s, p>>}

\* The other operations leave nothing of what adds of size 0 made at a price.
Change(symbol, s, p, levels) ==
  /\ Update(symbol, s, levels)
  /\ bare' = bare \ {<<symbol, s, p>>}

\* Faulty variant of ModifiedLevels: a level is set to 0 and stays.
ModifiedKept(levels, p, size) ==
  IF p \in DOMAIN levels \/ size > 0 THEN Set(levels, p, size) ELSE levels

\* modify_bid and modify_ask: a level of size 0 is erased, or not made.
ModifiedLevels(levels, p, size) == IF size > 0 THEN Set(levels, p, size) ELSE Erase(levels, p)
Modify(symbol, s, p, size) ==
  Change(symbol, s, p, ModifiedLevels(Book(symbol).levels[s], p, size))

RemoveLevel(symbol, s, p) == Change(symbol, s, p, Erase(Book(symbol).levels[s], p))

\* execute_bid and execute_ask.
Executed(levels, p, size) ==
  CASE p \notin DOMAIN levels -> levels
    [] p \in DOMAIN levels /\ levels[p] > size -> Set(levels, p, levels[p] - size)
    [] OTHER -> Erase(levels, p)
Execute(symbol, s, p, size) ==
  Change(symbol, s, p, Executed(Book(symbol).levels[s], p, size))

\* OrderBook::clear, and OrderBookManager::clear, which drops the books.
Clear(symbol) == /\ symbol \in DOMAIN books_
                 /\ books_' = [books_ EXCEPT ![symbol] = NewBook]
                 /\ bare' = {level \in bare : level[1] # symbol}
ClearAll == /\ books_' = EmptyMap
            /\ bare' = {}

Feed ==
  \/ \E symbol \in Symbols, s \in Sides, p \in Prices :
       \/ \E size \in Sizes : Add(symbol, s, p, size)
       \/ \E size \in Amounts : Modify(symbol, s, p, size) \/ Execute(symbol, s, p, size)
       \/ RemoveLevel(symbol, s, p)
  \/ \E symbol \in Symbols : Clear(symbol)
  \/ ClearAll
--------------------------------------------------------------------------------
\* begin() of the two maps: std::greater for the bids, std::less for the asks.
Best(levels, s) == IF s = "bid" THEN Max(DOMAIN levels) ELSE Min(DOMAIN levels)

\* OrderBook::snapshot: spread in ticks, imbalance as numerator and
\* denominator, of the sizes at the best prices.
Snapshot(symbol) ==
  LET levels == Book(symbol).levels
      there(s) == levels[s] # EmptyMap
      price(s) == IF there(s) THEN Best(levels[s], s) ELSE 0
      size(s) == IF there(s) THEN levels[s][price(s)] ELSE 0
      both == there("bid") /\ there("ask")
  IN  [symbol    |-> symbol,
       price     |-> [s \in Sides |-> price(s)],
       size      |-> [s \in Sides |-> size(s)],
       spread    |-> IF both THEN price("ask") - price("bid") ELSE 0,
       imbalance |-> IF both /\ size("bid") + size("ask") > 0
                       THEN <<size("bid") - size("ask"), size("bid") + size("ask")>>
                       ELSE <<0, 1>>]

\* The quantity offered at a price, read from the levels.
Offered(symbol, s, p) ==
  LET levels == Book(symbol).levels[s] IN IF p \in DOMAIN levels THEN levels[p] ELSE 0
================================================================================

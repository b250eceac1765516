------------------------------- MODULE StrategyProofs -------------------------------
(***************************************************************************)
(* Proofs about the strategy, at work in the demonstration and on books of *)
(* price levels.                                                           *)
(*                                                                         *)
(* Demonstration: for any number of messages, any quotes narrower than the *)
(* threshold, any latencies and any of the divisors, with three books, no  *)
(* order is touched again and nothing is signalled.  The invariant says    *)
(* where the orders of a book come from: in pairs, from the messages of its*)
(* symbol that were handled before.  Then what message i names to execute  *)
(* or cancel, an order of message i - 1, cannot be in the book, and the    *)
(* best prices are as close as those of any pair.                          *)
(*                                                                         *)
(* TradingStrategy: whatever a feed does, an order can be filled where it  *)
(* is sent, since no operation of a book leaves a level with nothing on it.*)
(* The average price of a position lies between two prices paid since any  *)
(* flat moment after which it was never short: that is what an order keeps.*)
(*                                                                         *)
(* The histograms of the demonstration: a percentile of the one that counts*)
(* is that of the one that keeps its samples, but for the rounding.        *)
(***************************************************************************)
EXTENDS Demonstration, TradingStrategy, SequenceTheorems, FiniteSetTheorems, WellFoundedInduction, TLAPS

\* The two orders of message m, in a book.
Pair(book, m) ==
  /\ 2 * m \in DOMAIN book /\ 2 * m + 1 \in DOMAIN book
  /\ book[2 * m].side = "bid" /\ book[2 * m + 1].side = "ask"
  /\ book[2 * m].price \in 1 .. MaxPrice /\ book[2 * m + 1].price \in 1 .. MaxPrice
  /\ book[2 * m + 1].price - book[2 * m].price < SpreadThreshold

\* Book b after n messages.
Paired(book, b, n) ==
  \A id \in DOMAIN book :
    \E m \in 0 .. n - 1 : m % 3 = b /\ id \in {2 * m, 2 * m + 1} /\ Pair(book, m)

DInv ==
  /\ i \in Nat
  /\ DOMAIN books = 0 .. 2
  /\ books = [b \in 0 .. 2 |-> books[b]]
  /\ \A b \in 0 .. 2 : Paired(books[b], b, i)
  /\ signal_count = 0
-------------------------------------------------------------------------------
LEMMA Least ==
  ASSUME NEW S \in SUBSET Nat, S # {}
  PROVE  \E x \in S : \A y \in S : x <= y
<1> DEFINE Before == {ss \in Nat \X Nat : ss[1] < ss[2]}
<1>1. OpToRel(<, Nat) = Before
  BY Zenon DEF OpToRel
<1>2. IsWellFoundedOn(Before, Nat)
  BY <1>1, NatLessThanWellFounded
<1>3. PICK x \in S : \A y \in S : ~ (<<y, x>> \in Before)
  BY <1>2, WFMin
<1>4. \A y \in S : x \in Nat /\ y \in Nat /\ ~ (y < x)
  BY <1>3
<1> QED
  BY <1>4

LEMMA MinIsLeast ==
  ASSUME NEW S \in SUBSET Nat, S # {}
  PROVE  Min(S) \in S /\ \A y \in S : Min(S) <= y
BY Least DEF Min

LEMMA MaxIsGreatest ==
  ASSUME NEW S \in SUBSET Nat, S # {}, NEW bound \in Nat, \A x \in S : x <= bound
  PROVE  Max(S) \in S /\ \A y \in S : Max(S) >= y
<1> DEFINE T == {bound - x : x \in S}
<1>1. T \in SUBSET Nat /\ T # {}
  <2>1. \A x \in S : bound - x \in Nat
    OBVIOUS
  <2> QED
    BY <2>1
<1>2. PICK t \in T : \A u \in T : t <= u
  BY <1>1, Least
<1>3. PICK x \in S : t = bound - x
  BY <1>2
<1>4. \A y \in S : x >= y
  <2>1. SUFFICES ASSUME NEW y \in S PROVE x >= y
    OBVIOUS
  <2>2. t <= bound - y
    BY <1>2
  <2> QED
    BY <1>3, <2>2
<1> QED
  BY <1>3, <1>4 DEF Max

LEMMA MinBelow ==
  ASSUME NEW S \in SUBSET (1 .. MaxPrice), NEW p \in S
  PROVE  Min(S) \in S /\ Min(S) <= p
<1>1. S \in SUBSET Nat /\ S # {}
  OBVIOUS
<1> QED
  BY <1>1, MinIsLeast

LEMMA MaxAbove ==
  ASSUME NEW S \in SUBSET (1 .. MaxPrice), NEW p \in S
  PROVE  Max(S) \in S /\ Max(S) >= p
<1>1. MaxPrice \in Nat
  BY DemonstrationAssumption DEF DemonstrationAssumption
<1>2. S \in SUBSET Nat /\ S # {} /\ \A x \in S : x <= MaxPrice
  BY <1>1
<1> QED
  BY <1>1, <1>2, MaxIsGreatest
-------------------------------------------------------------------------------
\* What message n does to the book of its symbol: nothing, or it adds a pair.
LEMMA AddsOrNothing ==
  ASSUME NEW n \in Nat, NEW book, Paired(book, n % 3, n), NEW q \in Quotes
  PROVE  LET new == Changed(book, n, q) IN
           /\ \A id \in DOMAIN book : id \in DOMAIN new /\ new[id] = book[id]
           /\ \/ new = book
              \/ DOMAIN new = DOMAIN book \cup {2 * n, 2 * n + 1} /\ Pair(new, n)
<1> DEFINE new == Changed(book, n, q)
           id1 == 2 * n
           id2 == 2 * n + 1
<1>1. \A id \in DOMAIN book : \E m \in 0 .. n - 1 : m % 3 = n % 3 /\ id \in {2 * m, 2 * m + 1}
  BY DEF Paired
<1>2. id1 \notin DOMAIN book /\ id2 \notin DOMAIN book
  <2>1. \A m \in 0 .. n - 1 : id1 \notin {2 * m, 2 * m + 1} /\ id2 \notin {2 * m, 2 * m + 1}
    OBVIOUS
  <2> QED
    BY <1>1, <2>1
<1>3. 2 * (n - 1) \notin DOMAIN book /\ 2 * (n - 1) + 1 \notin DOMAIN book
  <2>1. \A m \in 0 .. n - 1 :
          m % 3 = n % 3 => /\ 2 * (n - 1) \notin {2 * m, 2 * m + 1}
                           /\ 2 * (n - 1) + 1 \notin {2 * m, 2 * m + 1}
    OBVIOUS
  <2> QED
    BY <1>1, <2>1
<1>4. CASE n % AddEvery = 0
  <2> DEFINE bid == [side |-> "bid", price |-> q.bid_price, quantity |-> q.bid_size]
             ask == [side |-> "ask", price |-> q.ask_price, quantity |-> q.ask_size]
             one == [x \in DOMAIN book \cup {id1} |-> IF x = id1 THEN bid ELSE book[x]]
             two == [x \in DOMAIN one \cup {id2} |-> IF x = id2 THEN ask ELSE one[x]]
  <2>1. Added(book, id1, "bid", q.bid_price, q.bid_size) = one
    BY <1>2 DEF Added
  <2>2. id1 # id2 /\ id2 \notin DOMAIN one
    BY <1>2
  <2>3. new = Added(one, id2, "ask", q.ask_price, q.ask_size)
    BY <1>4, <2>1 DEF Changed
  <2>4. new = two
    BY <2>2, <2>3 DEF Added
  <2>5. /\ DOMAIN two = DOMAIN book \cup {id1, id2}
        /\ two[id1] = bid /\ two[id2] = ask
        /\ \A id \in DOMAIN book : two[id] = book[id]
    BY <1>2, <2>2
  <2>6. /\ q.bid_price \in Nat \ {0} /\ q.ask_price \in Nat \ {0}
        /\ q.bid_price < q.ask_price /\ q.ask_price - q.bid_price < SpreadThreshold
        /\ q.ask_price <= MaxPrice /\ MaxPrice \in Nat
    BY DemonstrationAssumption DEF DemonstrationAssumption
  <2>7. Pair(two, n)
    <3>1. q.bid_price \in 1 .. MaxPrice /\ q.ask_price \in 1 .. MaxPrice
      BY <2>6
    <3> QED
      BY <2>5, <2>6, <3>1 DEF Pair
  <2> QED
    BY <2>4, <2>5, <2>7
<1>5. CASE n % AddEvery # 0
  <2>1. Reduced(book, 2 * (n - 1), q.bid_size \div 4) = book
    BY <1>3 DEF Reduced
  <2>2. Reduced(book, 2 * (n - 1) + 1, q.ask_size \div 3) = book
    BY <1>3 DEF Reduced
  <2>3. Modified(book, 2 * n, q.bid_size + 100) = book
    BY <1>2 DEF Modified
  <2>4. new = book
    BY <1>5, <2>1, <2>2, <2>3 DEF Changed
  <2> QED
    BY <2>4
<1> QED
  BY <1>4, <1>5

\* A book of pairs is not worth an order.
LEMMA NotWorthwhile ==
  ASSUME NEW n \in Nat, NEW b, NEW book, Paired(book, b, n)
  PROVE  ~ Worthwhile(BookSnapshot(book), SpreadThreshold, 3)
<1> DEFINE on(s) == {id \in DOMAIN book : book[id].side = s}
           prices(s) == {book[id].price : id \in on(s)}
           price(s) == IF on(s) = {} THEN 0 ELSE BestOf(s, prices(s))
           spread == IF on("bid") # {} /\ on("ask") # {} THEN price("ask") - price("bid") ELSE 0
<1>1. /\ BookSnapshot(book).price["bid"] = price("bid")
      /\ BookSnapshot(book).price["ask"] = price("ask")
      /\ BookSnapshot(book).spread = spread
  BY DEF BookSnapshot
<1>2. CASE on("bid") = {} \/ on("ask") = {}
  BY <1>1, <1>2 DEF Worthwhile
<1>3. CASE on("bid") # {} /\ on("ask") # {}
  <2>1. PICK id \in DOMAIN book : TRUE
    BY <1>3
  <2>2. PICK m \in 0 .. n - 1 : Pair(book, m)
    BY <2>1 DEF Paired
  <2>3. 2 * m \in on("bid") /\ 2 * m + 1 \in on("ask")
    BY <2>2 DEF Pair
  <2>4. \A x \in DOMAIN book : book[x].price \in 1 .. MaxPrice
    BY DEF Paired, Pair
  <2>5. prices("bid") \in SUBSET (1 .. MaxPrice) /\ prices("ask") \in SUBSET (1 .. MaxPrice)
    BY <2>4
  <2>6. book[2 * m].price \in prices("bid") /\ book[2 * m + 1].price \in prices("ask")
    BY <2>3
  <2>7. Max(prices("bid")) \in prices("bid") /\ Max(prices("bid")) >= book[2 * m].price
    BY <2>5, <2>6, MaxAbove
  <2>8. Min(prices("ask")) \in prices("ask") /\ Min(prices("ask")) <= book[2 * m + 1].price
    BY <2>5, <2>6, MinBelow
  <2>9. price("bid") = Max(prices("bid")) /\ price("ask") = Min(prices("ask"))
    BY <1>3 DEF BestOf
  <2>10. /\ price("bid") \in Nat /\ price("ask") \in Nat
         /\ book[2 * m].price \in Nat /\ book[2 * m + 1].price \in Nat
    <3> HIDE DEF prices, price, on, spread
    <3>1. MaxPrice \in Nat
      BY DemonstrationAssumption DEF DemonstrationAssumption
    <3>2. price("bid") \in 1 .. MaxPrice /\ price("ask") \in 1 .. MaxPrice
      BY <2>5, <2>7, <2>8, <2>9
    <3>3. book[2 * m].price \in 1 .. MaxPrice /\ book[2 * m + 1].price \in 1 .. MaxPrice
      BY <2>5, <2>6
    <3> QED
      BY <3>1, <3>2, <3>3
  <2>11. spread = price("ask") - price("bid")
    BY <1>3
  <2> HIDE DEF spread, prices, price, on
  <2>12. SpreadThreshold \in Nat /\ spread < SpreadThreshold
    BY <2>2, <2>7, <2>8, <2>9, <2>10, <2>11, DemonstrationAssumption
      DEF Pair, DemonstrationAssumption
  <2>13. spread \in Int
    BY <2>10, <2>11
  <2> QED
    BY <1>1, <2>12, <2>13 DEF Worthwhile
<1> QED
  BY <1>2, <1>3
-------------------------------------------------------------------------------
LEMMA InitDInv == ASSUME Init PROVE DInv
  BY DEF Init, DInv, Paired, Books

\* One message.
LEMMA TurnDInv ==
  ASSUME DInv, NEW q \in Quotes, NEW cycles \in Latencies, Turn(q, cycles)
  PROVE  /\ DInv'
         /\ \A b \in DOMAIN books : \A id \in DOMAIN books[b] :
              id \in DOMAIN books'[b] /\ books'[b][id] = books[b][id]
<1> DEFINE own == i % 3
           book == Changed(books[own], i, q)
<1>1. BookOf(i) = own /\ own \in 0 .. 2 /\ i \in Nat
  BY DEF BookOf, Books, DInv
<1>2. books' = [books EXCEPT ![own] = book] /\ i' = i + 1
  BY <1>1 DEF Turn
<1>3. Paired(books[own], own, i)
  BY <1>1 DEF DInv
<1>4. /\ \A id \in DOMAIN books[own] : id \in DOMAIN book /\ book[id] = books[own][id]
      /\ \/ book = books[own]
         \/ DOMAIN book = DOMAIN books[own] \cup {2 * i, 2 * i + 1} /\ Pair(book, i)
  BY <1>1, <1>3, AddsOrNothing
<1> HIDE DEF book
<1>5. Paired(book, own, i + 1)
  <2>1. \A m \in 0 .. i - 1 : Pair(books[own], m) => Pair(book, m)
    BY <1>4 DEF Pair
  <2>2. SUFFICES ASSUME NEW id \in DOMAIN book
                 PROVE  \E m \in 0 .. (i + 1) - 1 :
                          m % 3 = own /\ id \in {2 * m, 2 * m + 1} /\ Pair(book, m)
    BY DEF Paired
  <2>3. CASE id \in DOMAIN books[own]
    <3>1. PICK m \in 0 .. i - 1 :
            m % 3 = own /\ id \in {2 * m, 2 * m + 1} /\ Pair(books[own], m)
      BY <1>3, <2>3 DEF Paired
    <3>2. m \in 0 .. (i + 1) - 1 /\ Pair(book, m)
      BY <1>1, <2>1, <3>1
    <3> QED
      BY <3>1, <3>2
  <2>4. CASE id \notin DOMAIN books[own]
    <3>1. id \in {2 * i, 2 * i + 1} /\ Pair(book, i)
      BY <1>4, <2>4
    <3>2. i \in 0 .. (i + 1) - 1 /\ i % 3 = own
      BY <1>1
    <3> QED
      BY <3>1, <3>2
  <2> QED
    BY <2>3, <2>4
<1>6. \A b \in 0 .. 2 : books'[b] = IF b = own THEN book ELSE books[b]
  BY <1>1, <1>2 DEF DInv
<1>7. \A b \in 0 .. 2 : Paired(books'[b], b, i + 1)
  <2>1. \A b \in 0 .. 2 : Paired(books[b], b, i) => Paired(books[b], b, i + 1)
    BY <1>1 DEF Paired
  <2> QED
    BY <1>5, <1>6, <2>1 DEF DInv
<1>8. signal_count' = 0
  <2>1. ~ Worthwhile(BookSnapshot(book), SpreadThreshold, 3)
    <3>1. i + 1 \in Nat
      BY <1>1
    <3> QED
      BY <1>5, <3>1, NotWorthwhile
  <2>2. signal_count' =
          signal_count + IF i % SampleEvery = 0 /\ Worthwhile(BookSnapshot(book), SpreadThreshold, 3)
                         THEN 1 ELSE 0
    BY <1>1 DEF Turn, book
  <2> QED
    BY <2>1, <2>2 DEF DInv
<1>9. DInv'
  <2>1. DOMAIN books' = 0 .. 2 /\ books' = [b \in 0 .. 2 |-> books'[b]]
    BY <1>2 DEF DInv
  <2>2. i' \in Nat
    BY <1>1, <1>2
  <2>3. \A b \in 0 .. 2 : Paired(books'[b], b, i')
    BY <1>2, <1>7
  <2> QED
    BY <1>8, <2>1, <2>2, <2>3 DEF DInv
<1>10. \A b \in DOMAIN books : \A id \in DOMAIN books[b] :
         id \in DOMAIN books'[b] /\ books'[b][id] = books[b][id]
  BY <1>4, <1>6 DEF DInv
<1> QED
  BY <1>9, <1>10

\* A step of the demonstration.
LEMMA StepDInv ==
  ASSUME DInv, [Next]_vars
  PROVE  /\ DInv'
         /\ \A b \in DOMAIN books : \A id \in DOMAIN books[b] :
              id \in DOMAIN books'[b] /\ books'[b][id] = books[b][id]
<1>1. CASE \E q \in Quotes, cycles \in Latencies : Turn(q, cycles)
  BY <1>1, TurnDInv
<1>2. CASE Report \/ Signal \/ UNCHANGED vars
  <2>1. i' = i /\ books' = books /\ signal_count' = signal_count
    BY <1>2 DEF Report, Signal, vars
  <2> QED
    BY <2>1 DEF DInv
<1> QED
  BY <1>1, <1>2 DEF Next

(* In a demonstration of any length no order is executed, cancelled or        *)
(* modified (main.cpp:119-128).                                               *)
THEOREM OrdersStay == Spec => OrdersOnlyArrive
<1>1. DInv /\ [Next]_vars =>
        [\A b \in DOMAIN books : \A id \in DOMAIN books[b] :
           id \in DOMAIN books'[b] /\ books'[b][id] = books[b][id]]_vars
  BY StepDInv
<1> QED
  BY <1>1, InitDInv, StepDInv, PTL DEF Spec, OrdersOnlyArrive

(* Nor does its strategy ever signal (main.cpp:46 and 137-140).               *)
THEOREM StrategySilent == Spec => []NeverSignals
<1>1. DInv => NeverSignals
  BY DEF DInv, NeverSignals
<1> QED
  BY <1>1, InitDInv, StepDInv, PTL DEF Spec
-------------------------------------------------------------------------------
(* The books of price levels: sizes at finitely many prices, and the levels   *)
(* of size 0 are those that adds of size 0 have made.                         *)
LevelsOK(levels) ==
  /\ levels = [p \in DOMAIN levels |-> levels[p]]
  /\ DOMAIN levels \subseteq Prices
  /\ \A p \in DOMAIN levels : levels[p] \in Nat
  /\ \E bound \in Nat : \A p \in DOMAIN levels : p <= bound

BookOK(book) ==
  /\ DOMAIN book.levels = Sides
  /\ \A s \in Sides : LevelsOK(book.levels[s])

Orders == [symbol : Symbols, buy : BOOLEAN, price : Nat, size : Nat]

BareLevels ==
  \A symbol \in DOMAIN books_, s \in Sides : \A p \in DOMAIN books_[symbol].levels[s] :
    books_[symbol].levels[s][p] = 0 <=> <<symbol, s, p>> \in bare

TradingInv ==
  /\ \A symbol \in DOMAIN books_ : BookOK(books_[symbol])
  /\ BareLevels
  /\ spread_threshold_ \in SpreadThresholds
  /\ orders \in Seq(Orders)

LEMMA EmptyOK == LevelsOK(EmptyMap) /\ BookOK(NewBook)
<1>1. LevelsOK(EmptyMap)
  BY DEF LevelsOK, EmptyMap
<1> QED
  BY <1>1 DEF BookOK, NewBook

\* Whatever book get_or_create returns.
LEMMA AnyBookOK ==
  ASSUME TradingInv, NEW symbol
  PROVE  BookOK(Book(symbol))
BY EmptyOK DEF TradingInv, Book

LEMMA AnyBareLevel ==
  ASSUME TradingInv, NEW symbol, NEW s \in Sides, NEW p \in DOMAIN Book(symbol).levels[s]
  PROVE  Book(symbol).levels[s][p] = 0 <=> <<symbol, s, p>> \in bare
<1>1. symbol \in DOMAIN books_
  <2> SUFFICES ASSUME symbol \notin DOMAIN books_ PROVE FALSE
    OBVIOUS
  <2>1. Book(symbol).levels[s] = EmptyMap
    BY DEF Book, NewBook
  <2> QED
    BY <2>1 DEF EmptyMap
<1>2. Book(symbol) = books_[symbol]
  BY <1>1 DEF Book
<1> QED
  BY <1>1, <1>2 DEF TradingInv, BareLevels

LEMMA SetOK ==
  ASSUME NEW levels, LevelsOK(levels), NEW p \in Prices, NEW size \in Nat
  PROVE  /\ LevelsOK(Set(levels, p, size))
         /\ Set(levels, p, size)[p] = size
         /\ \A z \in DOMAIN Set(levels, p, size) \ {p} :
              z \in DOMAIN levels /\ Set(levels, p, size)[z] = levels[z]
<1> DEFINE new == Set(levels, p, size)
<1>1. /\ DOMAIN new = DOMAIN levels \cup {p}
      /\ new = [z \in DOMAIN new |-> new[z]]
      /\ \A z \in DOMAIN new : new[z] = IF z = p THEN size ELSE levels[z]
  BY DEF Set
<1>2. PICK bound \in Nat : \A z \in DOMAIN levels : z <= bound
  BY DEF LevelsOK
<1>3. p \in Nat /\ DOMAIN levels \subseteq Nat
  BY OrderBookAssumption DEF OrderBookAssumption, LevelsOK
<1>4. bound + p \in Nat /\ \A z \in DOMAIN new : z <= bound + p
  BY <1>1, <1>2, <1>3
<1> HIDE DEF new
<1>5. LevelsOK(new)
  BY <1>1, <1>4 DEF LevelsOK
<1> QED
  BY <1>1, <1>5 DEF new

LEMMA EraseOK ==
  ASSUME NEW levels, LevelsOK(levels), NEW p
  PROVE  /\ LevelsOK(Erase(levels, p))
         /\ DOMAIN Erase(levels, p) = DOMAIN levels \ {p}
         /\ \A z \in DOMAIN Erase(levels, p) : Erase(levels, p)[z] = levels[z]
<1> DEFINE new == Erase(levels, p)
<1>1. /\ DOMAIN new = DOMAIN levels \ {p}
      /\ new = [z \in DOMAIN new |-> new[z]]
      /\ \A z \in DOMAIN new : new[z] = levels[z]
  BY DEF Erase, Restrict
<1> HIDE DEF new
<1>2. LevelsOK(new)
  BY <1>1 DEF LevelsOK
<1> QED
  BY <1>1, <1>2 DEF new

(* What an operation on one level makes of its side of a book: the other      *)
(* levels stay, and so does what is known of them.                            *)
Changes(symbol, s, p, new) ==
  /\ LevelsOK(new)
  /\ Update(symbol, s, new)
  /\ \A z \in DOMAIN new \ {p} :
       z \in DOMAIN Book(symbol).levels[s] /\ new[z] = Book(symbol).levels[s][z]
  /\ p \in DOMAIN new => (new[p] = 0 <=> <<symbol, s, p>> \in bare')
  /\ \A place : place # <<symbol, s, p>> => (place \in bare' <=> place \in bare)

BooksOK ==
  /\ \A symbol \in DOMAIN books_ : BookOK(books_[symbol])
  /\ BareLevels

\* Changing one side of a book, in the table of books.
LEMMA UpdateOK ==
  ASSUME TradingInv, NEW symbol, NEW s \in Sides, NEW p, NEW levels, Changes(symbol, s, p, levels)
  PROVE  BooksOK'
<1> DEFINE book == Book(symbol)
           new == [levels |-> [book.levels EXCEPT ![s] = levels],
                   message_count |-> book.message_count + 1]
<1>1. BookOK(book)
  BY AnyBookOK
<1>2. /\ BookOK(new)
      /\ new.levels[s] = levels
      /\ \A t \in Sides \ {s} : new.levels[t] = book.levels[t]
  BY <1>1 DEF BookOK, Changes
<1>3. books_' = Set(books_, symbol, new)
  BY DEF Update, Changes
<1> HIDE DEF new
<1>4. \A sym \in DOMAIN books_' :
        IF sym = symbol THEN books_'[sym] = new
                        ELSE sym \in DOMAIN books_ /\ books_'[sym] = books_[sym]
  BY <1>3 DEF Set
<1>5. \A sym \in DOMAIN books_' : BookOK(books_'[sym])
  BY <1>2, <1>4 DEF TradingInv
<1>6. ASSUME NEW sym \in DOMAIN books_', NEW t \in Sides, NEW z \in DOMAIN books_'[sym].levels[t]
      PROVE  books_'[sym].levels[t][z] = 0 <=> <<sym, t, z>> \in bare'
  <2>1. CASE <<sym, t, z>> = <<symbol, s, p>>
    <3>1. sym = symbol /\ t = s /\ z = p
      BY <2>1
    <3>2. books_'[sym].levels[t] = levels
      BY <1>2, <1>4, <3>1
    <3> QED
      BY <2>1, <3>1, <3>2 DEF Changes
  <2>2. CASE <<sym, t, z>> # <<symbol, s, p>>
    <3>1. <<sym, t, z>> \in bare' <=> <<sym, t, z>> \in bare
      BY <2>2 DEF Changes
    <3>2. CASE sym # symbol
      BY <1>4, <3>1, <3>2 DEF TradingInv, BareLevels
    <3>3. CASE sym = symbol /\ t # s
      <4>1. books_'[sym].levels[t] = book.levels[t]
        BY <1>2, <1>4, <3>3
      <4> QED
        BY <3>1, <3>3, <4>1, AnyBareLevel
    <3>4. CASE sym = symbol /\ t = s
      <4>1. books_'[sym].levels[t] = levels
        BY <1>2, <1>4, <3>4
      <4>2. z # p
        BY <2>2, <3>4
      <4>3. z \in DOMAIN book.levels[s] /\ levels[z] = book.levels[s][z]
        BY <4>1, <4>2 DEF Changes
      <4> QED
        BY <3>1, <3>4, <4>1, <4>3, AnyBareLevel
    <3> QED
      BY <3>2, <3>3, <3>4
  <2> QED
    BY <2>1, <2>2
<1>7. BareLevels'
  BY <1>6 DEF BareLevels
<1> QED
  BY <1>5, <1>7 DEF BooksOK

\* Only an add of size 0 leaves a level of size 0.
LEMMA AddOK ==
  ASSUME TradingInv, NEW symbol, NEW s \in Sides, NEW p \in Prices, NEW size \in Nat,
         Add(symbol, s, p, size)
  PROVE  \E new : Changes(symbol, s, p, new)
<1> DEFINE levels == Book(symbol).levels[s]
           there == p \in DOMAIN levels
           sum == size + IF there THEN levels[p] ELSE 0
           new == Set(levels, p, sum)
           place == <<symbol, s, p>>
<1>1. LevelsOK(levels) /\ (there => (levels[p] = 0 <=> place \in bare))
  BY AnyBookOK, AnyBareLevel DEF BookOK
<1>2. there => levels[p] \in Nat
  BY <1>1 DEF LevelsOK
<1>3. /\ Update(symbol, s, new)
      /\ bare' = CASE size # 0         -> bare \ {place}
                   [] size = 0 /\ there -> bare
                   [] OTHER            -> bare \cup {place}
  BY DEF Add
<1> HIDE DEF levels
<1>4. sum \in Nat
  BY <1>2
<1>5. /\ LevelsOK(new)
      /\ new[p] = sum
      /\ \A z \in DOMAIN new \ {p} : z \in DOMAIN levels /\ new[z] = levels[z]
  <2> HIDE DEF sum
  <2> QED
    BY <1>1, <1>4, SetOK
<1>6. sum = 0 <=> place \in bare'
  <2>1. CASE size # 0
    <3>1. bare' = bare \ {place}
      BY <1>3, <2>1
    <3>2. sum # 0
      BY <1>2, <2>1
    <3> QED
      BY <3>1, <3>2
  <2>2. CASE size = 0 /\ there
    <3>1. bare' = bare
      BY <1>3, <2>2
    <3>2. sum = levels[p]
      BY <1>2, <2>2
    <3> QED
      BY <1>1, <2>2, <3>1, <3>2
  <2>3. CASE size = 0 /\ ~ there
    <3>1. bare' = bare \cup {place}
      BY <1>3, <2>3
    <3>2. sum = 0
      BY <2>3
    <3> QED
      BY <3>1, <3>2
  <2> QED
    BY <2>1, <2>2, <2>3
<1>7. \A other : other # place => (other \in bare' <=> other \in bare)
  <2>1. bare' \in {bare, bare \ {place}, bare \cup {place}}
    BY <1>3
  <2> QED
    BY <2>1
<1> HIDE DEF new, sum
<1> QED
  BY <1>3, <1>5, <1>6, <1>7 DEF Changes, levels

LEMMA ChangeOK ==
  ASSUME TradingInv, NEW symbol, NEW s \in Sides, NEW p \in Prices, NEW new,
         Change(symbol, s, p, new), LevelsOK(new), p \in DOMAIN new => new[p] # 0,
         \A z \in DOMAIN new \ {p} :
           z \in DOMAIN Book(symbol).levels[s] /\ new[z] = Book(symbol).levels[s][z]
  PROVE  Changes(symbol, s, p, new)
<1>1. Update(symbol, s, new) /\ bare' = bare \ {<<symbol, s, p>>}
  BY DEF Change
<1> QED
  BY <1>1 DEF Changes

LEMMA ModifyOK ==
  ASSUME TradingInv, NEW symbol, NEW s \in Sides, NEW p \in Prices, NEW size \in Nat,
         Modify(symbol, s, p, size)
  PROVE  \E new : Changes(symbol, s, p, new)
<1> DEFINE levels == Book(symbol).levels[s]
           new == ModifiedLevels(levels, p, size)
<1>1. LevelsOK(levels)
  BY AnyBookOK DEF BookOK
<1>2. Change(symbol, s, p, new)
  BY DEF Modify
<1> HIDE DEF levels
<1>3. /\ LevelsOK(new) /\ (p \in DOMAIN new => new[p] # 0)
      /\ \A z \in DOMAIN new \ {p} : z \in DOMAIN levels /\ new[z] = levels[z]
  <2>1. CASE size > 0
    <3>1. new = Set(levels, p, size) /\ size # 0
      BY <2>1 DEF ModifiedLevels
    <3> HIDE DEF new
    <3> QED
      BY <1>1, <3>1, SetOK
  <2>2. CASE ~ size > 0
    <3>1. new = Erase(levels, p)
      BY <2>2 DEF ModifiedLevels
    <3> HIDE DEF new
    <3> QED
      BY <1>1, <3>1, EraseOK
  <2> QED
    BY <2>1, <2>2
<1> HIDE DEF new
<1> QED
  BY <1>2, <1>3, ChangeOK DEF levels

LEMMA ExecuteOK ==
  ASSUME TradingInv, NEW symbol, NEW s \in Sides, NEW p \in Prices, NEW size \in Nat,
         Execute(symbol, s, p, size)
  PROVE  \E new : Changes(symbol, s, p, new)
<1> DEFINE levels == Book(symbol).levels[s]
           new == Executed(levels, p, size)
<1>1. LevelsOK(levels)
  BY AnyBookOK DEF BookOK
<1>2. Change(symbol, s, p, new)
  BY DEF Execute
<1> HIDE DEF levels
<1>3. /\ LevelsOK(new) /\ (p \in DOMAIN new => new[p] # 0)
      /\ \A z \in DOMAIN new \ {p} : z \in DOMAIN levels /\ new[z] = levels[z]
  <2>1. CASE p \notin DOMAIN levels
    <3>1. new = levels
      BY <2>1 DEF Executed
    <3> HIDE DEF new
    <3> QED
      BY <1>1, <2>1, <3>1
  <2>2. CASE p \in DOMAIN levels /\ levels[p] > size
    <3>1. new = Set(levels, p, levels[p] - size)
      BY <2>2 DEF Executed
    <3>2. levels[p] - size \in Nat /\ levels[p] - size # 0
      BY <1>1, <2>2 DEF LevelsOK
    <3> HIDE DEF new
    <3> QED
      BY <1>1, <3>1, <3>2, SetOK
  <2>3. CASE p \in DOMAIN levels /\ ~ levels[p] > size
    <3>1. new = Erase(levels, p)
      BY <2>3 DEF Executed
    <3> HIDE DEF new
    <3> QED
      BY <1>1, <3>1, EraseOK
  <2> QED
    BY <2>1, <2>2, <2>3
<1> HIDE DEF new
<1> QED
  BY <1>2, <1>3, ChangeOK DEF levels

LEMMA RemoveOK ==
  ASSUME TradingInv, NEW symbol, NEW s \in Sides, NEW p \in Prices, RemoveLevel(symbol, s, p)
  PROVE  \E new : Changes(symbol, s, p, new)
<1> DEFINE levels == Book(symbol).levels[s]
           new == Erase(levels, p)
<1>1. LevelsOK(levels)
  BY AnyBookOK DEF BookOK
<1>2. Change(symbol, s, p, new)
  BY DEF RemoveLevel
<1> HIDE DEF levels
<1>3. /\ LevelsOK(new) /\ (p \in DOMAIN new => new[p] # 0)
      /\ \A z \in DOMAIN new \ {p} : z \in DOMAIN levels /\ new[z] = levels[z]
  BY <1>1, EraseOK
<1> HIDE DEF new
<1> QED
  BY <1>2, <1>3, ChangeOK DEF levels

LEMMA FeedOK ==
  ASSUME TradingInv, Feed
  PROVE  BooksOK'
<1>1. CASE \E symbol \in Symbols, s \in Sides, p \in Prices :
             \/ \E size \in Sizes : Add(symbol, s, p, size)
             \/ \E size \in Amounts : Modify(symbol, s, p, size) \/ Execute(symbol, s, p, size)
             \/ RemoveLevel(symbol, s, p)
  <2>1. PICK symbol \in Symbols, s \in Sides, p \in Prices :
             \/ \E size \in Sizes : Add(symbol, s, p, size)
             \/ \E size \in Amounts : Modify(symbol, s, p, size) \/ Execute(symbol, s, p, size)
             \/ RemoveLevel(symbol, s, p)
    BY <1>1
  <2>2. Sizes \subseteq Nat /\ Amounts \subseteq Nat
    BY OrderBookAssumption DEF OrderBookAssumption
  <2>3. PICK new : Changes(symbol, s, p, new)
    BY <2>1, <2>2, AddOK, ModifyOK, ExecuteOK, RemoveOK
  <2> QED
    BY <2>3, UpdateOK
<1>2. CASE \E symbol \in Symbols : Clear(symbol)
  <2>1. PICK symbol \in Symbols : Clear(symbol)
    BY <1>2
  <2>2. /\ DOMAIN books_' = DOMAIN books_
        /\ \A sym \in DOMAIN books_ :
             books_'[sym] = IF sym = symbol THEN NewBook ELSE books_[sym]
        /\ bare' = {level \in bare : level[1] # symbol}
    BY <2>1 DEF Clear
  <2>3. \A sym \in DOMAIN books_' : BookOK(books_'[sym])
    BY <2>2, EmptyOK DEF TradingInv
  <2>4. ASSUME NEW sym \in DOMAIN books_', NEW t \in Sides,
               NEW z \in DOMAIN books_'[sym].levels[t]
        PROVE  books_'[sym].levels[t][z] = 0 <=> <<sym, t, z>> \in bare'
    <3>1. CASE sym = symbol
      <4>1. books_'[sym].levels[t] = EmptyMap
        BY <2>2, <3>1 DEF NewBook
      <4> QED
        BY <4>1 DEF EmptyMap
    <3>2. CASE sym # symbol
      <4>1. <<sym, t, z>> \in bare' <=> <<sym, t, z>> \in bare
        BY <2>2, <3>2
      <4> QED
        BY <2>2, <3>2, <4>1 DEF TradingInv, BareLevels
    <3> QED
      BY <3>1, <3>2
  <2> QED
    BY <2>3, <2>4 DEF BooksOK, BareLevels
<1>3. CASE ClearAll
  BY <1>3 DEF ClearAll, EmptyMap, BooksOK, BareLevels
<1> QED
  BY <1>1, <1>2, <1>3 DEF Feed

\* What a snapshot shows of a book with something on both sides.
LEMMA BestPrices ==
  ASSUME TradingInv, NEW symbol \in Symbols, NEW threshold \in Nat, NEW imbalance,
         Worthwhile(Snapshot(symbol), threshold, imbalance)
  PROVE  LET snap == Snapshot(symbol)
             L(s) == Book(symbol).levels[s]
         IN  /\ \A s \in Sides : LevelsOK(L(s)) /\ snap.price[s] \in DOMAIN L(s)
                                 /\ snap.size[s] = L(s)[snap.price[s]]
             /\ snap.price["bid"] = Max(DOMAIN L("bid"))
             /\ snap.price["ask"] = Min(DOMAIN L("ask"))
             /\ \A bid \in DOMAIN L("bid"), ask \in DOMAIN L("ask") : bid <= ask
<1> DEFINE snap == Snapshot(symbol)
           levels == Book(symbol).levels
           there(s) == levels[s] # EmptyMap
           price(s) == IF there(s) THEN Best(levels[s], s) ELSE 0
           size(s) == IF there(s) THEN levels[s][price(s)] ELSE 0
<1>1. \A s \in Sides : LevelsOK(levels[s])
  BY AnyBookOK DEF BookOK
<1>2. /\ \A s \in Sides : snap.price[s] = price(s) /\ snap.size[s] = size(s)
      /\ snap.spread = IF there("bid") /\ there("ask") THEN price("ask") - price("bid") ELSE 0
  BY DEF Snapshot
<1>3. snap.price["bid"] # 0 /\ snap.price["ask"] # 0 /\ snap.spread >= threshold
  BY DEF Worthwhile
<1>4. there("bid") /\ there("ask")
  BY <1>2, <1>3 DEF Sides
<1>5. \A s \in Sides : DOMAIN levels[s] \in SUBSET Nat /\ DOMAIN levels[s] # {}
  <2>1. \A s \in Sides : DOMAIN levels[s] \subseteq Nat
    BY <1>1, OrderBookAssumption DEF OrderBookAssumption, LevelsOK
  <2>2. \A s \in Sides : there(s)
    BY <1>4 DEF Sides
  <2>3. ASSUME NEW s \in Sides, DOMAIN levels[s] = {} PROVE FALSE
    <3>1. levels[s] = [p \in DOMAIN levels[s] |-> levels[s][p]]
      BY <1>1 DEF LevelsOK
    <3>2. levels[s] = EmptyMap
      BY <2>3, <3>1 DEF EmptyMap
    <3> QED
      BY <2>2, <3>2
  <2> QED
    BY <2>1, <2>3
<1>6. price("bid") = Max(DOMAIN levels["bid"]) /\ price("ask") = Min(DOMAIN levels["ask"])
  BY <1>4 DEF Best
<1> DEFINE bids == DOMAIN levels["bid"]
           asks == DOMAIN levels["ask"]
<1>7. bids \in SUBSET Nat /\ bids # {} /\ asks \in SUBSET Nat /\ asks # {}
  BY <1>5 DEF Sides
<1>8. PICK bound \in Nat : \A p \in bids : p <= bound
  BY <1>1 DEF LevelsOK, Sides
<1>9. Max(bids) \in bids /\ \A p \in bids : Max(bids) >= p
  <2> HIDE DEF bids
  <2> QED
    BY <1>7, <1>8, MaxIsGreatest
<1>10. Min(asks) \in asks /\ \A p \in asks : Min(asks) <= p
  <2> HIDE DEF asks
  <2> QED
    BY <1>7, MinIsLeast
<1>11. \A s \in Sides : price(s) \in DOMAIN levels[s] /\ there(s)
  BY <1>4, <1>6, <1>9, <1>10 DEF Sides
<1>12. snap.spread = Min(asks) - Max(bids)
  BY <1>2, <1>4, <1>6
<1>13. \A bid \in bids, ask \in asks : bid <= ask
  <2> HIDE DEF bids, asks, snap
  <2>1. Max(bids) <= Min(asks)
    <3>1. Max(bids) \in Nat /\ Min(asks) \in Nat
      BY <1>7, <1>9, <1>10
    <3>2. Min(asks) - Max(bids) >= threshold
      BY <1>3, <1>12
    <3> QED
      BY <3>1, <3>2
  <2>2. ASSUME NEW bid \in bids, NEW ask \in asks PROVE bid <= ask
    <3>1. bid \in Nat /\ ask \in Nat /\ Max(bids) \in Nat /\ Min(asks) \in Nat
      BY <1>7, <1>9, <1>10
    <3>2. bid <= Max(bids) /\ Min(asks) <= ask
      BY <1>9, <1>10
    <3> QED
      BY <2>1, <3>1, <3>2
  <2> QED
    BY <2>2
<1>14. snap.price["bid"] = Max(bids) /\ snap.price["ask"] = Min(asks)
  BY <1>2, <1>6 DEF Sides
<1>15. \A s \in Sides : snap.price[s] \in DOMAIN levels[s] /\ snap.size[s] = levels[s][snap.price[s]]
  BY <1>2, <1>11
<1> QED
  BY <1>1, <1>13, <1>14, <1>15

\* The order that is sent, and what the book offers.
IsFillable(order, symbol) ==
  LET s == IF order.buy THEN "ask" ELSE "bid"
      offered(t) == {p \in Prices : Offered(symbol, t, p) > 0}
  IN  /\ IF <<symbol, s, order.price>> \in bare
           THEN order.size = 0
           ELSE /\ order.size \in 1 .. Min({MaxSize, Offered(symbol, s, order.price)})
                /\ order.price = IF order.buy THEN Min(offered(s)) ELSE Max(offered(s))
      /\ \A bid \in offered("bid"), ask \in offered("ask") : bid <= ask

LEMMA OrderFillable ==
  ASSUME TradingInv, NEW symbol \in Symbols, OnQuoteUpdate(symbol)
  PROVE  LET order == OrderFor(Snapshot(symbol)) IN
           order \in Orders /\ order.symbol = symbol /\ IsFillable(order, symbol)
<1> DEFINE snap == Snapshot(symbol)
           order == OrderFor(snap)
           L(t) == Book(symbol).levels[t]
           offered(t) == {p \in Prices : Offered(symbol, t, p) > 0}
<1>1. spread_threshold_ \in Nat /\ Worthwhile(snap, spread_threshold_, imbalance_threshold_)
  BY StrategyAssumption DEF StrategyAssumption, TradingInv, OnQuoteUpdate
<1>2. /\ \A t \in Sides : LevelsOK(L(t)) /\ snap.price[t] \in DOMAIN L(t)
                          /\ snap.size[t] = L(t)[snap.price[t]]
      /\ snap.price["bid"] = Max(DOMAIN L("bid"))
      /\ snap.price["ask"] = Min(DOMAIN L("ask"))
      /\ \A bid \in DOMAIN L("bid"), ask \in DOMAIN L("ask") : bid <= ask
  BY <1>1, BestPrices
<1>3. \A t \in Sides : offered(t) = {p \in DOMAIN L(t) : L(t)[p] # 0}
  <2>1. ASSUME NEW t \in Sides, NEW p \in Prices
        PROVE  Offered(symbol, t, p) > 0 <=> p \in DOMAIN L(t) /\ L(t)[p] # 0
    <3>1. Offered(symbol, t, p) = IF p \in DOMAIN L(t) THEN L(t)[p] ELSE 0
      BY DEF Offered
    <3>2. p \in DOMAIN L(t) => L(t)[p] \in Nat
      BY <1>2 DEF LevelsOK
    <3> HIDE DEF L
    <3> QED
      BY <3>1, <3>2
  <2>2. \A t \in Sides : DOMAIN L(t) \subseteq Prices
    BY <1>2 DEF LevelsOK
  <2> QED
    BY <2>1, <2>2
<1> DEFINE s == IF order.buy THEN "ask" ELSE "bid"
<1>4. /\ order.symbol = symbol
      /\ order.buy \in BOOLEAN
      /\ order.price = snap.price[s]
      /\ order.size = Min({snap.size[s], MaxSize})
  <2>1. snap.symbol = symbol
    BY DEF Snapshot
  <2>2. order.buy <=> snap.imbalance[1] > 0
    BY DEF OrderFor
  <2> HIDE DEF snap
  <2>3. order.buy \in BOOLEAN
    BY DEF OrderFor
  <2>4. order.price = snap.price[s] /\ order.size = Min({snap.size[s], MaxSize})
    BY DEF OrderFor
  <2>5. order.symbol = symbol
    BY <2>1 DEF OrderFor
  <2> QED
    BY <2>3, <2>4, <2>5
<1>5. order = [symbol |-> order.symbol, buy |-> order.buy, price |-> order.price, size |-> order.size]
  BY DEF OrderFor
<1> HIDE DEF order, snap, L, offered
<1>6. s \in Sides
  BY DEF Sides
<1>7. /\ Offered(symbol, s, order.price) = snap.size[s]
      /\ snap.size[s] \in Nat
      /\ snap.size[s] = 0 <=> <<symbol, s, order.price>> \in bare
  <2>1. order.price \in DOMAIN L(s) /\ snap.size[s] = L(s)[order.price]
    BY <1>2, <1>4, <1>6
  <2>2. L(s)[order.price] = 0 <=> <<symbol, s, order.price>> \in bare
    BY <1>6, <2>1, AnyBareLevel DEF L
  <2> QED
    BY <1>2, <1>6, <2>1, <2>2 DEF Offered, LevelsOK, L
<1>8. MaxSize \in Nat \ {0}
  BY StrategyAssumption DEF StrategyAssumption
<1> DEFINE both == {MaxSize, Offered(symbol, s, order.price)}
<1>9. both \in SUBSET Nat /\ Min(both) \in both /\ (\A x \in both : Min(both) <= x)
      /\ order.size = Min(both)
  <2>1. both \in SUBSET Nat /\ both # {}
    BY <1>7, <1>8
  <2>2. {snap.size[s], MaxSize} = both
    BY <1>7
  <2> HIDE DEF both
  <2>3. Min(both) \in both /\ \A x \in both : Min(both) <= x
    BY <2>1, MinIsLeast
  <2> QED
    BY <1>4, <2>1, <2>2, <2>3
<1>10. IF <<symbol, s, order.price>> \in bare
         THEN order.size = 0
         ELSE /\ order.size \in 1 .. Min(both)
              /\ order.price = IF order.buy THEN Min(offered(s)) ELSE Max(offered(s))
  <2>1. CASE <<symbol, s, order.price>> \in bare
    <3>1. 0 \in both
      BY <1>7, <2>1
    <3> HIDE DEF both
    <3>2. order.size \in Nat /\ order.size <= 0
      BY <1>9, <3>1
    <3> QED
      BY <2>1, <3>2
  <2>2. CASE <<symbol, s, order.price>> \notin bare
    <3>1. \A x \in both : x # 0
      BY <1>7, <1>8, <2>2
    <3> HIDE DEF both
    <3>2. Min(both) \in Nat /\ Min(both) # 0
      BY <1>9, <3>1
    <3>3. order.size \in 1 .. Min(both)
      BY <1>9, <3>2
    <3>4. order.price = IF order.buy THEN Min(offered(s)) ELSE Max(offered(s))
      <4>1. order.price \in offered(s) /\ offered(s) \subseteq DOMAIN L(s)
        BY <1>2, <1>3, <1>4, <1>6, <1>7, <2>2
      <4>2. DOMAIN L(s) \in SUBSET Nat
        BY <1>2, <1>6, OrderBookAssumption DEF OrderBookAssumption, LevelsOK
      <4>3. PICK bound \in Nat : \A p \in DOMAIN L(s) : p <= bound
        BY <1>2, <1>6 DEF LevelsOK
      <4>4. CASE order.buy
        <5>1. s = "ask" /\ order.price = Min(DOMAIN L(s))
          BY <1>2, <1>4, <4>4
        <5>2. \A p \in offered(s) : order.price <= p
          BY <4>1, <4>2, <5>1, MinIsLeast
        <5>3. Min(offered(s)) \in offered(s) /\ Min(offered(s)) <= order.price
          BY <4>1, <4>2, MinIsLeast
        <5>4. Min(offered(s)) \in Nat /\ order.price \in Nat /\ order.price <= Min(offered(s))
          BY <4>1, <4>2, <5>2, <5>3
        <5> QED
          BY <4>4, <5>3, <5>4
      <4>5. CASE ~ order.buy
        <5>1. s = "bid" /\ order.price = Max(DOMAIN L(s))
          BY <1>2, <1>4, <4>5
        <5>2. \A p \in offered(s) : order.price >= p
          BY <4>1, <4>2, <4>3, <5>1, MaxIsGreatest
        <5>3. Max(offered(s)) \in offered(s) /\ Max(offered(s)) >= order.price
          BY <4>1, <4>2, <4>3, MaxIsGreatest
        <5>4. Max(offered(s)) \in Nat /\ order.price \in Nat /\ order.price >= Max(offered(s))
          BY <4>1, <4>2, <5>2, <5>3
        <5> QED
          BY <4>5, <5>3, <5>4
      <4> QED
        BY <4>4, <4>5
    <3> QED
      BY <2>2, <3>3, <3>4
  <2> QED
    BY <2>1, <2>2
<1>11. \A bid \in offered("bid"), ask \in offered("ask") : bid <= ask
  BY <1>2, <1>3 DEF Sides
<1>12. order \in Orders
  <2>1. order.price \in Nat
    BY <1>2, <1>4, <1>6, OrderBookAssumption DEF OrderBookAssumption, LevelsOK
  <2>2. order.size \in Nat
    BY <1>9
  <2> QED
    BY <1>4, <1>5, <2>1, <2>2 DEF Orders
<1> QED
  BY <1>4, <1>10, <1>11, <1>12 DEF order, snap, offered, IsFillable

LEMMA InitTradingInv == TradingInit => TradingInv
BY DEF TradingInit, BooksInit, EmptyMap, TradingInv, BareLevels

LEMMA StepTradingInv == TradingInv /\ [TradingNext]_tradingVars => TradingInv'
<1> SUFFICES ASSUME TradingInv, [TradingNext]_tradingVars PROVE TradingInv'
  OBVIOUS
<1>1. CASE Feed /\ UNCHANGED strategyVars
  BY <1>1, FeedOK DEF strategyVars, TradingInv, BooksOK
<1>2. CASE SetThresholds
  BY <1>2 DEF SetThresholds, TradingInv, bookVars, BareLevels
<1>3. CASE \E symbol \in Symbols : OnQuoteUpdate(symbol)
  <2>1. PICK symbol \in Symbols : OnQuoteUpdate(symbol)
    BY <1>3
  <2>2. OrderFor(Snapshot(symbol)) \in Orders
    BY <2>1, OrderFillable
  <2>3. orders' = Append(orders, OrderFor(Snapshot(symbol))) /\ UNCHANGED <<books_, bare, spread_threshold_>>
    BY <2>1 DEF OnQuoteUpdate, bookVars
  <2>4. orders' \in Seq(Orders)
    BY <2>2, <2>3, AppendProperties DEF TradingInv
  <2> QED
    BY <2>3, <2>4 DEF TradingInv, BareLevels
<1>4. CASE UNCHANGED tradingVars
  BY <1>4 DEF tradingVars, bookVars, strategyVars, TradingInv, BareLevels
<1> QED
  BY <1>1, <1>2, <1>3, <1>4 DEF TradingNext

(* For any prices, sizes, thresholds and symbols, after any feed: every order *)
(* is for a positive part of what the best opposite level offers, in a book   *)
(* that is not crossed (strategy.cpp:21-44); unless that level is one that an *)
(* add of size 0 made (order_book.cpp:10-26), for then it is for nothing.     *)
THEOREM EveryOrderFillable == TradingSpec => OrdersAreFillable
<1> DEFINE Fillable ==
      \A symbol \in Symbols :
        orders' # orders /\ Last(orders').symbol = symbol =>
          LET order == Last(orders')
              s == IF order.buy THEN "ask" ELSE "bid"
              offered(t) == {p \in Prices : Offered(symbol, t, p) > 0}
          IN  /\ IF <<symbol, s, order.price>> \in bare
                   THEN order.size = 0
                   ELSE /\ order.size \in 1 .. Min({MaxSize, Offered(symbol, s, order.price)})
                        /\ order.price = IF order.buy THEN Min(offered(s)) ELSE Max(offered(s))
              /\ \A bid \in offered("bid"), ask \in offered("ask") : bid <= ask
<1>1. TradingInv /\ [TradingNext]_tradingVars => [Fillable]_tradingVars
  <2> SUFFICES ASSUME TradingInv, [TradingNext]_tradingVars, NEW symbol \in Symbols,
                      orders' # orders, Last(orders').symbol = symbol
               PROVE  IsFillable(Last(orders'), symbol)
    BY DEF IsFillable
  <2>1. PICK asked \in Symbols : OnQuoteUpdate(asked)
    BY DEF TradingNext, SetThresholds, strategyVars, tradingVars
  <2> DEFINE order == OrderFor(Snapshot(asked))
  <2>2. order \in Orders /\ order.symbol = asked
    BY <2>1, OrderFillable
  <2>3. orders' = Append(orders, order)
    BY <2>1 DEF OnQuoteUpdate
  <2> HIDE DEF order
  <2>4. Last(orders') = order
    BY <2>2, <2>3, AppendProperties, LenProperties DEF TradingInv, Last
  <2>5. asked = symbol
    BY <2>2, <2>4
  <2>6. IsFillable(order, asked)
    BY <2>1, OrderFillable DEF order
  <2> QED
    BY <2>4, <2>5, <2>6
<1> QED
  BY <1>1, InitTradingInv, StepTradingInv, PTL DEF TradingSpec, OrdersAreFillable
-------------------------------------------------------------------------------
(* The histograms.  Numbers of samples are sums, which MapThenSumSet takes    *)
(* through a recursive function: F gives the sums of all subsets of a set, and *)
(* there is one such F, by induction on the number of elements.               *)
AnyOf(S) == CHOOSE v \in S : TRUE
StepOf(F, f, s) == IF s = {} THEN 0 ELSE f[AnyOf(s)] + F[s \ {AnyOf(s)}]
Sums(F, f, S) == F = [s \in SUBSET S |-> StepOf(F, f, s)]
Weighed(f, S) == \A v \in S : f[v] \in Nat

(* Induction on the number of elements, for the sets of numbers that are      *)
(* given as sets.                                                             *)
LEMMA UpFromZero ==
  ASSUME NEW G, 0 \in G, \A n \in Nat : n \in G => n + 1 \in G
  PROVE  \A n \in Nat : n \in G
<1> SUFFICES ASSUME NEW k \in Nat, k \notin G PROVE FALSE
  OBVIOUS
<1> DEFINE Before == {ss \in Nat \X Nat : ss[1] < ss[2]}
           bad == Nat \ G
<1>1. OpToRel(<, Nat) = Before
  BY Zenon DEF OpToRel
<1>2. IsWellFoundedOn(Before, Nat)
  BY <1>1, NatLessThanWellFounded
<1>3. bad \in SUBSET Nat /\ bad # {}
  OBVIOUS
<1>4. PICK m \in bad : \A y \in bad : ~ (<<y, m>> \in Before)
  BY <1>2, <1>3, WFMin
<1>5. m \in Nat /\ m # 0 /\ m - 1 \in Nat /\ m - 1 < m /\ (m - 1) + 1 = m
  BY <1>4
<1>6. m - 1 \in G
  BY <1>4, <1>5
<1> QED
  BY <1>4, <1>5, <1>6

\* A set with an element is one element and a smaller set.
LEMMA OneLess ==
  ASSUME NEW S, IsFiniteSet(S), NEW x \in S
  PROVE  /\ IsFiniteSet(S \ {x})
         /\ Cardinality(S) \in Nat \ {0}
         /\ Cardinality(S \ {x}) = Cardinality(S) - 1
         /\ Cardinality(S \ {x}) \in Nat
<1>1. IsFiniteSet(S \ {x}) /\ Cardinality(S \ {x}) = Cardinality(S) - 1
  BY FS_RemoveElement
<1>2. Cardinality(S) \in Nat /\ Cardinality(S) # 0
  BY FS_CardinalityType, FS_EmptySet
<1> QED
  BY <1>1, <1>2

LEMMA AnyIsIn ==
  ASSUME NEW S, S # {}
  PROVE  AnyOf(S) \in S
BY DEF AnyOf

\* There is a function that gives the sums of all subsets.
LEMMA SumsExist ==
  ASSUME NEW S, IsFiniteSet(S), NEW f, Weighed(f, S)
  PROVE  \E F : Sums(F, f, S) /\ F \in [SUBSET S -> Nat]
<1> DEFINE G == {n \in Nat : \E F \in [SUBSET S -> Nat] :
                   \A s \in SUBSET S : Cardinality(s) <= n => F[s] = StepOf(F, f, s)}
<1>1. \A s \in SUBSET S : IsFiniteSet(s) /\ Cardinality(s) \in Nat
  BY FS_Subset, FS_CardinalityType
<1>2. \A F \in [SUBSET S -> Nat], s \in SUBSET S : StepOf(F, f, s) \in Nat
  <2> SUFFICES ASSUME NEW F \in [SUBSET S -> Nat], NEW s \in SUBSET S, s # {}
               PROVE  StepOf(F, f, s) \in Nat
    BY DEF StepOf
  <2>1. AnyOf(s) \in S /\ s \ {AnyOf(s)} \in SUBSET S
    BY AnyIsIn
  <2>2. f[AnyOf(s)] \in Nat /\ F[s \ {AnyOf(s)}] \in Nat
    BY <2>1 DEF Weighed
  <2> QED
    BY <2>2 DEF StepOf
<1>3. 0 \in G
  <2> DEFINE F == [s \in SUBSET S |-> 0]
  <2>1. F \in [SUBSET S -> Nat]
    OBVIOUS
  <2>2. ASSUME NEW s \in SUBSET S, Cardinality(s) <= 0 PROVE F[s] = StepOf(F, f, s)
    <3>1. s = {}
      BY <1>1, <2>2, FS_EmptySet
    <3> QED
      BY <3>1 DEF StepOf
  <2> HIDE DEF F
  <2> QED
    BY <2>1, <2>2
<1>4. ASSUME NEW n \in Nat, n \in G PROVE n + 1 \in G
  <2>1. PICK F \in [SUBSET S -> Nat] :
               \A s \in SUBSET S : Cardinality(s) <= n => F[s] = StepOf(F, f, s)
    BY <1>4
  <2> DEFINE E == [s \in SUBSET S |-> IF Cardinality(s) <= n THEN F[s] ELSE StepOf(F, f, s)]
  <2>2. E \in [SUBSET S -> Nat]
    BY <1>2
  <2>3. ASSUME NEW s \in SUBSET S, Cardinality(s) <= n + 1 PROVE E[s] = StepOf(E, f, s)
    <3>1. E[s] = StepOf(F, f, s)
      BY <2>1
    <3>2. CASE s = {}
      BY <3>1, <3>2 DEF StepOf
    <3>3. CASE s # {}
      <4>1. AnyOf(s) \in s /\ s \ {AnyOf(s)} \in SUBSET S
        BY <3>3, AnyIsIn
      <4>2. Cardinality(s \ {AnyOf(s)}) <= n
        BY <1>1, <2>3, <4>1, OneLess
      <4>3. E[s \ {AnyOf(s)}] = F[s \ {AnyOf(s)}]
        BY <4>1, <4>2
      <4> HIDE DEF E
      <4> QED
        BY <3>1, <4>3 DEF StepOf
    <3> QED
      BY <3>2, <3>3
  <2> HIDE DEF E
  <2>4. \A s \in SUBSET S : Cardinality(s) <= n + 1 => E[s] = StepOf(E, f, s)
    BY <2>3
  <2> QED
    BY <2>2, <2>4
<1>5. Cardinality(S) \in G
  <2>1. Cardinality(S) \in Nat
    BY FS_CardinalityType
  <2> HIDE DEF G
  <2> QED
    BY <1>3, <1>4, <2>1, UpFromZero
<1>6. PICK F \in [SUBSET S -> Nat] :
             \A s \in SUBSET S : Cardinality(s) <= Cardinality(S) => F[s] = StepOf(F, f, s)
  BY <1>5
<1>7. \A s \in SUBSET S : F[s] = StepOf(F, f, s)
  BY <1>6, FS_Subset
<1>8. F = [s \in SUBSET S |-> F[s]]
  OBVIOUS
<1>9. Sums(F, f, S)
  <2>1. [s \in SUBSET S |-> F[s]] = [s \in SUBSET S |-> StepOf(F, f, s)]
    BY <1>7
  <2> QED
    BY <1>8, <2>1 DEF Sums
<1> QED
  BY <1>9

\* Such functions agree where both are defined.
LEMMA SumsAgree ==
  ASSUME NEW S, NEW T, IsFiniteSet(S), IsFiniteSet(T), NEW f,
         NEW E, Sums(E, f, S), NEW F, Sums(F, f, T)
  PROVE  \A s \in SUBSET (S \cap T) : E[s] = F[s]
<1> DEFINE G == {n \in Nat : \A s \in SUBSET (S \cap T) : Cardinality(s) = n => E[s] = F[s]}
<1>1. \A s \in SUBSET (S \cap T) : IsFiniteSet(s) /\ Cardinality(s) \in Nat
  BY FS_Subset, FS_CardinalityType
<1>2. \A s \in SUBSET (S \cap T) : E[s] = StepOf(E, f, s) /\ F[s] = StepOf(F, f, s)
  <2>1. \A s \in SUBSET S : E[s] = StepOf(E, f, s)
    BY Zenon DEF Sums
  <2>2. \A s \in SUBSET T : F[s] = StepOf(F, f, s)
    BY Zenon DEF Sums
  <2> QED
    BY <2>1, <2>2
<1>3. 0 \in G
  <2>1. \A s \in SUBSET (S \cap T) : Cardinality(s) = 0 => E[s] = F[s]
    BY <1>1, <1>2, FS_EmptySet DEF StepOf
  <2> QED
    BY <2>1
<1>4. ASSUME NEW n \in Nat, n \in G PROVE n + 1 \in G
  <2> SUFFICES ASSUME NEW s \in SUBSET (S \cap T), Cardinality(s) = n + 1
               PROVE  E[s] = F[s]
    OBVIOUS
  <2>1. s # {}
    BY FS_EmptySet
  <2>2. AnyOf(s) \in s /\ s \ {AnyOf(s)} \in SUBSET (S \cap T)
    BY <2>1, AnyIsIn
  <2>3. Cardinality(s \ {AnyOf(s)}) = n
    BY <1>1, <2>2, OneLess
  <2>4. E[s \ {AnyOf(s)}] = F[s \ {AnyOf(s)}]
    BY <1>4, <2>2, <2>3
  <2> QED
    BY <1>2, <2>4 DEF StepOf
<1> HIDE DEF G
<1>5. \A n \in Nat : n \in G
  BY <1>3, <1>4, UpFromZero
<1> QED
  BY <1>1, <1>5 DEF G

\* The sum is a number, nothing for the empty set, and otherwise what one
\* element counts and the sum of the others.
LEMMA SumUnfolds ==
  ASSUME NEW S, IsFiniteSet(S), NEW f, Weighed(f, S)
  PROVE  /\ Number(f, S) \in Nat
         /\ S = {} => Number(f, S) = 0
         /\ S # {} => Number(f, S) = f[AnyOf(S)] + Number(f, S \ {AnyOf(S)})
<1>1. ASSUME NEW T, IsFiniteSet(T), Weighed(f, T)
      PROVE  \E F : Sums(F, f, T) /\ Number(f, T) = F[T] /\ Number(f, T) \in Nat
  <2> DEFINE F == CHOOSE F : Sums(F, f, T)
  <2>1. PICK E : Sums(E, f, T) /\ E \in [SUBSET T -> Nat]
    BY <1>1, SumsExist
  <2>2. Sums(F, f, T)
    BY <2>1
  <2>3. Number(f, T) = F[T]
    BY DEF Number, MapThenSumSet, MapThenFoldSet, Sums, StepOf, AnyOf
  <2>4. F[T] = E[T]
    <3> HIDE DEF F
    <3> QED
      BY <1>1, <2>1, <2>2, SumsAgree
  <2>5. Number(f, T) \in Nat
    BY <2>1, <2>3, <2>4
  <2> HIDE DEF F
  <2> QED
    BY <2>2, <2>3, <2>5
<1>2. PICK F : Sums(F, f, S) /\ Number(f, S) = F[S] /\ Number(f, S) \in Nat
  BY <1>1
<1>3. F[S] = StepOf(F, f, S)
  BY <1>2, Zenon DEF Sums
<1>4. CASE S = {}
  BY <1>2, <1>3, <1>4 DEF StepOf
<1>5. CASE S # {}
  <2> DEFINE T == S \ {AnyOf(S)}
  <2>1. IsFiniteSet(T) /\ Weighed(f, T) /\ T \in SUBSET (S \cap T)
    BY FS_RemoveElement DEF Weighed
  <2> HIDE DEF T
  <2>2. PICK E : Sums(E, f, T) /\ Number(f, T) = E[T]
    BY <1>1, <2>1
  <2>3. F[T] = E[T]
    BY <1>2, <2>1, <2>2, SumsAgree
  <2> QED
    BY <1>2, <1>3, <1>5, <2>2, <2>3 DEF StepOf, T
<1> QED
  BY <1>2, <1>4, <1>5

\* The sum may be taken beginning with any element.
LEMMA SumWithout ==
  ASSUME NEW S, IsFiniteSet(S), NEW f, Weighed(f, S), NEW x \in S
  PROVE  Number(f, S) = f[x] + Number(f, S \ {x})
<1> DEFINE G == {n \in Nat : \A T \in SUBSET S : Cardinality(T) = n =>
                   \A y \in T : Number(f, T) = f[y] + Number(f, T \ {y})}
<1>1. \A T \in SUBSET S : IsFiniteSet(T) /\ Cardinality(T) \in Nat /\ Weighed(f, T)
  BY FS_Subset, FS_CardinalityType DEF Weighed
<1>2. 0 \in G
  <2>1. \A T \in SUBSET S : Cardinality(T) = 0 => T = {}
    BY <1>1, FS_EmptySet
  <2> QED
    BY <2>1
<1>3. ASSUME NEW n \in Nat, n \in G PROVE n + 1 \in G
  <2> SUFFICES ASSUME NEW T \in SUBSET S, Cardinality(T) = n + 1, NEW y \in T
               PROVE  Number(f, T) = f[y] + Number(f, T \ {y})
    OBVIOUS
  <2> DEFINE z == AnyOf(T)
  <2>1. z \in T
    BY AnyIsIn
  <2>2. Number(f, T) = f[z] + Number(f, T \ {z})
    BY <1>1, SumUnfolds
  <2> HIDE DEF z
  <2>3. CASE y = z
    BY <2>2, <2>3
  <2>4. CASE y # z
    <3>1. /\ T \ {z} \in SUBSET S /\ Cardinality(T \ {z}) = n /\ y \in T \ {z}
          /\ T \ {y} \in SUBSET S /\ Cardinality(T \ {y}) = n /\ z \in T \ {y}
      BY <1>1, <2>1, <2>4, OneLess
    <3>2. Number(f, T \ {z}) = f[y] + Number(f, (T \ {z}) \ {y})
      BY <1>3, <3>1
    <3>3. Number(f, T \ {y}) = f[z] + Number(f, (T \ {y}) \ {z})
      BY <1>3, <3>1
    <3>4. (T \ {z}) \ {y} = (T \ {y}) \ {z} /\ (T \ {z}) \ {y} \in SUBSET S
      OBVIOUS
    <3> DEFINE rest == Number(f, (T \ {z}) \ {y})
    <3>5. rest \in Nat /\ f[y] \in Nat /\ f[z] \in Nat
      BY <1>1, <2>1, <3>4, SumUnfolds DEF Weighed
    <3>6. Number(f, T) = f[z] + (f[y] + rest)
      BY <2>2, <3>2
    <3>7. Number(f, T \ {y}) = f[z] + rest
      BY <3>3, <3>4
    <3> HIDE DEF rest
    <3> QED
      BY <3>5, <3>6, <3>7
  <2> QED
    BY <2>3, <2>4
<1> HIDE DEF G
<1>4. Cardinality(S) \in G
  BY <1>2, <1>3, FS_CardinalityType, UpFromZero
<1> QED
  BY <1>4 DEF G

\* Sets are made by putting one element after the other.
LEMMA ByPutting ==
  ASSUME NEW S, IsFiniteSet(S), NEW G, {} \in G,
         \A T \in SUBSET S : \A x \in S \ T : T \in G => T \cup {x} \in G
  PROVE  S \in G
<1> DEFINE N == {n \in Nat : \A T \in SUBSET S : Cardinality(T) = n => T \in G}
<1>1. \A T \in SUBSET S : IsFiniteSet(T) /\ Cardinality(T) \in Nat
  BY FS_Subset, FS_CardinalityType
<1>2. 0 \in N
  <2>1. \A T \in SUBSET S : Cardinality(T) = 0 => T = {}
    BY <1>1, FS_EmptySet
  <2> QED
    BY <2>1
<1>3. ASSUME NEW n \in Nat, n \in N PROVE n + 1 \in N
  <2> SUFFICES ASSUME NEW T \in SUBSET S, Cardinality(T) = n + 1 PROVE T \in G
    OBVIOUS
  <2>1. PICK x \in T : TRUE
    BY <1>1, FS_EmptySet
  <2>2. T \ {x} \in SUBSET S /\ Cardinality(T \ {x}) = n
    BY <1>1, OneLess
  <2>3. T \ {x} \in G /\ x \in S \ (T \ {x}) /\ (T \ {x}) \cup {x} = T
    BY <1>3, <2>2
  <2> QED
    BY <2>2, <2>3
<1> HIDE DEF N
<1>4. Cardinality(S) \in N
  BY <1>2, <1>3, FS_CardinalityType, UpFromZero
<1> QED
  BY <1>4 DEF N

\* The number with one element more.
LEMMA NumberPut ==
  ASSUME NEW T, IsFiniteSet(T), NEW x, x \notin T, NEW f, Weighed(f, T \cup {x})
  PROVE  /\ Number(f, T) \in Nat
         /\ Number(f, T \cup {x}) = f[x] + Number(f, T)
<1>1. IsFiniteSet(T \cup {x}) /\ (T \cup {x}) \ {x} = T /\ Weighed(f, T)
  BY FS_AddElement DEF Weighed
<1>2. Number(f, T) \in Nat
  BY <1>1, SumUnfolds
<1> DEFINE S == T \cup {x}
<1>3. IsFiniteSet(S) /\ Weighed(f, S) /\ x \in S /\ S \ {x} = T
  BY <1>1
<1> HIDE DEF S
<1>4. Number(f, S) = f[x] + Number(f, S \ {x})
  BY <1>3, SumWithout
<1> QED
  BY <1>2, <1>3, <1>4 DEF S

LEMMA NumberOfNone ==
  ASSUME NEW f
  PROVE  Number(f, {}) = 0
BY SumUnfolds, FS_EmptySet DEF Weighed

\* The numbers in two sets that have nothing in common add up.
LEMMA NumberOfBoth ==
  ASSUME NEW A, IsFiniteSet(A), NEW B, IsFiniteSet(B), A \cap B = {},
         NEW f, Weighed(f, A \cup B)
  PROVE  /\ Number(f, A) \in Nat /\ Number(f, B) \in Nat
         /\ Number(f, A \cup B) = Number(f, A) + Number(f, B)
<1> DEFINE G == {T \in SUBSET B : Number(f, A \cup T) = Number(f, A) + Number(f, T)}
<1>1. Weighed(f, A) /\ Weighed(f, B) /\ Number(f, A) \in Nat /\ Number(f, B) \in Nat
  BY SumUnfolds DEF Weighed
<1>2. {} \in G
  BY <1>1, NumberOfNone
<1>3. ASSUME NEW T \in SUBSET B, NEW x \in B \ T, T \in G PROVE T \cup {x} \in G
  <2>1. IsFiniteSet(T) /\ IsFiniteSet(A \cup T) /\ x \notin A \cup T
    BY FS_Subset, FS_Union
  <2>2. Weighed(f, T \cup {x}) /\ Weighed(f, (A \cup T) \cup {x}) /\ f[x] \in Nat
    BY DEF Weighed
  <2>3. Number(f, T) \in Nat /\ Number(f, T \cup {x}) = f[x] + Number(f, T)
    BY <2>1, <2>2, NumberPut
  <2>4. Number(f, (A \cup T) \cup {x}) = f[x] + Number(f, A \cup T)
    BY <2>1, <2>2, NumberPut
  <2>5. A \cup (T \cup {x}) = (A \cup T) \cup {x}
    OBVIOUS
  <2> QED
    BY <1>1, <1>3, <2>2, <2>3, <2>4, <2>5
<1> HIDE DEF G
<1>4. B \in G
  BY <1>2, <1>3, ByPutting
<1> QED
  BY <1>1, <1>4 DEF G

LEMMA NumberOfMore ==
  ASSUME NEW B, IsFiniteSet(B), NEW A \in SUBSET B, NEW f, Weighed(f, B)
  PROVE  Number(f, A) \in Nat /\ Number(f, B) \in Nat /\ Number(f, A) <= Number(f, B)
<1>1. IsFiniteSet(A) /\ IsFiniteSet(B \ A) /\ A \cap (B \ A) = {} /\ A \cup (B \ A) = B
  BY FS_Subset
<1>2. /\ Number(f, A) \in Nat /\ Number(f, B \ A) \in Nat
      /\ Number(f, B) = Number(f, A) + Number(f, B \ A)
  BY <1>1, NumberOfBoth
<1> QED
  BY <1>2

\* One sample more of x.
LEMMA NumberAfter ==
  ASSUME NEW S, IsFiniteSet(S), NEW f, Weighed(f, S), NEW x, x \in DOMAIN f,
         S \subseteq DOMAIN f
  PROVE  LET g == [f EXCEPT ![x] = @ + 1] IN
           /\ Weighed(g, S)
           /\ Number(g, S) = Number(f, S) + (IF x \in S THEN 1 ELSE 0)
<1> DEFINE g == [f EXCEPT ![x] = @ + 1]
           G == {T \in SUBSET S : Number(g, T) = Number(f, T) + (IF x \in T THEN 1 ELSE 0)}
<1>1. \A v \in S : g[v] = f[v] + (IF x = v THEN 1 ELSE 0) /\ f[v] \in Nat /\ g[v] \in Nat
  BY DEF Weighed
<1>2. Weighed(g, S)
  BY <1>1 DEF Weighed
<1> HIDE DEF g
<1>3. {} \in G
  BY NumberOfNone
<1>4. ASSUME NEW T \in SUBSET S, NEW y \in S \ T, T \in G PROVE T \cup {y} \in G
  <2>1. IsFiniteSet(T) /\ Weighed(f, T \cup {y}) /\ Weighed(g, T \cup {y})
    BY <1>2, FS_Subset DEF Weighed
  <2>2. Number(f, T) \in Nat /\ Number(f, T \cup {y}) = f[y] + Number(f, T)
    BY <2>1, NumberPut
  <2>3. Number(g, T \cup {y}) = g[y] + Number(g, T)
    BY <2>1, NumberPut
  <2>4. Number(g, T) = Number(f, T) + (IF x \in T THEN 1 ELSE 0)
    BY <1>4
  <2>5. Number(g, T \cup {y}) = Number(f, T \cup {y}) + (IF x \in T \cup {y} THEN 1 ELSE 0)
    BY <1>1, <2>2, <2>3, <2>4
  <2> QED
    BY <2>5
<1> HIDE DEF G
<1>5. S \in G
  BY <1>3, <1>4, ByPutting
<1> QED
  BY <1>2, <1>5 DEF G, g

LEMMA NumberOfZeros ==
  ASSUME NEW S, IsFiniteSet(S), NEW f, \A v \in S : f[v] = 0
  PROVE  Number(f, S) = 0
<1> DEFINE G == {T \in SUBSET S : Number(f, T) = 0}
<1>1. {} \in G
  BY NumberOfNone
<1>2. ASSUME NEW T \in SUBSET S, NEW x \in S \ T, T \in G PROVE T \cup {x} \in G
  <2>1. IsFiniteSet(T) /\ Weighed(f, T \cup {x})
    BY FS_Subset DEF Weighed
  <2>2. Number(f, T \cup {x}) = f[x] + Number(f, T)
    BY <2>1, NumberPut
  <2> QED
    BY <1>2, <2>2
<1> HIDE DEF G
<1>3. S \in G
  BY <1>1, <1>2, ByPutting
<1> QED
  BY <1>3 DEF G
-------------------------------------------------------------------------------
(* Every bucket counts the samples that belong in it.                         *)
In(b) == {v \in Latencies : Bucket(v) = b}
UpTo(b) == {v \in Latencies : Bucket(v) <= b}

HistInv ==
  /\ samples \in [Latencies -> Nat]
  /\ e2e_latency.count = Number(samples, Latencies)
  /\ e2e_latency.buckets = [b \in Buckets |-> Number(samples, In(b))]

LEMMA BucketsAre ==
  /\ NUM_BUCKETS \in Nat \ {0}
  /\ 0 \in Buckets /\ NUM_BUCKETS - 1 \in Buckets
  /\ \A v \in Latencies : v \in Nat /\ Bucket(v) \in Buckets
                          /\ Bucket(v) = Min({v, NUM_BUCKETS - 1})
<1>1. NUM_BUCKETS \in Nat \ {0} /\ Latencies \subseteq Nat
  BY DemonstrationAssumption DEF DemonstrationAssumption
<1>2. ASSUME NEW v \in Latencies PROVE Bucket(v) = Min({v, NUM_BUCKETS - 1})
  <2> DEFINE S == {v, NUM_BUCKETS - 1}
  <2>1. v \in Nat /\ S \in SUBSET Nat /\ S # {}
    BY <1>1
  <2>2. Min(S) \in S /\ \A y \in S : Min(S) <= y
    BY <2>1, MinIsLeast
  <2> QED
    BY <1>1, <2>1, <2>2 DEF Bucket
<1> QED
  BY <1>1, <1>2 DEF Buckets, Bucket

LEMMA InitHistInv ==
  ASSUME IsFiniteSet(Latencies), Init
  PROVE  HistInv
<1>1. samples \in [Latencies -> Nat] /\ \A v \in Latencies : samples[v] = 0
  BY DEF Init
<1>2. \A S \in SUBSET Latencies : Number(samples, S) = 0
  BY <1>1, FS_Subset, NumberOfZeros
<1>3. e2e_latency.count = 0 /\ e2e_latency.buckets = [b \in Buckets |-> 0]
  BY DEF Init, NoSamples
<1> QED
  BY <1>1, <1>2, <1>3 DEF HistInv, In

\* record() puts a sample where it belongs.
LEMMA StepHistInv ==
  ASSUME IsFiniteSet(Latencies), HistInv, [Next]_vars
  PROVE  HistInv'
<1>1. CASE UNCHANGED <<samples, e2e_latency>>
  BY <1>1 DEF HistInv, In
<1>2. ASSUME NEW q \in Quotes, NEW cycles \in Latencies, Turn(q, cycles)
      PROVE  HistInv'
  <2>1. /\ samples' = [samples EXCEPT ![cycles] = @ + 1]
        /\ e2e_latency' = Recorded(e2e_latency, cycles)
    BY <1>2 DEF Turn
  <2>2. samples \in [Latencies -> Nat] /\ samples' \in [Latencies -> Nat]
    BY <2>1 DEF HistInv
  <2>3. \A S \in SUBSET Latencies :
          Number(samples', S) = Number(samples, S) + (IF cycles \in S THEN 1 ELSE 0)
    <3> SUFFICES ASSUME NEW S \in SUBSET Latencies
                 PROVE  Number(samples', S) = Number(samples, S) + (IF cycles \in S THEN 1 ELSE 0)
      OBVIOUS
    <3>1. IsFiniteSet(S) /\ Weighed(samples, S) /\ S \subseteq DOMAIN samples
          /\ cycles \in DOMAIN samples
      BY <2>2, FS_Subset DEF Weighed
    <3> QED
      BY <2>1, <3>1, NumberAfter
  <2>4. e2e_latency'.count = Number(samples', Latencies)
    BY <2>1, <2>3 DEF Recorded, HistInv
  <2>5. e2e_latency'.buckets = [b \in Buckets |-> Number(samples', In(b))]
    <3> DEFINE old == [b \in Buckets |-> Number(samples, In(b))]
               at == Bucket(cycles)
    <3>1. e2e_latency'.buckets = [old EXCEPT ![at] = @ + 1]
      BY <2>1 DEF Recorded, HistInv
    <3>2. at \in Buckets
      BY BucketsAre
    <3>3. \A b \in Buckets : Number(samples', In(b)) = Number(samples, In(b)) + (IF b = at THEN 1 ELSE 0)
      <4>1. \A b \in Buckets : In(b) \in SUBSET Latencies /\ (cycles \in In(b) <=> b = at)
        BY DEF In
      <4> QED
        BY <2>3, <4>1
    <3>4. \A b \in Buckets : Number(samples, In(b)) \in Nat
      <4>1. \A b \in Buckets : IsFiniteSet(In(b)) /\ Weighed(samples, In(b))
        BY <2>2, FS_Subset DEF In, Weighed
      <4> QED
        BY <4>1, SumUnfolds
    <3> HIDE DEF at
    <3>5. \A b \in Buckets : [old EXCEPT ![at] = @ + 1][b] = Number(samples', In(b))
      BY <3>2, <3>3, <3>4
    <3>6. [old EXCEPT ![at] = @ + 1] = [b \in Buckets |-> [old EXCEPT ![at] = @ + 1][b]]
      OBVIOUS
    <3> QED
      BY <3>1, <3>5, <3>6
  <2>6. In(0)' = In(0) /\ \A b : In(b)' = In(b)
    BY DEF In
  <2> QED
    BY <2>2, <2>4, <2>5, <2>6 DEF HistInv
<1> QED
  BY <1>1, <1>2 DEF Next, Report, Signal, vars

\* What percentile() adds up to a bucket are the samples up to it.
LEMMA Cumulated ==
  ASSUME IsFiniteSet(Latencies), HistInv, NEW b \in Buckets
  PROVE  Number(e2e_latency.buckets, 0 .. b) = Number(samples, UpTo(b))
<1> DEFINE h == e2e_latency.buckets
           G == {n \in Nat : n \in Buckets => Number(h, 0 .. n) = Number(samples, UpTo(n))}
<1>0. \A v \in Latencies : Bucket(v) \in Nat
  <2>1. \A v \in Latencies : Bucket(v) \in Buckets
    BY BucketsAre
  <2> QED
    BY <2>1, BucketsAre DEF Buckets
<1>1. \A S \in SUBSET Latencies : IsFiniteSet(S) /\ Weighed(samples, S) /\ Number(samples, S) \in Nat
  <2>1. \A S \in SUBSET Latencies : IsFiniteSet(S) /\ Weighed(samples, S)
    BY FS_Subset DEF HistInv, Weighed
  <2> QED
    BY <2>1, SumUnfolds
<1>2. \A n \in Buckets : n \in Nat /\ h[n] = Number(samples, In(n)) /\ h[n] \in Nat
  BY <1>1, BucketsAre DEF HistInv, In, Buckets
<1>3. 0 \in G
  <2>1. UpTo(0) = In(0) /\ 0 \in Buckets
    <3>1. \A v \in Latencies : Bucket(v) <= 0 <=> Bucket(v) = 0
      BY <1>0
    <3> QED
      BY <3>1, BucketsAre DEF UpTo, In
  <2>2. 0 .. 0 = {} \cup {0} /\ IsFiniteSet({}) /\ Weighed(h, {} \cup {0})
    BY <1>2, <2>1, FS_EmptySet DEF Weighed
  <2>3. Number(h, 0 .. 0) = h[0] + Number(h, {})
    BY <2>2, NumberPut
  <2> QED
    BY <1>2, <2>1, <2>3, NumberOfNone
<1>4. ASSUME NEW n \in Nat, n \in G PROVE n + 1 \in G
  <2> SUFFICES ASSUME n + 1 \in Buckets
               PROVE  Number(h, 0 .. n + 1) = Number(samples, UpTo(n + 1))
    OBVIOUS
  <2>1. n \in Buckets /\ 0 .. n \subseteq Buckets
    BY BucketsAre DEF Buckets
  <2>2. 0 .. n + 1 = (0 .. n) \cup {n + 1} /\ n + 1 \notin 0 .. n /\ IsFiniteSet(0 .. n)
    BY FS_Interval
  <2>3. Weighed(h, (0 .. n) \cup {n + 1})
    BY <1>2, <2>1 DEF Weighed
  <2>4. Number(h, 0 .. n + 1) = h[n + 1] + Number(h, 0 .. n)
    BY <2>2, <2>3, NumberPut
  <2>5. /\ UpTo(n + 1) = UpTo(n) \cup In(n + 1) /\ UpTo(n) \cap In(n + 1) = {}
        /\ UpTo(n) \in SUBSET Latencies /\ In(n + 1) \in SUBSET Latencies
        /\ UpTo(n) \cup In(n + 1) \in SUBSET Latencies
    <3>1. \A v \in Latencies : /\ Bucket(v) <= n + 1 <=> Bucket(v) <= n \/ Bucket(v) = n + 1
                               /\ ~ (Bucket(v) <= n /\ Bucket(v) = n + 1)
      BY <1>0
    <3> QED
      BY <3>1 DEF UpTo, In
  <2>6. Number(samples, UpTo(n + 1)) = Number(samples, UpTo(n)) + Number(samples, In(n + 1))
    BY <1>1, <2>5, NumberOfBoth
  <2>7. Number(h, 0 .. n) = Number(samples, UpTo(n))
    BY <1>4, <2>1
  <2> QED
    BY <1>1, <1>2, <2>4, <2>5, <2>6, <2>7
<1> HIDE DEF G
<1>5. b \in G
  BY <1>2, <1>3, <1>4, UpFromZero
<1> QED
  BY <1>5 DEF G

\* A set of numbers that is finite and not empty has a greatest one.
LEMMA GreatestOfFinite ==
  ASSUME NEW S \in SUBSET Nat, IsFiniteSet(S), S # {}
  PROVE  \E x \in S : \A y \in S : y <= x
<1> DEFINE G == {T \in SUBSET S : T # {} => \E x \in T : \A y \in T : y <= x}
<1>1. {} \in G
  OBVIOUS
<1>2. ASSUME NEW T \in SUBSET S, NEW x \in S \ T, T \in G PROVE T \cup {x} \in G
  <2>1. CASE T = {}
    BY <2>1
  <2>2. CASE T # {}
    <3>1. PICK y \in T : \A z \in T : z <= y
      BY <1>2, <2>2
    <3>2. x \in Nat /\ y \in Nat /\ \A z \in T : z \in Nat
      OBVIOUS
    <3>3. \E w \in T \cup {x} : \A z \in T \cup {x} : z <= w
      <4>1. CASE x <= y
        BY <3>1, <4>1
      <4>2. CASE ~ x <= y
        <5>1. \A z \in T \cup {x} : z <= x
          BY <3>1, <3>2, <4>2
        <5> QED
          BY <5>1
      <4> QED
        BY <4>1, <4>2
    <3> QED
      BY <3>3
  <2> QED
    BY <2>1, <2>2
<1> HIDE DEF G
<1>3. S \in G
  BY <1>1, <1>2, ByPutting
<1> QED
  BY <1>3 DEF G

\* The target-th sample is the first with so many up to it, and percentile()
\* stops at the bucket it is in.
LEMMA StopsAtSample ==
  ASSUME IsFiniteSet(Latencies), HistInv, NEW p,
         NEW t \in Nat \ {0}, t = (e2e_latency.count * p[1]) \div p[2],
         t <= Number(samples, Latencies)
  PROVE  /\ Sorted(samples, t - 1) \in Latencies
         /\ Percentile(e2e_latency, p) = Bucket(Sorted(samples, t - 1))
<1> DEFINE N(S) == Number(samples, S)
           Below(v) == {w \in Latencies : w <= v}
           late == {v \in Latencies : N(Below(v)) > t - 1}
           v0 == Min(late)
           reached == {b \in Buckets : Number(e2e_latency.buckets, 0 .. b) >= t}
                        \cup {NUM_BUCKETS - 1}
<1>1. /\ Latencies \in SUBSET Nat
      /\ \A v \in Latencies : Bucket(v) \in Buckets
      /\ Buckets \in SUBSET Nat
      /\ NUM_BUCKETS - 1 \in Buckets
      /\ \A b \in Buckets : b <= NUM_BUCKETS - 1
  <2>1. NUM_BUCKETS \in Nat \ {0} /\ Latencies \in SUBSET Nat
    BY BucketsAre
  <2>2. \A v \in Latencies : Bucket(v) \in Buckets
    BY BucketsAre
  <2> QED
    BY <2>1, <2>2 DEF Buckets
<1>2. \A S \in SUBSET Latencies :
        /\ IsFiniteSet(S) /\ N(S) \in Nat
        /\ \A T \in SUBSET S : N(T) <= N(S)
  <2>1. \A S \in SUBSET Latencies : IsFiniteSet(S) /\ Weighed(samples, S)
    BY FS_Subset DEF HistInv, Weighed
  <2> QED
    BY <2>1, NumberOfMore
<1>3. \A v, w \in Latencies : v <= w => Bucket(v) <= Bucket(w)
  BY <1>1, BucketsAre DEF Bucket
<1>4. \A v \in Latencies : Below(v) \in SUBSET Latencies
  OBVIOUS
<1>6. \A b \in Buckets : N(UpTo(b)) >= t => \E v \in late : Bucket(v) <= b
  <2> SUFFICES ASSUME NEW b \in Buckets, N(UpTo(b)) >= t
               PROVE  \E v \in late : Bucket(v) <= b
    OBVIOUS
  <2>1. UpTo(b) \in SUBSET Latencies
    BY DEF UpTo
  <2>2. UpTo(b) # {}
    <3> SUFFICES ASSUME UpTo(b) = {} PROVE FALSE
      OBVIOUS
    <3>1. Number(samples, UpTo(b)) = 0
      BY NumberOfNone
    <3>2. 0 >= t
      BY <3>1
    <3> QED
      BY <3>2
  <2>3. PICK v \in UpTo(b) : \A w \in UpTo(b) : w <= v
    BY <1>1, <1>2, <2>1, <2>2, GreatestOfFinite
  <2>4. v \in Latencies /\ Bucket(v) <= b /\ UpTo(b) \in SUBSET Below(v)
    BY <2>1, <2>3 DEF UpTo
  <2>5. N(UpTo(b)) <= N(Below(v)) /\ N(UpTo(b)) \in Nat /\ N(Below(v)) \in Nat
    BY <1>2, <2>1, <2>4
  <2>6. N(Below(v)) > t - 1
    BY <2>5
  <2> QED
    BY <2>4, <2>6
<1>7. late # {} /\ late \in SUBSET Nat
  <2>1. UpTo(NUM_BUCKETS - 1) = Latencies
    BY <1>1 DEF UpTo
  <2> QED
    BY <1>1, <1>6, <2>1
<1>8. v0 \in late /\ \A v \in late : v0 <= v
  BY <1>7, MinIsLeast
<1>9. v0 \in Latencies /\ Bucket(v0) \in Buckets
  BY <1>1, <1>8
<1>10. N(UpTo(Bucket(v0))) >= t
  <2>1. Below(v0) \in SUBSET UpTo(Bucket(v0)) /\ UpTo(Bucket(v0)) \in SUBSET Latencies
    BY <1>3, <1>9 DEF UpTo
  <2>2. N(Below(v0)) <= N(UpTo(Bucket(v0))) /\ N(Below(v0)) \in Nat /\ N(UpTo(Bucket(v0))) \in Nat
    BY <1>2, <1>4, <1>9, <2>1
  <2>3. N(Below(v0)) > t - 1
    BY <1>8
  <2> QED
    BY <2>2, <2>3
<1>11. \A b \in Buckets : Number(e2e_latency.buckets, 0 .. b) = N(UpTo(b))
  BY Cumulated
<1>12. Bucket(v0) \in reached
  BY <1>9, <1>10, <1>11
<1>13. \A b \in reached : Bucket(v0) <= b
  <2>1. \A b \in Buckets : N(UpTo(b)) >= t => Bucket(v0) <= b
    <3> SUFFICES ASSUME NEW b \in Buckets, N(UpTo(b)) >= t PROVE Bucket(v0) <= b
      OBVIOUS
    <3>1. PICK v \in late : Bucket(v) <= b
      BY <1>6
    <3>2. v \in Latencies /\ v0 <= v /\ Bucket(v0) <= Bucket(v)
      BY <1>3, <1>8, <1>9
    <3>3. Bucket(v0) \in Nat /\ Bucket(v) \in Nat /\ b \in Nat
      BY <1>1, <1>9, <3>2
    <3> QED
      BY <3>1, <3>2, <3>3
  <2> QED
    BY <1>1, <1>9, <1>11, <2>1
<1>14. reached \in SUBSET Nat
  BY <1>1
<1>15. Min(reached) = Bucket(v0)
  <2>1. Min(reached) \in reached /\ \A b \in reached : Min(reached) <= b
    BY <1>12, <1>14, MinIsLeast
  <2>2. Min(reached) <= Bucket(v0) /\ Bucket(v0) <= Min(reached)
    BY <1>12, <1>13, <2>1
  <2>3. Min(reached) \in Nat /\ Bucket(v0) \in Nat
    BY <1>12, <1>14, <2>1
  <2> QED
    BY <2>2, <2>3
<1>16. Sorted(samples, t - 1) = v0
  <2>1. DOMAIN samples = Latencies
    BY DEF HistInv
  <2> QED
    BY <2>1 DEF Sorted
<1>17. Percentile(e2e_latency, p) = Min(reached)
  <2>1. e2e_latency.count # 0
    <3>1. e2e_latency.count = N(Latencies) /\ N(Latencies) \in Nat
      BY <1>2 DEF HistInv
    <3> QED
      BY <3>1
  <2> QED
    BY <2>1 DEF Percentile, Number
<1> QED
  BY <1>9, <1>15, <1>16, <1>17

\* It stops at once if it looks for no sample.
LEMMA StopsAtFirst ==
  ASSUME IsFiniteSet(Latencies), HistInv, NEW p,
         e2e_latency.count # 0, (e2e_latency.count * p[1]) \div p[2] = 0
  PROVE  Percentile(e2e_latency, p) = 0
<1> DEFINE reached == {b \in Buckets : Number(e2e_latency.buckets, 0 .. b) >= 0}
                        \cup {NUM_BUCKETS - 1}
<1>1. Percentile(e2e_latency, p) = Min(reached)
  BY DEF Percentile, Number
<1>2. IsFiniteSet(UpTo(0)) /\ Weighed(samples, UpTo(0))
  BY FS_Subset DEF UpTo, HistInv, Weighed
<1>3. Number(samples, UpTo(0)) \in Nat
  BY <1>2, SumUnfolds
<1>4. Number(e2e_latency.buckets, 0 .. 0) \in Nat
  BY <1>3, Cumulated, BucketsAre
<1>5. reached \in SUBSET Nat /\ 0 \in reached
  BY <1>4, BucketsAre DEF Buckets
<1>6. Min(reached) \in reached /\ Min(reached) <= 0
  BY <1>5, MinIsLeast
<1>7. Min(reached) \in Nat
  BY <1>5, <1>6
<1> QED
  BY <1>1, <1>6, <1>7

\* The target is the rank of the other histogram or one more.
Fractions == {<<1, 2>>, <<9, 10>>, <<19, 20>>, <<99, 100>>, <<999, 1000>>}

LEMMA RankAndTarget ==
  ASSUME NEW n \in Nat \ {0}, NEW p \in Fractions
  PROVE  LET rank == ((n - 1) * p[1]) \div p[2]
             target == (n * p[1]) \div p[2]
         IN  /\ rank \in Nat /\ target \in Nat /\ target <= n
             /\ target = rank \/ target = rank + 1
<1>1. CASE p = <<1, 2>>
  BY <1>1
<1>2. CASE p = <<9, 10>>
  BY <1>2
<1>3. CASE p = <<19, 20>>
  BY <1>3
<1>4. CASE p = <<99, 100>>
  BY <1>4
<1>5. CASE p = <<999, 1000>>
  BY <1>5
<1> QED
  BY <1>1, <1>2, <1>3, <1>4, <1>5 DEF Fractions

\* The rank of the other histogram, and the target of this one.
Rank(p) == ((Number(samples, Latencies) - 1) * p[1]) \div p[2]
Target(p) == (Number(samples, Latencies) * p[1]) \div p[2]

LEMMA HistogramsAgree ==
  ASSUME IsFiniteSet(Latencies), HistInv, Number(samples, Latencies) > 0,
         NEW p \in Fractions
  PROVE  \E v \in {IF Rank(p) = 0 THEN 0 ELSE Sorted(samples, Rank(p) - 1),
                   SampledPercentile(samples, p)} :
           Percentile(e2e_latency, p) = Min({v, NUM_BUCKETS - 1})
<1>1. Number(samples, Latencies) \in Nat
  <2>1. Weighed(samples, Latencies)
    BY DEF HistInv, Weighed
  <2> QED
    BY <2>1, SumUnfolds
<1>2. e2e_latency.count = Number(samples, Latencies) /\ DOMAIN samples = Latencies
  BY DEF HistInv
<1>3. /\ Rank(p) \in Nat /\ Target(p) \in Nat /\ Target(p) <= Number(samples, Latencies)
      /\ Target(p) = Rank(p) \/ Target(p) = Rank(p) + 1
  <2> DEFINE n == Number(samples, Latencies)
  <2>1. n \in Nat \ {0}
    BY <1>1
  <2> HIDE DEF n
  <2> QED
    BY <2>1, RankAndTarget DEF Rank, Target, n
<1>4. SampledPercentile(samples, p) = Sorted(samples, Rank(p))
  BY <1>2 DEF SampledPercentile, Rank
<1>5. (e2e_latency.count * p[1]) \div p[2] = Target(p)
  BY <1>2 DEF Target
<1>6. CASE Target(p) = 0
  <2>1. Rank(p) = 0
    BY <1>3, <1>6
  <2>2. Percentile(e2e_latency, p) = 0
    BY <1>2, <1>5, <1>6, StopsAtFirst
  <2>3. Min({0, NUM_BUCKETS - 1}) = 0
    <3>1. {0, NUM_BUCKETS - 1} \in SUBSET Nat
      BY BucketsAre
    <3>2. Min({0, NUM_BUCKETS - 1}) \in {0, NUM_BUCKETS - 1} /\ Min({0, NUM_BUCKETS - 1}) <= 0
      BY <3>1, MinIsLeast
    <3> QED
      BY <3>1, <3>2
  <2> QED
    BY <2>1, <2>2, <2>3
<1>7. CASE Target(p) # 0
  <2>1. /\ Sorted(samples, Target(p) - 1) \in Latencies
        /\ Percentile(e2e_latency, p) = Bucket(Sorted(samples, Target(p) - 1))
    BY <1>3, <1>5, <1>7, StopsAtSample
  <2>2. Percentile(e2e_latency, p) = Min({Sorted(samples, Target(p) - 1), NUM_BUCKETS - 1})
    BY <2>1, BucketsAre
  <2>3. CASE Target(p) = Rank(p)
    BY <1>7, <2>2, <2>3
  <2>4. CASE Target(p) = Rank(p) + 1
    <3>1. Target(p) - 1 = Rank(p)
      BY <1>3, <2>4
    <3> QED
      BY <1>4, <2>2, <3>1
  <2> QED
    BY <1>3, <2>3, <2>4
<1> QED
  BY <1>6, <1>7

(* A percentile read from the buckets is that of the samples, or of the       *)
(* sample one rank below, brought down to the last bucket, for any samples    *)
(* and any number of buckets (latency_tracker.hpp:76-90,                      *)
(* latency_histogram.hpp:44-49).  Cycles are 64-bit numbers, so there are     *)
(* finitely many.                                                             *)
THEOREM PercentilesAlike ==
  ASSUME IsFiniteSet(Latencies)
  PROVE  Spec => []PercentilesAgree
<1>1. HistInv => PercentilesAgree
  <2> DEFINE below(p) == IF Rank(p) = 0 THEN 0 ELSE Sorted(samples, Rank(p) - 1)
             found(p) == {Min({v, NUM_BUCKETS - 1}) : v \in {below(p), SampledPercentile(samples, p)}}
  <2>1. ASSUME HistInv, Number(samples, Latencies) > 0
        PROVE  \A p \in Fractions : Percentile(e2e_latency, p) \in found(p)
    BY <2>1, HistogramsAgree
  <2> QED
    BY <2>1, Zenon DEF PercentilesAgree, Rank, Fractions
<1> QED
  BY <1>1, InitHistInv, StepHistInv, PTL DEF Spec
-------------------------------------------------------------------------------
(* The positions.  A purchase makes a fraction, in lowest terms, of what was  *)
(* paid; sales leave it.                                                      *)

\* In lowest terms a fraction is the same.
LEMMA Divides ==
  ASSUME NEW n \in Int, NEW k \in Nat \ {0}, n % k = 0
  PROVE  n = k * (n \div k) /\ n \div k \in Int
BY SMT

LEMMA FractionIs ==
  ASSUME NEW n \in Int, NEW d \in Nat \ {0}
  PROVE  \E k \in Nat \ {0}, a \in Int, b \in Nat \ {0} :
           Fraction(n, d) = <<a, b>> /\ n = k * a /\ d = k * b
<1> DEFINE S == {j \in 1 .. d : n % j = 0 /\ d % j = 0}
           k == Max(S)
<1>1. 1 \in S
  BY SMT
<1>2. S \in SUBSET Nat /\ S # {} /\ d \in Nat /\ \A x \in S : x <= d
  BY <1>1
<1>3. k \in S
  BY <1>2, MaxIsGreatest
<1> HIDE DEF k
<1>4. k \in 1 .. d /\ n % k = 0 /\ d % k = 0
  BY <1>3
<1>5. k \in Nat \ {0}
  BY <1>4
<1>6. n = k * (n \div k) /\ n \div k \in Int
  BY <1>4, <1>5, Divides
<1>7. d = k * (d \div k) /\ d \div k \in Int
  BY <1>4, <1>5, Divides
<1>8. d \div k \in Nat \ {0}
  <2> DEFINE b == d \div k
  <2>1. d = k * b /\ b \in Int
    BY <1>7
  <2> HIDE DEF b
  <2>2. b > 0
    BY <1>5, <2>1, SMT
  <2> QED
    BY <2>1, <2>2 DEF b
<1>9. Fraction(n, d) = <<n \div k, d \div k>>
  BY DEF Fraction, k
<1> QED
  BY <1>5, <1>6, <1>7, <1>8, <1>9

\* So it lies between the same numbers.
LEMMA BetweenAlike ==
  ASSUME NEW k \in Nat \ {0}, NEW a \in Int, NEW b \in Nat \ {0}, NEW p \in Nat
  PROVE  /\ p * (k * b) <= k * a => p * b <= a
         /\ k * a <= p * (k * b) => a <= p * b
<1> DEFINE c == p * b
<1>1. c \in Nat /\ p * (k * b) = k * c
  BY SMT
<1> HIDE DEF c
<1>2. k * c <= k * a => c <= a
  BY <1>1, SMT
<1>3. k * a <= k * c => a <= c
  BY <1>1, SMT
<1> QED
  BY <1>1, <1>2, <1>3 DEF c

\* The average of two prices, weighed, lies between them.
LEMMA WeighedBetween ==
  ASSUME NEW a \in Int, NEW d \in Nat \ {0}, NEW q \in Nat, NEW s \in Nat,
         NEW p \in Nat, NEW x \in Nat
  PROVE  /\ (q = 0 \/ x * d <= a) /\ x <= p => x * (d * (q + s)) <= a * q + p * s * d
         /\ (q = 0 \/ a <= x * d) /\ p <= x => a * q + p * s * d <= x * (d * (q + s))
<1> DEFINE c == x * d
           ps == p * s
           xs == x * s
<1>1. c \in Nat /\ ps \in Nat /\ xs \in Nat
  BY SMT
<1>2. x * (d * (q + s)) = c * q + xs * d
  BY SMT
<1>3. p * s * d = ps * d
  OBVIOUS
<1>4. (x <= p => xs <= ps) /\ (p <= x => ps <= xs)
  BY SMT
<1> HIDE DEF c, ps, xs
<1>5. (xs <= ps => xs * d <= ps * d) /\ (ps <= xs => ps * d <= xs * d)
  BY <1>1, SMT
<1>6. (q = 0 \/ c <= a => c * q <= a * q) /\ (q = 0 \/ a <= c => a * q <= c * q)
  BY <1>1, SMT
<1>7. c * q \in Int /\ a * q \in Int /\ xs * d \in Int /\ ps * d \in Int
  BY <1>1
<1> QED
  BY <1>2, <1>3, <1>4, <1>5, <1>6, <1>7 DEF c

\* The sizes of orders, and what is summed of them.
SizesOf(filled) == [m \in DOMAIN filled |-> filled[m].size]
Those(filled, symbol, buy, n) ==
  {m \in 1 .. n : filled[m].symbol = symbol /\ filled[m].buy = buy}

\* A sum depends on the summands only.
LEMMA NumberSame ==
  ASSUME NEW S, IsFiniteSet(S), NEW f, NEW g, Weighed(f, S), \A v \in S : f[v] = g[v]
  PROVE  Number(f, S) = Number(g, S)
<1> DEFINE G == {T \in SUBSET S : Number(f, T) = Number(g, T)}
<1>1. {} \in G
  BY NumberOfNone
<1>2. ASSUME NEW T \in SUBSET S, NEW x \in S \ T, T \in G PROVE T \cup {x} \in G
  <2>1. IsFiniteSet(T) /\ Weighed(f, T \cup {x}) /\ Weighed(g, T \cup {x})
    BY FS_Subset DEF Weighed
  <2>2. Number(f, T \cup {x}) = f[x] + Number(f, T)
    BY <2>1, NumberPut
  <2>3. Number(g, T \cup {x}) = g[x] + Number(g, T)
    BY <2>1, NumberPut
  <2> QED
    BY <1>2, <2>2, <2>3
<1> HIDE DEF G
<1>3. S \in G
  BY <1>1, <1>2, ByPutting
<1> QED
  BY <1>3 DEF G

LEMMA ThoseFinite ==
  ASSUME NEW filled \in Seq(Orders), NEW symbol, NEW buy, NEW n \in 0 .. Len(filled)
  PROVE  /\ IsFiniteSet(Those(filled, symbol, buy, n))
         /\ Those(filled, symbol, buy, n) \subseteq DOMAIN filled
         /\ Weighed(SizesOf(filled), Those(filled, symbol, buy, n))
<1>1. IsFiniteSet(1 .. n) /\ Those(filled, symbol, buy, n) \in SUBSET (1 .. n)
  BY FS_Interval DEF Those
<1>2. IsFiniteSet(Those(filled, symbol, buy, n))
  BY <1>1, FS_Subset
<1>3. 1 .. n \subseteq DOMAIN filled /\ \A m \in DOMAIN filled : filled[m] \in Orders
  OBVIOUS
<1>4. \A m \in DOMAIN filled : SizesOf(filled)[m] \in Nat
  BY <1>3 DEF SizesOf, Orders
<1> QED
  BY <1>1, <1>2, <1>3, <1>4 DEF Weighed

\* What is traded is such a number.
LEMMA TradedIs ==
  ASSUME NEW filled \in Seq(Orders), NEW symbol, NEW buy, NEW n \in 0 .. Len(filled)
  PROVE  /\ Traded(filled, symbol, buy, n)
              = Number(SizesOf(filled), Those(filled, symbol, buy, n))
         /\ Traded(filled, symbol, buy, n) \in Nat
<1> DEFINE S == Those(filled, symbol, buy, n)
           f == SizesOf(filled)
           Body(F) == [s \in SUBSET S |-> IF s = {} THEN 0 ELSE filled[AnyOf(s)].size + F[s \ {AnyOf(s)}]]
           E == CHOOSE F : F = Body(F)
           F0 == CHOOSE F : Sums(F, f, S)
<1>1. IsFiniteSet(S) /\ S \subseteq DOMAIN filled /\ Weighed(f, S)
  BY ThoseFinite
<1>2. Traded(filled, symbol, buy, n) = E[S]
  BY DEF Traded, MapThenSumSet, MapThenFoldSet, AnyOf, Those
<1>3. Number(f, S) = F0[S]
  BY DEF Number, MapThenSumSet, MapThenFoldSet, Sums, StepOf, AnyOf
<1>4. PICK F1 : Sums(F1, f, S)
  BY <1>1, SumsExist
<1>5. ASSUME NEW F PROVE Body(F) = [s \in SUBSET S |-> StepOf(F, f, s)]
  <2>1. ASSUME NEW s \in SUBSET S
        PROVE  (IF s = {} THEN 0 ELSE filled[AnyOf(s)].size + F[s \ {AnyOf(s)}]) = StepOf(F, f, s)
    <3>1. CASE s = {}
      BY <3>1 DEF StepOf
    <3>2. CASE s # {}
      <4>1. AnyOf(s) \in DOMAIN filled
        BY <1>1, <3>2, AnyIsIn
      <4>2. f[AnyOf(s)] = filled[AnyOf(s)].size
        BY <4>1 DEF SizesOf
      <4> QED
        BY <3>2, <4>2 DEF StepOf
    <3> QED
      BY <3>1, <3>2
  <2> HIDE DEF S, f
  <2> QED
    BY <2>1
<1> HIDE DEF S, f
<1>6. F1 = Body(F1)
  <2> HIDE DEF Body
  <2> QED
    BY <1>4, <1>5 DEF Sums
<1>7. Sums(F0, f, S)
  BY <1>4
<1> HIDE DEF Body
<1>8. E = Body(E)
  BY <1>6
<1>9. Sums(E, f, S)
  <2> HIDE DEF E
  <2> QED
    BY <1>5, <1>8 DEF Sums
<1>10. E[S] = F0[S]
  <2> HIDE DEF E, F0
  <2> QED
    BY <1>1, <1>7, <1>9, SumsAgree
<1>11. Number(f, S) \in Nat
  BY <1>1, SumUnfolds
<1> HIDE DEF E, F0
<1> QED
  BY <1>2, <1>3, <1>10, <1>11 DEF S, f

LEMMA NothingTraded ==
  ASSUME NEW filled \in Seq(Orders), NEW symbol
  PROVE  Held(filled, symbol, 0) = 0
<1>1. ASSUME NEW buy PROVE Traded(filled, symbol, buy, 0) = 0
  <2>1. Those(filled, symbol, buy, 0) = {}
    BY DEF Those
  <2>2. 0 \in 0 .. Len(filled)
    OBVIOUS
  <2> QED
    BY <2>1, <2>2, TradedIs, NumberOfNone
<1> DEFINE bought == Traded(filled, symbol, TRUE, 0)
           sold == Traded(filled, symbol, FALSE, 0)
<1>2. bought = 0 /\ sold = 0
  BY <1>1
<1>3. Held(filled, symbol, 0) = bought - sold
  BY Zenon DEF Held
<1> HIDE DEF bought, sold
<1> QED
  BY <1>2, <1>3

\* One order more changes what is traded of its symbol, by its size.
LEMMA Longer ==
  ASSUME NEW filled \in Seq(Orders), NEW order \in Orders
  PROVE  LET after == Append(filled, order) IN
           /\ after \in Seq(Orders) /\ Len(after) = Len(filled) + 1
           /\ \A m \in 1 .. Len(filled) : after[m] = filled[m]
           /\ after[Len(filled) + 1] = order
BY AppendProperties

LEMMA TradedKeeps ==
  ASSUME NEW filled \in Seq(Orders), NEW order \in Orders, NEW symbol, NEW buy,
         NEW n \in 0 .. Len(filled)
  PROVE  Traded(Append(filled, order), symbol, buy, n) = Traded(filled, symbol, buy, n)
<1> DEFINE after == Append(filled, order)
           S == Those(filled, symbol, buy, n)
<1>1. /\ after \in Seq(Orders) /\ Len(after) = Len(filled) + 1
      /\ \A m \in 1 .. Len(filled) : after[m] = filled[m]
  BY Longer
<1> HIDE DEF after
<1>2. n \in 0 .. Len(after) /\ n \in Nat /\ n <= Len(filled)
  BY <1>1
<1>3. Those(after, symbol, buy, n) = S
  <2>1. \A m \in 1 .. n : after[m] = filled[m]
    BY <1>1, <1>2
  <2> QED
    BY <2>1 DEF Those
<1>4. \A m \in S : SizesOf(filled)[m] = SizesOf(after)[m]
  <2>1. \A m \in S : m \in 1 .. Len(filled) /\ m \in DOMAIN filled /\ m \in DOMAIN after
    BY <1>1, <1>2 DEF Those
  <2> QED
    BY <1>1, <2>1 DEF SizesOf
<1>5. IsFiniteSet(S) /\ Weighed(SizesOf(filled), S)
  BY ThoseFinite
<1> HIDE DEF S
<1>6. Number(SizesOf(filled), S) = Number(SizesOf(after), S)
  BY <1>4, <1>5, NumberSame
<1>7. Traded(filled, symbol, buy, n) = Number(SizesOf(filled), S)
  BY TradedIs DEF S
<1>8. Traded(after, symbol, buy, n) = Number(SizesOf(after), S)
  BY <1>1, <1>2, <1>3, TradedIs
<1> QED
  BY <1>6, <1>7, <1>8 DEF after

LEMMA TradedNext ==
  ASSUME NEW filled \in Seq(Orders), NEW order \in Orders, NEW symbol, NEW buy
  PROVE  Traded(Append(filled, order), symbol, buy, Len(filled) + 1)
           = Traded(filled, symbol, buy, Len(filled))
             + (IF order.symbol = symbol /\ order.buy = buy THEN order.size ELSE 0)
<1> DEFINE after == Append(filled, order)
           n == Len(filled)
           S == Those(after, symbol, buy, n)
           T == Those(after, symbol, buy, n + 1)
<1>1. /\ after \in Seq(Orders) /\ Len(after) = n + 1 /\ n \in Nat
      /\ after[n + 1] = order /\ order.size \in Nat
  BY Longer DEF Orders
<1>2. Traded(after, symbol, buy, n) = Traded(filled, symbol, buy, n)
  <2>1. n \in 0 .. Len(filled)
    OBVIOUS
  <2> QED
    BY <2>1, TradedKeeps
<1> HIDE DEF after, n
<1>3. n \in 0 .. Len(after) /\ n + 1 \in 0 .. Len(after) /\ n + 1 \in DOMAIN after
  BY <1>1
<1>4. /\ Traded(after, symbol, buy, n) = Number(SizesOf(after), S)
      /\ Traded(after, symbol, buy, n) \in Nat
      /\ Traded(after, symbol, buy, n + 1) = Number(SizesOf(after), T)
  BY <1>1, <1>3, TradedIs
<1>5. IsFiniteSet(S) /\ Weighed(SizesOf(after), T)
  BY <1>1, <1>3, ThoseFinite
<1>6. CASE order.symbol = symbol /\ order.buy = buy
  <2>1. T = S \cup {n + 1} /\ n + 1 \notin S
    BY <1>1, <1>6 DEF Those
  <2>2. SizesOf(after)[n + 1] = order.size
    BY <1>1, <1>3 DEF SizesOf
  <2> HIDE DEF S, T
  <2>3. Number(SizesOf(after), T) = SizesOf(after)[n + 1] + Number(SizesOf(after), S)
    BY <1>5, <2>1, NumberPut
  <2> QED
    BY <1>1, <1>2, <1>4, <1>6, <2>2, <2>3 DEF after, n
<1>7. CASE ~ (order.symbol = symbol /\ order.buy = buy)
  <2>1. T = S
    BY <1>1, <1>7 DEF Those
  <2> HIDE DEF S, T
  <2> QED
    BY <1>1, <1>2, <1>4, <1>7, <2>1 DEF after, n
<1> QED
  BY <1>6, <1>7

\* What is held is a number, is remembered, and changes by an order's size.
LEMMA HeldAfter ==
  ASSUME NEW filled \in Seq(Orders), NEW order \in Orders, NEW symbol
  PROVE  /\ \A n \in 0 .. Len(filled) :
              /\ Held(filled, symbol, n) \in Int
              /\ Held(Append(filled, order), symbol, n) = Held(filled, symbol, n)
         /\ Held(Append(filled, order), symbol, Len(filled) + 1)
              = Held(filled, symbol, Len(filled))
                + (IF order.symbol = symbol
                     THEN IF order.buy THEN order.size ELSE - order.size ELSE 0)
<1>1. ASSUME NEW n \in 0 .. Len(filled)
      PROVE  /\ Held(filled, symbol, n) \in Int
             /\ Held(Append(filled, order), symbol, n) = Held(filled, symbol, n)
  <2>1. Traded(filled, symbol, TRUE, n) \in Nat /\ Traded(filled, symbol, FALSE, n) \in Nat
    BY TradedIs
  <2>2. /\ Traded(Append(filled, order), symbol, TRUE, n) = Traded(filled, symbol, TRUE, n)
        /\ Traded(Append(filled, order), symbol, FALSE, n) = Traded(filled, symbol, FALSE, n)
    BY TradedKeeps
  <2>3. Held(Append(filled, order), symbol, n) = Held(filled, symbol, n)
    BY <2>2, Zenon DEF Held
  <2>4. Held(filled, symbol, n) \in Int
    <3> DEFINE b == Traded(filled, symbol, TRUE, n)
               s == Traded(filled, symbol, FALSE, n)
    <3>1. Held(filled, symbol, n) = b - s
      BY Zenon DEF Held
    <3>2. b \in Nat /\ s \in Nat
      BY <2>1
    <3> HIDE DEF b, s
    <3> QED
      BY <3>1, <3>2
  <2> QED
    BY <2>3, <2>4
<1>2. Len(filled) \in 0 .. Len(filled) /\ order.size \in Nat /\ order.buy \in BOOLEAN
  BY DEF Orders
<1> DEFINE bought == Traded(filled, symbol, TRUE, Len(filled))
           sold == Traded(filled, symbol, FALSE, Len(filled))
           bought1 == Traded(Append(filled, order), symbol, TRUE, Len(filled) + 1)
           sold1 == Traded(Append(filled, order), symbol, FALSE, Len(filled) + 1)
<1>3. bought \in Nat /\ sold \in Nat
  BY <1>2, TradedIs
<1>4. bought1 = bought + (IF order.symbol = symbol /\ order.buy = TRUE THEN order.size ELSE 0)
  BY TradedNext
<1>5. sold1 = sold + (IF order.symbol = symbol /\ order.buy = FALSE THEN order.size ELSE 0)
  BY TradedNext
<1>6. /\ Held(Append(filled, order), symbol, Len(filled) + 1) = bought1 - sold1
      /\ Held(filled, symbol, Len(filled)) = bought - sold
  BY Zenon DEF Held
<1> HIDE DEF bought, sold, bought1, sold1
<1>7. bought1 - sold1 = (bought - sold)
                + (IF order.symbol = symbol
                     THEN IF order.buy THEN order.size ELSE - order.size ELSE 0)
  <2>1. CASE order.symbol = symbol /\ order.buy
    <3>1. bought1 = bought + order.size /\ sold1 = sold + 0
      BY <1>2, <1>4, <1>5, <2>1
    <3> QED
      BY <1>2, <1>3, <2>1, <3>1
  <2>2. CASE order.symbol = symbol /\ ~ order.buy
    <3>1. bought1 = bought + 0 /\ sold1 = sold + order.size
      BY <1>2, <1>4, <1>5, <2>2
    <3> QED
      BY <1>2, <1>3, <2>2, <3>1
  <2>3. CASE order.symbol # symbol
    <3>1. bought1 = bought + 0 /\ sold1 = sold + 0
      BY <1>4, <1>5, <2>3
    <3> QED
      BY <1>3, <2>3, <3>1
  <2> QED
    BY <2>1, <2>2, <2>3
<1> QED
  BY <1>1, <1>6, <1>7

LEMMA PaidAfter ==
  ASSUME NEW filled \in Seq(Orders), NEW order \in Orders, NEW symbol, NEW n \in 0 .. Len(filled)
  PROVE  /\ Paid(filled, symbol, n) \in SUBSET Nat
         /\ Paid(filled, symbol, n) \subseteq Paid(Append(filled, order), symbol, n)
         /\ order.symbol = symbol /\ order.buy /\ order.size > 0
              => order.price \in Paid(Append(filled, order), symbol, n)
<1> DEFINE after == Append(filled, order)
<1>1. /\ after \in Seq(Orders) /\ Len(after) = Len(filled) + 1
      /\ \A m \in 1 .. Len(filled) : after[m] = filled[m] /\ filled[m] \in Orders
      /\ after[Len(filled) + 1] = order
  BY Longer
<1> HIDE DEF after
<1>2. Paid(filled, symbol, n) \in SUBSET Nat
  <2>1. \A m \in 1 .. Len(filled) : filled[m].price \in Nat
    BY <1>1 DEF Orders
  <2>2. \A m \in n + 1 .. Len(filled) : m \in 1 .. Len(filled)
    OBVIOUS
  <2> QED
    BY <2>1, <2>2 DEF Paid
<1>3. ASSUME NEW p \in Paid(filled, symbol, n) PROVE p \in Paid(after, symbol, n)
  <2>1. PICK m \in n + 1 .. Len(filled) :
          /\ p = filled[m].price
          /\ filled[m].symbol = symbol /\ filled[m].buy /\ filled[m].size > 0
    BY DEF Paid
  <2>2. m \in n + 1 .. Len(after) /\ after[m] = filled[m]
    BY <1>1
  <2> QED
    BY <2>1, <2>2 DEF Paid
<1>4. ASSUME order.symbol = symbol, order.buy, order.size > 0 PROVE order.price \in Paid(after, symbol, n)
  <2>1. Len(filled) + 1 \in n + 1 .. Len(after)
    BY <1>1
  <2> QED
    BY <1>1, <1>4, <2>1 DEF Paid
<1> QED
  BY <1>2, <1>3, <1>4 DEF after

(* What is known of a position.  The second part is about every flat moment   *)
(* since which it was never short, not only the last.                         *)
Between(avg, prices) ==
  \E lo, hi \in prices : lo * avg[2] <= avg[1] /\ avg[1] <= hi * avg[2]

Averaged(pos, filled, symbol) ==
  /\ pos.quantity = Held(filled, symbol, Len(filled))
  /\ \E a \in Int, d \in Nat \ {0} : pos.avg_price = <<a, d>>
  /\ \A flat \in 0 .. Len(filled) :
       (/\ pos.quantity > 0
        /\ Held(filled, symbol, flat) = 0
        /\ \A n \in flat .. Len(filled) : Held(filled, symbol, n) >= 0)
       => Between(pos.avg_price, Paid(filled, symbol, flat))

\* A flat moment before an order that leaves something.
LEMMA FlatBefore ==
  ASSUME NEW filled \in Seq(Orders), NEW order \in Orders, NEW symbol,
         NEW flat \in 0 .. Len(Append(filled, order)),
         Held(Append(filled, order), symbol, Len(filled) + 1) > 0,
         Held(Append(filled, order), symbol, flat) = 0,
         \A n \in flat .. Len(Append(filled, order)) : Held(Append(filled, order), symbol, n) >= 0
  PROVE  /\ flat \in 0 .. Len(filled)
         /\ Held(filled, symbol, flat) = 0
         /\ \A n \in flat .. Len(filled) : Held(filled, symbol, n) >= 0
         /\ Held(filled, symbol, Len(filled)) \in Nat
<1>1. Len(Append(filled, order)) = Len(filled) + 1 /\ Len(filled) \in Nat
  BY Longer
<1>2. flat # Len(filled) + 1
  <2> SUFFICES ASSUME flat = Len(filled) + 1 PROVE FALSE
    OBVIOUS
  <2>1. Held(Append(filled, order), symbol, Len(filled) + 1) = 0
    OBVIOUS
  <2> QED
    BY <2>1
<1>3. flat \in 0 .. Len(filled)
  BY <1>1, <1>2
<1>4. \A n \in 0 .. Len(filled) :
        /\ Held(filled, symbol, n) \in Int
        /\ Held(Append(filled, order), symbol, n) = Held(filled, symbol, n)
  BY HeldAfter
<1>5. Held(filled, symbol, flat) = 0
  BY <1>3, <1>4
<1>6. ASSUME NEW n \in flat .. Len(filled) PROVE Held(filled, symbol, n) >= 0
  <2>1. n \in 0 .. Len(filled) /\ n \in flat .. Len(Append(filled, order))
    BY <1>1
  <2>2. Held(Append(filled, order), symbol, n) >= 0
    BY <2>1
  <2> QED
    BY <1>4, <2>1, <2>2
<1>7. Len(filled) \in flat .. Len(filled) /\ Len(filled) \in 0 .. Len(filled)
  BY <1>1, <1>3
<1>8. Held(filled, symbol, Len(filled)) \in Int /\ Held(filled, symbol, Len(filled)) >= 0
  BY <1>4, <1>6, <1>7
<1>9. Held(filled, symbol, Len(filled)) \in Nat
  BY <1>8
<1> QED
  BY <1>3, <1>5, <1>6, <1>9

LEMMA OtherAveraged ==
  ASSUME NEW filled \in Seq(Orders), NEW order \in Orders, NEW symbol, order.symbol # symbol,
         NEW pos, Averaged(pos, filled, symbol)
  PROVE  Averaged(pos, Append(filled, order), symbol)
<1> DEFINE after == Append(filled, order)
<1>1. Len(after) = Len(filled) + 1 /\ Len(filled) \in 0 .. Len(filled)
  BY Longer
<1>2. Held(after, symbol, Len(filled) + 1) = Held(filled, symbol, Len(filled))
  <2> DEFINE held == Held(filled, symbol, Len(filled))
             held1 == Held(after, symbol, Len(filled) + 1)
  <2>1. held \in Int
    BY <1>1, HeldAfter
  <2>2. held1 = held + (IF order.symbol = symbol
                          THEN IF order.buy THEN order.size ELSE - order.size ELSE 0)
    BY HeldAfter
  <2> HIDE DEF held, held1
  <2>3. held1 = held
    BY <2>1, <2>2
  <2> QED
    BY <2>3 DEF held, held1
<1>3. pos.quantity = Held(after, symbol, Len(after))
  BY <1>1, <1>2 DEF Averaged
<1>4. ASSUME NEW flat \in 0 .. Len(after), pos.quantity > 0, Held(after, symbol, flat) = 0,
             \A n \in flat .. Len(after) : Held(after, symbol, n) >= 0
      PROVE  Between(pos.avg_price, Paid(after, symbol, flat))
  <2>1. Held(after, symbol, Len(filled) + 1) > 0
    BY <1>1, <1>3, <1>4
  <2>2. /\ flat \in 0 .. Len(filled)
        /\ Held(filled, symbol, flat) = 0
        /\ \A n \in flat .. Len(filled) : Held(filled, symbol, n) >= 0
    BY <1>4, <2>1, FlatBefore
  <2>3. Between(pos.avg_price, Paid(filled, symbol, flat))
    BY <1>4, <2>2 DEF Averaged
  <2>4. Paid(filled, symbol, flat) \subseteq Paid(after, symbol, flat)
    BY <2>2, PaidAfter
  <2> QED
    BY <2>3, <2>4 DEF Between
<1>5. \E a \in Int, d \in Nat \ {0} : pos.avg_price = <<a, d>>
  BY DEF Averaged
<1> HIDE DEF after
<1> QED
  BY <1>3, <1>4, <1>5 DEF Averaged, after

\* What an order makes of a position: of the quantity, and of the average when
\* something is left and when it is not.
LEMMA FilledIs ==
  ASSUME NEW pos, NEW order \in Orders
  PROVE  LET new == Filled(pos, order)
             cost == pos.avg_price[1] * pos.quantity + order.price * order.size * pos.avg_price[2]
         IN  /\ new.quantity = pos.quantity + (IF order.buy THEN order.size ELSE - order.size)
             /\ order.buy /\ new.quantity > 0
                  => new.avg_price = Fraction(cost, pos.avg_price[2] * new.quantity)
             /\ ~ order.buy /\ new.quantity = 0 => new.avg_price = <<0, 1>>
             /\ ~ (order.buy /\ new.quantity > 0) /\ ~ (~ order.buy /\ new.quantity = 0)
                  => new.avg_price = pos.avg_price
BY DEF Filled

\* A purchase that leaves something, after a position that was not short.
LEMMA BoughtBetween ==
  ASSUME NEW a \in Int, NEW d \in Nat \ {0}, NEW q \in Nat, NEW s \in Nat, NEW p \in Nat,
         q + s > 0, NEW prices \in SUBSET Nat, p \in prices,
         q > 0 => Between(<<a, d>>, prices)
  PROVE  Between(Fraction(a * q + p * s * d, d * (q + s)), prices)
<1> DEFINE n == a * q + p * s * d
           m == d * (q + s)
<1>1. n \in Int
  OBVIOUS
<1>2. m \in Nat \ {0}
  <2> DEFINE qs == q + s
  <2>1. qs \in Nat /\ qs > 0
    OBVIOUS
  <2> HIDE DEF qs
  <2>2. d * qs \in Nat /\ d * qs > 0
    BY <2>1, SMT
  <2> QED
    BY <2>2 DEF qs
<1>3. PICK lo \in prices, hi \in prices : /\ q = 0 \/ lo * d <= a
                                          /\ q = 0 \/ a <= hi * d
                                          /\ lo <= p /\ p <= hi
  <2>1. CASE q = 0
    BY <2>1
  <2>2. CASE q > 0
    <3>1. PICK l \in prices, h \in prices : l * d <= a /\ a <= h * d
      BY <2>2 DEF Between
    <3>2. l \in Nat /\ h \in Nat /\ p \in Nat
      OBVIOUS
    <3>3. \E lo \in prices : lo * d <= a /\ lo <= p
      <4>1. CASE l <= p
        BY <3>1, <4>1
      <4>2. CASE ~ l <= p
        <5>1. p * d <= l * d
          BY <3>2, <4>2, SMT
        <5>2. p * d \in Int /\ l * d \in Int
          BY <3>2
        <5>3. p * d <= a /\ p <= p
          BY <3>1, <3>2, <5>1, <5>2
        <5> QED
          BY <5>3
      <4> QED
        BY <4>1, <4>2
    <3>4. \E hi \in prices : a <= hi * d /\ p <= hi
      <4>1. CASE p <= h
        BY <3>1, <4>1
      <4>2. CASE ~ p <= h
        <5>1. h * d <= p * d
          BY <3>2, <4>2, SMT
        <5>2. p * d \in Int /\ h * d \in Int
          BY <3>2
        <5>3. a <= p * d /\ p <= p
          BY <3>1, <3>2, <5>1, <5>2
        <5> QED
          BY <5>3
      <4> QED
        BY <4>1, <4>2
    <3> QED
      BY <3>3, <3>4
  <2> QED
    BY <2>1, <2>2
<1>4. lo \in Nat /\ hi \in Nat
  OBVIOUS
<1>5. lo * m <= n
  BY <1>3, <1>4, WeighedBetween
<1>6. n <= hi * m
  BY <1>3, <1>4, WeighedBetween
<1> HIDE DEF n, m
<1>7. PICK k \in Nat \ {0}, a1 \in Int, d1 \in Nat \ {0} :
        Fraction(n, m) = <<a1, d1>> /\ n = k * a1 /\ m = k * d1
  BY <1>1, <1>2, FractionIs
<1>8. lo * d1 <= a1
  BY <1>4, <1>5, <1>7, BetweenAlike
<1>9. a1 <= hi * d1
  BY <1>4, <1>6, <1>7, BetweenAlike
<1>10. Between(Fraction(n, m), prices)
  BY <1>7, <1>8, <1>9 DEF Between
<1> QED
  BY <1>10 DEF n, m

LEMMA FilledAveraged ==
  ASSUME NEW filled \in Seq(Orders), NEW order \in Orders,
         NEW pos, Averaged(pos, filled, order.symbol)
  PROVE  Averaged(Filled(pos, order), Append(filled, order), order.symbol)
<1> DEFINE symbol == order.symbol
           after == Append(filled, order)
           new == Filled(pos, order)
           q == pos.quantity
           r == new.quantity
<1>1. /\ Len(after) = Len(filled) + 1 /\ Len(filled) \in 0 .. Len(filled)
      /\ order.size \in Nat /\ order.price \in Nat
  BY Longer DEF Orders
<1>2. q = Held(filled, symbol, Len(filled)) /\ q \in Int
  BY <1>1, HeldAfter DEF Averaged
<1>3. r = q + (IF order.buy THEN order.size ELSE - order.size)
  BY FilledIs
<1>4. r = Held(after, symbol, Len(after)) /\ r \in Int
  <2>1. Held(after, symbol, Len(filled) + 1)
          = Held(filled, symbol, Len(filled))
            + (IF order.symbol = symbol THEN IF order.buy THEN order.size ELSE - order.size ELSE 0)
    BY HeldAfter
  <2> HIDE DEF q, r, after
  <2>2. r = Held(after, symbol, Len(filled) + 1)
    BY <1>2, <1>3, <2>1
  <2>3. r \in Int
    BY <1>1, <1>2, <1>3
  <2> QED
    BY <1>1, <2>2, <2>3
<1>5. PICK a \in Int, d \in Nat \ {0} : pos.avg_price = <<a, d>>
  BY DEF Averaged
<1>6. order.buy /\ r > 0 => new.avg_price = Fraction(a * q + order.price * order.size * d, d * r)
  BY <1>5, FilledIs
<1>7. ~ order.buy /\ r > 0 => new.avg_price = pos.avg_price
  BY FilledIs
<1>8. ~ (order.buy /\ r > 0) => new.avg_price = <<0, 1>> \/ new.avg_price = pos.avg_price
  BY FilledIs
<1> HIDE DEF new, q, r, after
<1>9. \E a1 \in Int, d1 \in Nat \ {0} : new.avg_price = <<a1, d1>>
  <2>1. CASE order.buy /\ r > 0
    <3>1. a * q + order.price * order.size * d \in Int
      BY <1>1, <1>2
    <3>2. d * r \in Nat \ {0}
      BY <1>4, <2>1, SMT
    <3> QED
      BY <1>6, <2>1, <3>1, <3>2, FractionIs
  <2>2. CASE ~ (order.buy /\ r > 0)
    BY <1>5, <1>8, <2>2
  <2> QED
    BY <2>1, <2>2
<1>10. ASSUME NEW flat \in 0 .. Len(after), r > 0, Held(after, symbol, flat) = 0,
              \A n \in flat .. Len(after) : Held(after, symbol, n) >= 0
       PROVE  Between(new.avg_price, Paid(after, symbol, flat))
  <2>1. Held(after, symbol, Len(filled) + 1) > 0
    BY <1>1, <1>4, <1>10
  <2>2. /\ flat \in 0 .. Len(filled)
        /\ Held(filled, symbol, flat) = 0
        /\ \A n \in flat .. Len(filled) : Held(filled, symbol, n) >= 0
        /\ Held(filled, symbol, Len(filled)) \in Nat
    BY <1>10, <2>1, FlatBefore DEF after
  <2>3. q > 0 => Between(pos.avg_price, Paid(filled, symbol, flat))
    BY <2>2 DEF Averaged, q
  <2>4. /\ Paid(filled, symbol, flat) \subseteq Paid(after, symbol, flat)
        /\ order.buy /\ order.size > 0 => order.price \in Paid(after, symbol, flat)
    BY <2>2, PaidAfter DEF after
  <2>5. q > 0 => Between(pos.avg_price, Paid(after, symbol, flat))
    BY <2>3, <2>4 DEF Between
  <2>6. q \in Nat
    BY <1>2, <2>2
  <2>7. Paid(after, symbol, flat) \in SUBSET Nat
    <3>1. after \in Seq(Orders) /\ Len(after) \in Nat
      BY Longer DEF after
    <3>2. \A m \in flat + 1 .. Len(after) : after[m] \in Orders
      BY <3>1
    <3>3. \A m \in flat + 1 .. Len(after) : after[m].price \in Nat
      BY <3>2 DEF Orders
    <3> QED
      BY <3>3 DEF Paid
  <2>8. CASE order.buy
    <3>1. r = q + order.size
      BY <1>3, <2>8
    <3>2. new.avg_price = Fraction(a * q + order.price * order.size * d, d * (q + order.size))
      BY <1>6, <1>10, <2>8, <3>1
    <3>3. q + order.size > 0
      BY <1>10, <3>1
    <3> DEFINE s == order.size
               prices == Paid(after, symbol, flat)
    <3>4. \E p \in prices : p * s * d = order.price * s * d
      <4>1. CASE s > 0
        BY <2>4, <2>8, <4>1
      <4>2. CASE s = 0
        <5>1. q > 0
          BY <2>6, <3>3, <4>2
        <5>2. PICK p \in prices : TRUE
          BY <2>5, <5>1 DEF Between
        <5>3. p * s * d = 0 /\ order.price * s * d = 0
          <6> HIDE DEF s, prices
          <6>1. p \in Nat
            BY <2>7, <5>2 DEF prices
          <6> QED
            BY <1>1, <4>2, <6>1
        <5> QED
          BY <5>2, <5>3
      <4> QED
        BY <1>1, <4>1, <4>2
    <3>5. PICK p \in prices : p * s * d = order.price * s * d
      BY <3>4
    <3>6. /\ s \in Nat /\ p \in Nat /\ q \in Nat /\ q + s > 0 /\ prices \in SUBSET Nat
          /\ (q > 0 => Between(<<a, d>>, prices))
      BY <1>1, <1>5, <2>5, <2>6, <2>7, <3>3, <3>5
    <3> HIDE DEF s, prices
    <3>7. Between(Fraction(a * q + p * s * d, d * (q + s)), prices)
      BY <3>5, <3>6, BoughtBetween
    <3>8. Between(Fraction(a * q + order.price * s * d, d * (q + s)), prices)
      BY <3>5, <3>7
    <3> QED
      BY <3>2, <3>8 DEF s, prices
  <2>9. CASE ~ order.buy
    <3>1. q > 0
      <4>1. r = q - order.size
        BY <1>1, <1>2, <1>3, <2>9
      <4> QED
        BY <1>1, <1>2, <1>10, <4>1
    <3> QED
      BY <1>7, <1>10, <2>5, <2>9, <3>1
  <2> QED
    BY <2>8, <2>9
<1> QED
  BY <1>4, <1>9, <1>10 DEF Averaged, r, new, after

AveragedInv ==
  /\ DOMAIN positions_ = Symbols
  /\ \A symbol \in Symbols : Averaged(positions_[symbol], orders, symbol)

LEMMA InitAveraged == TradingInit => AveragedInv
<1> SUFFICES ASSUME TradingInit, NEW symbol \in Symbols
             PROVE  Averaged(positions_[symbol], orders, symbol)
  BY DEF TradingInit, AveragedInv
<1>1. positions_[symbol] = Flat /\ orders = << >> /\ Len(orders) = 0 /\ orders \in Seq(Orders)
  BY DEF TradingInit
<1>2. Held(orders, symbol, 0) = 0
  BY <1>1, NothingTraded
<1> QED
  BY <1>1, <1>2 DEF Averaged, Flat

LEMMA StepAveraged ==
  TradingInv /\ AveragedInv /\ [TradingNext]_tradingVars => AveragedInv'
<1> SUFFICES ASSUME TradingInv, AveragedInv, [TradingNext]_tradingVars PROVE AveragedInv'
  OBVIOUS
<1>1. CASE UNCHANGED <<positions_, orders>>
  BY <1>1 DEF AveragedInv
<1>2. ASSUME NEW asked \in Symbols, OnQuoteUpdate(asked) PROVE AveragedInv'
  <2> DEFINE order == OrderFor(Snapshot(asked))
  <2>1. order \in Orders /\ order.symbol = asked
    BY <1>2, OrderFillable
  <2>2. /\ orders' = Append(orders, order)
        /\ positions_' = [positions_ EXCEPT ![asked] = Filled(@, order)]
    BY <1>2 DEF OnQuoteUpdate
  <2>3. orders \in Seq(Orders) /\ DOMAIN positions_ = Symbols
    BY DEF TradingInv, AveragedInv
  <2> HIDE DEF order
  <2>4. ASSUME NEW symbol \in Symbols PROVE Averaged(positions_'[symbol], orders', symbol)
    <3>1. Averaged(positions_[symbol], orders, symbol)
      BY DEF AveragedInv
    <3>2. CASE symbol = asked
      <4>1. positions_'[symbol] = Filled(positions_[symbol], order)
        BY <2>2, <2>3, <3>2
      <4>2. Averaged(Filled(positions_[symbol], order), Append(orders, order), order.symbol)
        BY <2>1, <2>3, <3>1, <3>2, FilledAveraged
      <4> QED
        BY <2>1, <2>2, <3>2, <4>1, <4>2
    <3>3. CASE symbol # asked
      <4>1. positions_'[symbol] = positions_[symbol]
        BY <2>2, <2>3, <3>3
      <4>2. Averaged(positions_[symbol], Append(orders, order), symbol)
        BY <2>1, <2>3, <3>1, <3>3, OtherAveraged
      <4> QED
        BY <2>2, <4>1, <4>2
    <3> QED
      BY <3>2, <3>3
  <2>5. DOMAIN positions_' = Symbols
    BY <2>2, <2>3
  <2> QED
    BY <2>4, <2>5 DEF AveragedInv
<1>3. CASE Feed /\ UNCHANGED strategyVars
  BY <1>1, <1>3 DEF strategyVars
<1>4. CASE SetThresholds
  BY <1>1, <1>4 DEF SetThresholds
<1>5. CASE UNCHANGED tradingVars
  BY <1>1, <1>5 DEF tradingVars, strategyVars
<1> QED
  BY <1>2, <1>3, <1>4, <1>5 DEF TradingNext

\* The last flat moment is one of them, and the least and the greatest price
\* paid enclose any two.
LEMMA AveragedIsBetween ==
  ASSUME TradingInv, AveragedInv
  PROVE  AverageBetweenPrices
<1> SUFFICES ASSUME NEW symbol \in Symbols
             PROVE  LET pos == positions_[symbol]
                        flat == Max({n \in 0 .. Len(orders) : Held(orders, symbol, n) = 0})
                        paid == Paid(orders, symbol, flat)
                    IN  /\ pos.quantity = Held(orders, symbol, Len(orders))
                        /\ (/\ pos.quantity > 0
                            /\ \A n \in flat .. Len(orders) : Held(orders, symbol, n) >= 0) =>
                             /\ Min(paid) * pos.avg_price[2] <= pos.avg_price[1]
                             /\ pos.avg_price[1] <= Max(paid) * pos.avg_price[2]
  BY DEF AverageBetweenPrices
<1> DEFINE pos == positions_[symbol]
           moments == {n \in 0 .. Len(orders) : Held(orders, symbol, n) = 0}
           flat == Max(moments)
           paid == Paid(orders, symbol, flat)
<1>1. Averaged(pos, orders, symbol) /\ orders \in Seq(Orders) /\ Len(orders) \in Nat
  BY DEF TradingInv, AveragedInv
<1>2. flat \in moments
  <2>1. 0 \in moments
    BY <1>1, NothingTraded
  <2>2. moments \in SUBSET Nat /\ \A n \in moments : n <= Len(orders)
    BY <1>1
  <2> HIDE DEF moments
  <2> QED
    BY <1>1, <2>1, <2>2, MaxIsGreatest
<1>3. flat \in 0 .. Len(orders) /\ Held(orders, symbol, flat) = 0
  BY <1>2
<1> HIDE DEF flat, moments
<1>4. IsFiniteSet(paid) /\ paid \in SUBSET Nat
  <2> DEFINE bought == {k \in flat + 1 .. Len(orders) : orders[k].symbol = symbol /\ orders[k].buy
                                                     /\ orders[k].size > 0}
             f == [k \in bought |-> orders[k].price]
  <2>1. IsFiniteSet(bought)
    <3>1. IsFiniteSet(flat + 1 .. Len(orders))
      BY <1>1, <1>3, FS_Interval
    <3> QED
      BY <3>1, FS_Subset
  <2>2. paid = {orders[k].price : k \in bought}
    BY DEF Paid
  <2>3. \A k \in bought : orders[k].price \in Nat
    <3>1. \A k \in 1 .. Len(orders) : orders[k] \in Orders
      BY <1>1
    <3>2. \A k \in bought : k \in 1 .. Len(orders)
      BY <1>1, <1>3
    <3> QED
      BY <3>1, <3>2 DEF Orders
  <2> HIDE DEF bought
  <2>4. paid = {f[k] : k \in bought}
    BY <2>2
  <2>5. f \in Surjection(bought, paid)
    BY <2>4 DEF Surjection
  <2>6. paid \in SUBSET Nat
    BY <2>2, <2>3
  <2> HIDE DEF f, paid
  <2> QED
    BY <2>1, <2>5, <2>6, FS_Surjection
<1>5. PICK a \in Int, d \in Nat \ {0} : pos.avg_price = <<a, d>>
  BY <1>1 DEF Averaged
<1>6. ASSUME pos.quantity > 0, \A n \in flat .. Len(orders) : Held(orders, symbol, n) >= 0
      PROVE  Min(paid) * pos.avg_price[2] <= pos.avg_price[1]
             /\ pos.avg_price[1] <= Max(paid) * pos.avg_price[2]
  <2>1. Between(pos.avg_price, paid)
    BY <1>1, <1>3, <1>6 DEF Averaged
  <2>2. PICK lo \in paid, hi \in paid : lo * d <= a /\ a <= hi * d
    BY <1>5, <2>1 DEF Between
  <2> HIDE DEF paid
  <2>3. Min(paid) \in paid /\ Min(paid) <= lo
    BY <1>4, <2>2, MinIsLeast
  <2>4. Max(paid) \in paid /\ Max(paid) >= hi
    <3>1. PICK x \in paid : \A y \in paid : y <= x
      BY <1>4, <2>2, GreatestOfFinite
    <3>2. x \in Nat
      BY <1>4, <3>1
    <3> QED
      BY <1>4, <2>2, <3>1, <3>2, MaxIsGreatest
  <2> DEFINE least == Min(paid)
             greatest == Max(paid)
  <2>5. least \in Nat /\ greatest \in Nat /\ lo \in Nat /\ hi \in Nat /\ least <= lo /\ hi <= greatest
    BY <1>4, <2>2, <2>3, <2>4
  <2> HIDE DEF least, greatest
  <2>6. least * d <= lo * d /\ hi * d <= greatest * d
    BY <2>5, SMT
  <2>7. least * d \in Int /\ lo * d \in Int /\ hi * d \in Int /\ greatest * d \in Int
    BY <2>5
  <2>8. least * d <= a /\ a <= greatest * d
    BY <2>2, <2>6, <2>7
  <2> QED
    BY <1>5, <2>8 DEF least, greatest
<1>7. pos.quantity = Held(orders, symbol, Len(orders))
  BY <1>1 DEF Averaged
<1> QED
  BY <1>6, <1>7 DEF flat, moments

(* For any prices, sizes and symbols and any number of orders: a position's   *)
(* quantity is what was bought less what was sold, and its average lies       *)
(* between the prices paid since it was last flat, as long as it was never    *)
(* short since (strategy.cpp:46-58).                                          *)
THEOREM AverageIsBetween == TradingSpec => []AverageBetweenPrices
BY InitTradingInv, StepTradingInv, InitAveraged, StepAveraged, AveragedIsBetween, PTL DEF TradingSpec
================================================================================

----------------------------- MODULE Demonstration -----------------------------
(***************************************************************************)
(* demo_complete_system (src/src/main.cpp): one thread that makes quotes,  *)
(* sends each through the queue, changes the book of its symbol, records   *)
(* two ticks and from time to time asks the strategy, until all quotes are *)
(* made or a signal has come.                                              *)
(*                                                                         *)
(* The queue is empty whenever a quote is pushed and popped by the one     *)
(* thread; a book is the table of its orders, which its levels follow (the *)
(* invariants of EnhancedOrderBook).  Left out: what is reported on the    *)
(* way, times, and two of the three histograms, which get other numbers.   *)
(***************************************************************************)
EXTENDS StrategyRules, LatencyHistogram

CONSTANTS
  Total,             \* 50000 in the code
  AddEvery, ExecuteEvery, CancelEvery,   \* 5, 7 and 11
  SampleEvery,       \* 1000: how often the strategy is asked
  SpreadThreshold,   \* 500 ticks
  Quotes,            \* bid_price, ask_price, bid_size, ask_size
  MaxPrice,          \* 14200050 ticks: an upper bound of their prices
  Latencies          \* in cycles

VARIABLES
  g_running,
  i,                 \* how many quotes have been handled
  books,             \* by symbol: the orders by id
  recorded,          \* TickRecorder::count()
  signal_count,
  e2e_latency,
  samples,           \* history: how often e2e_latency was given what
  reported           \* the loop has ended and its results are reported

vars == <<g_running, i, books, recorded, signal_count, e2e_latency, samples, reported>>

ASSUME DemonstrationAssumption ==
  /\ {AddEvery, ExecuteEvery, CancelEvery, SampleEvery, NUM_BUCKETS, MaxSize}
       \subseteq Nat \ {0}
  /\ Total \in Nat /\ MaxPrice \in Nat
  /\ Latencies \subseteq Nat
  /\ SpreadThreshold \in Nat
  \* spread_dist and size_dist: no quote is as wide as the threshold.
  /\ \A q \in Quotes :
       /\ {q.bid_price, q.ask_price, q.bid_size, q.ask_size} \subseteq Nat \ {0}
       /\ q.bid_price < q.ask_price /\ q.ask_price <= MaxPrice
       /\ q.ask_price - q.bid_price < SpreadThreshold

Books == 3

Init ==
  /\ g_running = TRUE
  /\ i = 0
  /\ books = [b \in 0 .. Books - 1 |-> [id \in {} |-> 0]]
  /\ recorded = 0
  /\ signal_count = 0
  /\ e2e_latency = NoSamples
  /\ samples = [c \in Latencies |-> 0]
  /\ reported = FALSE

\* add_order, which refuses an id it knows.
Added(book, id, s, price, quantity) ==
  IF id \in DOMAIN book THEN book
  ELSE [x \in DOMAIN book \cup {id} |->
          IF x = id THEN [side |-> s, price |-> price, quantity |-> quantity] ELSE book[x]]

\* execute_order and cancel_order: an order goes with its last share.
Reduced(book, id, quantity) ==
  IF id \notin DOMAIN book THEN book
  ELSE IF book[id].quantity > quantity THEN [book EXCEPT ![id].quantity = @ - quantity]
       ELSE Restrict(book, DOMAIN book \ {id})

\* modify_order.
Modified(book, id, quantity) ==
  IF id \in DOMAIN book THEN [book EXCEPT ![id].quantity = quantity] ELSE book

\* Faulty variant of BookOf: one book for all.
OneBook(n) == 0

\* The symbol of message n.
BookOf(n) == n % Books

\* What message n does to the book of its symbol.
Changed(book, n, q) ==
  CASE n % AddEvery = 0 -> Added(Added(book, 2 * n, "bid", q.bid_price, q.bid_size),
                                 2 * n + 1, "ask", q.ask_price, q.ask_size)
    [] n % AddEvery # 0 /\ n % ExecuteEvery = 0 ->
         Reduced(book, 2 * (n - 1), q.bid_size \div 4)
    [] n % AddEvery # 0 /\ n % ExecuteEvery # 0 /\ n % CancelEvery = 0 ->
         Reduced(book, 2 * (n - 1) + 1, q.ask_size \div 3)
    [] OTHER -> Modified(book, 2 * n, q.bid_size + 100)

\* Faulty variant of BestOf: begin() of a map with the other order.
WorstOf(s, prices) == IF s = "bid" THEN Min(prices) ELSE Max(prices)

BestOf(s, prices) == IF s = "bid" THEN Max(prices) ELSE Min(prices)

\* EnhancedOrderBook::snapshot, computed from the orders.
BookSnapshot(book) ==
  LET on(s) == {id \in DOMAIN book : book[id].side = s}
      total(ids) == MapThenSumSet(LAMBDA id : book[id].quantity, ids)
      price(s) == IF on(s) = {} THEN 0 ELSE BestOf(s, {book[id].price : id \in on(s)})
      size(s) == total({id \in on(s) : book[id].price = price(s)})
  IN  [price |-> [s \in {"bid", "ask"} |-> price(s)],
       size |-> [s \in {"bid", "ask"} |-> size(s)],
       spread |-> IF on("bid") # {} /\ on("ask") # {} THEN price("ask") - price("bid") ELSE 0,
       imbalance |-> <<total(on("bid")) - total(on("ask")), total(DOMAIN book)>>]

\* One turn of the loop, with quote q, that takes so many cycles.  The strategy
\* is asked about the book the message has changed; 3 tenths is its threshold.
Turn(q, cycles) ==
  LET book == Changed(books[BookOf(i)], i, q)
      signals == i % SampleEvery = 0 /\ Worthwhile(BookSnapshot(book), SpreadThreshold, 3)
  IN  /\ ~ reported /\ g_running /\ i < Total
      /\ books' = [books EXCEPT ![BookOf(i)] = book]
      /\ recorded' = recorded + 2
      /\ signal_count' = signal_count + IF signals THEN 1 ELSE 0
      /\ e2e_latency' = Recorded(e2e_latency, cycles)
      /\ samples' = [samples EXCEPT ![cycles] = @ + 1]
      /\ i' = i + 1
      /\ UNCHANGED <<g_running, reported>>

\* After the loop; "Messages Processed" is Total also when a signal ended it.
Report ==
  /\ ~ reported
  /\ ~ g_running \/ i >= Total
  /\ reported' = TRUE
  /\ UNCHANGED <<g_running, i, books, recorded, signal_count, e2e_latency, samples>>

\* signal_handler, on SIGINT or SIGTERM, at any time.
Signal ==
  /\ g_running' = FALSE
  /\ UNCHANGED <<i, books, recorded, signal_count, e2e_latency, samples, reported>>

Next == Report \/ Signal \/ \E q \in Quotes, cycles \in Latencies : Turn(q, cycles)

Spec == Init /\ [][Next]_vars
--------------------------------------------------------------------------------
(* Every variable has its type. *)
TypeOK ==
  /\ g_running \in BOOLEAN /\ reported \in BOOLEAN
  /\ i \in 0 .. Total
  /\ DOMAIN books = 0 .. Books - 1
  /\ \A b \in DOMAIN books : \A id \in DOMAIN books[b] : id \in Nat
  /\ recorded \in Nat /\ signal_count \in Nat
  /\ samples \in [Latencies -> Nat]

(* Orders only arrive: no message of the demonstration ever executes, cancels *)
(* or modifies one.  Line 123 names an order of the message before, which is  *)
(* in another symbol's book, line 125 too, and line 127 an id that this very  *)
(* message has not added (lines 119-128).                                     *)
OrdersOnlyArrive ==
  [][\A b \in DOMAIN books : \A id \in DOMAIN books[b] :
       id \in DOMAIN books'[b] /\ books'[b][id] = books[b][id]]_vars

(* The strategy of the demonstration never signals: the two best prices of a  *)
(* book are no further apart than those of its tightest quote, at most 50     *)
(* ticks, and a book without orders on a side is passed over; a spread of 500 *)
(* ticks, the threshold of line 46, cannot come up (lines 46, 68, 137-140).   *)
NeverSignals == signal_count = 0

(* A percentile read from the buckets is the one read from the samples, or    *)
(* that of the sample one rank below, brought down to the last bucket: never  *)
(* more, whatever was recorded (latency_tracker.hpp:76-90 and                 *)
(* latency_histogram.hpp:44-49).  Of too few samples it is 0.                 *)
PercentilesAgree ==
  LET n == Number(samples, Latencies) IN
    n > 0 =>
      \A p \in {<<1, 2>>, <<9, 10>>, <<19, 20>>, <<99, 100>>, <<999, 1000>>} :
        LET rank == ((n - 1) * p[1]) \div p[2]
            below == IF rank = 0 THEN 0 ELSE Sorted(samples, rank - 1)
        IN  Percentile(e2e_latency, p)
              \in {Min({v, NUM_BUCKETS - 1}) : v \in {below, SampledPercentile(samples, p)}}
================================================================================

# A verification project for marketdatafeedhandler

TLA+ models of the market data feed handler, TLC runs over small instances of
them, and TLAPS proofs about both queues, the order book, recorder and replay, the
WebSocket server, the memory pool, the parsers, the capture reader, the strategy, the
histograms and the demonstration. Paths below are relative to the repository (`include/`, `src/`, `tests/`).

Run from this directory:

    tlc -config MCSPSC.cfg MCSPSC      # and likewise every .cfg listed below
    tlapm SPSCProofs.tla               # and likewise every *Proofs.tla

## 1. Inventory

The repository is a library of parts which `src/main.cpp` wires into a
demonstration. Four of the parts have threads; the others are sequential
objects owned by one thread.

| Component | State | Operations | Meets |
|---|---|---|---|
| `SPSCQueue<T>` (`include/lock_free_queue.hpp:18-120`) | ring of slots, each a `sequence` and a `data`; `head_`, `tail_` | `try_push` by one thread, `try_pop` by another, `size`/`empty` by anyone | parser or demo to book |
| `MPSCQueue<T>` (`include/lock_free_queue.hpp:122-178`) | linked nodes from `tail_` (a sentinel) to `head_` | `push` by many, `try_pop` by one, destructor | nothing in the repository but its tests |
| `EnhancedOrderBook` (`src/enhanced_order_book.cpp`) | `orders_` by id; `bids_`, `asks_` by price; a total per side; `message_count_` | add, modify, cancel, delete, execute, replace, clear; best prices, spread, mid, imbalance, snapshot, depth, crossing | demo, ITCH messages, strategy |
| `ReplayEngine` (`src/replay_engine.cpp`) | `running_`, `paused_`, `messages_replayed_`, a thread, a callback | start, stop, pause, resume, destructor; the replay loop | `TickReader`, the client's callback |
| `TickReader` (`src/tick_recorder.cpp:185-269`) | mapped file, its size, an offset | read_next, has_more, reset | files made by `TickRecorder` |
| `TickRecorder` (`src/tick_recorder.cpp:5-183`) | file, growing shared mapping, `record_count_` | record_trade, record_quote, flush, destructor | demo; operating system |
| `MemoryPool` (`include/memory_pool.hpp`) | chunks, free list, count | allocate, deallocate | tests, benchmarks |
| `WebSocketServer` (`src/websocket_server.cpp`) | listening socket, `running_`, accept thread, `clients_` | start, stop, broadcast, client_count; accept loop, handshake | sockets |
| ITCH and IEX parsers (`src/itch_parser.cpp`, `include/iex_parser.hpp`) | buffer, offset | parse_next, has_more, reset | demo (ITCH) |
| `PCAPReader` (`src/pcap_reader.cpp`) | file in memory, offset, `valid_` | next_packet, reset, is_valid | nothing in the repository |
| `marketdata::ITCHParser` (`src/marketdata_parser.cpp`) | none | parse_add_order | benchmark |
| `OrderBook`, `OrderBookManager` (`src/order_book.cpp`) | levels by price; a map of books | add, modify, remove, execute per side, clear; best prices and sizes, snapshot | tests |
| `TradingStrategy` (`src/strategy.cpp`) | position and average price per symbol | on_quote_update | book snapshots, signal callback |
| latency histograms (`include/latency_tracker.hpp`, `include/latency_histogram.hpp`) | buckets or samples | record, percentile | demo, benchmarks |
| demonstration (`src/main.cpp`) | three books, a queue, a recorder, a strategy, three histograms; `g_running` | the loop, a signal handler, the report | everything above |

What is hard in each, and what makes it correct:

* **SPSCQueue.** No lock; a slot's `data` is not atomic and only the slot's
  sequence number says who may touch it. Correct means: in every interleaving
  the two threads are never in one slot, items arrive in order and once, the
  ring never stalls, and `size()` is off by a known amount only.
* **MPSCQueue.** A push has two effects, at the exchange of `head_` and at the
  store of `next`, and the list is cut between them. Nodes are deleted while
  producers hold pointers to them. Correct means: the order of the exchanges,
  no access to freed memory, no leak, an answer "empty" only when it is so or
  when a push stands in the cut.
* **EnhancedOrderBook.** Everything is stored twice. Correct means: the two
  copies agree after every sequence of operations, all readers say what the
  orders say, and a refused operation is one that did nothing.
* **ReplayEngine.** Two threads over two flags. Correct means: every record
  once and in order, stop returns whatever the replay is doing, nothing runs
  after it, pause takes hold.
* **TickRecorder.** The file is longer than what was written, grows by
  remapping, and every call may fail. Correct means: exactly the records after
  a close, a prefix followed by zeros after a kill.
* **WebSocketServer.** `clients_` and `server_socket_` are shared without a
  lock, and stop joins a thread that can be blocked in a system call.
* **Parsers.** A loop over `has_more` ends only if every call moves the offset.
* **PCAPReader.** A packet that is not UDP, one that is cut short and the end of
  the file all look alike to the caller, and an IPv4 header gives its own length.
  Correct means: payloads inside their packets, no packet skipped or given twice,
  an end to every file.
* **MemoryPool.** Constructors and destructors of `T` may throw, or use the pool
  inside a call of it. Correct means: one owner for every slot, a count that
  does not drift.
* **OrderBook and TradingStrategy.** Levels of size 0, orders sent on a snapshot,
  positions that turn from long to short. Correct means: an order can be filled
  where it is sent, a position is what was bought less what was sold.
* **Histograms.** Rounding of the rank, the last bucket, too few samples.
* **Demonstration.** Books, order numbers and branches are chosen by arithmetic on
  one loop counter; what the loop exercises follows from that arithmetic.

The hazards, with the line where each bites and the property that watches it,
are listed in `PROJECT.json`.

## 2. Modules

| Module | Models | Checked by |
|---|---|---|
| `BoundedFIFO` | what a bounded queue promises: `Put`, `Get` | `ImplementsFIFO` |
| `SPSCQueue` | the ring, one action per access to shared memory | `MCSPSC` |
| `SPSCProofs` | theorems about `SPSCQueue` | tlapm |
| `MPSCQueue` | the linked queue, one action per access, with the allocator; it implements `BoundedFIFO` | `MCMPSC` |
| `MPSCProofs` | theorems about `MPSCQueue` | tlapm |
| `EnhancedOrderBook` | the book of orders, one action per operation | `MCBook` |
| `BookProofs` | theorems about `EnhancedOrderBook` | tlapm |
| `TickRecorder` | the recorder, its file and the operating system's answers | `MCTape` |
| `ReplayEngine` | engine, replay thread and `TickReader` | `MCTape` |
| `Tape` | the two composed: what was recorded, closed or killed, is what is replayed | `MCTape` |
| `TapeProofs` | theorems about `ReplayEngine`, `TickRecorder` and `Tape` | tlapm |
| `WebSocketServer` | owner thread, accept thread, sockets and peers | `MCWebSocket` |
| `WebSocketProofs` | theorems about `WebSocketServer` | tlapm |
| `MemoryPool` | the pool, with calls nested by constructors and destructors | `MCPool` |
| `PoolProofs` | theorems about `MemoryPool` | tlapm |
| `MessageParsers` | how the ITCH and the IEX parser cut a buffer into messages | `MCParsers` |
| `PCAPReader` | how a capture file is cut into packets and payloads | `MCPCAP` |
| `FramingProofs` | theorems about `MessageParsers` and `PCAPReader` | tlapm |
| `OrderBook` | the books of price levels and their table | `MCTrading` |
| `StrategyRules` | when the strategy sends an order, which, and what it makes of the position | `MCTrading`, `MCDemo` |
| `TradingStrategy` | the strategy on the books of `OrderBook` | `MCTrading` |
| `LatencyHistogram` | the two histograms | `MCDemo` |
| `Demonstration` | the loop of `demo_complete_system`, composed of `StrategyRules`, `LatencyHistogram` and books of orders | `MCDemo` |
| `StrategyProofs` | theorems about `TradingStrategy`, `LatencyHistogram` and `Demonstration` | tlapm |

A module keeps the code's names for state and operations, without the trailing
underscore. A variable called a *history* in its comment is not in the code: it
records what properties speak of (items sent and received, whether a system call
has failed). `TypeOK` in each module is its type invariant; the runs are spent on the other
properties, and types are proved, of every variable the argument speaks of, together with the
invariants of section 4. Two modules that one module of proofs extends have no name in common:
that is why `PCAPReader` has a `ReaderSpec`, `TradingStrategy` a `TradingSpec`, and `OrderBook` its
`books_`. An operator whose comment begins "Faulty variant of" is no part
of the specification: it states a plausible bug of the operator after it, and
each property is known to fail when the variant takes that operator's place.

### SPSCQueue

`head`, `tail`, `seq`, `data` are `head_`, `tail_` and the two fields of the
slots. `ppc`, `item`, `cpc`, `result`, `mpc`, `sampled` are where the three
threads stand in their calls and their local variables. `PushBegin` is lines
64-70 of `try_push`, `PushWrite`, `PushPublish` and `PushAdvance` are lines 72, 73
and 74 (the overload for rvalues, lines 79-93, is the same code with a move),
`PopBegin` ... `PopAdvance` are lines 96-106, `SizeLoadHead` and `SizeLoadTail`
lines 112-114. The load of a thread's own counter is joined with the load of the
slot's sequence, because no other thread writes that counter.

Memory order. Atomic accesses interleave and each takes effect at once. The
source uses acquire loads and release stores on `sequence`, which is what makes the
plain accesses to `data` ordered with respect to it, and the model keeps
them in program order. The relaxed stores to `head_` and `tail_` (lines 74, 106)
are read by the storing thread itself and by `size()`; what a monitor may read
late because of their relaxed order is not modelled beyond the interleaving.

Counters are `uint64_t` before they wrap. Only `size()`, whose subtraction
wraps at once when the loads are skewed, is taken modulo `WordSize`.

### MPSCQueue

A node is an address (`Nodes`); `allocated` is the allocator's view, and a new
node may be any address that is not allocated, one that was deleted a moment ago
included. `sent` grows at the exchange (line 154), `received` when `tail_` is stored
(line 173). The destructor is called by the consumer when every producer is out
of `push`, as with any C++ object. `ImplementsQueue` maps the queue of `BoundedFIFO` to
what has been exchanged into the list and not yet been taken: an exchange is a `Put`, the
store of `tail_` a `Get`, and an answer "empty" while a push stands in the cut a stutter.

### EnhancedOrderBook

`orders` is `orders_`, a function from ids. `side` holds for both sides the map
of levels and the total. `AddToPriceLevel` and `RemoveFromPriceLevel` keep the code's
guards against going below zero and its test for erasing a level. Operations
that differ only in the quantity they leave (`modify_order`, `cancel_order`,
`execute_order`) share `Requantify`. Readers are operators over the state;
`spread`, `mid_price` and `imbalance` are given before their division.
Quantities and totals are unbounded naturals; the code's are 64 bits wide.

### ReplayEngine

`client` is where the controlling thread is (idle, in stop, in the destructor,
gone), `replay` the line of `replay_loop` the thread is at. The file is its size in
bytes, so that a torn last record is one of the initial states. `terminated` says
that the process has ended in one of the ways the code can be brought to: a file that
cannot be opened (line 50), a callback that calls `stop` (line 37), a `start` after a
replay that ended by itself and was not stopped (line 30), a mapping that failed, through
whose null pointer `read_next` reads. `SetCallback` and `SetSpeed` may be called at any time;
`ThreadReads` says when the replay thread can be looking at what they assign, and
`RunningTellsThread` that `is_running` tells a client when. Sleeping is left out.

### TickRecorder

A record is its number. `content` is what the file holds at each record's place;
`Remaps` lists the outcomes of `remap_if_needed`, failing calls included;
`Stored`, `StoredBeyond` and `Faults` say what a store through the mapping does:
write into the file, into the rest of the file's last page where it may or may not
survive, or kill the process. `Kill` ends the process between any two
writes, between bid and ask of one quote too. Without a mapping the stream
hands data on when it likes. The branch for Windows is left out.

### Tape

`Tape` extends `ReplayEngine` and instantiates `TickRecorder` with the same `file_size`.
The engine acts once the recorder is gone, as one process after another or one
object after another: nobody writes what the engine reads. `Played` reads what was
recorded at the places the replay has gone through, so that its properties compare the
two ends, `record_quote` and the callback.

### WebSocketServer

`owner` is where the thread is that calls start, stop, broadcast and the destructor,
`acceptor` where `accept_loop` is; each action is one call of the operating system
or one access to `server_socket_`, `running_` or `clients_`. A socket is the name of its
peer, a listening socket a number. `cursor` and `last` are the iterators of the loop in
`broadcast`. `clients_` is a `std::vector` as libstdc++ has it. A `push_back` for which there is memory
stores the element and then the end (`Register`); one for which there is none gives the old memory back
(`MoveClients`) and stores the new beginning (`StoreBegin`) and the new end (`StoreEnd`). `broadcast`
reads the beginning (`BroadcastBegin`) and the end (`ReadEnd`) in two steps too. On x86 a thread sees
these stores in their order; the model assumes that and nothing else about what is, in C++, a data race.
A broadcast that meets a move is left `dangling`. If its two pointers are of different memory, `last` is any
number up to `MaxAstray`. Its sends (`BroadcastAstray`) read memory given back, which may hold the
client, another socket, or neither: the frame reaches an open connection, the right one or another, or
nobody, as the code drops the result of `send`, or the process ends. `astray` records which broadcasts that
befell. A frame is its header, byte by byte
as the code computes it, and the size of its message. TLC's integers have 32 bits and a `size_t` 64: the four high
bytes of the longest form are taken from `High`, the size divided twice by 2^16, and each
half is written by `FourBytes`; `broadcast` and `broadcast_binary`
differ in the first byte only and are one action. The operating system is Linux: a
thread blocked in `accept` is not woken by the close of its socket, the port stays in
use until it returns, and a send to a peer that has left may raise `SIGPIPE`, which
nobody ignores. Sends do not block: peers read. One specification, with fairness, serves
all the properties.

### MemoryPool

Slots are numbered in the order of their chunks; `free_list` is the list linked
through them. `allocate` and `deallocate` are split where they run a constructor or
destructor of `T`, which may throw or use the pool; `stack` holds the calls that
are under way. A failing `aligned_alloc`, for whose null pointer the code does not look,
is left out.

### MessageParsers

One module for both, as they promise the same. A message is its place and size, the
fields are left out, and the structures' sizes are constants. `Length`
reads two bytes with the high one first, which is what `swap_uint16` makes of a
load on a little-endian machine; a byte has `Base` values. `ParseITCH` and `ParseIEX` are
`parse_next` with a whole message before it, `ParseNothing` the returns that leave
the offset alone.

### PCAPReader

The file is its size, and what stands in it is chosen when the reader first looks: `packets` has,
by offset, the length of a packet and the header length its IPv4 header claims, or
`NotUDP`. What was chosen stays, so that a `reset` reads the same again. `HasPayload` is
the early returns of `parse_headers`, `Behind` where `next_packet` leaves the offset. The constructor takes a file
with another magic number, or one that is too short, and reads it from its first byte
if the caller does not ask `is_valid`. The swapped magic number is accepted, and
nothing is swapped: such a file is a valid one whose lengths are what the code reads.
Ports, times and `packets_read()`, which is always 0, are left out.

### OrderBook, StrategyRules, TradingStrategy

`books_` is `OrderBookManager::books_`; a book is two maps of levels and
`message_count`. A level is its size: its `order_count` is not read by any member function
and not set by `modify_bid` and `modify_ask`, and is left out. Operations for the two sides
are one action with the side as a parameter: `Add`, which alone can leave a level of size 0 (`bare`), and the
rest by way of `Change`. `StrategyRules` has what
`on_quote_update` computes, without state: `Worthwhile`, `OrderFor`, `Filled`; the demonstration
uses the same rules on another book. Thresholds and averages, doubles in the code, are exact
fractions. `AverageBetweenPrices` does not look at the position's own quantity: it sums up
afresh the orders filled (`Traded`, `Held`) and the prices paid among them (`Paid`). The strategy is shown the snapshot at any time, of any symbol.

### LatencyHistogram, Demonstration

`Recorded` and `Percentile` are those of `perf::LatencyHistogram`, which counts;
`SampledPercentile` is that of `marketdata::LatencyHistogram`, which keeps its samples,
here a bag (how many there are of each value). The demonstration uses the first; `samples`
records as history what the second would have been given, and
`PercentilesAgree` compares them. `Turn` is one turn of the loop with all that it does to
books, recorder, strategy and histogram; the queue is empty before and after, as the
same thread pushes and pops. A book is the table of its orders, and `BookSnapshot` computes
from it what `EnhancedOrderBook` keeps in its levels: that the two agree is what
`LevelsMatchOrders` and `ReadersMatchOrders` say. `Signal` may come at any time.

## 3. Runs

| Run | Instance | States | Shows |
|---|---|---|---|
| `spsc` | 2 slots, 5 pushes, 2 values | 74372 | `IInv`, `FIFO`, `NoDataRace`, `SizeSkew`, `MonitorSizeBound`; `ImplementsFIFO`; `AllDelivered` |
| `spsc_one_slot` | 1 slot | violated | a ring of 1 loses items |
| `book` | 3 ids, 2 prices, quantities 1-2 | 2088 up to symmetry | `LevelsMatchOrders`, `ReadersMatchOrders`; `CountsEveryChange` |
| `book_zero_quantity` | the same with quantity 0 | violated | orders of quantity 0 break the levels |
| `mpsc` | 2 producers, 2 pushes each, 4 addresses | 47916 | `NoUseAfterFree`, `EmptyOnlyWhenCut`, `MemoryInUse`; `ImplementsQueue`; `AllReceived` |
| `tape` | 3 records of 2 bytes, pages of 4, first mapping of 5, 2 starts | 405477 | `ReplaysRecording`, `ReplaysKilledRecording`, `DeliveredInOrder`, `RunningTellsThread`, `PauseTakesHold`; `QuietAfterStop`; `StopReturns`, `EndsUnlessPaused` |
| `websocket` | 2 peers, 2 starts, 2 broadcasts, of 126 and of 16909060 bytes, 1 read astray | 674338 | `FramesReadable`, `FramesInOrder`, `NoSocketLost`; `StopReturns` |
| `pool` | chunks of 2, 3 of them, nesting of 3 | 73965 | `OneOwner`, `CountOfObjects` |
| `parsers` | every buffer up to 7 bytes of 3 values | 49747 | `CopiesInBounds`, `DeliversStream`; `PassesStream` |
| `trading` | 1 symbol, 2 prices, adds of 0 and 3, 3 messages, 3 orders | 1511770 | `AverageBetweenPrices`; `OrdersAreFillable` |
| `pcap` | files up to 13 bytes, headers of 2, 3, 1, 1 and 1, packets up to 5 | 213586 | `PayloadInPacket`, `EachPacketOnce`; `ReachesEnd` |
| `demo` | 22 messages, 3 quotes, 3 latencies, 3 buckets | 734412 | `NeverSignals`, `PercentilesAgree`; `OrdersOnlyArrive` |

Why the bounds are enough:

* *spsc.* Five pushes through two slots use each slot at least twice and the first
  one three times; both clients meet the full and the empty ring. Two values are
  enough to tell an item from the one it might be confused with. `IInv` and the
  rest are proved for every capacity from 2 up and any number of pushes.
* *book.* Three orders over two prices: a level shared by two orders beside
  another level, a level emptied and made again, a replace onto a used id. A
  fourth order adds no new relation between two orders and a level. `MaxMessages`
  only ends behaviours that never call `clear`, and eight messages reach every
  set of orders by every kind of last step. Symmetry is over the ids, which
  are only compared for equality; no liveness is checked with it.
* *mpsc.* Four addresses and four items: at most two pushes under way, the
  sentinel and the node about to be deleted use them all, so addresses are handed
  out again while the other producer still runs; at times a producer has to wait
  for memory.
* *tape.* Three records put a pause or stop before, between and behind
  records; two starts put a restart behind every way to end. Records of 2 in a first
  mapping of 5 and pages of 4: the mapping ends inside a record, as the code's
  1 MiB does with its records of 40 bytes (the fields take 36, padded to 40), and
  the third record makes it grow. A kill leaves torn, empty and zero-filled files.
* *websocket.* With two clients `clients_` is appended to with moving (1 to 2) and, after a
  stop, which keeps the memory, without. 126 is the smallest size of the second
  form of header; 16909060 is one of the third, whose last four bytes are 1, 2, 3 and 4, so that two
  of them in the wrong order show. The first broadcast may find no client, one or two, or meet one of their
registrations at any point, and the second what the first left. `MaxAstray` of 1 is a broadcast whose iterators are of
different memory and which sends one frame where it should not, or none; to send one frame twice it takes 2, which makes
the instance too large for TLC, and which the proofs cover, as they do every number. The second start comes after a stop or on the running server.
  There is no symmetry, for the sake of the temporal property.
* *pool.* Three chunks: one put before a list that is empty, and slots of different chunks
  mixed in the list. Nesting of three puts an allocate and a deallocate inside a
  third call.
* *parsers.* Seven bytes hold two ITCH messages of different sizes, or one and a cut one; three
  values give a type that is not parsed beside two that are. One reset puts it after
  every prefix.
* *trading.* Books and positions of different symbols share nothing, so one symbol is enough.
  Three messages make a book of both sides, crossed, equal and apart, with a level
  shared by two of them or gone again. An add of 0 makes a level or meets one; one of 3 is above `MaxSize`
  (2), and an execution of 2 of it leaves what is below. Three orders open a
  position, add to it, and turn it round.
* *pcap.* Files end before, within and after the headers and the data of the
  first, second and third packet. The largest header length (2 words of 1) is
  more than the least (1), 0 is less.
* *demo.* The divisors are the code's, 5, 7 and 11, but the strategy is asked every
  5 messages in place of 1000, in turns over all three books. The 22 messages 0 to 21 have
  three executions (7, 14, 21) and a cancel (11); before 11 and 21 a message added
  orders, the two whose numbers they name. The proofs carry it to any number of messages.

Deadlock is checked in `spsc`, `book`, `parsers`, `trading`, `pcap` and `demo`, where something
can always be called again. It is not in the others, where the object is destroyed or
the process ends.

Fairness. `spsc`: weak fairness of each client, because both loop until they succeed
(`tests/test_lock_free_queue.cpp:54-70`) and the scheduler runs both; none for
the monitor. `mpsc`: a producer inside `push` gets out of it, and the consumer keeps
calling; nobody is made to start a push. `tape`: the replay thread runs,
callbacks return, and a join whose thread has ended returns; nothing makes the
client call stop, pause or resume. `websocket`: the accept thread and a `stop` that has
been called go on when they can; nothing makes a peer connect, speak or leave.
`parsers`: the loop of `src/main.cpp:261`, which calls while there is more.
`pcap`: a caller that goes on after a false, as it must to get past a packet that is not UDP;
nothing makes it reset.

### What the runs that end in a violation show

* `spsc_one_slot`: `SPSCQueue(1)` passes the test of line 39, but "holds item n" and
  "free for item n+1" are then one number; a push overwrites what was not read.
  All theorems below assume `Capacity >= 2`, and need it.
* `book_zero_quantity`: `add_order` with quantity 0 makes a level of size 0, which
  line 257 erases although other orders of quantity 0 rest there; after that a
  removal takes one from the count of a level that never counted that order.

Two facts about the tests, met while reading them. `tests/test_lock_free_queue.cpp:36-40`
expects that a queue of 4 refuses the fourth item, but the ring uses all its slots
(line 68 tests the slot, not a free slot to spare) and refuses the fifth.
`tests/test_lock_free_queue.cpp:116-125` makes a queue of a type without a default
constructor, which the slots need, so the file does not compile as it is.

### What is weaker than a reader may expect

Several hazards that `PROJECT.json` lists are real defects, or may be, which no property excludes: the
models have them, and the properties step around them. Their entries name no property, or say which part is covered.

* `ReplaysRecording` and `ReplaysKilledRecording` hold when no system call failed and nothing was written through a mapping after a `flush`
  (`Orderly` in `TickRecorder`). Without the second condition they are false: `flush` cuts the file
  below the mapping (line 177) and leaves `mapped_size_`, so what is recorded next
  goes past the end of the file.
* `CountsEveryChange` lets a refused `replace_order` lose the old order, because
  it does (line 127); it says that nothing else happens and that the loss is counted.
* `ReplaysKilledRecording` has zeros behind the records: the file of a killed recorder is as long
  as its mapping, and the engine replays the rest as ticks of price 0.
* `DeliveredInOrder`, `StopReturns` and `EndsUnlessPaused` of the engine speak of a process
  that has not come to an end (`terminated`).
  They say nothing of the ways to end it that are listed under `ReplayEngine` in section 2: a `start`
  after a replay that ended by itself, a callback that calls `stop`, a mapping that failed.
* `PauseTakesHold` says one more record, not none.
* `NoSocketLost` leaves out a server that was started while it ran: line 176 overwrites
  `server_socket_`, the bind of line 190 fails because the port is in use, and nobody has
  the number of the first socket any more; stop then does not close it.
* `StopReturns` does not hold when the accept thread waits for ever in `accept` or in
  `recv`: on Linux line 210 does not wake it, so stop waits for a peer to connect and to
  say something.
* `FramesInOrder` lets a broadcast lose its frame. When a registration moves `clients_` while a broadcast
  is under way (`websocket_server.cpp:242` against `321`), which the code does nothing to prevent, the
  broadcast reads memory given back. A connected client then may miss that frame without anybody noticing,
  get it twice or before the answer to its handshake, or the process ends. The property says that the
  damage stays with that one frame, and that every other broadcast reaches the clients it is for. No document of the repository
  promises more.
* `PassesStream` is about the well-formed part of a buffer. On a tail of one or two
  bytes, a cut message or a length of 0 the loop of `src/main.cpp:261` never ends.
* `CountOfObjects` counts a slot whose constructor threw as allocated for ever.
* `EachPacketOnce` ends at the first packet that is cut short. Behind its header the next call
  reads data as a header, and may deliver what is no packet.
* `OrdersAreFillable` has an exception. `add_bid` and `add_ask` take a size of 0 and leave a level of
  size 0 (`order_book.cpp:10-26`). When that is the best one, the strategy, which looks only at the sum of the
  two best sizes, sends an order of size 0 at a price where nothing is offered. The property
  says that this is the one way to such an order: `bare` has the levels that adds of size 0 made and nothing
  else has touched since.
* `OrdersAreFillable` is about the book at the moment of the signal. The strategy takes its orders for
  filled and the book knows nothing of them, so that the next snapshot offers, and the
  strategy may take, the same quantity again.
* `AverageBetweenPrices` is about positions that were not short since they were last flat. Bought
  back through a short one the average weighs the purchase against a negative quantity
  (`strategy.cpp:50-52`): it need not be near any price that was paid and may be negative.
* `PercentilesAgree` allows one rank below the rank of the samples: the counting histogram rounds
  `count * p` down, so that p99 of fewer than 100 samples is not their maximum and p50 of one sample
  is bucket 0. Values are brought down to the last bucket: 1023 cycles, some 340 ns at the
  3 GHz the report assumes, is the most it can print. Floating-point rounding of the rank is left out.
* `OrdersOnlyArrive` and `NeverSignals` say that the demonstration exercises less of the library than its
  text suggests: books only grow, nothing is executed, cancelled or modified, and the callback
  of the strategy is never called. "Messages Processed" is the planned number, also
  when a signal has ended the loop.

## 4. Proofs

Every theorem holds for all values of the constants that the `ASSUME` of its module
admits; where it needs more, that is said here and in its statement. Each strengthened
invariant was first checked by TLC as an invariant of the run of its component: the linked queue's
in 47,916 states, the tape's in 405,477, the server's in 674,338, the book's in 2,088 up to symmetry, the
strategy's in 1,511,770, the histograms' in 734,412.

### The ring: `SPSCProofs`

| Theorem | States |
|---|---|
| `Invariance` | `Spec => []IInv` |
| `TypeCorrect` | `Spec => []TypeOK` |
| `FirstInFirstOut` | `Spec => []FIFO` |
| `RaceFree` | `Spec => []NoDataRace` |
| `SizeAccuracy` | `Spec => []SizeSkew` |
| `MonitorIsBounded` | `Spec => []MonitorSizeBound` |
| `Refinement` | `Spec => ImplementsFIFO` |

All of them assume `Capacity >= 2`, which the run `spsc_one_slot` shows to be needed. Of
`CapacityAssumption` only that the capacity
is a positive natural is used: since slots are indexed by remainder in the model,
the proof does not need the power of two, which the code needs for its mask.

The argument. `FIFO` is not inductive: nothing in it says why a pop finds the item
of its position. `IInv` adds `Protocol`, which says for every position what its slot's
number is: `i + 1` and the item, for a position pushed and not popped; `i`, for the
positions free for the next round. These two ranges together are
`Capacity` consecutive positions and so cover every slot once (a lemma on
remainders). A client that passed its test owns its slot until it stores the next
number, so the steps of the other client cannot disturb what `Protocol` says of it.
`RaceFree` follows: a producer about to write is at a position less than
`Capacity` ahead of what has been popped, a consumer about to read at one that has
been pushed; two different positions in one slot would be `Capacity` apart.
`Refinement` maps the queue to the part of `sent` behind what was received: `PushPublish` is
`Put`, `PopFree` is `Get`, and every other step leaves the queue as it is.
`MonitorIsBounded` is about a thread that owns no slot. It needs `Sampling`: what `size()`
loaded of `head_` is never ahead of it, however long ago that was, and no more is pushed than
`MaxPushes`; the difference modulo `WordSize` is then small, or close to the top of the range.

### The linked queue: `MPSCProofs`

| Theorem | States |
|---|---|
| `QueueTypes` | `Spec => []PTypeOK` |
| `NoNodeUsedAfterFree` | `Spec => []NoUseAfterFree` |
| `LooksEmptyOnlyWhenCut` | `Spec => []EmptyOnlyWhenCut` |
| `NothingLeaks` | `Spec => []MemoryInUse` |
| `ListIsQueue` | `Spec => ImplementsQueue` |

For any finite set of producers, any set of addresses and any number of pushes. The list cannot be
read off the links, because it is cut wherever a push stands between its two effects. `QInv` says
instead that there is a function `at` with `at[i]` the node that brought the `i`-th item into the order
(`at[0]` the first sentinel) such that the nodes from `at[Taken]` to `at[Pushed]` are the list,
from `tail_` to `head_`, all different, each holding its item; a node either leads to the next one or
leads nowhere, and then exactly one producer is about to link it; the nodes in use are these, one of each
producer that has not exchanged yet, and the one the consumer is about to delete. Every action
keeps `at` but the exchange, which appends one node. `NoNodeUsedAfterFree` follows because a producer that
holds `prev` is the one that owes its link, and the consumer does not pass a missing link.
`ListIsQueue` needs one more fact, that the list is no longer than the queue of `BoundedFIFO` may be:
each producer has pushed at most `MaxPushes` items, and no two pushes the same one (`Numbered`).

### The order book: `BookProofs`

| Theorem | States | Assumes |
|---|---|---|
| `LevelsAgree` | `Spec => []LevelsMatchOrders` | `0 \notin Quantities` |
| `ReadersAgree` | `Spec => []ReadersMatchOrders` | `0 \notin Quantities` |
| `NoChangeUncounted` | `Spec => CountsEveryChange` | |

The run `book_zero_quantity` shows that the assumption is needed. `BookInv` says that `side` *is* what
a recount of the orders gives (`Copy(orders)`: by price the sum of the quantities and the number of orders),
that every order rests with something left, and that there are finitely many. `AddCopies` and
`RemoveCopies` say that the copy of the changed table differs from the old copy in one level, the one the
code changes; a modify is a removal and an addition, a replace an operation on two orders.
A level's quantity is a sum over a set, and `MapThenSumSet` is a recursive function that
`CHOOSE` picks. That such a function exists and which values it has is proved by induction on the number of orders
(`SumsExist`, `SumsAgree`, over a *set* of numbers, so that no operator is a parameter); the rest of
the proof uses sums by `SumWithout`, `SumSame` and the like. In `NoChangeUncounted` a
refused `replace_order` is one of the changes.

### Recorder and replay: `TapeProofs`

| Theorem | States |
|---|---|
| `ReplayIsInOrder` | `TapeSpec => []DeliveredInOrder` |
| `RunningIsTrue` | `TapeSpec => []RunningTellsThread` |
| `PauseIsHeard` | `TapeSpec => []PauseTakesHold` |
| `StopIsQuiet` | `TapeSpec => QuietAfterStop` |
| `AnyFileIsReplayed` | the first three, of `ReplayEngine` on any file |
| `RecordingIsReplayed` | `TapeSpec => []ReplaysRecording` |
| `KilledRecordingIsReplayed` | `TapeSpec => []ReplaysKilledRecording` |

For all sizes of records, pages and the first mapping, and any number of starts and records. The engine's
part of `TapeInv` ties the reader to the count (`Progress`: the offset is the records read times their size, the
records delivered are the last of these), the flags to the thread (`Control`: a thread that is not in
`running_`'s eyes has been interrupted) and a pause to the record that may still come
(`Pausing`: after that record the thread cannot get to `read` without seeing one of the
two flags). The recorder's part, `Written`, says of a recorder that is `Orderly` that every record is where it
belongs with zeros behind, and how long the file is: as the mapping, which all that was recorded fits in, until the
flush, and then as the records. The engine's half needs nothing of the recorder but that it is gone,
hence `AnyFileIsReplayed`.

### The server: `WebSocketProofs`

| Theorem | States |
|---|---|
| `ServerTypes` | `Spec => []ServerTypeOK` |
| `ClientsMissNothing` | `Spec => []FramesInOrder` |
| `StopClosesAll` | `Spec => []NoSocketLost` |
| `EveryFrameReadable` | `Spec => []FramesReadable` |

For any peers, messages and bounds, `MaxAstray` among them. The invariant says, of a process that is alive: the connections
open are the clients' and the one at hand, each of another peer (`Connections`); no thread, no clients, and
no listening socket once stop has closed it (`Threads`); but for frames gone astray, nothing is sent before the answer to a
handshake (`Greeted`); and, while its iterators are good, between them are the clients that registered before a broadcast
read its end, and behind that end those that came since (`Sending`). On that `FramesInOrder` turns while a broadcast is
under way (`Delivered`, `Complete`). A broadcast whose iterators dangle is in `astray` before it sends anything,
and a frame it sends has a number that is in `astray`: every part of the invariant speaks of the other numbers only,
or allows those, and so does not mind where such a frame goes.

`EveryFrameReadable` is for every size of 64 bits, which is all `ServerAssumption` says of sizes. `Framed`
says that what a peer got after the answer to its handshake is frames of messages, each with the header
`Header` makes. What is left is arithmetic: the reader folds the bytes back into a number, and `FoldLeft` is a recursive
function that `CHOOSE` picks. `FoldsExist` proves by induction over a set of numbers that there is
one, `Reading` which value it has for two and for eight bytes; four bytes hold what is below 2^32
(`FourBytesAre`), and high and low together the size (`SizeIs`).

### The pool: `PoolProofs`

| Theorem | States |
|---|---|
| `SlotsHaveOneOwner` | `Spec => []OneOwner` |
| `PoolTypes` | `Spec => []TypeOK` |
| `CountIsOfObjects` | `Spec => []CountOfObjects` |

`OneOwner` is inductive with the types. The lemmas say what the operations on
lists do to a list without repetitions (`TakeFirst`, `PutFirst`), what a call that begins or
ends does to the slots in hand (`CallBegins`, `CallEnds`), and that a new chunk's slots are
exactly those the pool did not have (`ChunkLinked`). `CountIsOfObjects` needs one owner, so that
a set a slot is added to did not have it: cardinalities then go up and down with the count.

### Parsers and capture reader: `FramingProofs`

| Theorem | States |
|---|---|
| `StaysInBounds` | `Spec => []CopiesInBounds` |
| `ParserTypes` | `Spec => []TypeOK` |
| `StreamIsDelivered` | `Spec => []DeliversStream` |
| `PayloadsInside` | `ReaderSpec => []PayloadInPacket` |
| `ReaderTypes` | `ReaderSpec => []ReaderTypeOK` |
| `PacketsOnce` | `ReaderSpec => []EachPacketOnce` |

For every buffer and every file, all sizes of structures and headers, and any number of resets. The type of the
buffer is all that `CopiesInBounds` needs: the length read from it is a natural
number, so the two tests of it bound both the copy and the step. A payload has its
first byte because `HasPayload` compares strictly.

`DeliversStream` speaks of every way a part of the buffer can be cut into messages that is
well-formed, the parser only of the one it takes. `OneChain` says they are the same: no message of a framing
begins within another, for the first that did would follow one that ends where another begins. With it,
a step passes exactly one message of any framing that reaches beyond it. `EachPacketOnce` has the
same shape for packets, up to the first that is cut short; where that is not reached yet, the end is the
reader's own offset, which is why the invariant adds that what was delivered lies behind it.

### Strategy and demonstration: `StrategyProofs`

| Theorem | States | Assumes |
|---|---|---|
| `EveryOrderFillable` | `TradingSpec => OrdersAreFillable` | |
| `OrdersStay` | `Spec => OrdersOnlyArrive` | |
| `StrategySilent` | `Spec => []NeverSignals` | |
| `AverageIsBetween` | `TradingSpec => []AverageBetweenPrices` | |
| `PercentilesAlike` | `Spec => []PercentilesAgree` | `IsFiniteSet(Latencies)` |

`EveryOrderFillable` is for any symbols, prices, sizes from 0 up and thresholds, whatever the feed does. It rests on
`BareLevels`, that a level of size 0 is one that an add of size 0 made and nothing else has touched since: of the other operations each
erases a level it brings down to nothing, or leaves something on it (`ModifyOK`, `ExecuteOK`, `UpdateOK`). A best level that is not
of this kind is the best of those where something is offered, and the order is for a part of that;
a spread that is no less than a threshold in the naturals is not crossed.

`AverageIsBetween` is for any symbols, prices, thresholds and number of orders. The property is not inductive: it
looks at the last moment at which nothing was held, and the next order may make a new one. `Averaged` says
the same of *every* moment at which nothing was held and since which the position was never short, and that the
position's quantity is what was bought less what was sold. A purchase at such a time takes the weighed average
of one between two prices and another price, which is between two prices again (`WeighedBetween`,
`BoughtBetween`), and stays so when the fraction is reduced (`FractionIs`, `BetweenAlike`); a sale leaves the
average alone, and so does a purchase of size 0, which pays no price. `HeldAfter` and its like say what
one more order does to the sums.

`OrdersStay` and `StrategySilent` are about the demonstration, for any number of messages, any divisors, quotes and latencies that
`DemonstrationAssumption` allows (which is: every quote is narrower than the
strategy's threshold, as 50 ticks are of 500). `DInv` says where orders come from: in pairs, from an earlier message `m` of
the book's own symbol, `m % 3` being the book's number. `OrdersStay` follows because
what message `i` names to execute or cancel would be of message `i - 1`, another symbol's,
and what it names to modify of message `i` itself, which did not add (`AddsOrNothing`).
`StrategySilent` follows because in a book of pairs the best prices are no further apart than
those of any pair (`NotWorthwhile`), which needs that the least and the greatest of a bounded set of
prices exist (`MinBelow`, `MaxAbove`, from the well-foundedness of `<`). Three books, not a
parameter, is what the argument needs of the code: with one book it fails.

`PercentilesAlike` is about the two histograms on the same samples, any numbers of them and of buckets.
`HistInv` says that a bucket counts the samples that are brought down to it, so that the counts of the first
buckets add up to the samples up to there (`Cumulated`). The counting histogram then stops in the bucket of the
target-th sample in order, the sampling one at the sample of its rank, and
rounding puts the target at the rank or one before it (`RankAndTarget`). It needs that only finitely many
latencies are possible, which a count of cycles in 64 bits gives; the sampling one sums over the set of them.

### Only model-checked

* All liveness (`AllDelivered`, `AllReceived`, `StopReturns` twice, `EndsUnlessPaused`, `PassesStream`,
  `ReachesEnd`): liveness under fairness and `ENABLED` are beyond the proof system.

Every other property a run checks is stated by a theorem: the invariants, the action properties and both refinements.

The theorems speak of the model: that a definition is what the code does is for the reader to see, from
section 2 and the lines `PROJECT.json` maps it to.

## 5. Plan

Done: the SPSC ring and the MPSC queue with one abstract queue; the order book; recorder, reader and
replay, composed; the WebSocket server; the memory pool; the framing of ITCH and IEX and of capture files;
the books of price levels, the strategy, the histograms and the loop of the demonstration; proofs about every one of
these, with a theorem for each property that is not about liveness.

Left, in this order:

1. An abstract specification of the pool, an unordered set of objects, with its refinement.
2. In the server: `client_count`, and peers that stop reading, on which a send blocks.

### Not modelled

* `marketdata::ITCHParser` (`src/marketdata_parser.cpp`) is one pure function from 36 bytes to a
  structure, byte moves without state; so are the fields of the other parsers' messages.
* SHA-1 and base64 of the WebSocket handshake: pure functions over bytes.
* Cycle counters and timers, benchmarks, build scripts and the data generator measure or
  feed the components and keep no state of their own.
* The branches for Windows; `TickReader::reset`, which nothing calls, and its stream without mappings.
* Hazards without a property are modelled but promised by no document: nothing marks a WebSocket client that has
  gone away as inactive (`Send` to a peer that left may end the process), and those of section 3 that
  the properties step around.

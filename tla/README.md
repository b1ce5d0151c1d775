# A verification of cixrs, a limit-order exchange

cixrs is an exchange server: clients connect over Cap'n Proto, enter and cancel
limit orders, and subscribe to executions.  The main thread runs the sessions,
writes each request to a write-ahead log and sends it to an engine thread,
which keeps the books and matches orders; the engine's answers come back
through a second channel and are published to the clients.  When the server
starts, the log is replayed through the engine.

This directory holds TLA+ modules of these parts, TLC configurations that check
them on small instances, and proofs, for every size, about the matching engine, the
heap of each of its sides, the ids of orders, the server with its replay, its
write-ahead log and the query for open orders.  All paths below are relative to `src/` of the repository.

## 1. Inventory

| Component | State | Operations | What makes it correct |
|---|---|---|---|
| Trading ids (`libcix/order.rs`) | 64 bits: symbol, metadata (type, side), sequence | `new`, `from_raw`, accessors | packing loses nothing, bounds are checked |
| Tree heap (`libcix/heap.rs`) | pool of linked nodes, free list, root | `insert`, `remove`, `update`, `pop`, `peek`, `HeapIterator` | a valid tree, stable handles, no slot lost, root greatest, iteration in order |
| Matching (`libcix/book.rs`) | per symbol two sides (heap and lookup), execution id counter, last execution | `add_order` with `match_order`, `cancel_order`, `publish_md`, `orders` | quantity conserved, book not crossed, price-time priority, limits respected |
| Engine (`server/engine.rs`) | books, dirty symbols | `new_order`, `cancel_order`, `serialization_point`, `get_open_orders`, `publish_md` | only owners cancel, market data fresh |
| Write-ahead log (`server/wal.rs`) | numbered mapped files, cursor | `Wal::new`, `write_entry`, `rotate`, `WalDirectoryReader` | what was acknowledged survives, once and in order |
| Router (`server/server.rs`) | next sequence number per symbol, sender to the engine | `create_order_id`, `route_order`, `replay_message` | ids issued once, over restarts too |
| Sessions (`server/session.rs`, `events.rs`) | `pending_orders`, `pending_open_orders`, `sub_map`, `pending_syncs` | `new_order`, `cancel_order`, `get_open_orders`, `execution_subscribe` | every order answered, answers true |
| Publisher (`server/server.rs`) | receiver of engine messages, `ServerState` | `handle_executions`, `notify_serializations` | each user told once of each execution, nothing replayed told again |
| Start-up (`server/server.rs`) | replay, then a serialization point, then `Running` | `main`, `init_wal` | books as before the crash before clients are served |
| Open orders query (`server/session.rs`, `events.rs`, `engine.rs`) | a counter per session, `pending_open_orders` | `get_open_orders` on both sides, `recv`, `OpenOrdersSend::poll` | the whole of what was open at one moment, of the asking user only, and an answer at all |
| Market data (`book.rs`, `order.rs`; `md.rs` is missing from the repository) | – | `get_l2_data`, `L2MdSide::from` | levels complete and aggregated |
| `client.rs`, `walread.rs`, `cix.capnp`, `test/` | – | input and output, generated code, random drivers | not modelled |

How they interact: sessions, router, log and publisher share one context on the
main thread, which runs one handler at a time; the engine has a thread of its
own and shares nothing; between them are two FIFO channels.  What is hard:

- the two threads' interleavings (an answer may be on its way before its waiter
  is registered; the market data timer may fire between any two messages);
- crashes in the middle of a log write, of a rotation, between logging and
  routing, and during a replay;
- replay reads the wall clock again, issues ids from memory and makes the
  engine repeat every old answer;
- queries for open orders are known by a user and a counter that starts at 0 with
  each session, and their contexts are never taken out of the map: sessions of one
  user meet each other's and older ones' keys, while answers are on the way;
- panics: the engine thread dies of an assertion while the main thread goes on,
  and dies again whenever the log is replayed;
- long sequences of heap operations, whose damage shows much later;
- limits: 1024 orders a side, 2^40 sequence numbers, full log files, sums of
  quantities in 32 bits, 5 levels and 10 orders a message.

`PROJECT.json` lists each hazard at its line with the properties that cover it.

## 2. Modules

| Module | Models | Shown by |
|---|---|---|
| `MarketData` | `get_l2_data` and `L2MdSide` (operators, no state) | used by `OrderBook` |
| `OrderBook` | one symbol's book, `BasicMatcher` and the engine's handlers for it | runs `book_safety`, `book_live`, `book_zero_quantity`, `book_l2_depth`; `OrderBookProofs` |
| `OrderBookProofs` | theorems about `OrderBook` for all values of the constants | TLAPS |
| `PriorityQueue` | what a client of the heap relies on (abstract) | implemented by `TreeHeap` |
| `TreeHeap` | `TreeHeap` and `HeapIterator`, link by link | run `heap`; `TreeHeapProofs` |
| `TreeHeapProofs` | theorems about `TreeHeap`, the refinement of `PriorityQueue` among them | TLAPS |
| `DurableLog` | what the server relies on of its log (abstract) | implemented by `Wal` |
| `Wal` | log files, crashes, restarts, replay's reading | runs `wal`, `wal_torn` |
| `Server` | sessions, router, channels, engine thread (an instance of `OrderBook`), publisher, replay, crashes | runs `server`, `server_live`, `replay_clock` |
| `OpenOrders` | the query for open orders, from the session to the engine and back | runs `open_orders`, `open_orders_full` |
| `TradingIds`, `TradingIdsProofs` | the packing of ids in 64 bits, and theorems about it | TLAPS |
| `WalProofs` | theorems about `Wal`, the refinement of `DurableLog` among them | TLAPS |
| `ServerProofs`, `ServerClientsProofs`, `ServerReplayProofs` | theorems about `Server`, each module on those of the one before: the channels and the orders, what clients are told, the replay | TLAPS |
| `OpenOrdersProofs` | theorems about `OpenOrders` | TLAPS |
| `MCOrderBook`, `MCWal`, `MCServer` | model values, symmetry and views for TLC | |

Definitions whose comment begins with *Fault* are not part of a model: each is
what a plausible bug would make of the definition that follows it.  The list of
`mutants` in `PROJECT.json` says which property catches which.

**OrderBook.**  `book` is both sides' heaps and lookup maps in one partial map
from ids to orders; an id's side bit says which side it is on.  `NewOrder` is the
engine taking an order in hand (`taker`); each `MatchOrder` is one round of
`match_order`'s loop, so that every intermediate book is a state; `FinishOrder`
is the rest of `add_order`.  `PanicInMatch` and `PanicHeapFull` are the failing
assertion and the two `unwrap`s.  `PublishMd` is the timer's `publish_md` with both
its messages; `PanicInMd` is what a build that checks for overflow makes of a level
whose quantities add up to more than 32 bits (one that does not publishes the sum
without its upper bits, which is `PublishMd`).  The heap is abstracted to "some order that no
other ranks before" – `TreeHeap` shows that its root is one, after any sequence
of the operations the book uses.  Prices are ordered values (no NaN), times are
any readings of the wall clock.  `submitted`, `filled` and `cancelled_by` are
history, needed to say what quantity an order should have left.

**MarketData.**  `get_l2_data`'s loop runs over the side's orders from best to worst;
`Reading` gives its local variables after each number of orders: the levels pushed and the one
in hand.  `RankOrder` is any order that the iterator may yield: where equally ranked orders
come in either order the levels are the same.

**TreeHeap.**  A heap is a record of the struct's fields; each Rust function is
an operator on it.  The functions that call themselves and the loop of `decrement_size` are
functions of a depth that no tree of so many nodes exceeds: `Join` and `Place` are one call of
`pull_up` and `insert_node`, `Joins` and `Places` all of them.  `Place` writes the size of the new
subtree's root last, where the code writes it first: nothing that is called in between
reads it.  `live`, what the client put under each handle, is the
refinement's `kept`.  States that differ in free nodes' stale links are one to
TLC (`VIEW`): `insert` overwrites them before they are read.  `HeapPop` is part of
the iterator only, which pops from a heap of its own and throws it away: `pop` does
not reset the new root's parent link and gives no slot back (`heap.rs:359-366`; compare
`remove_impl` at 404 and `remove` at 430), so that a heap somebody pops from and goes
on to use would not be the tree that `validate` asserts.

**Wal.**  Memory is cells of some bytes.  A cell knows which entry it belongs to
and which part of it, so that a reader can see torn entries.  A tag of two
cells, entries of 6 and 4 and files of 14 stand for 4, 44 and 20 bytes and
10 MiB: as there, sizes are multiples of the tag and a file's end may be left
unused.  `DurableLog` sees of all this what the reader yields and what was
answered; its steps are one entry appended, answered or not, and one entry torn.
`Start` is `init_wal`, with `FailedStart` its panic: on a file that it cannot read, or on an
entry that `replay_message` refuses, which is one without a symbol.  `SymbolEnd` says how much of
a message must be there for it not to be refused; a torn entry has the number 0 when it is, -1 when it is not.  The mapping's pages survive the
process; a loss of the machine's memory is not modelled (`flush_range`'s result
is ignored by the code, but no property depends on it).

**Server.**  `log` is what `Wal` promises: a sequence that survives crashes and to
which an entry is appended or not, atomically (the torn entries of run
`wal_torn` are left to `Wal`).  `handler` splits `Session::new_order` where the
engine can interleave: logged, routed, registered.  The engine's steps are those
of `OrderBook`; `EngineFinish` sends the executions and then the
acknowledgement.  They are appended at once: the main thread sees a FIFO queue
and cannot tell.  `Die` is the loss of all memory.  Both channels are unbounded queues:
`mpsc::channel(1024)` of futures 0.1 grants every `Sender` a slot beyond the
buffer, and every send in the code is by a fresh clone, so that no send waits.  (`Cargo.toml`
asks for futures 0.1, and there is no lock file: this rests on how the releases of 0.1 behave.)
Left out: market data (its channel only takes; `PublishMd` is checked in
`OrderBook`), open-order queries (they change no book and are not logged; module
`OpenOrders`), sessions that have not authenticated (their
requests change nothing), and connections (a client that goes away is `HangUp`
and `Unsubscribe`).

**OpenOrders.**  Sessions sign in, also as another user than before, enter orders,
ask and hang up; a session that is gone stays gone, and a client that comes back is
another session, whose counter is at 0.  `Ask` and `Register` split
`Session::get_open_orders` where the engine can interleave.  The engine's books are
the set of open orders: an order that is taken may come to rest or be executed at
once, and an open one may leave at any time, for `OrderBook` is about which does.  The
responses to a query are appended at once, as in `Server`.  `Receive` is `recv` in a build
that does not check for overflow (a number below `Word`); `ReceivePanics` is the failing
assertion, and the underflow of `in_flight` in a build that checks.  A context is
never taken out of `contexts`, as in the code.  History says who entered an order, what was open when
the engine took a query, what each client got, and under which keys a query was made
before the last one under it was done with (`clashed`).

**TradingIds.**  Shifts and masks are products, quotients and remainders; the numbers
of symbols and of sequence numbers are constants (2^20 and 2^40 in the code).

## 3. What is checked

| Run | Bounds | What it shows |
|---|---|---|
| `book_safety` | 3 buys, 1 sell, 3 prices, quantities 0–2, 2 times, 3 slots a side, 2 executions, 2 levels, sums below 3 | conservation, uncrossed book, priority, limits, fresh and complete market data, rank kept; the bounds make the ids, the levels (three prices, of which a message takes two) and the sums run out |
| `book_live` | 1 buy, 3 sells, 2 slots a side, 2 prices, quantities 1 and 2 | the mirror image, with heaps that run full, and liveness |
| `heap` | 6 nodes, 3 values | all trees up to three levels and their transformations |
| `wal` | 4 entries, 3 files of 14 cells | rotations at every remaining room, torn writes, files without length; the files implement `DurableLog` |
| `server` | 2 users, 3 log entries, 1 crash, clock forward | the order of log, engine and news over a restart; cancels stick, only owners' cancels count and orders stay |
| `server_live` | 2 entries, quantities 0 and 1, 1 dropped connection | answers and starts under fairness, with engine panics (a crossing order of quantity 0) |
| `open_orders` | 2 sessions, 2 users, 2 orders, 2 queries, 3 orders a response, one session may change its user | answers are what was open at one moment, of the asker's user, and come |
| `book_zero_quantity` | 2 buys, 1 sell | violation: see below |
| `book_l2_depth` | 2 buys, 2 levels | violation |
| `open_orders_full` | 1 session, 2 orders, 2 orders a response | violation |
| `wal_torn` | as `wal` | violation |
| `replay_clock` | 1 user, 3 entries, times 1 and 2 in any order, different for orders that rest together on a side | violation |

Three entries are enough for what relates orders to each other: two orders that
compete and one that trades with either, or an order, its cancel and one that
would have met it.  Three nodes show every link operation of the heap, six show
them below the root and next to a larger sibling.  Two queries are enough for two
sessions to share a key, for a dead session's key to be met again, and for a session to ask
under two users; with three orders a response an answer of two is whole, where `recv` does
not take a full one.

Two of the server's properties deserve a word.  `ToldStaysTrue` says that
whatever a client was told is in the log and is true of the books rebuilt
from it; `ReplayRepeats` that replay never changes a trade.  They hold when the
clock moves forward with every order (`Steady`), and only then.

Of the queries, `OnlyOwnOrders` holds whatever sessions do: the key names the user, and
the engine answers for the key.  `AnswerIsSnapshot`, `SeesEarlierOrders` and `EveryQueryAnswered` name the case the
code does not handle, a key under which two queries are under way at a time: then the
second query's context takes the place of the first one's, an answer may be put
together from two, and one of the clients may wait for ever.

`LevelsComplete` compares the level 2 message with a definition that does not follow
the loop: the i-th level is of the price that i - 1 others at which orders rest are better than,
with the sum of what rests there.  It is bounded as the code is, in the last level (finding 5) and modulo the limit
of a sum, and leaves out prices of 0 and less, which the loop does not take for levels.

**Findings.**  (1) An order of quantity 0 that crosses fails
`assert_ne!(cross_quantity, 0)` (`book.rs:208`) and kills the engine, again on
every replay.  (2) A torn write is read as an entry (`wal.rs:106`): a cancel, or an order
cut behind its symbol, is replayed, and an order cut before it stops every later start
(`server.rs:334`).  (3) Replay may
make other trades than clients were told of, for orders are ranked by the time of
their replay (`engine.rs:136`): it is enough that the clock goes back between two orders.  The run has
no two orders of one time on a side, whose place would be up to the heap.  (4) A user with ten open orders ends the server by
asking for them: the engine sends a full response, and `recv` asserts that there is
none (`events.rs:102`).  (5) The last level of a full level 2 message is published
as price 0 and quantity 0 (`order.rs:416`).

**Fairness.**  `OrderBook`: the engine thread goes on with what it has begun (weak
fairness), and `rx.merge(md_loop)` polls both streams at every turn, so that
messages cannot starve the timer: strong fairness of `TimerFires`, the steps that
clear the mark, of which `PublishMd` is the only one.  `Server`:
both threads run what is ready; the reactor polls every future that has been
notified at its next turn, so that the publisher and a session with an answer are
not starved by other sessions' requests (strong fairness); somebody restarts the
server.  `OpenOrders`: the same, for the engine (which goes on with its channel), the
handler under way, the publisher and the connections whose task has been unparked.  Clients, crashes and the timer's absence in `Server` have none.

Deadlock is checked for the heap only.  The others may really stop: a book whose
engine has died, a log whose last start failed, a server whose clients are done, a
query whose clients are gone.

## 4. What is proved

A theorem holds for all values of the constants that satisfy the assumptions of the
module it is about; runs show the same on a small instance.  Every safety
property that a passing run checks is a theorem, and so are both refinements; what is
left to TLC is liveness.

### The book (`OrderBookProofs`)

Proved, for any finite sets of ids, any users, prices, times,
quantities, capacity and id range: `TypeCorrect`, `OneAtATimeHolds`,
`NothingEmptyHolds`, `NeverCrossed`, `QuantityConserved`, `PriorityHolds`,
`LimitsHold`, `ReportsAddUp`, `PublishedIsFresh`, `LevelsHold` and `RankNeverChanges`.  The assumptions are those of
`OrderBook` and `MarketData` (`IdsAssumption`, `ValuesAssumption`, `NoneAssumption`,
`MarketDataAssumption`).

`TypeOK /\ OneAtATime` is inductive and carries the rest: `OneAtATime` says that
an order is in the book or in hand at the terms it was submitted with, without
which an order could meet itself in a match.  Each further invariant is inductive
relative to it:

- `NotCrossed`: the remainder is entered only when the loop has stopped, that is
  when the top of the other side does not cross; no order behind the top does
  (`RemainderDoesNotCross`).  That there is a top (`TopExists`) is a minimum of a
  finite set under a strict order, by well-foundedness of strict inclusion.
- `Conservation` needs `NothingEmptyRests`: an order of quantity 0 in the book would be
  neither executed in full nor cancelled.
- `Priority` and `WithinLimits` need that every execution is with an order that
  was entered (`BetweenKnownOrders`); a match only takes orders away from the side,
  so that what ranked below an execution's order stays below.
- `ReportedInFull` speaks of the quantities left after each execution, a list that a match makes
  one longer, where a sum over the executions would need induction.
- `RankKept` follows from `TypeOK` and `OneAtATime` step by step.
- `MdFresh`: the message of level 2 is a function of the orders that rest and the last
  execution, and every step that changes one of these marks the symbol.
- `LevelsComplete` says what this function is, for any depth of the message.
  `ReadSoFar` is the invariant of `get_l2_data`'s loop: after n orders the levels pushed are the
  best of those that the n orders make, with their sums, and strictly better than the order just
  read, so that no order to come touches them (`LevelKept`); the entry in hand is the
  level of that order, the worst so far; and once the message is full there are as many levels as it
  has room for.  A level is identified by how many prices are better (`IsLevel`) and not by sorting, so
  that one order more either is of the entry in hand or worse than all (`NewPrice`).  The iterator's
  order exists because a finite set of orders has one that ranks before none
  (`RankOrderRanks`).  What is left of an order fits in 32 bits because what was entered
  did (`EnteredWithin` with `Conservation`); adding modulo 2^32 order by order is adding and then
  reducing (`SumReduced`).  The loop and the sum over a set of orders are recursive
  functions; that they exist, and that the sum does not depend on the order in which it is taken
  (`SumAny`), is induction on numbers, that is, the well-foundedness of `<` applied to a
  set (`AllNumbers`).

### The tree heap (`TreeHeapProofs`)

Proved, for any capacity and any values, from `HeapAssumption` (there is a node and a
value, values are integers): `HeapTypeCorrect`, `HeapValid`, `HeapLosesNothing`,
`HeapImplementsQueue` and `HeapIteratorSorted`, that is, every property of run `heap`, the
refinement of `PriorityQueue` among them.  This is what `OrderBook` takes for granted
when it has a set of orders in the place of the heap.

`Valid` and `NothingLost` speak of the nodes one meets below the root, which no induction here
reaches.  The invariant, `HeapInv`, says the same of single nodes: a `Forest` is a set of
nodes of which each but the roots is a child of its parent, is not greater than it, and has
as its size one more than its children have together.  That it has no cycle need not be said: sizes
grow from a node to its parent (`Larger`), so that what holds of a node whenever it
holds of its children holds of all (`Downward`).  A heap is `Whole` when the nodes whose handles
are out are a forest with the one root that the heap names, of the size that there are handles, and
the free list names the others once each.

- *Forests.*  Taking a root away makes its children roots (`Fell`), putting a node above
  roots makes one root of them (`Plant`).  Both operations of the heap are made of these, while
  the links are inconsistent in between: `PullUpJoins` and `InsertNodePlaces` say what forest each
  leaves, and that the nodes of other trees are as they were.  They go by induction on the
  depth, which is the well-foundedness of `<` applied to a set (`AllNumbers`); that
  the functions of the depth exist is shown the same way.
- *Removal.*  `CutInner`: once the children of a node are joined in its place all is in order but the sizes
  above it, which are one too large; `CountedOut`: `decrement_size` moves the one node whose size does not add
  up (`Sized`) towards the root and past it, in at most as many rounds as there are nodes, for each
  round's node has a larger size.  `update` removes a node after its value has
  changed, when it is out of order with its parent and its children, and no step reads the value
  before it is inserted again (`Cuttable` has two valuations for this reason).
- *From `HeapInv` to the properties.*  `TreeNodes`: the list of nodes below the root is as long as the
  root's size, and closed under children, so that it has all nodes, once each.  `RootIsGreatest` is
  `Downward` once more, and makes each step one of `PriorityQueue`.
- *The iterator.*  `Cand`: the candidates' heap, from which `pop` takes nodes without giving
  their slots back, uses one slot for each node that is or was a candidate, so that it is not full while one
  is left to come.  It is a `Forest` too, though not `Whole`: its root's parent is stale.  `Frontier`: what is not
  yet yielded is below a candidate, hence not greater than the greatest of these.

### Ids (`TradingIdsProofs`)

Proved, for any number of symbols and of sequence numbers, that ids
lose nothing by packing (`PackingLosesNothing`), that an order's id read back from the
number a client holds is that id with its side (`OrderIdReadsBack`), that different
orders have different ids (`OrderIdsDiffer`), that no id is both an order's and an
execution's (`OrdersAreNotExecutions`), and that a sequence number which has run out is
turned away (`SequenceRunsOut`).  This is what lets `OrderBook` and `Server` have
ids that are not packed.  The argument is that of quotient and remainder (`Unpack`),
twice; the hypothesis is `Limits`.

### The server (`ServerProofs` to `ServerReplayProofs`)

Proved, for any number of users, orders, log entries, crashes and dropped
connections and any capacity of the book, from `ServerAssumption` (quantities are below
`QuantityLimit`, a constant that is 2^32 in the code; with `Steady`, every place of the log is a time) and `NoneAssumption` (`None` is
no user, message or order): every invariant of run `server`, and both its action properties.

The first part of `ServerProofs` shows that the server's book meets the assumptions of `OrderBook`
(`BookAssumptions`), so that its theorems hold of it, that the invariant of the book
survives each step of the server (`BookInv`: types, `OneAtATime`, and executions between
orders that were entered), and that a crash starts it again.

The inductive invariant is built in four layers.

1. `ServerProofs`, `IInv`.  `EngineFollowsLog` alone is not inductive: which entries are still
   in the channel depends on where the handler is (`Routed`), and on the serialization
   point that may be behind them (`OnTheWay`).  `OneAnswer` says that there is at most one
   answer to it, and none while it is on its way; `Phases` which handler runs with which
   entry, and that only orders of this start are pending.
   Results: `TypesHold`, `EngineFollows`.
2. `ServerProofs`, `OrdersInv`.  Ids are issued once because the router is ahead of all ids
   it has issued *or replayed* (`RouterAhead`): an order that is logged but not yet routed
   at a crash is counted when it is replayed.  `OrdersOfLog` says that what the engine
   knows are orders of the entries it has taken, and the one in hand is of the last;
   with `CancelsStick`, for book and hand, it makes `CancelSticks` inductive.  `StayInv` does so for
   `OrdersStay`: the book conserves quantity (from `OrderBookProofs`), every order taken is entered as it
   was logged, and whatever the book has cancelled is an order whose owner's cancel has been taken.
   Results: `IdsUnique`, `CancelsAreFinal`, `UncancelledStay`, and `EngineSeesIdsOnce`: what `add_order` would do
   with an order it already has never happens, over any number of restarts.
3. `ServerClientsProofs`, `ClientsInv`.  Every message and everything a client was told is
   *about* one entry of the log (`About`), which ids that are issued once make well-defined.  An
   entry is `Settled` when the engine is done with it and no execution of it is on its way;
   acknowledged orders are (`AckedSettled`), from the moment the answer is taken
   off the channel (`AcksLast`).  `Served` says that the answer to the serialization point has
   behind it nothing but news, and that the engine is past the replay once it is sent.
   Results: `NoneServedEarly` (`CaughtUp`), `OnlyNewsIsTold` (`NewsOnly`),
   `AnswersComeLast` (`ExecutionsBeforeAck`).
4. `ServerReplayProofs`, with the hypothesis `Steady`: the clock moves forward from order to order.
   Then an order's time is its place in the log (`Stamps`), no two orders rank equally
   (`OneOnTop`), and the engine is a deterministic function of the log.  `OnTheRun` says
   so without a recursive definition: there is a run, a list of the engine's states each the
   successor of the one before, on which the engine is somewhere, on which it was before each crash,
   and of which `trades` is the record; a step or a new entry makes the run longer at
   most.  What clients were told, are about to be told or wait for is vouched for by `trades`
   (`AllVouched`).  Results: `SameTradesAgain` (`ReplayRepeats`), `ToldIsKept` (`ToldStaysTrue`)
   and `ToldOnlyOnce` (`ToldOnce`); with any clock, `NothingTwice`: between two starts nobody
   is told of a trade twice.

`Steady` is a hypothesis and not an assumption on the code.  The wall clock may go back or stand still between two
orders; run `replay_clock` refutes `ReplayRepeats` for such a clock (finding 3).  The
theorems say that this is the only thing that can go wrong there.

### The write-ahead log (`WalProofs`)

Proved, for any sizes of files, tags and messages, any number of files and entries
and any crashes, from `SizesAssumption` (sizes are multiples of the tag's, and a file has room for
each message, and a symbol is within its message): `WalTypes`, `OnlyTheEndBlocks`, `WriterAppends`, `AnsweredSurvive` and
`WalImplementsLog`, that is, every property of run `wal`, the refinement of `DurableLog` among them.

The argument is in three parts.

- *Reading.*  `ReadFrom` is a function of the cursor that calls itself with greater ones; that there is
  such a function, and what it computes, is shown by induction from the end of the file to its
  front (`Downward`), which in turn is the well-foundedness of `<`, applied to a set
  (`AllNumbers`).  `ReadWritten` is the heart: cells of an entry, any number of them, written where the
  reader of a file stopped, make the reader find one entry more, whole or torn, and nothing
  but zeros behind it.  It holds because the file's end and all entries are aligned to the
  tag's size (`Multiples`), so that the reader never meets a rest too short for a tag.
- *The files together.*  `FlattenAppended`: what is appended to the last file is appended to the log.
  That the open file is the last one needs that the numbers of the files have no gap
  (`Contiguous`), and that none comes after a file without its length.
- *The invariant.*  `IInv` is `FilesWritten` (each file is readable and zero behind its end, or was left
  without its length), `Contiguous`, `HistoryTyped`, `WalOpen` (the writer's file is the
  last, its cursor where the reader stops, its next number at most one further),
  `LogSubmitted` (no entry has a number that was not submitted) and `OnlyLastBlocks` (an entry without
  its symbol is the last of the last file, and there is none while the server runs: it did not start
  over one, and a write that leaves one is the server's last).  `OnlyTheEndBlocks` is `BlockedAtEnd`,
  which the last of these and `FilesWritten` make.  Each step preserves it and
  is a step of `DurableLog` or none (`NextIInv`); `AnsweredSurvive` follows from the steps of
  `DurableLog` alone.

That a torn entry is read as an entry (finding 2) is part of what is proved: it is the step `WriteTorn`.

### The query for open orders (`OpenOrdersProofs`)

Proved, for any number of sessions, users, orders and queries and any number of orders a
response, whichever sessions change their user: `TypesHold`, `NobodyElsesOrders`,
`AnswersAreSnapshots` and `EarlierOrdersSeen`, that is, every safety property of run `open_orders`,
from `OpenOrdersAssumption` (a counter that has wrapped does not come back to 0 within the queries made) and
`NoneAssumption`.  The inductive invariant `IInv` has these parts:

- `Shape`: types (`Typed`, in which a counter of responses is a word that wraps, as in
  `Decrement`), and which numbers occur where.  `TypesHold` is about `TypeOK`, which is `Typed` and
  `NamesKnown`: what is on its way names queries that were asked and orders that were entered.
- `OwnLists`: whatever list of orders stands under a key, in the channel, in a context or in an answer,
  is of the key's user's orders.  It holds for clashed keys too, and carries
  `NobodyElsesOrders` by itself.
- `OneEach`, `WholeOrFull`, `Gathered`, `Given` follow one query whose key is its own through
  its life: there is one such query, and while it is on its way to the engine no response to it is; a
  response is all of the answer, or a full one is on its way before it, at which
  `recv` fails (finding 4), and nothing later matters; the context has nothing yet, or all and
  then nothing more comes; the answer given is the snapshot.  `OneEach` is what
  clashing keys would break, so that `clashed` is exactly the case the theorems leave out.
- `EarlierFirst` and `SnapshotHasEarlier`: the channel to the engine keeps the order of sending,
  so that orders entered before a query are in the books or gone when it is taken.

A response lists the orders in some order (`InOrder`); which one is the iterator's
concern (`TreeHeap`, `IteratorSorted`), and no property here depends on it.

### Only model-checked

- Liveness (`MatchEnds`, `ChangesArePublished`, `EveryOrderAnswered`, `StartsUp`,
  `EveryQueryAnswered`): out of the prover's reach.

`IInv` of `OpenOrdersProofs` and of `WalProofs`, `HeapInv` (on heaps of four nodes), and `IInv`, `OrdersInv`,
`StayInv` and `ClientsInv` of the server, were checked by TLC too, on
the instances of the runs.  `OnTheRun` quantifies over all runs and
was not.

## 5. Not modelled

- `client.rs`, `walread.rs` and the programs under `test/`: input and output only.
- `cix.capnp` and the code generated of it: the requests are actions of `Server` and
  `OpenOrders`.
- `md.rs`, the market data publisher, is not in the repository.
- Prices that are NaN, for which the comparers are no order (`book.rs:46`).
- The text of an entry that was cut behind its symbol: `Server` has none of them, and what the engine
  does with an order whose price or quantity reads as zero is left to finding 1.
- Errors of the file system other than a crash, and of serialization: messages have
  a fixed size.  `write_entry` takes every error for a full file, for `SizeLimit` in its
  match is a name and not a constant (`wal.rs:92`); with these messages there is no other.
- How much memory the channels take (`server.rs:56`).
- More than one symbol: the books share nothing but the engine thread, and a query for
  open orders reads them one after the other in one step.

## 6. Plan

The abstract exchange: each order's fate as a function of the log, implemented by
`Server` with a steady clock.  `OnTheRun` is most of the argument.

------------------------------ MODULE OrderBook ------------------------------
(***************************************************************************)
(* One symbol's order book and the matcher that works on it: BookSide,     *)
(* OrderBook and BasicMatcher of libcix/book.rs, driven by the handlers    *)
(* OrderEngine::new_order, cancel_order and publish_md of server/engine.rs *)
(* on the engine's single thread.                                          *)
(*                                                                         *)
(* A side's heap and its lookup map are one partial map from order ids to  *)
(* orders; which of two equally ranked orders is the heap's root is left   *)
(* open.  The heap itself is the subject of module TreeHeap.               *)
(***************************************************************************)
EXTENDS Integers, FiniteSets, Sequences, MarketData
Sets == INSTANCE FiniteSetsExt

CONSTANTS
    BuyIds,     \* the ids whose side bit says Buy ...
    SellIds,    \* ... and those whose side bit says Sell (OrderId::side)
    Users,      \* the users that own orders
    Prices,     \* limit prices: any ordered values, of either sign
    Quantities, \* the quantities orders are entered with, 0 included
    Times,      \* readings of the wall clock, in any order, with repetitions
    Capacity,   \* slots of each side's heap (1024 in BookSide::new)
    MaxSeq,     \* SEQUENCE_MAX, the largest sequence number of an id
    None        \* Rust's Option::None

Ids == BuyIds \cup SellIds
Sides == {"Buy", "Sell"}

\* Order, without its symbol (a book has one) and side (see SideOf).
Order == [id: Ids, user: Users, price: Prices, quantity: Nat, update: Times]

\* Execution; the users are those of the two orders.
Execution == [id: Nat, buy_order: BuyIds, sell_order: SellIds,
              price: Prices, quantity: Nat]

MdEntry == [price: Prices, quantity: Nat]
L1Md == [bid: MdEntry \cup {None}, ask: MdEntry \cup {None},
         last: MdEntry \cup {None}]

ASSUME IdsAssumption == BuyIds \cap SellIds = {} /\ IsFiniteSet(Ids)
ASSUME ValuesAssumption == /\ Prices \subseteq Int
                           /\ Quantities \subseteq 0 .. QuantityLimit - 1
                           /\ Times \subseteq Int
                           /\ MaxSeq \in Nat
                           /\ Capacity \in Nat
ASSUME NoneAssumption == None \notin Order \cup Execution \cup MdEntry \cup Users

VARIABLES
    book,       \* per id, the order resting under it, or None
    next_exec,  \* ExecutionIdGenerator.seq, shared by the two sides
    last_exec,  \* OrderBook.last_exec
    taker,      \* add_order's working copy `o' of the incoming order, or None
    execs,      \* match_order's vector of executions
    dirty,      \* whether the symbol is in OrderEngine.dirty_symbols
    published,  \* the last L1Md sent to the market data feed ...
    published_l2, \* ... and the last L2Md
    panicked    \* the engine thread has died of a panic

\* History, which the code does not keep: the order as it was entered, the
\* quantity executed against it, and who cancelled it.
VARIABLES submitted, filled, cancelled_by

book_vars == <<book, next_exec, last_exec, taker, execs, dirty, published, published_l2,
              panicked>>
history_vars == <<submitted, filled, cancelled_by>>
vars == <<book_vars, history_vars>>

------------------------------------------------------------------------------
\* Orders and sides

SideOf(id) == IF id \in BuyIds THEN "Buy" ELSE "Sell"
Opposite(s) == IF s = "Buy" THEN "Sell" ELSE "Buy"
Resting(s) == {id \in Ids : SideOf(id) = s /\ book[id] # None}

\* x ranks strictly before y on side s: TCmp::compare(x, y) is Greater.
Before(s, x, y) ==
    \/ IF s = "Buy" THEN x.price > y.price ELSE x.price < y.price
    \/ x.price = y.price /\ x.update < y.update

\* Fault: orders at the same price do not trade.
DoesCrossStrictly(s, new_order, book_order) ==
    IF s = "Buy" THEN book_order.price > new_order.price
                 ELSE book_order.price < new_order.price

\* TCmp::does_cross for an incoming order and one resting on side s.
DoesCross(s, new_order, book_order) ==
    IF s = "Buy" THEN book_order.price >= new_order.price
                 ELSE book_order.price <= new_order.price

\* Fault: any resting order is as good as the best.
TopUnranked(s) == Resting(s)

\* The ids peek() may return: nothing on the side ranks before them.
Top(s) == {id \in Resting(s) :
             \A other \in Resting(s) : ~Before(s, book[other], book[id])}

\* Fault: the incoming order takes its quantity, whatever the other has.
SmallerUnbounded(a, b) == a

Smaller(a, b) == IF a <= b THEN a ELSE b

\* Faults: the trade is done at the incoming order's price; it is reported with
\* the resting order's quantity.
CreateExecutionAtLimit(new_order, book_order, quantity) ==
    LET buying == SideOf(new_order.id) = "Buy"
    IN  [id         |-> next_exec,
         buy_order  |-> IF buying THEN new_order.id ELSE book_order.id,
         sell_order |-> IF buying THEN book_order.id ELSE new_order.id,
         price      |-> new_order.price,
         quantity   |-> quantity]
CreateExecutionInFull(new_order, book_order, quantity) ==
    [CreateExecutionAtLimit(new_order, book_order, book_order.quantity)
        EXCEPT !.price = book_order.price]

\* TCmp::create_execution: the trade is done at the resting order's price.
CreateExecution(new_order, book_order, quantity) ==
    LET buying == SideOf(new_order.id) = "Buy"
    IN  [id         |-> next_exec,
         buy_order  |-> IF buying THEN new_order.id ELSE book_order.id,
         sell_order |-> IF buying THEN book_order.id ELSE new_order.id,
         price      |-> book_order.price,
         quantity   |-> quantity]

\* HeapIterator over a side: its orders from best to worst, equal ones in either
\* order (see IteratorSorted of TreeHeap).
RankOrder(s, orders) ==
    CHOOSE ranked \in [1 .. Cardinality(orders) -> orders] :
       \A i, j \in DOMAIN ranked :
          i < j => ranked[i] # ranked[j] /\ ~Before(s, ranked[j], ranked[i])
OrdersOn(s) == {book[id] : id \in Resting(s)}

\* publish_md's message of level 2.
L2Side(s, orders) == L2MdSide(GetL2Data(RankOrder(s, orders)))
L2Data(buys, sells, last) ==
    [bids |-> L2Side("Buy", buys), asks |-> L2Side("Sell", sells), last |-> last]

------------------------------------------------------------------------------
\* The engine's steps

Idle == taker = None /\ ~panicked

Init ==
    /\ book = [id \in Ids |-> None]
    /\ next_exec = 0
    /\ last_exec = None
    /\ taker = None
    /\ execs = <<>>
    /\ dirty = FALSE
    /\ published = [bid |-> None, ask |-> None, last |-> None]
    /\ published_l2 = L2Data({}, {}, None)
    /\ panicked = FALSE
    /\ submitted = [id \in Ids |-> None]
    /\ filled = [id \in Ids |-> 0]
    /\ cancelled_by = [id \in Ids |-> None]

\* new_order and the start of add_order, for an id no order has had before:
\* the router issues each id once.
NewOrder(o) ==
    /\ Idle
    /\ submitted[o.id] = None
    /\ o.quantity \in Quantities
    /\ taker' = o
    /\ execs' = <<>>
    /\ submitted' = [submitted EXCEPT ![o.id] = o]
    /\ UNCHANGED <<book, next_exec, last_exec, dirty, published, published_l2, panicked,
                   filled, cancelled_by>>

\* add_order turns away an order whose id rests on its side; new_order still
\* marks the symbol.
RejectDuplicate(o) ==
    /\ Idle
    /\ book[o.id] # None
    /\ dirty' = TRUE
    /\ UNCHANGED <<book, next_exec, last_exec, taker, execs, published, published_l2, panicked,
                   history_vars>>

\* The loop of match_order goes on: some resting order is on top and crosses.
\* With taker.quantity = 0 it goes on only if no execution has been made yet,
\* for the test at its end comes after an execution.
Matching(m) ==
    /\ taker # None /\ ~panicked
    /\ ~(execs # <<>> /\ taker.quantity = 0)
    /\ m \in Top(Opposite(SideOf(taker.id)))
    /\ DoesCross(SideOf(m), taker, book[m])

\* Faults in what is left of a resting order: nothing is taken from it, it stays
\* when it is empty, it gets a new time.
AfterMatchUnreduced(o, rest) == IF rest = 0 THEN None ELSE o
AfterMatchKept(o, rest) == [o EXCEPT !.quantity = rest]
AfterMatchRestamped(o, rest) ==
    IF rest = 0 THEN None ELSE [o EXCEPT !.quantity = rest, !.update = taker.update]

\* What an execution leaves of a resting order.
AfterMatch(o, rest) == IF rest = 0 THEN None ELSE [o EXCEPT !.quantity = rest]

\* One round of the loop: an execution, both quantities reduced, and the
\* resting order taken out of heap and lookup when nothing is left of it.
MatchOrder(m) ==
    LET quantity == Smaller(taker.quantity, book[m].quantity)
        rest     == book[m].quantity - quantity
    IN  /\ Matching(m)
        /\ quantity # 0 /\ next_exec <= MaxSeq
        /\ execs' = Append(execs, CreateExecution(taker, book[m], quantity))
        /\ next_exec' = next_exec + 1
        /\ taker' = [taker EXCEPT !.quantity = @ - quantity]
        /\ book' = [book EXCEPT ![m] = AfterMatch(book[m], rest)]
        /\ filled' = [filled EXCEPT ![m] = @ + quantity,
                                    ![taker.id] = @ + quantity]
        /\ UNCHANGED <<last_exec, dirty, published, published_l2, panicked, submitted, cancelled_by>>

\* assert_ne!(cross_quantity, 0), or next_id's unwrap: the thread dies.
PanicInMatch(m) ==
    /\ Matching(m)
    /\ Smaller(taker.quantity, book[m].quantity) = 0 \/ next_exec > MaxSeq
    /\ panicked' = TRUE
    /\ UNCHANGED <<book, next_exec, last_exec, taker, execs, dirty, published, published_l2,
                   history_vars>>

\* Fault: the loop does not leave at an order that does not cross.
MatchOverWithoutBreak ==
    /\ taker # None /\ ~panicked
    /\ taker.quantity = 0 \/ Resting(Opposite(SideOf(taker.id))) = {}

MatchOver == /\ taker # None /\ ~panicked
             /\ ~\E m \in Ids : Matching(m)

\* MdExecution::from the last of the executions, or what was there before.
LastExec == IF execs = <<>> THEN last_exec
            ELSE [price |-> execs[Len(execs)].price,
                  quantity |-> execs[Len(execs)].quantity]

HeapFull(s) == Cardinality(Resting(s)) >= Capacity

\* The rest of add_order and of new_order: last_exec, the remainder entered in
\* the book, the acknowledgement, the symbol marked.
FinishOrder ==
    /\ MatchOver
    /\ taker.quantity = 0 \/ ~HeapFull(SideOf(taker.id))
    /\ book' = IF taker.quantity > 0 THEN [book EXCEPT ![taker.id] = taker] ELSE book
    /\ last_exec' = LastExec
    /\ taker' = None
    /\ execs' = <<>>
    /\ dirty' = TRUE
    /\ UNCHANGED <<next_exec, published, published_l2, panicked, history_vars>>

\* BookSide::add_order unwraps "heap full".
PanicHeapFull ==
    /\ MatchOver
    /\ taker.quantity > 0 /\ HeapFull(SideOf(taker.id))
    /\ last_exec' = LastExec
    /\ panicked' = TRUE
    /\ UNCHANGED <<book, next_exec, taker, execs, dirty, published, published_l2, history_vars>>

\* Faults: a cancel that does not mark the symbol, and one by anybody.
CancelUnmarked(id, user) ==
    /\ Idle
    /\ book[id] # None /\ book[id].user = user
    /\ book' = [book EXCEPT ![id] = None]
    /\ cancelled_by' = [cancelled_by EXCEPT ![id] = user]
    /\ UNCHANGED <<next_exec, last_exec, taker, execs, dirty, published, published_l2, panicked,
                   submitted, filled>>
CancelUnchecked(id, user) ==
    /\ Idle
    /\ book[id] # None
    /\ book' = [book EXCEPT ![id] = None]
    /\ cancelled_by' = [cancelled_by EXCEPT ![id] = user]
    /\ dirty' = TRUE
    /\ UNCHANGED <<next_exec, last_exec, taker, execs, published, published_l2, panicked,
                   submitted, filled>>

\* OrderEngine::cancel_order for an order in the book: of its owner only.  A
\* cancel of an unknown order or by somebody else changes nothing.
CancelOrder(id, user) ==
    /\ Idle
    /\ book[id] # None
    /\ book[id].user = user
    /\ book' = [book EXCEPT ![id] = None]
    /\ cancelled_by' = [cancelled_by EXCEPT ![id] = user]
    /\ dirty' = TRUE
    /\ UNCHANGED <<next_exec, last_exec, taker, execs, published, published_l2, panicked,
                   submitted, filled>>

\* BookSide::top_order: the price and quantity of the order on top.
TopOrder(s) == IF Resting(s) = {} THEN {None}
               ELSE {[price |-> book[id].price, quantity |-> book[id].quantity] :
                       id \in Top(s)}

\* publish_md's message of level 1
L1Sent ==
    \E bid \in TopOrder("Buy"), ask \in TopOrder("Sell") :
       published' = [bid |-> bid, ask |-> ask, last |-> last_exec]

\* The timer's publish_md.
PublishMd ==
    /\ Idle
    /\ dirty
    /\ dirty' = FALSE
    /\ UNCHANGED <<book, next_exec, last_exec, taker, execs, panicked, history_vars>>
    /\ L1Sent
    /\ published_l2' = L2Data(OrdersOn("Buy"), OrdersOn("Sell"), last_exec)

\* A level's total runs over in a build that checks for it: the thread dies with
\* the message of level 1 on its way.
PanicInMd ==
    /\ Idle
    /\ dirty
    /\ \E s \in Sides : Overflows(RankOrder(s, OrdersOn(s)))
    /\ L1Sent
    /\ panicked' = TRUE
    /\ UNCHANGED <<book, next_exec, last_exec, taker, execs, dirty, published_l2,
                   history_vars>>

Match == \E m \in Ids : MatchOrder(m) \/ PanicInMatch(m)
Finish == FinishOrder \/ PanicHeapFull

\* The messages that reach the engine: the id's user, price, quantity and the
\* clock's reading are arbitrary.
Request ==
    \/ \E id \in Ids, user \in Users, price \in Prices, quantity \in Quantities,
          update \in Times :
          LET o == [id |-> id, user |-> user, price |-> price,
                    quantity |-> quantity, update |-> update]
          IN  NewOrder(o) \/ RejectDuplicate(o)
    \/ \E id \in Ids, user \in Users : CancelOrder(id, user)

Next == Request \/ Match \/ Finish \/ PublishMd \/ PanicInMd

\* The timer's turn comes: of all steps, PublishMd clears the mark.
TimerFires == /\ Idle
              /\ dirty
              /\ dirty' = FALSE

\* The thread runs what it has begun.  rx.merge(md_loop) polls both streams at
\* every turn, so that messages do not starve the timer: strong fairness.
Spec == /\ Init /\ [][Next]_vars
        /\ WF_vars(Match) /\ WF_vars(Finish) /\ SF_dirty(TimerFires)

------------------------------------------------------------------------------
\* Correctness

TypeOK ==
    /\ book \in [Ids -> Order \cup {None}]
    /\ next_exec \in Nat
    /\ last_exec \in MdEntry \cup {None}
    /\ taker \in Order \cup {None}
    /\ execs \in Seq(Execution)
    /\ dirty \in BOOLEAN
    /\ published \in L1Md
    /\ panicked \in BOOLEAN
    /\ submitted \in [Ids -> Order \cup {None}]
    /\ filled \in [Ids -> Nat]
    /\ cancelled_by \in [Ids -> Users \cup {None}]

InBook(id) == book[id] # None
InHand(id) == taker # None /\ taker.id = id

\* What is left of an order: in the book, in the matcher's hand, or nowhere.
Remaining(id) == IF InBook(id) THEN book[id].quantity
                 ELSE IF InHand(id) THEN taker.quantity ELSE 0

\* No quantity is made or lost, through any number of partial executions by
\* either side: what was executed and what is left add up to what was entered,
\* and an order that is gone was executed in full or cancelled by its owner.
Conservation ==
    \A id \in Ids : submitted[id] # None =>
        LET o == submitted[id]
        IN  \/ filled[id] + Remaining(id) = o.quantity
            \/ /\ cancelled_by[id] = o.user
               /\ Remaining(id) = 0
               /\ filled[id] < o.quantity

\* The book is never crossed, not even between two rounds of a match: every
\* resting buy is priced below every resting sell (match_order's loop leaves
\* nothing behind that the remainder it lets rest would cross).
NotCrossed ==
    \A b \in Resting("Buy"), s \in Resting("Sell") : book[b].price < book[s].price

\* An order resting in the book never has quantity 0, which is what the
\* assertion in match_order relies on for one of its two operands.
NothingEmptyRests == \A id \in Ids : InBook(id) => book[id].quantity > 0

Maker(e) == IF SideOf(taker.id) = "Buy" THEN e.sell_order ELSE e.buy_order

\* What an order was entered with, apart from its quantity, is what it rests
\* with and what it is matched with, and it is in at most one of the two places.
SameTerms(x, y) == /\ x.id = y.id
                   /\ x.user = y.user
                   /\ x.price = y.price
                   /\ x.update = y.update

OneAtATime ==
    /\ \A id \in Ids :
          /\ submitted[id] # None => submitted[id].id = id
          /\ submitted[id] = None => /\ book[id] = None
                                    /\ filled[id] = 0
          /\ InBook(id) => /\ SameTerms(book[id], submitted[id])
                          /\ cancelled_by[id] = None
    /\ taker # None => /\ submitted[taker.id] # None
                      /\ book[taker.id] = None
                      /\ SameTerms(taker, submitted[taker.id])
                      /\ cancelled_by[taker.id] = None
    /\ \A id \in Ids : submitted[id] = None => cancelled_by[id] = None

\* Price-time priority: when a match has executed against some order, no order
\* still resting on that side ranks before it, at the terms both were entered.
Priority ==
    taker # None => \A i \in DOMAIN execs :
        LET maker == Maker(execs[i])
        IN  \A id \in Resting(SideOf(maker)) :
              ~Before(SideOf(maker), submitted[id], submitted[maker])

\* Nobody trades at a price worse than the limit of the order entered, and the
\* incoming order gets the resting order's price.
WithinLimits ==
    taker # None => \A i \in DOMAIN execs :
        LET e == execs[i]
        IN  /\ e.quantity > 0
            /\ submitted[e.buy_order].price >= e.price
            /\ submitted[e.sell_order].price <= e.price
            /\ e.price = submitted[Maker(e)].price

\* The executions reported for the incoming order account for all it has lost: taken
\* from what was entered one after the other, they leave what the matcher still has
\* in hand, and never less than nothing on the way.
ReportedInFull ==
    taker # None =>
        LET entered == submitted[taker.id].quantity
        IN  \E left \in [0 .. Len(execs) -> 0 .. entered] :
              /\ left[0] = entered /\ left[Len(execs)] = taker.quantity
              /\ \A i \in DOMAIN execs : left[i] = left[i - 1] - execs[i].quantity

\* A symbol that is not marked dirty has been published as it is: between two
\* messages the feed's last messages show the book's best orders, its levels and
\* its last execution (every handler that changes the book marks the symbol).
MdFresh ==
    Idle /\ ~dirty =>
        /\ published.bid \in TopOrder("Buy")
        /\ published.ask \in TopOrder("Sell")
        /\ published.last = last_exec
        /\ published_l2 = L2Data(OrdersOn("Buy"), OrdersOn("Sell"), last_exec)

\* The prices that make levels on a side, and what rests at one of them.
Better(s, p, q) == IF s = "Buy" THEN p > q ELSE p < q
LevelPrices(s) == {book[id].price : id \in Resting(s)} \ {p \in Prices : p <= 0}
RestingAt(s, p) == {id \in Resting(s) : book[id].price = p}
TotalQuantity(orders, ids) == Sets!MapThenSumSet(LAMBDA id : orders[id].quantity, ids)

\* The level 2 message counts the side's levels and shows the best of them, each
\* with all that rests at its price (the i-th best is the one that i - 1 others are
\* better than): get_l2_data's loop keeps one level in hand,
\* that must be pushed when the next begins, when the orders end and not twice.
\* Its bounds are those of the code: quantities are added as u32, the last of the
\* Depth levels is not copied (see AllLevelsShown), and prices are positive.
LevelsComplete ==
    Idle /\ ~dirty => \A s \in Sides :
        LET side   == IF s = "Buy" THEN published_l2.bids ELSE published_l2.asks
            prices == LevelPrices(s)
        IN  /\ side.n_entry = Smaller(Cardinality(prices), Depth)
            /\ \A i \in 1 .. Smaller(Cardinality(prices), Depth - 1) :
                  LET level == side.entries[i]
                  IN  /\ level.price \in prices
                      /\ Cardinality({p \in prices : Better(s, p, level.price)}) = i - 1
                      /\ level.quantity = TotalQuantity(book, RestingAt(s, level.price))
                                            % QuantityLimit

\* assert_ne!(cross_quantity, 0) in match_order, the unwrap of next_id and the
\* unwrap of heap.insert hold.
NoPanic == ~panicked

\* An order's rank never changes while it rests: an execution takes quantity
\* from it and leaves its price and time, so it cannot lose its place.
RankKept ==
    [][\A id \in Ids : InBook(id) /\ book'[id] # None =>
          /\ book'[id].price = book[id].price
          /\ book'[id].update = book[id].update
          /\ book'[id].user = book[id].user]_vars

\* The match loop ends: every order handed to the engine is finished, unless
\* the thread dies.
MatchEnds == taker # None ~> taker = None \/ panicked

\* Every change to the book reaches the market data feed.
ChangesArePublished == dirty ~> ~dirty \/ panicked
==============================================================================

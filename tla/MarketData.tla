------------------------------ MODULE MarketData ------------------------------
(***************************************************************************)
(* The level 2 market data of one side of a book: BookSide::get_l2_data of *)
(* libcix/book.rs and L2MdSide of libcix/order.rs.                         *)
(***************************************************************************)
EXTENDS Integers, Sequences

CONSTANTS
    Depth,         \* L2_MD_DEPTH, the levels of a side's message (5)
    QuantityLimit  \* a quantity is a number below this (2^32)

ASSUME MarketDataAssumption == Depth \in Nat \ {0} /\ QuantityLimit \in Nat \ {0}

\* MdEntry::default
NoLevel == [price |-> 0, quantity |-> 0]

\* An accumulator of get_l2_data's loop: the entries pushed, the entry that is
\* being filled, and whether a sum has run over.
NoneRead == [results |-> <<>>, entry |-> [price |-> -1, quantity |-> 0], overflow |-> FALSE]

Pushed(acc) == IF acc.entry.price > 0 THEN Append(acc.results, acc.entry) ELSE acc.results

\* A level's quantities are added as u32.
AddQuantity(acc, quantity) ==
    LET sum == acc.entry.quantity + quantity
    IN  [acc EXCEPT !.entry.quantity = sum % QuantityLimit,
                    !.overflow = @ \/ sum >= QuantityLimit]

\* Fault: the entry of the level before is not pushed when a new level begins.
ReadOrderForgetful(acc, order) ==
    IF acc.entry.price = order.price THEN AddQuantity(acc, order.quantity)
    ELSE [acc EXCEPT !.entry = [price |-> order.price, quantity |-> order.quantity]]

\* The loop's body for the next order; the entries do not grow beyond Depth.
ReadOrder(acc, order) ==
    IF Len(acc.results) >= Depth THEN acc
    ELSE IF acc.entry.price = order.price THEN AddQuantity(acc, order.quantity)
    ELSE [acc EXCEPT !.results = Pushed(acc),
                     !.entry = [price |-> order.price, quantity |-> order.quantity]]

\* The loop's accumulator after n orders.
Reading(orders) ==
    LET read[n \in 0 .. Len(orders)] ==
            IF n = 0 THEN NoneRead ELSE ReadOrder(read[n - 1], orders[n])
    IN  read
ReadOrders(orders) == Reading(orders)[Len(orders)]

\* get_l2_data for a side's orders from best to worst.
GetL2Data(orders) ==
    LET acc == ReadOrders(orders)
    IN  IF Len(acc.results) >= Depth THEN acc.results ELSE Pushed(acc)

\* A build that checks for overflow panics where this holds.
Overflows(orders) == ReadOrders(orders).overflow

\* L2MdSide::from.  All but the last of the Depth entries are copied.
L2MdSide(levels) ==
    [entries |-> [i \in 1 .. Depth |-> IF i < Depth /\ i <= Len(levels) THEN levels[i]
                                       ELSE NoLevel],
     n_entry |-> IF Len(levels) < Depth THEN Len(levels) ELSE Depth]

\* L2MdSide::iter
Shown(side) == SubSeq(side.entries, 1, side.n_entry)
==============================================================================

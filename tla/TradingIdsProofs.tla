--------------------------- MODULE TradingIdsProofs ---------------------------
(***************************************************************************)
(* Theorems about module TradingIds, for every number of symbols and of    *)
(* sequence numbers.                                                       *)
(***************************************************************************)
EXTENDS TradingIds, TLAPS

\* Quotient and remainder of a packed number.
LEMMA Unpack ==
    ASSUME NEW K \in Nat \ {0}, NEW q \in Nat, NEW r \in 0 .. K - 1
    PROVE  (q * K + r) % K = r /\ (q * K + r) \div K = q
  OBVIOUS

\* The metadata of orders fits in its four bits, tells them from executions and
\* keeps the side.
LEMMA OrderMetadata ==
    ASSUME NEW side \in Sides
    PROVE  LET md == TypeOrder + (IF side = "Buy" THEN SideBuy ELSE SideSell)
           IN  /\ md \in 0 .. Metadata - 1
               /\ TypeOf(md) = TypeOrder
               /\ (SideBit(md) = SideBuy) <=> (side = "Buy")
<1>1. /\ 0 + 2 \in 0 .. 15 /\ (0 + 2) % 2 = 0 /\ ((0 + 2) % 4) - ((0 + 2) % 2) = 2
      /\ 0 + 0 \in 0 .. 15 /\ (0 + 0) % 2 = 0 /\ ((0 + 0) % 4) - ((0 + 0) % 2) = 0
      /\ 16 - 1 = 15 /\ 0 # 2
  OBVIOUS
<1>2. CASE side = "Buy"
  BY <1>1, <1>2, Zenon DEF TypeOrder, SideBuy, Metadata, TypeOf, SideBit
<1>3. CASE side = "Sell"
  <2>1. side # "Buy"
    BY <1>3
  <2> QED BY <1>1, <2>1, Zenon DEF TypeOrder, SideBuy, SideSell, Metadata, TypeOf, SideBit
<1> QED BY <1>2, <1>3 DEF Sides

\* Packing parts that fit loses none of them, and the number fits its bits.
THEOREM PackingLosesNothing ==
    ASSUME Limits,
           NEW symbol \in 0 .. Symbols - 1, NEW md \in 0 .. Metadata - 1,
           NEW seq \in 0 .. Sequences - 1
    PROVE  LET raw == TradingId(symbol, md, seq)
           IN  /\ raw \in 0 .. Symbols * Metadata * Sequences - 1
               /\ SymbolId(raw) = symbol
               /\ MetadataOf(raw) = md
               /\ SequenceOf(raw) = seq
<1> DEFINE high == symbol * Metadata + md
           raw == high * Sequences + seq
<1>1. /\ Symbols \in Nat \ {0} /\ Sequences \in Nat \ {0}
      /\ symbol \in Nat /\ md \in Nat /\ seq \in Nat
      /\ Metadata \in Nat \ {0}
  BY DEF Limits, Metadata
<1>2. TradingId(symbol, md, seq) = raw
  BY <1>1 DEF TradingId
<1>3. high \in Nat /\ high % Metadata = md /\ high \div Metadata = symbol
  BY <1>1, Unpack DEF Metadata
<1>4. high <= Symbols * Metadata - 1
  BY <1>1 DEF Metadata
<1> HIDE DEF high
<1>5. raw % Sequences = seq /\ raw \div Sequences = high
  BY <1>1, <1>3, Unpack
<1>6. symbol % Symbols = symbol
  BY <1>1
<1>7. raw \in 0 .. Symbols * Metadata * Sequences - 1
  <2> DEFINE all == Symbols * Metadata
  <2>1. all \in Nat /\ high <= all - 1
    BY <1>1, <1>4
  <2> HIDE DEF all
  <2>2. high * Sequences <= (all - 1) * Sequences
    BY <1>1, <1>3, <2>1
  <2>3. raw \in Int /\ raw >= 0 /\ raw <= all * Sequences - 1
    BY <1>1, <1>3, <2>1, <2>2
  <2> QED BY <2>3 DEF all
<1> HIDE DEF raw
<1> QED BY <1>2, <1>3, <1>5, <1>6, <1>7 DEF SymbolId, MetadataOf, SequenceOf

\* An order's id read back from the number a client holds is the id, with its
\* symbol, side and sequence number.
THEOREM OrderIdReadsBack ==
    ASSUME Limits,
           NEW symbol \in 0 .. Symbols - 1, NEW side \in Sides,
           NEW seq \in 0 .. Sequences - 1
    PROVE  LET raw == OrderId(symbol, side, seq)
           IN  /\ OrderFromRaw(raw) = raw
               /\ SymbolId(raw) = symbol
               /\ OrderSide(raw) = side
               /\ SequenceOf(raw) = seq
<1> DEFINE md == TypeOrder + (IF side = "Buy" THEN SideBuy ELSE SideSell)
<1>1. /\ md \in 0 .. Metadata - 1
      /\ TypeOf(md) = TypeOrder
      /\ (SideBit(md) = SideBuy) <=> (side = "Buy")
  BY OrderMetadata
<1>2. OrderId(symbol, side, seq) = TradingId(symbol, md, seq)
  BY DEF OrderId
<1> HIDE DEF md
<1>3. /\ SymbolId(TradingId(symbol, md, seq)) = symbol
      /\ MetadataOf(TradingId(symbol, md, seq)) = md
      /\ SequenceOf(TradingId(symbol, md, seq)) = seq
  BY <1>1, PackingLosesNothing
<1> QED BY <1>1, <1>2, <1>3 DEF OrderFromRaw, OrderSide, Sides

\* Ids of two orders differ when their symbols, sides or sequence numbers do, so
\* that module OrderBook's and module Server's ids stand for those of the code.
THEOREM OrderIdsDiffer ==
    ASSUME Limits,
           NEW symbol1 \in 0 .. Symbols - 1, NEW symbol2 \in 0 .. Symbols - 1,
           NEW side1 \in Sides, NEW side2 \in Sides,
           NEW seq1 \in 0 .. Sequences - 1, NEW seq2 \in 0 .. Sequences - 1,
           OrderId(symbol1, side1, seq1) = OrderId(symbol2, side2, seq2)
    PROVE  symbol1 = symbol2 /\ side1 = side2 /\ seq1 = seq2
<1>1. /\ SymbolId(OrderId(symbol1, side1, seq1)) = symbol1
      /\ OrderSide(OrderId(symbol1, side1, seq1)) = side1
      /\ SequenceOf(OrderId(symbol1, side1, seq1)) = seq1
  BY OrderIdReadsBack
<1>2. /\ SymbolId(OrderId(symbol2, side2, seq2)) = symbol2
      /\ OrderSide(OrderId(symbol2, side2, seq2)) = side2
      /\ SequenceOf(OrderId(symbol2, side2, seq2)) = seq2
  BY OrderIdReadsBack
<1> QED BY <1>1, <1>2

\* No id is both an order's and an execution's: from_raw of either kind turns the
\* other's ids away.
THEOREM OrdersAreNotExecutions ==
    ASSUME Limits,
           NEW symbol \in 0 .. Symbols - 1, NEW side \in Sides,
           NEW seq \in 0 .. Sequences - 1
    PROVE  /\ ExecutionFromRaw(OrderId(symbol, side, seq)) = Err
           /\ OrderFromRaw(ExecutionId(symbol, seq)) = Err
           /\ ExecutionFromRaw(ExecutionId(symbol, seq)) = ExecutionId(symbol, seq)
<1> DEFINE md == TypeOrder + (IF side = "Buy" THEN SideBuy ELSE SideSell)
<1>1. md \in 0 .. Metadata - 1 /\ TypeOf(md) = TypeOrder
  BY OrderMetadata
<1>2. OrderId(symbol, side, seq) = TradingId(symbol, md, seq)
  BY DEF OrderId
<1> HIDE DEF md
<1>3. TypeExec \in 0 .. Metadata - 1 /\ TypeOf(TypeExec) = TypeExec
  BY DEF TypeExec, Metadata, TypeOf
<1>4. /\ MetadataOf(OrderId(symbol, side, seq)) = md
      /\ MetadataOf(ExecutionId(symbol, seq)) = TypeExec
  BY <1>1, <1>2, <1>3, PackingLosesNothing DEF ExecutionId
<1>5. TypeExec # TypeOrder
  BY DEF TypeExec, TypeOrder
<1> QED BY <1>1, <1>3, <1>4, <1>5 DEF ExecutionFromRaw, OrderFromRaw

\* A sequence number that has run out is turned away, never packed over the bits
\* above it: the router answers with an error, next_id's unwrap panics.
THEOREM SequenceRunsOut ==
    ASSUME Limits,
           NEW symbol \in 0 .. Symbols - 1, NEW side \in Sides, NEW seq \in Nat
    PROVE  /\ OrderId(symbol, side, seq) = Err <=> seq >= Sequences
           /\ ExecutionId(symbol, seq) = Err <=> seq >= Sequences
<1> DEFINE md == TypeOrder + (IF side = "Buy" THEN SideBuy ELSE SideSell)
<1>1. md \in 0 .. Metadata - 1
  BY OrderMetadata
<1>2. OrderId(symbol, side, seq) = TradingId(symbol, md, seq)
  BY DEF OrderId
<1> HIDE DEF md
<1>3. ASSUME NEW m \in 0 .. Metadata - 1
      PROVE  TradingId(symbol, m, seq) = Err <=> seq >= Sequences
  <2>1. /\ Metadata \in Nat /\ Sequences \in Nat /\ Symbols \in Nat
        /\ ~(symbol >= Symbols) /\ ~(m >= Metadata)
    BY DEF Limits, Metadata
  <2>2. (symbol * Metadata + m) * Sequences + seq \in Int
    BY <2>1
  <2> QED BY <2>1, <2>2 DEF TradingId, Limits
<1>4. TypeExec \in 0 .. Metadata - 1
  BY DEF TypeExec, Metadata
<1> QED BY <1>1, <1>2, <1>3, <1>4 DEF ExecutionId
==============================================================================

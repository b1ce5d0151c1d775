------------------------------ MODULE TradingIds ------------------------------
(***************************************************************************)
(* TradingId, OrderId and ExecutionId of libcix/order.rs: a symbol's       *)
(* number, four bits of metadata and a sequence number packed in one       *)
(* number, from the most significant bits to the least.                    *)
(*                                                                         *)
(* Module OrderBook and module Server have ids as they are before packing; *)
(* the theorems of TradingIdsProofs say that nothing is lost by that.      *)
(***************************************************************************)
EXTENDS Integers

CONSTANTS
    Symbols,   \* SYMBOL_MAX + 1, the symbols' numbers are below it (2^20)
    Sequences, \* SEQUENCE_MAX + 1 (2^40)
    Err        \* Rust's Err

Metadata == 16                       \* METADATA_MAX + 1
Sides == {"Buy", "Sell"}

\* Bounds that hold of the code's, and NotANumber of its Err.
Limits == Symbols \in Nat \ {0} /\ Sequences \in Nat \ {0} /\ Err \notin Int

\* TradingId::new: an Err for a part that does not fit, and otherwise each part
\* shifted to its place.
TradingId(symbol, metadata, seq) ==
    IF symbol >= Symbols \/ metadata >= Metadata \/ seq >= Sequences THEN Err
    ELSE (symbol * Metadata + metadata) * Sequences + seq

SymbolId(raw) == ((raw \div Sequences) \div Metadata) % Symbols
MetadataOf(raw) == (raw \div Sequences) % Metadata
SequenceOf(raw) == raw % Sequences

\* The least bit of the metadata says what the id is of, the next one the side
\* of an order.
TypeOrder == 0
TypeExec == 1
TypeOf(metadata) == metadata % 2
SideBuy == 2
SideSell == 0
SideBit(metadata) == (metadata % 4) - (metadata % 2)

OrderId(symbol, side, seq) ==
    TradingId(symbol, TypeOrder + (IF side = "Buy" THEN SideBuy ELSE SideSell), seq)
ExecutionId(symbol, seq) == TradingId(symbol, TypeExec, seq)

\* OrderId::from_raw, for a number a client has sent, and OrderId::side
OrderFromRaw(raw) == IF TypeOf(MetadataOf(raw)) # TypeOrder THEN Err ELSE raw
OrderSide(raw) == IF SideBit(MetadataOf(raw)) = SideBuy THEN "Buy" ELSE "Sell"

ExecutionFromRaw(raw) == IF TypeOf(MetadataOf(raw)) # TypeExec THEN Err ELSE raw
==============================================================================

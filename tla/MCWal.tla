-------------------------------- MODULE MCWal --------------------------------
EXTENDS Wal

\* A tag of two cells: a rest of one cell would be too short for it.
MCEntrySize == [NewOrder |-> 6, CancelOrder |-> 4]

\* The symbol comes after the tag, the user and the order's id.
MCSymbolEnd == [NewOrder |-> 4, CancelOrder |-> 0]
==============================================================================

------------------------------ MODULE DurableLog ------------------------------
(***************************************************************************)
(* What the server relies on of its write-ahead log: a sequence of entries *)
(* to which each write_entry appends at most one, and which only grows,    *)
(* whatever crashes and restarts come in between.  Module Wal implements   *)
(* it with numbered files; module Server keeps its log as such a sequence. *)
(***************************************************************************)
EXTENDS Integers, Sequences

CONSTANTS
    Messages, \* what may be written, with the numbers they are submitted under
    Junk      \* what a reader may find of a write that a crash has cut in two

VARIABLES
    log,      \* what WalDirectoryReader yields
    acked     \* what write_entry has returned Ok for

vars == <<log, acked>>

Init == log = <<>> /\ acked = <<>>

\* No entry of the log was submitted after e or is e.
InTurn(e) == \A n \in DOMAIN log : log[n].id < e.id

WriteAnswered == \E e \in Messages :
    /\ InTurn(e)
    /\ log' = Append(log, e)
    /\ acked' = Append(acked, e)

\* A crash comes between the write and the answer.
WriteUnanswered == \E e \in Messages :
    /\ InTurn(e)
    /\ log' = Append(log, e)
    /\ UNCHANGED acked

\* A crash comes within the write.
WriteTorn == \E e \in Junk :
    /\ log' = Append(log, e)
    /\ UNCHANGED acked

Next == WriteAnswered \/ WriteUnanswered \/ WriteTorn

Spec == Init /\ [][Next]_vars
==============================================================================

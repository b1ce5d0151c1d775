---------------------------- MODULE PriorityQueue ----------------------------
(***************************************************************************)
(* What a client of libcix/heap.rs relies on, and book.rs does: values are *)
(* kept under handles, a handle names its value until it is removed, and   *)
(* peek() names one that no other exceeds.  Module TreeHeap implements it. *)
(***************************************************************************)
EXTENDS Integers

CONSTANTS Handles, Values, Nothing

VARIABLES
    kept,   \* per handle, the value kept under it, or Nothing
    top     \* the handle peek() returns, or Nothing

vars == <<kept, top>>

Live(k) == {h \in Handles : k[h] # Nothing}
Greatest(k) == {h \in Live(k) : \A other \in Live(k) : k[other] <= k[h]}
Peek(k) == IF Live(k) = {} THEN {Nothing} ELSE Greatest(k)

Init == /\ kept = [h \in Handles |-> Nothing]
        /\ top = Nothing

\* Any handle not in use may be given out; peek may move among equals.
Insert == \E h \in Handles, v \in Values :
             /\ kept[h] = Nothing
             /\ kept' = [kept EXCEPT ![h] = v]
             /\ top' \in Peek(kept')

Remove == \E h \in Handles :
             /\ kept[h] # Nothing
             /\ kept' = [kept EXCEPT ![h] = Nothing]
             /\ top' \in Peek(kept')

Update == \E h \in Handles, v \in Values :
             /\ kept[h] # Nothing
             /\ kept' = [kept EXCEPT ![h] = v]
             /\ top' \in Peek(kept')

Next == Insert \/ Remove \/ Update

Spec == Init /\ [][Next]_vars
==============================================================================

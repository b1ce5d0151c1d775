------------------------------- MODULE MCServer -------------------------------
EXTENDS Server, TLC

\* The users are interchangeable.
Symmetry == Permutations(Users)

\* No two orders of a side rest with the same time: of equals the code's heap
\* settles which is first, and the model does not.
NoTies ==
    \A id, other \in Id :
        /\ book[id] # None /\ book[other] # None
        /\ id.side = other.side /\ book[id].update = book[other].update
        => id = other
==============================================================================

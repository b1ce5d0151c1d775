----------------------------- MODULE MCOrderBook -----------------------------
EXTENDS OrderBook, TLC

CONSTANTS b1, b2, b3, s1, s2, s3, u1

\* The buy ids are interchangeable.
Symmetry == Permutations(BuyIds)

\* What was published is not looked at again once the symbol is marked.
View == <<book, next_exec, last_exec, taker, execs, dirty, panicked, history_vars,
          IF dirty THEN None ELSE <<published, published_l2>> >>

\* What L2MdSide::iter yields are levels of the book, none of them empty.
AllLevelsShown ==
    \A s \in Sides :
        LET side == IF s = "Buy" THEN published_l2.bids ELSE published_l2.asks
        IN  \A i \in DOMAIN Shown(side) : Shown(side)[i] # NoLevel
==============================================================================

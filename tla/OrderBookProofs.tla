--------------------------- MODULE OrderBookProofs ---------------------------
(***************************************************************************)
(* Theorems about module OrderBook, for every value of its constants.      *)
(***************************************************************************)
EXTENDS OrderBook, FiniteSetTheorems, SequenceTheorems, WellFoundedInduction, TLAPS

------------------------------------------------------------------------------
(***************************************************************************)
(* A finite non-empty side has a top order.  The set of orders that rank   *)
(* before a given one shrinks strictly from an order to one before it, and *)
(* strict inclusion of finite sets is well founded.                        *)
(***************************************************************************)

LEMMA FiniteMinimum ==
    ASSUME NEW T, IsFiniteSet(T), T # {},
           NEW D \in [T -> SUBSET T],
           \A x \in T : \A z \in D[x] : D[z] \subseteq D[x] /\ z \notin D[z]
    PROVE  \E x \in T : D[x] = {}
<1> DEFINE Images == {D[x] : x \in T}
           R      == StrictSubsetOrdering(T)
<1>1. IsWellFoundedOn(R, FiniteSubsetsOf(T))
  BY FS_StrictSubsetOrderingWellFounded
<1>2. Images \subseteq FiniteSubsetsOf(T) /\ Images # {}
  BY FS_FiniteSubsetsOfFinite
<1>3. PICK least \in Images : \A y \in Images : ~(<<y, least>> \in R)
  <2> HIDE DEF Images, R
  <2> QED BY <1>1, <1>2, WFMin
<1>4. PICK x \in T : least = D[x]
  OBVIOUS
<1>5. ASSUME NEW z \in D[x] PROVE FALSE
  <2>1. z \in T
    OBVIOUS
  <2>2. D[z] \subseteq D[x] /\ D[z] # D[x]
    OBVIOUS
  <2>3. <<D[z], D[x]>> \in R
    BY <2>1, <2>2 DEF StrictSubsetOrdering
  <2> QED BY <1>3, <1>4, <2>1, <2>3
<1> QED BY <1>5

\* Before is a strict order on each side.
LEMMA BeforeIsStrict ==
    ASSUME NEW s \in Sides
    PROVE  /\ \A x \in Order : ~Before(s, x, x)
           /\ \A x, y, z \in Order :
                 Before(s, x, y) /\ Before(s, y, z) => Before(s, x, z)
<1>1. \A x \in Order : x.price \in Int /\ x.update \in Int
  BY ValuesAssumption DEF Order
<1>2. CASE s = "Buy"
  BY <1>1, <1>2 DEF Before
<1>3. CASE s # "Buy"
  BY <1>1, <1>3 DEF Before
<1> QED BY <1>2, <1>3

\* A side that is not empty has an order on top: peek() finds one.
LEMMA TopExists ==
    ASSUME TypeOK, NEW s \in Sides, Resting(s) # {}
    PROVE  Top(s) # {}
<1> DEFINE T == Resting(s)
           D == [id \in T |-> {other \in T : Before(s, book[other], book[id])}]
<1>1. IsFiniteSet(T)
  BY IdsAssumption, FS_Subset DEF Resting
<1>2. \A id \in T : book[id] \in Order
  BY DEF TypeOK, Resting
<1>3. D \in [T -> SUBSET T]
  OBVIOUS
<1>4. \A x \in T : \A z \in D[x] : D[z] \subseteq D[x] /\ z \notin D[z]
  BY <1>2, BeforeIsStrict
<1>5. PICK x \in T : D[x] = {}
  <2> HIDE DEF T, D
  <2> QED BY <1>1, <1>3, <1>4, FiniteMinimum DEF T
<1>6. x \in Top(s)
  BY <1>5 DEF Top
<1> QED BY <1>6

------------------------------------------------------------------------------
(***************************************************************************)
(* The type invariant.                                                     *)
(***************************************************************************)

\* What a round of the match loop works on.
LEMMA MatchingTypes ==
    ASSUME TypeOK, NEW m \in Ids, Matching(m)
    PROVE  /\ taker \in Order /\ taker.id \in Ids /\ taker.quantity \in Nat
           /\ book[m] \in Order /\ book[m] # None /\ book[m].quantity \in Nat
           /\ SideOf(m) = Opposite(SideOf(taker.id))
           /\ m \in Resting(SideOf(m))
<1>1. m \in Resting(Opposite(SideOf(taker.id)))
  BY DEF Matching, Top
<1>2. taker \in Order
  BY DEF TypeOK, Matching
<1>3. SideOf(m) = Opposite(SideOf(taker.id)) /\ book[m] # None
  BY <1>1 DEF Resting
<1> QED BY <1>1, <1>2, <1>3 DEF TypeOK, Order

\* What is executed is within both quantities and uses one of them up.
LEMMA SmallerOfTwo ==
    ASSUME NEW a \in Nat, NEW b \in Nat
    PROVE  /\ Smaller(a, b) \in Nat
           /\ a - Smaller(a, b) \in Nat /\ b - Smaller(a, b) \in Nat
           /\ a - Smaller(a, b) = 0 \/ b - Smaller(a, b) = 0
           /\ a > 0 /\ b > 0 => Smaller(a, b) > 0
BY DEF Smaller

\* An execution is between a buy order and a sell order, at the resting price.
LEMMA ExecutionType ==
    ASSUME TypeOK, OneAtATime, NEW m \in Ids, Matching(m), NEW q \in Nat
    PROVE  /\ CreateExecution(taker, book[m], q) \in Execution
           /\ CreateExecution(taker, book[m], q).price = book[m].price
           /\ CreateExecution(taker, book[m], q).quantity = q
           /\ SideOf(taker.id) = "Buy" =>
                 /\ CreateExecution(taker, book[m], q).buy_order = taker.id
                 /\ CreateExecution(taker, book[m], q).sell_order = m
           /\ SideOf(taker.id) # "Buy" =>
                 /\ CreateExecution(taker, book[m], q).buy_order = m
                 /\ CreateExecution(taker, book[m], q).sell_order = taker.id
<1>1. /\ taker \in Order /\ taker.id \in Ids
      /\ book[m] \in Order /\ book[m] # None
      /\ SideOf(m) = Opposite(SideOf(taker.id))
  BY MatchingTypes
<1>2. book[m].id = m
  BY <1>1 DEF OneAtATime, InBook, SameTerms
<1>3. book[m].price \in Prices /\ next_exec \in Nat
  BY <1>1 DEF TypeOK, Order
<1>4. CASE SideOf(taker.id) = "Buy"
  <2>1. taker.id \in BuyIds /\ m \in SellIds
    BY <1>1, <1>4 DEF SideOf, Opposite, Ids
  <2> QED BY <1>2, <1>3, <1>4, <2>1 DEF CreateExecution, Execution
<1>5. CASE SideOf(taker.id) # "Buy"
  <2>1. taker.id \in SellIds /\ m \in BuyIds
    BY <1>1, <1>5 DEF SideOf, Opposite, Ids
  <2> QED BY <1>2, <1>3, <1>5, <2>1 DEF CreateExecution, Execution
<1> QED BY <1>4, <1>5

\* The market data entry made of the last execution is one.
LEMMA LastExecType ==
    ASSUME TypeOK
    PROVE  LastExec \in MdEntry \cup {None}
<1>1. CASE execs = <<>>
  BY <1>1 DEF LastExec, TypeOK
<1>2. CASE execs # <<>>
  <2>1. execs[Len(execs)] \in Execution
    BY <1>2 DEF TypeOK
  <2> QED BY <1>2, <2>1 DEF LastExec, Execution, MdEntry
<1> QED BY <1>1, <1>2

\* top_order yields a price and a quantity, or None.
LEMMA TopOrderType ==
    ASSUME TypeOK, NEW s \in Sides
    PROVE  TopOrder(s) \subseteq MdEntry \cup {None}
<1>1. \A id \in Top(s) : book[id] \in Order
  BY DEF TypeOK, Top, Resting
<1> QED BY <1>1 DEF TopOrder, MdEntry, Order

\* An empty book is of the right types.
LEMMA TypeInit == Init => TypeOK /\ OneAtATime
<1> SUFFICES ASSUME Init PROVE TypeOK /\ OneAtATime
  OBVIOUS
<1>1. published \in L1Md
  BY DEF Init, L1Md
<1>2. TypeOK
  <2>1. execs \in Seq(Execution)
    BY DEF Init
  <2>2. /\ book \in [Ids -> Order \cup {None}]
        /\ submitted \in [Ids -> Order \cup {None}]
        /\ filled \in [Ids -> Nat]
        /\ cancelled_by \in [Ids -> Users \cup {None}]
    BY DEF Init
  <2> QED BY <1>1, <2>1, <2>2 DEF Init, TypeOK
<1>3. OneAtATime
  BY DEF Init, OneAtATime, InBook
<1> QED BY <1>2, <1>3

\* new_order takes a well-formed order in hand.
LEMMA NewOrderKeepsTypes ==
    ASSUME TypeOK, OneAtATime, NEW o \in Order, NewOrder(o)
    PROVE  TypeOK' /\ OneAtATime'
<1>1. o # None /\ o.id \in Ids
  BY NoneAssumption DEF Order
<1>2. TypeOK'
  BY <1>1 DEF NewOrder, TypeOK
<1>3. OneAtATime'
  BY <1>1 DEF NewOrder, TypeOK, OneAtATime, InBook, SameTerms, Idle
<1> QED BY <1>2, <1>3

\* A round of match_order keeps both orders well-formed: no quantity goes below 0.
LEMMA MatchOrderKeepsTypes ==
    ASSUME TypeOK, OneAtATime, NEW m \in Ids, MatchOrder(m)
    PROVE  TypeOK' /\ OneAtATime'
<1> DEFINE q == Smaller(taker.quantity, book[m].quantity)
           rest == book[m].quantity - q
<1>1. Matching(m)
  BY DEF MatchOrder, AfterMatch
<1>2. /\ taker \in Order /\ taker.id \in Ids /\ taker.quantity \in Nat
      /\ book[m] \in Order /\ book[m] # None /\ book[m].quantity \in Nat
  BY <1>1, MatchingTypes
<1>3. q \in Nat /\ rest \in Nat /\ taker.quantity - q \in Nat
  BY <1>2, SmallerOfTwo
<1>4. CreateExecution(taker, book[m], q) \in Execution
  BY <1>1, <1>3, ExecutionType
<1>5. taker # None /\ m # taker.id
  BY <1>1, <1>2 DEF Matching, OneAtATime
<1>6. /\ execs' = Append(execs, CreateExecution(taker, book[m], q))
      /\ next_exec' = next_exec + 1
      /\ taker' = [taker EXCEPT !.quantity = taker.quantity - q]
      /\ book' = [book EXCEPT ![m] =
                     IF rest = 0 THEN None ELSE [book[m] EXCEPT !.quantity = rest]]
      /\ filled' = [filled EXCEPT ![m] = @ + q, ![taker.id] = @ + q]
      /\ UNCHANGED <<last_exec, dirty, published, published_l2, panicked, submitted, cancelled_by>>
  BY DEF MatchOrder, AfterMatch
<1> HIDE DEF q, rest
<1>7. taker' \in Order /\ [book[m] EXCEPT !.quantity = rest] \in Order
  BY <1>2, <1>3, <1>6 DEF Order
<1>8. TypeOK'
  <2>1. book' \in [Ids -> Order \cup {None}]
    BY <1>6, <1>7 DEF TypeOK
  <2>2. next_exec' \in Nat
    BY <1>6 DEF TypeOK
  <2>3. execs' \in Seq(Execution)
    BY <1>4, <1>6 DEF TypeOK
  <2>4. filled' \in [Ids -> Nat]
    <3>1. filled \in [Ids -> Nat] /\ filled[m] + q \in Nat
      BY <1>3 DEF TypeOK
    <3> QED BY <1>2, <1>3, <1>5, <1>6, <3>1
  <2> QED BY <1>6, <1>7, <2>1, <2>2, <2>3, <2>4 DEF TypeOK
<1>9. OneAtATime'
  <2>1. SameTerms(taker', taker) /\ taker' # None
    BY <1>2, <1>6, <1>7, NoneAssumption DEF Order, SameTerms
  <2>2. SameTerms([book[m] EXCEPT !.quantity = rest], book[m])
    BY <1>2 DEF Order, SameTerms
  <2>3. submitted[m] # None /\ submitted[taker.id] # None
    BY <1>2, <1>5 DEF OneAtATime
  <2> QED BY <1>2, <1>3, <1>5, <1>6, <2>1, <2>2, <2>3
             DEF TypeOK, OneAtATime, InBook, SameTerms
<1> QED BY <1>8, <1>9

\* The end of add_order puts the remainder where no other order is.
LEMMA FinishOrderKeepsTypes ==
    ASSUME TypeOK, OneAtATime, FinishOrder
    PROVE  TypeOK' /\ OneAtATime'
<1>1. taker # None /\ taker \in Order /\ taker.id \in Ids
  BY DEF FinishOrder, MatchOver, TypeOK, Order
<1>2. TypeOK'
  BY <1>1, LastExecType DEF FinishOrder, TypeOK, history_vars
<1>3. OneAtATime'
  BY <1>1 DEF FinishOrder, TypeOK, OneAtATime, InBook, SameTerms, history_vars
<1> QED BY <1>2, <1>3

\* cancel_order takes one order out and touches no other.
LEMMA CancelOrderKeepsTypes ==
    ASSUME TypeOK, OneAtATime, NEW id \in Ids, NEW user \in Users,
           CancelOrder(id, user)
    PROVE  TypeOK' /\ OneAtATime'
<1>1. TypeOK'
  BY DEF CancelOrder, TypeOK
<1>2. submitted[id] # None
  BY DEF CancelOrder, OneAtATime
<1>3. OneAtATime'
  BY <1>2 DEF CancelOrder, TypeOK, OneAtATime, InBook, SameTerms, Idle
<1> QED BY <1>1, <1>3

\* publish_md sends a well-formed level 1 message.
LEMMA PublishMdKeepsTypes ==
    ASSUME TypeOK, OneAtATime, PublishMd
    PROVE  TypeOK' /\ OneAtATime'
<1>1. published' \in L1Md
  BY TopOrderType DEF PublishMd, L1Sent, Sides, TypeOK, L1Md
<1> QED BY <1>1 DEF PublishMd, TypeOK, OneAtATime, InBook, SameTerms, history_vars

\* So does a timer's turn that ends in a panic.
LEMMA PanicInMdKeepsTypes ==
    ASSUME TypeOK, OneAtATime, PanicInMd
    PROVE  TypeOK' /\ OneAtATime'
<1>1. published' \in L1Md
  BY TopOrderType DEF PanicInMd, L1Sent, Sides, TypeOK, L1Md
<1> QED BY <1>1 DEF PanicInMd, TypeOK, OneAtATime, InBook, SameTerms, history_vars

\* Every step keeps both, so both hold throughout.
LEMMA NextKeepsTypes ==
    ASSUME TypeOK, OneAtATime, [Next]_vars
    PROVE  TypeOK' /\ OneAtATime'
<1>1. CASE UNCHANGED vars
  BY <1>1 DEF vars, book_vars, history_vars, TypeOK, OneAtATime, InBook, SameTerms
<1>2. CASE Request
  <2>1. ASSUME NEW id \in Ids, NEW user \in Users, CancelOrder(id, user)
        PROVE  TypeOK' /\ OneAtATime'
    BY <2>1, CancelOrderKeepsTypes
  <2>2. ASSUME NEW id \in Ids, NEW user \in Users, NEW price \in Prices,
               NEW quantity \in Quantities, NEW update \in Times,
               NEW o, o = [id |-> id, user |-> user, price |-> price,
                           quantity |-> quantity, update |-> update],
               NewOrder(o) \/ RejectDuplicate(o)
        PROVE  TypeOK' /\ OneAtATime'
    <3>1. o \in Order
      BY <2>2, ValuesAssumption DEF Order
    <3>2. CASE NewOrder(o)
      BY <3>1, <3>2, NewOrderKeepsTypes
    <3>3. CASE RejectDuplicate(o)
      BY <3>3 DEF RejectDuplicate, TypeOK, OneAtATime, InBook, SameTerms, history_vars
    <3> QED BY <2>2, <3>2, <3>3
  <2> QED BY <1>2, <2>1, <2>2 DEF Request
<1>3. CASE Match
  <2>1. PICK m \in Ids : MatchOrder(m) \/ PanicInMatch(m)
    BY <1>3 DEF Match
  <2>2. CASE MatchOrder(m)
    BY <2>2, MatchOrderKeepsTypes
  <2>3. CASE PanicInMatch(m)
    BY <2>3 DEF PanicInMatch, TypeOK, OneAtATime, InBook, SameTerms, history_vars
  <2> QED BY <2>1, <2>2, <2>3
<1>4. CASE Finish
  <2>1. CASE FinishOrder
    BY <2>1, FinishOrderKeepsTypes
  <2>2. CASE PanicHeapFull
    BY <2>2, LastExecType
       DEF PanicHeapFull, TypeOK, OneAtATime, InBook, SameTerms, history_vars
  <2> QED BY <1>4, <2>1, <2>2 DEF Finish
<1>5. CASE PublishMd \/ PanicInMd
  BY <1>5, PublishMdKeepsTypes, PanicInMdKeepsTypes
<1> QED BY <1>1, <1>2, <1>3, <1>4, <1>5 DEF Next

\* Every variable keeps its type in every behaviour of the book.
THEOREM TypeCorrect == Spec => []TypeOK
<1>1. Init => TypeOK /\ OneAtATime
  BY TypeInit
<1>2. TypeOK /\ OneAtATime /\ [Next]_vars => TypeOK' /\ OneAtATime'
  BY NextKeepsTypes
<1> QED BY <1>1, <1>2, PTL DEF Spec

\* An order is in the book or in the matcher's hand, never both, always on the
\* terms it was entered with.
THEOREM OneAtATimeHolds == Spec => []OneAtATime
<1>1. Init => TypeOK /\ OneAtATime
  BY TypeInit
<1>2. TypeOK /\ OneAtATime /\ [Next]_vars => TypeOK' /\ OneAtATime'
  BY NextKeepsTypes
<1> QED BY <1>1, <1>2, PTL DEF Spec

------------------------------------------------------------------------------
(***************************************************************************)
(* What a step does to the book, for the safety invariants.                *)
(***************************************************************************)

\* The lemmas above in one place: what MatchOrder(m) is about.
LEMMA MatchOrderFacts ==
    ASSUME TypeOK, OneAtATime, NEW m \in Ids, MatchOrder(m)
    PROVE  LET q == Smaller(taker.quantity, book[m].quantity)
           IN  /\ q \in Nat /\ q > 0
               /\ taker \in Order /\ taker.id \in Ids /\ taker.id # m
               /\ book[m] \in Order /\ book[m] # None
               /\ SideOf(m) = Opposite(SideOf(taker.id))
               /\ taker' \in Order /\ taker' # None /\ SameTerms(taker', taker)
               /\ taker'.quantity = taker.quantity - q
               /\ \A id \in Ids \ {m} : book'[id] = book[id]
               /\ book[m].quantity - q = 0 => book'[m] = None
               /\ book[m].quantity - q # 0 =>
                     /\ book'[m] # None /\ SameTerms(book'[m], book[m])
                     /\ book'[m].quantity = book[m].quantity - q
               /\ book[m].quantity - q \in Nat /\ taker.quantity - q \in Nat
               /\ \A id \in Ids : filled'[id] =
                     IF id \in {m, taker.id} THEN filled[id] + q ELSE filled[id]
<1> DEFINE q == Smaller(taker.quantity, book[m].quantity)
           rest == book[m].quantity - q
<1>1. Matching(m)
  BY DEF MatchOrder, AfterMatch
<1>2. /\ taker \in Order /\ taker.id \in Ids /\ taker.quantity \in Nat
      /\ book[m] \in Order /\ book[m] # None /\ book[m].quantity \in Nat
      /\ SideOf(m) = Opposite(SideOf(taker.id))
  BY <1>1, MatchingTypes
<1>3. q \in Nat /\ rest \in Nat /\ taker.quantity - q \in Nat
  BY <1>2, SmallerOfTwo
<1>4. taker # None /\ m # taker.id
  BY <1>1, <1>2 DEF Matching, OneAtATime
<1>5. q # 0
  BY DEF MatchOrder, AfterMatch
<1>6. taker' = [taker EXCEPT !.quantity = taker.quantity - q]
  BY DEF MatchOrder, AfterMatch
<1>7. book' = [book EXCEPT ![m] =
                  IF rest = 0 THEN None ELSE [book[m] EXCEPT !.quantity = rest]]
  BY DEF MatchOrder, AfterMatch
<1>8. filled' = [filled EXCEPT ![m] = @ + q, ![taker.id] = @ + q]
  BY DEF MatchOrder, AfterMatch
<1>9. filled \in [Ids -> Nat] /\ book \in [Ids -> Order \cup {None}]
  BY DEF TypeOK
<1> HIDE DEF q, rest
<1>10. taker' \in Order /\ taker' # None /\ SameTerms(taker', taker)
       /\ taker'.quantity = taker.quantity - q
  <2>1. taker' \in Order
    BY <1>2, <1>3, <1>6 DEF Order
  <2>2. taker'.id = taker.id /\ taker'.user = taker.user
        /\ taker'.price = taker.price /\ taker'.update = taker.update
        /\ taker'.quantity = taker.quantity - q
    BY <1>2, <1>6 DEF Order
  <2> QED BY <2>1, <2>2, NoneAssumption DEF SameTerms
<1>11. rest # 0 => /\ book'[m] # None /\ SameTerms(book'[m], book[m])
                   /\ book'[m].quantity = rest
  <2> DEFINE left == [book[m] EXCEPT !.quantity = rest]
  <2>1. left \in Order
    BY <1>2, <1>3 DEF Order
  <2>2. SameTerms(left, book[m]) /\ left.quantity = rest
    BY <1>2 DEF Order, SameTerms
  <2>3. rest # 0 => book'[m] = left
    BY <1>7, <1>9
  <2> QED BY <2>1, <2>2, <2>3, NoneAssumption
<1>12. /\ \A id \in Ids \ {m} : book'[id] = book[id]
       /\ rest = 0 => book'[m] = None
  BY <1>7, <1>9
<1>13. \A id \in Ids : filled'[id] =
          IF id \in {m, taker.id} THEN filled[id] + q ELSE filled[id]
  BY <1>2, <1>4, <1>8, <1>9
<1> QED BY <1>2, <1>3, <1>4, <1>5, <1>10, <1>11, <1>12, <1>13 DEF q, rest

\* The steps that change the book.
LEMMA BookSteps ==
    ASSUME [Next]_vars
    PROVE  \/ UNCHANGED book
           \/ \E m \in Ids : MatchOrder(m)
           \/ \E id \in Ids, user \in Users : CancelOrder(id, user)
           \/ FinishOrder /\ taker.quantity > 0
<1>1. CASE UNCHANGED vars
  BY <1>1 DEF vars, book_vars
<1>2. CASE Request
  <2>1. ASSUME NEW o, NewOrder(o) \/ RejectDuplicate(o) PROVE UNCHANGED book
    BY <2>1 DEF NewOrder, RejectDuplicate
  <2> QED BY <1>2, <2>1 DEF Request
<1>3. CASE Match
  BY <1>3 DEF Match, PanicInMatch
<1>4. CASE Finish
  BY <1>4 DEF Finish, FinishOrder, PanicHeapFull
<1>5. CASE PublishMd \/ PanicInMd
  BY <1>5 DEF PublishMd, PanicInMd
<1> QED BY <1>1, <1>2, <1>3, <1>4, <1>5 DEF Next

\* The steps that enter nothing in the book keep, of each side, a part.
LEMMA RestingShrinks ==
    ASSUME TypeOK, OneAtATime, NEW m \in Ids, MatchOrder(m), NEW s \in Sides
    PROVE  /\ Resting(s)' \subseteq Resting(s)
           /\ \A id \in Resting(s)' : SameTerms(book'[id], book[id])
<1>1. \A id \in Ids : book'[id] # None => book[id] # None
  BY MatchOrderFacts
<1>2. \A id \in Ids : book'[id] # None => SameTerms(book'[id], book[id])
  BY MatchOrderFacts DEF SameTerms
<1> QED BY <1>1, <1>2 DEF Resting

------------------------------------------------------------------------------
(***************************************************************************)
(* The book is not crossed.                                                *)
(***************************************************************************)

\* Once the match loop is over, a remainder that is left crosses no order of
\* the other side: not the top one, for the loop has stopped, and none after it.
LEMMA RemainderDoesNotCross ==
    ASSUME TypeOK, OneAtATime, MatchOver, taker.quantity > 0,
           NEW id \in Resting(Opposite(SideOf(taker.id)))
    PROVE  ~DoesCross(SideOf(id), taker, book[id])
<1> DEFINE s == Opposite(SideOf(taker.id))
<1>1. taker # None /\ taker \in Order /\ s \in Sides
  BY DEF MatchOver, TypeOK, Opposite, Sides
<1>2. PICK top \in Top(s) : TRUE
  BY <1>1, TopExists
<1>3. top \in Resting(s) /\ ~Before(s, book[id], book[top])
  BY <1>2 DEF Top
<1>4. top \in Ids /\ SideOf(top) = s /\ SideOf(id) = s
      /\ book[top] \in Order /\ book[id] \in Order
  BY <1>3 DEF Resting, TypeOK
<1>5. ~DoesCross(s, taker, book[top])
  BY <1>1, <1>2, <1>4 DEF MatchOver, Matching
<1>6. taker.price \in Int /\ book[top].price \in Int /\ book[id].price \in Int
  BY <1>1, <1>4, ValuesAssumption DEF Order
<1> QED BY <1>3, <1>4, <1>5, <1>6 DEF DoesCross, Before

\* No step of the engine makes the book crossed.
LEMMA NextKeepsNotCrossed ==
    ASSUME TypeOK, OneAtATime, NotCrossed, [Next]_vars
    PROVE  NotCrossed'
<1>1. CASE UNCHANGED book
  BY <1>1 DEF NotCrossed, Resting
<1>2. ASSUME NEW m \in Ids, MatchOrder(m) PROVE NotCrossed'
  <2>1. \A s \in Sides : /\ Resting(s)' \subseteq Resting(s)
                         /\ \A id \in Resting(s)' : SameTerms(book'[id], book[id])
    BY <1>2, RestingShrinks
  <2> QED BY <2>1 DEF NotCrossed, Sides, SameTerms
<1>3. ASSUME NEW id \in Ids, NEW user \in Users, CancelOrder(id, user)
      PROVE  NotCrossed'
  <2>1. \A i \in Ids : book'[i] # None => book'[i] = book[i]
    BY <1>3 DEF CancelOrder, TypeOK
  <2> QED BY <2>1 DEF NotCrossed, Resting
<1>4. CASE FinishOrder /\ taker.quantity > 0
  <2>1. taker # None /\ taker \in Order /\ taker.id \in Ids
    BY <1>4 DEF FinishOrder, MatchOver, TypeOK, Order
  <2>2. book'[taker.id] = taker /\ \A i \in Ids \ {taker.id} : book'[i] = book[i]
    BY <1>4, <2>1 DEF FinishOrder, TypeOK
  <2>3. SUFFICES ASSUME NEW b \in Resting("Buy")', NEW s \in Resting("Sell")'
                 PROVE  book'[b].price < book'[s].price
    BY DEF NotCrossed
  <2>4. /\ b \in Ids /\ SideOf(b) = "Buy" /\ book'[b] # None
        /\ s \in Ids /\ SideOf(s) = "Sell" /\ book'[s] # None
    BY DEF Resting
  <2>5. book'[b].price \in Int /\ book'[s].price \in Int /\ taker.price \in Int
    BY <2>1, <2>2, <2>4, ValuesAssumption DEF TypeOK, Order
  <2>6. CASE b # taker.id /\ s # taker.id
    BY <2>2, <2>4, <2>6 DEF NotCrossed, Resting
  <2>7. CASE b = taker.id
    <3>1. s # taker.id /\ s \in Resting(Opposite(SideOf(taker.id)))
      BY <2>2, <2>4, <2>7 DEF Resting, Opposite
    <3>2. ~DoesCross(SideOf(s), taker, book[s])
      BY <1>4, <3>1, RemainderDoesNotCross DEF FinishOrder
    <3> QED BY <2>2, <2>4, <2>5, <2>7, <3>1, <3>2 DEF DoesCross
  <2>8. CASE s = taker.id
    <3>1. b # taker.id /\ b \in Resting(Opposite(SideOf(taker.id)))
      BY <2>2, <2>4, <2>8 DEF Resting, Opposite
    <3>2. ~DoesCross(SideOf(b), taker, book[b])
      BY <1>4, <3>1, RemainderDoesNotCross DEF FinishOrder
    <3> QED BY <2>2, <2>4, <2>5, <2>8, <3>1, <3>2 DEF DoesCross
  <2> QED BY <2>6, <2>7, <2>8
<1> QED BY <1>1, <1>2, <1>3, <1>4, BookSteps

\* The book is never crossed, whatever orders arrive in whatever sequence.
THEOREM NeverCrossed == Spec => []NotCrossed
<1> DEFINE IInv == TypeOK /\ OneAtATime /\ NotCrossed
<1>1. Init => IInv
  BY TypeInit DEF Init, NotCrossed, Resting
<1>2. IInv /\ [Next]_vars => IInv'
  BY NextKeepsTypes, NextKeepsNotCrossed
<1>3. IInv => NotCrossed
  OBVIOUS
<1> HIDE DEF IInv
<1> QED BY <1>1, <1>2, <1>3, PTL DEF Spec

------------------------------------------------------------------------------
(***************************************************************************)
(* Quantities add up.                                                      *)
(***************************************************************************)

\* No step of the engine lets an empty order rest in the book.
LEMMA NextKeepsRest ==
    ASSUME TypeOK, OneAtATime, NothingEmptyRests, [Next]_vars
    PROVE  NothingEmptyRests'
<1>1. CASE UNCHANGED book
  BY <1>1 DEF NothingEmptyRests, InBook
<1>2. ASSUME NEW m \in Ids, MatchOrder(m) PROVE NothingEmptyRests'
  BY <1>2, MatchOrderFacts DEF NothingEmptyRests, InBook
<1>3. ASSUME NEW id \in Ids, NEW user \in Users, CancelOrder(id, user)
      PROVE  NothingEmptyRests'
  BY <1>3 DEF CancelOrder, TypeOK, NothingEmptyRests, InBook
<1>4. CASE FinishOrder /\ taker.quantity > 0
  BY <1>4 DEF FinishOrder, TypeOK, NothingEmptyRests, InBook
<1> QED BY <1>1, <1>2, <1>3, <1>4, BookSteps

\* Every order that rests in the book has quantity left, so that of
\* match_order's two operands only the incoming order's can be 0.
THEOREM NothingEmptyHolds == Spec => []NothingEmptyRests
<1> DEFINE IInv == TypeOK /\ OneAtATime /\ NothingEmptyRests
<1>1. Init => IInv
  BY TypeInit DEF Init, NothingEmptyRests, InBook
<1>2. IInv /\ [Next]_vars => IInv'
  BY NextKeepsTypes, NextKeepsRest
<1>3. IInv => NothingEmptyRests
  OBVIOUS
<1> HIDE DEF IInv
<1> QED BY <1>1, <1>2, <1>3, PTL DEF Spec

\* A round of match_order moves the same quantity from both orders to both accounts.
LEMMA MatchOrderKeepsConservation ==
    ASSUME TypeOK, OneAtATime, Conservation, NEW m \in Ids, MatchOrder(m)
    PROVE  Conservation'
<1> DEFINE q == Smaller(taker.quantity, book[m].quantity)
<1>1. /\ q \in Nat /\ q > 0
      /\ taker \in Order /\ taker.id \in Ids /\ taker.id # m
      /\ book[m] \in Order /\ book[m] # None
      /\ taker' \in Order /\ taker' # None /\ SameTerms(taker', taker)
      /\ taker'.quantity = taker.quantity - q
      /\ \A id \in Ids \ {m} : book'[id] = book[id]
      /\ book[m].quantity - q = 0 => book'[m] = None
      /\ book[m].quantity - q # 0 =>
            /\ book'[m] # None /\ book'[m].quantity = book[m].quantity - q
      /\ book[m].quantity - q \in Nat /\ taker.quantity - q \in Nat
      /\ \A id \in Ids : filled'[id] =
            IF id \in {m, taker.id} THEN filled[id] + q ELSE filled[id]
  BY MatchOrderFacts
<1>2. UNCHANGED <<submitted, cancelled_by>>
  BY DEF MatchOrder, AfterMatch
<1>3. taker # None
  BY DEF MatchOrder, AfterMatch, Matching
<1>4. /\ submitted[m] # None /\ cancelled_by[m] = None
      /\ submitted[taker.id] # None /\ cancelled_by[taker.id] = None
      /\ book[taker.id] = None
  BY <1>1, <1>3 DEF OneAtATime, InBook
<1>5. \A id \in Ids : submitted[id] # None =>
         submitted[id].quantity \in Nat /\ submitted[id].user # None
  BY NoneAssumption DEF TypeOK, Order
<1>6. filled[m] \in Nat /\ filled[taker.id] \in Nat
      /\ book[m].quantity \in Nat /\ taker.quantity \in Nat
  BY <1>1 DEF TypeOK, Order
<1> HIDE DEF q
<1>7. SUFFICES ASSUME NEW id \in Ids, submitted[id] # None
               PROVE  \/ filled'[id] + Remaining(id)' = submitted[id].quantity
                      \/ /\ cancelled_by[id] = submitted[id].user
                         /\ Remaining(id)' = 0
                         /\ filled'[id] < submitted[id].quantity
  BY <1>2 DEF Conservation
<1>8. CASE id = m
  <2>1. filled[m] + book[m].quantity = submitted[m].quantity
    BY <1>1, <1>4, <1>5, <1>7, <1>8 DEF Conservation, Remaining, InBook
  <2>2. Remaining(m)' = book[m].quantity - q
    BY <1>1, <1>6 DEF Remaining, InBook, InHand, SameTerms
  <2> QED BY <1>1, <1>6, <1>8, <2>1, <2>2
<1>9. CASE id = taker.id
  <2>1. filled[id] + taker.quantity = submitted[id].quantity
    BY <1>3, <1>4, <1>5, <1>7, <1>9 DEF Conservation, Remaining, InBook, InHand
  <2>2. Remaining(id)' = taker.quantity - q
    BY <1>1, <1>4, <1>9 DEF Remaining, InBook, InHand, SameTerms
  <2> QED BY <1>1, <1>6, <1>9, <2>1, <2>2
<1>10. CASE id # m /\ id # taker.id
  <2>1. Remaining(id)' = Remaining(id)
    BY <1>1, <1>10 DEF Remaining, InBook, InHand, SameTerms
  <2> QED BY <1>1, <1>7, <1>10, <2>1 DEF Conservation
<1> QED BY <1>8, <1>9, <1>10

\* An order that comes in has its whole quantity to go.
LEMMA NewOrderKeepsConservation ==
    ASSUME TypeOK, OneAtATime, Conservation, NEW o \in Order, NewOrder(o)
    PROVE  Conservation'
<1>1. o.id \in Ids /\ o.quantity \in Nat /\ o # None
  BY NoneAssumption DEF Order
<1>2. /\ taker = None /\ taker' = o /\ book[o.id] = None /\ filled[o.id] = 0
      /\ submitted' = [submitted EXCEPT ![o.id] = o]
      /\ UNCHANGED <<book, filled, cancelled_by>>
  BY <1>1 DEF NewOrder, OneAtATime, Idle
<1>3. filled'[o.id] + Remaining(o.id)' = o.quantity
  BY <1>1, <1>2 DEF Remaining, InBook, InHand
<1>4. \A id \in Ids \ {o.id} : Remaining(id)' = Remaining(id)
  BY <1>1, <1>2 DEF Remaining, InBook, InHand
<1>5. /\ submitted'[o.id] = o
      /\ \A id \in Ids \ {o.id} : submitted'[id] = submitted[id]
  BY <1>1, <1>2 DEF TypeOK
<1> QED BY <1>1, <1>2, <1>3, <1>4, <1>5 DEF Conservation

\* What a cancelled order had left is accounted to its owner's cancel.
LEMMA CancelOrderKeepsConservation ==
    ASSUME TypeOK, OneAtATime, NothingEmptyRests, Conservation,
           NEW id \in Ids, NEW user \in Users, CancelOrder(id, user)
    PROVE  Conservation'
<1>1. /\ book[id] # None /\ book[id].user = user /\ taker = None
      /\ book' = [book EXCEPT ![id] = None]
      /\ cancelled_by' = [cancelled_by EXCEPT ![id] = user]
      /\ UNCHANGED <<taker, submitted, filled>>
  BY DEF CancelOrder, Idle
<1>2. /\ book[id] \in Order /\ submitted[id] \in Order /\ submitted[id].user = user
      /\ cancelled_by[id] = None /\ filled[id] \in Nat
      /\ book[id].quantity \in Nat /\ book[id].quantity > 0
  BY <1>1 DEF TypeOK, OneAtATime, InBook, SameTerms, NothingEmptyRests, Order
<1>3. filled[id] + book[id].quantity = submitted[id].quantity
  BY <1>1, <1>2, NoneAssumption DEF Conservation, Remaining, InBook
<1>4. Remaining(id)' = 0 /\ cancelled_by'[id] = user
  BY <1>1 DEF TypeOK, Remaining, InBook, InHand
<1>5. \A i \in Ids \ {id} : /\ Remaining(i)' = Remaining(i)
                            /\ cancelled_by'[i] = cancelled_by[i]
  BY <1>1 DEF TypeOK, Remaining, InBook, InHand
<1>6. filled[id] < submitted[id].quantity
  BY <1>2, <1>3
<1> QED BY <1>1, <1>2, <1>4, <1>5, <1>6 DEF Conservation

\* The remainder of an order that is entered is what it had left in hand.
LEMMA FinishOrderKeepsConservation ==
    ASSUME TypeOK, OneAtATime, Conservation, FinishOrder
    PROVE  Conservation'
<1>1. /\ taker # None /\ taker \in Order /\ taker.id \in Ids
      /\ taker.quantity \in Nat /\ book[taker.id] = None
  BY DEF FinishOrder, MatchOver, TypeOK, Order, OneAtATime
<1>2. /\ book' = IF taker.quantity > 0 THEN [book EXCEPT ![taker.id] = taker] ELSE book
      /\ taker' = None
      /\ UNCHANGED <<submitted, filled, cancelled_by>>
  BY DEF FinishOrder, history_vars
<1>3. ASSUME NEW id \in Ids PROVE Remaining(id)' = Remaining(id)
  <2>1. CASE id = taker.id
    BY <1>1, <1>2, <2>1 DEF TypeOK, Remaining, InBook, InHand
  <2>2. CASE id # taker.id
    BY <1>1, <1>2, <2>2 DEF TypeOK, Remaining, InBook, InHand
  <2> QED BY <2>1, <2>2
<1> QED BY <1>2, <1>3 DEF Conservation

\* No step of the engine makes or loses quantity.
LEMMA NextKeepsConservation ==
    ASSUME TypeOK, OneAtATime, NothingEmptyRests, Conservation, [Next]_vars
    PROVE  Conservation'
<1>1. CASE UNCHANGED <<book, taker, submitted, filled, cancelled_by>>
  BY <1>1 DEF Conservation, Remaining, InBook, InHand
<1>2. CASE UNCHANGED vars
  BY <1>1, <1>2 DEF vars, book_vars, history_vars
<1>3. CASE Request
  <2>1. ASSUME NEW id \in Ids, NEW user \in Users, CancelOrder(id, user)
        PROVE  Conservation'
    BY <2>1, CancelOrderKeepsConservation
  <2>2. ASSUME NEW id \in Ids, NEW user \in Users, NEW price \in Prices,
               NEW quantity \in Quantities, NEW update \in Times,
               NEW o, o = [id |-> id, user |-> user, price |-> price,
                           quantity |-> quantity, update |-> update],
               NewOrder(o) \/ RejectDuplicate(o)
        PROVE  Conservation'
    <3>1. o \in Order
      BY <2>2, ValuesAssumption DEF Order
    <3>2. CASE NewOrder(o)
      BY <3>1, <3>2, NewOrderKeepsConservation
    <3>3. CASE RejectDuplicate(o)
      BY <1>1, <3>3 DEF RejectDuplicate, history_vars
    <3> QED BY <2>2, <3>2, <3>3
  <2> QED BY <1>3, <2>1, <2>2 DEF Request
<1>4. CASE Match
  <2>1. PICK m \in Ids : MatchOrder(m) \/ PanicInMatch(m)
    BY <1>4 DEF Match
  <2>2. CASE MatchOrder(m)
    BY <2>2, MatchOrderKeepsConservation
  <2>3. CASE PanicInMatch(m)
    BY <1>1, <2>3 DEF PanicInMatch, history_vars
  <2> QED BY <2>1, <2>2, <2>3
<1>5. CASE Finish
  <2>1. CASE FinishOrder
    BY <2>1, FinishOrderKeepsConservation
  <2>2. CASE PanicHeapFull
    BY <1>1, <2>2 DEF PanicHeapFull, history_vars
  <2> QED BY <1>5, <2>1, <2>2 DEF Finish
<1>6. CASE PublishMd \/ PanicInMd
  BY <1>1, <1>6 DEF PublishMd, PanicInMd, history_vars
<1> QED BY <1>2, <1>3, <1>4, <1>5, <1>6 DEF Next

\* Quantity is neither made nor lost, and an order leaves the book only by
\* being executed in full or by its owner's cancel.
THEOREM QuantityConserved == Spec => []Conservation
<1> DEFINE IInv == TypeOK /\ OneAtATime /\ NothingEmptyRests /\ Conservation
<1>1. Init => IInv
  BY TypeInit DEF Init, NothingEmptyRests, Conservation, InBook
<1>2. IInv /\ [Next]_vars => IInv'
  BY NextKeepsTypes, NextKeepsRest, NextKeepsConservation
<1>3. IInv => Conservation
  OBVIOUS
<1> HIDE DEF IInv
<1> QED BY <1>1, <1>2, <1>3, PTL DEF Spec

------------------------------------------------------------------------------
(***************************************************************************)
(* What a match executes against, and at what price.                       *)
(***************************************************************************)

\* The terms that executions are judged by: each is between the incoming order
\* and one of the other side that was entered before.
BetweenKnownOrders ==
    taker # None => \A i \in DOMAIN execs :
        LET e == execs[i]
        IN  /\ taker.id \in {e.buy_order, e.sell_order}
            /\ Maker(e) \in Ids /\ submitted[Maker(e)] # None
            /\ Maker(e) # taker.id

\* The executions of a round: those there were, and one with m.
LEMMA ExecsGrow ==
    ASSUME TypeOK, OneAtATime, NEW m \in Ids, MatchOrder(m)
    PROVE  LET q == Smaller(taker.quantity, book[m].quantity)
           IN  \E e \in Execution :
                 /\ execs' = Append(execs, e)
                 /\ DOMAIN execs' = DOMAIN execs \cup {Len(execs) + 1}
                 /\ execs'[Len(execs) + 1] = e
                 /\ \A i \in DOMAIN execs : execs'[i] = execs[i]
                 /\ \A x \in Execution : Maker(x)' = Maker(x)
                 /\ Maker(e) = m
                 /\ taker.id \in {e.buy_order, e.sell_order}
                 /\ e.price = book[m].price
                 /\ e.quantity = q
<1> DEFINE q == Smaller(taker.quantity, book[m].quantity)
           e == CreateExecution(taker, book[m], q)
<1>1. Matching(m) /\ execs' = Append(execs, e)
  BY DEF MatchOrder, AfterMatch
<1>2. q \in Nat /\ SameTerms(taker', taker)
  BY MatchOrderFacts
<1>3. /\ e \in Execution /\ e.price = book[m].price /\ e.quantity = q
      /\ SideOf(taker.id) = "Buy" => e.buy_order = taker.id /\ e.sell_order = m
      /\ SideOf(taker.id) # "Buy" => e.buy_order = m /\ e.sell_order = taker.id
  BY <1>1, <1>2, ExecutionType
<1> HIDE DEF e, q
<1>4. execs \in Seq(Execution)
  BY DEF TypeOK
<1>5. /\ DOMAIN execs' = DOMAIN execs \cup {Len(execs) + 1}
      /\ execs'[Len(execs) + 1] = e
      /\ \A i \in DOMAIN execs : execs'[i] = execs[i]
  BY <1>1, <1>3, <1>4
<1>6. \A x \in Execution : Maker(x)' = Maker(x)
  BY <1>2 DEF Maker, SameTerms
<1>7. Maker(e) = m /\ taker.id \in {e.buy_order, e.sell_order}
  BY <1>3 DEF Maker
<1> QED BY <1>1, <1>3, <1>5, <1>6, <1>7 DEF q

\* The steps that concern an incoming order: all others leave it, its
\* executions and the book alone, or there is none before or none after.
LEMMA TakerSteps ==
    ASSUME TypeOK, [Next]_vars
    PROVE  \/ UNCHANGED <<book, taker, execs, submitted>>
           \/ \E m \in Ids : MatchOrder(m)
           \/ execs' = <<>> /\ (taker' # None => taker' \in Order /\ submitted'[taker'.id] = taker')
           \/ taker' = None
<1>1. CASE UNCHANGED vars
  BY <1>1 DEF vars, book_vars, history_vars
<1>2. CASE Request
  <2>1. ASSUME NEW o, o.id \in Ids, NewOrder(o)
        PROVE  execs' = <<>> /\ taker' = o /\ submitted'[o.id] = o
    BY <2>1 DEF NewOrder, TypeOK
  <2>2. ASSUME NEW o, RejectDuplicate(o)
        PROVE  taker' = None
    BY <2>2 DEF RejectDuplicate, Idle
  <2>3. ASSUME NEW id, NEW user, CancelOrder(id, user)
        PROVE  taker' = None
    BY <2>3 DEF CancelOrder, Idle
  <2>4. ASSUME NEW id \in Ids, NEW user \in Users, NEW price \in Prices,
               NEW quantity \in Quantities, NEW update \in Times
        PROVE  [id |-> id, user |-> user, price |-> price,
                quantity |-> quantity, update |-> update] \in Order
    BY ValuesAssumption DEF Order
  <2>5. CASE \E id \in Ids, user \in Users : CancelOrder(id, user)
    BY <2>3, <2>5
  <2>6. CASE \E id \in Ids, user \in Users, price \in Prices, quantity \in Quantities,
                update \in Times :
                LET o == [id |-> id, user |-> user, price |-> price,
                          quantity |-> quantity, update |-> update]
                IN  NewOrder(o) \/ RejectDuplicate(o)
    BY <2>1, <2>2, <2>4, <2>6
  <2> QED BY <1>2, <2>5, <2>6 DEF Request
<1>3. CASE Match
  BY <1>3 DEF Match, PanicInMatch, history_vars
<1>4. CASE Finish
  BY <1>4 DEF Finish, FinishOrder, PanicHeapFull, history_vars
<1>5. CASE PublishMd \/ PanicInMd
  BY <1>5 DEF PublishMd, PanicInMd, Idle, history_vars
<1> QED BY <1>1, <1>2, <1>3, <1>4, <1>5 DEF Next

\* Every execution of the order in hand is with an order that was entered.
LEMMA NextKeepsKnown ==
    ASSUME TypeOK, OneAtATime, BetweenKnownOrders, [Next]_vars
    PROVE  BetweenKnownOrders'
<1>1. CASE UNCHANGED <<book, taker, execs, submitted>>
  BY <1>1 DEF BetweenKnownOrders, Maker
<1>2. CASE execs' = <<>> \/ taker' = None
  BY <1>2 DEF BetweenKnownOrders
<1>3. ASSUME NEW m \in Ids, MatchOrder(m) PROVE BetweenKnownOrders'
  <2>1. PICK e \in Execution :
           /\ DOMAIN execs' = DOMAIN execs \cup {Len(execs) + 1}
           /\ execs'[Len(execs) + 1] = e
           /\ \A i \in DOMAIN execs : execs'[i] = execs[i]
           /\ \A x \in Execution : Maker(x)' = Maker(x)
           /\ Maker(e) = m
           /\ taker.id \in {e.buy_order, e.sell_order}
    BY <1>3, ExecsGrow
  <2>2. /\ taker # None /\ taker.id # m /\ taker'.id = taker.id
        /\ submitted[m] # None /\ UNCHANGED submitted
    BY <1>3, MatchOrderFacts DEF MatchOrder, AfterMatch, Matching, OneAtATime, SameTerms
  <2>3. \A i \in DOMAIN execs : execs[i] \in Execution
    BY DEF TypeOK
  <2> QED BY <2>1, <2>2, <2>3 DEF BetweenKnownOrders
<1> QED BY <1>1, <1>2, <1>3, TakerSteps

\* No step of the engine executes against an order while a better one rests.
LEMMA NextKeepsPriority ==
    ASSUME TypeOK, OneAtATime, BetweenKnownOrders, Priority, [Next]_vars
    PROVE  Priority'
<1>1. CASE UNCHANGED <<book, taker, execs, submitted>>
  BY <1>1 DEF Priority, Maker, Resting
<1>2. CASE execs' = <<>> \/ taker' = None
  BY <1>2 DEF Priority
<1>3. ASSUME NEW m \in Ids, MatchOrder(m) PROVE Priority'
  <2>1. PICK e \in Execution :
           /\ DOMAIN execs' = DOMAIN execs \cup {Len(execs) + 1}
           /\ execs'[Len(execs) + 1] = e
           /\ \A i \in DOMAIN execs : execs'[i] = execs[i]
           /\ \A x \in Execution : Maker(x)' = Maker(x)
           /\ Maker(e) = m
    BY <1>3, ExecsGrow
  <2>2. taker # None /\ UNCHANGED submitted /\ Matching(m)
    BY <1>3 DEF MatchOrder, AfterMatch, Matching
  <2>3. \A s \in Sides : Resting(s)' \subseteq Resting(s)
    BY <1>3, RestingShrinks
  <2>4. ASSUME NEW id \in Resting(SideOf(m))
        PROVE  ~Before(SideOf(m), submitted[id], submitted[m])
    <3>1. m \in Top(SideOf(m))
      BY <2>2, MatchingTypes DEF Matching
    <3>2. ~Before(SideOf(m), book[id], book[m])
      BY <3>1 DEF Top
    <3>3. SameTerms(book[id], submitted[id]) /\ SameTerms(book[m], submitted[m])
      BY <3>1 DEF OneAtATime, InBook, Resting, Top
    <3> QED BY <3>2, <3>3 DEF Before, SameTerms
  <2>5. \A i \in DOMAIN execs : execs[i] \in Execution
    BY DEF TypeOK
  <2>6. SUFFICES ASSUME NEW i \in DOMAIN execs',
                        NEW id \in Resting(SideOf(Maker(execs[i])))'
                 PROVE  ~Before(SideOf(Maker(execs[i])'), submitted[id],
                                submitted[Maker(execs[i])'])
    BY <2>2 DEF Priority
  <2>7. SideOf(Maker(execs[i])') \in Sides
    BY DEF SideOf, Sides
  <2>8. id \in Resting(SideOf(Maker(execs[i])'))
    BY <2>3, <2>6, <2>7
  <2>9. CASE i \in DOMAIN execs
    <3>1. Maker(execs[i])' = Maker(execs[i])
      BY <2>1, <2>5, <2>9
    <3> QED BY <2>2, <2>8, <2>9, <3>1 DEF Priority
  <2>10. CASE i = Len(execs) + 1
    <3>1. Maker(execs[i])' = m
      BY <2>1, <2>10
    <3> QED BY <2>4, <2>8, <3>1
  <2> QED BY <2>1, <2>9, <2>10
<1> QED BY <1>1, <1>2, <1>3, TakerSteps

\* No step of the engine trades outside the two limits.
LEMMA NextKeepsLimits ==
    ASSUME TypeOK, OneAtATime, BetweenKnownOrders, WithinLimits, [Next]_vars
    PROVE  WithinLimits'
<1>1. CASE UNCHANGED <<book, taker, execs, submitted>>
  BY <1>1 DEF WithinLimits, Maker
<1>2. CASE execs' = <<>> \/ taker' = None
  BY <1>2 DEF WithinLimits
<1>3. ASSUME NEW m \in Ids, MatchOrder(m) PROVE WithinLimits'
  <2> DEFINE q == Smaller(taker.quantity, book[m].quantity)
  <2>1. PICK e \in Execution :
           /\ DOMAIN execs' = DOMAIN execs \cup {Len(execs) + 1}
           /\ execs'[Len(execs) + 1] = e
           /\ \A i \in DOMAIN execs : execs'[i] = execs[i]
           /\ \A x \in Execution : Maker(x)' = Maker(x)
           /\ Maker(e) = m
           /\ taker.id \in {e.buy_order, e.sell_order}
           /\ e.price = book[m].price
           /\ e.quantity = q
    BY <1>3, ExecsGrow
  <2>2. q > 0
    BY <1>3, MatchOrderFacts
  <2> HIDE DEF q
  <2>3. taker # None /\ UNCHANGED submitted /\ Matching(m)
    BY <1>3 DEF MatchOrder, AfterMatch, Matching
  <2>4. /\ taker \in Order /\ book[m] \in Order /\ book[m] # None
        /\ SideOf(m) = Opposite(SideOf(taker.id))
        /\ DoesCross(SideOf(m), taker, book[m])
    BY <2>3, MatchingTypes DEF Matching
  <2>5. /\ submitted[m].price = book[m].price
        /\ submitted[taker.id].price = taker.price
    BY <2>3, <2>4 DEF OneAtATime, InBook, SameTerms
  <2>6. book[m].price \in Int /\ taker.price \in Int
    BY <2>4, ValuesAssumption DEF Order
  <2>7. /\ submitted[e.buy_order].price >= e.price
        /\ submitted[e.sell_order].price <= e.price
    <3>1. CASE SideOf(taker.id) = "Buy"
      <4>1. e.sell_order = m /\ e.buy_order = taker.id
        BY <1>3, <2>1, <3>1, MatchOrderFacts DEF Maker
      <4> QED BY <2>1, <2>4, <2>5, <2>6, <3>1, <4>1 DEF DoesCross, Opposite
    <3>2. CASE SideOf(taker.id) # "Buy"
      <4>1. e.buy_order = m /\ e.sell_order = taker.id
        BY <1>3, <2>1, <3>2, MatchOrderFacts DEF Maker
      <4> QED BY <2>1, <2>4, <2>5, <2>6, <3>2, <4>1 DEF DoesCross, Opposite
    <3> QED BY <3>1, <3>2
  <2>8. \A i \in DOMAIN execs : execs[i] \in Execution
    BY DEF TypeOK
  <2>9. SUFFICES ASSUME NEW i \in DOMAIN execs'
                 PROVE  /\ execs'[i].quantity > 0
                        /\ submitted[execs'[i].buy_order].price >= execs'[i].price
                        /\ submitted[execs'[i].sell_order].price <= execs'[i].price
                        /\ execs'[i].price = submitted[Maker(execs[i])'].price
    BY <2>3 DEF WithinLimits
  <2>10. CASE i \in DOMAIN execs
    BY <2>1, <2>3, <2>8, <2>10 DEF WithinLimits
  <2>11. CASE i = Len(execs) + 1
    BY <2>1, <2>2, <2>5, <2>7, <2>11
  <2> QED BY <2>1, <2>10, <2>11
<1> QED BY <1>1, <1>2, <1>3, TakerSteps

\* A round takes from the order in hand what it reports.
LEMMA NextKeepsReported ==
    ASSUME TypeOK, OneAtATime, ReportedInFull, [Next]_vars
    PROVE  ReportedInFull'
<1>1. CASE UNCHANGED <<book, taker, execs, submitted>>
  BY <1>1 DEF ReportedInFull
<1>2. CASE taker' = None
  BY <1>2 DEF ReportedInFull
<1>3. ASSUME execs' = <<>>, taker' \in Order, submitted'[taker'.id] = taker'
      PROVE  ReportedInFull'
  <2> DEFINE left == [i \in 0 .. 0 |-> taker'.quantity]
  <2>1. taker'.quantity \in Nat /\ Len(execs') = 0 /\ DOMAIN execs' = {}
    BY <1>3 DEF Order
  <2>2. left \in [0 .. Len(execs') -> 0 .. taker'.quantity] /\ left[0] = taker'.quantity
    BY <2>1
  <2> QED BY <1>3, <2>1, <2>2 DEF ReportedInFull
<1>4. ASSUME NEW m \in Ids, MatchOrder(m) PROVE ReportedInFull'
  <2> DEFINE q == Smaller(taker.quantity, book[m].quantity)
             n == Len(execs)
             entered == submitted[taker.id].quantity
  <2>1. PICK e \in Execution :
           /\ execs' = Append(execs, e)
           /\ DOMAIN execs' = DOMAIN execs \cup {n + 1} /\ execs'[n + 1] = e
           /\ \A i \in DOMAIN execs : execs'[i] = execs[i]
           /\ e.quantity = q
    BY <1>4, ExecsGrow
  <2>2. /\ taker # None /\ taker'.id = taker.id /\ UNCHANGED submitted
        /\ q \in Nat /\ taker.quantity - q \in Nat /\ taker'.quantity = taker.quantity - q
    BY <1>4, MatchOrderFacts DEF MatchOrder, AfterMatch, Matching, SameTerms
  <2>3. n \in Nat /\ DOMAIN execs = 1 .. n /\ Len(execs') = n + 1
    BY <2>1 DEF TypeOK
  <2>4. PICK left \in [0 .. n -> 0 .. entered] :
           /\ left[0] = entered /\ left[n] = taker.quantity
           /\ \A i \in DOMAIN execs : left[i] = left[i - 1] - execs[i].quantity
    BY <2>2 DEF ReportedInFull
  <2> DEFINE more == [i \in 0 .. n + 1 |-> IF i <= n THEN left[i] ELSE taker'.quantity]
  <2> HIDE DEF q, n, entered
  <2>5. more \in [0 .. n + 1 -> 0 .. entered]
    <3>1. taker.quantity \in 0 .. entered /\ entered \in Int
      BY <2>3, <2>4 DEF entered, TypeOK, Order
    <3>2. taker'.quantity \in 0 .. entered
      BY <2>2, <3>1
    <3> QED BY <2>3, <2>4, <3>2
  <2>6. more[0] = entered /\ more[n + 1] = taker'.quantity
    BY <2>3, <2>4
  <2>7. \A i \in DOMAIN execs' : more[i] = more[i - 1] - execs'[i].quantity
    <3>1. ASSUME NEW i \in 1 .. n PROVE more[i] = more[i - 1] - execs'[i].quantity
      <4>1. i \in DOMAIN execs /\ i \in 0 .. n + 1 /\ i - 1 \in 0 .. n + 1 /\ i <= n /\ i - 1 <= n
        BY <2>3
      <4>2. more[i] = left[i] /\ more[i - 1] = left[i - 1]
        BY <4>1
      <4>3. left[i] = left[i - 1] - execs[i].quantity /\ execs'[i] = execs[i]
        BY <2>1, <2>4, <4>1
      <4> HIDE DEF more
      <4> QED BY <4>2, <4>3
    <3>2. more[n + 1] = more[n] - execs'[n + 1].quantity
      BY <2>1, <2>2, <2>3, <2>4
    <3>3. \A i \in DOMAIN execs' : i \in 1 .. n \/ i = n + 1
      BY <2>1, <2>3
    <3> HIDE DEF more
    <3>4. ASSUME NEW i, i = n + 1 PROVE more[i] = more[i - 1] - execs'[i].quantity
      <4>1. i - 1 = n
        BY <2>3, <3>4
      <4> QED BY <3>2, <3>4, <4>1
    <3> QED BY <3>1, <3>3, <3>4
  <2> HIDE DEF more
  <2> QED BY <2>2, <2>3, <2>5, <2>6, <2>7 DEF ReportedInFull, entered
<1> QED BY <1>1, <1>2, <1>3, <1>4, TakerSteps

\* No match passes over an order that ranks before one it executes against.
THEOREM PriorityHolds == Spec => []Priority
<1> DEFINE IInv == TypeOK /\ OneAtATime /\ BetweenKnownOrders /\ Priority
<1>1. Init => IInv
  BY TypeInit DEF Init, BetweenKnownOrders, Priority
<1>2. IInv /\ [Next]_vars => IInv'
  BY NextKeepsTypes, NextKeepsKnown, NextKeepsPriority
<1>3. IInv => Priority
  OBVIOUS
<1> HIDE DEF IInv
<1> QED BY <1>1, <1>2, <1>3, PTL DEF Spec

\* Both parties of an execution trade within the limits they set, at the price
\* of the order that was in the book.
THEOREM LimitsHold == Spec => []WithinLimits
<1> DEFINE IInv == TypeOK /\ OneAtATime /\ BetweenKnownOrders /\ WithinLimits
<1>1. Init => IInv
  BY TypeInit DEF Init, BetweenKnownOrders, WithinLimits
<1>2. IInv /\ [Next]_vars => IInv'
  BY NextKeepsTypes, NextKeepsKnown, NextKeepsLimits
<1>3. IInv => WithinLimits
  OBVIOUS
<1> HIDE DEF IInv
<1> QED BY <1>1, <1>2, <1>3, PTL DEF Spec

\* The executions reported for an order add up to what it has lost by them.
THEOREM ReportsAddUp == Spec => []ReportedInFull
<1> DEFINE IInv == TypeOK /\ OneAtATime /\ ReportedInFull
<1>1. Init => IInv
  BY TypeInit DEF Init, ReportedInFull
<1>2. IInv /\ [Next]_vars => IInv'
  BY NextKeepsTypes, NextKeepsReported
<1>3. IInv => ReportedInFull
  OBVIOUS
<1> HIDE DEF IInv
<1> QED BY <1>1, <1>2, <1>3, PTL DEF Spec

------------------------------------------------------------------------------
(***************************************************************************)
(* What the feed has seen, and an order's rank.                            *)
(***************************************************************************)

\* No step of the engine leaves an unmarked symbol's market data stale.
LEMMA NextKeepsMdFresh ==
    ASSUME TypeOK, OneAtATime, MdFresh, [Next]_vars
    PROVE  MdFresh'
<1>1. CASE UNCHANGED <<book, taker, panicked, dirty, published, published_l2, last_exec>>
  BY <1>1 DEF MdFresh, Idle, TopOrder, Top, OrdersOn, Resting
<1>2. CASE UNCHANGED vars
  BY <1>1, <1>2 DEF vars, book_vars
<1>3. CASE dirty' = TRUE \/ taker' # None \/ panicked'
  BY <1>3 DEF MdFresh, Idle
<1>4. CASE Request
  <2>1. ASSUME NEW id, NEW user, CancelOrder(id, user)
        PROVE  MdFresh'
    BY <1>3, <2>1 DEF CancelOrder
  <2>2. ASSUME NEW id \in Ids, NEW user \in Users, NEW price \in Prices,
               NEW quantity \in Quantities, NEW update \in Times,
               NEW o, o = [id |-> id, user |-> user, price |-> price,
                           quantity |-> quantity, update |-> update],
               NewOrder(o) \/ RejectDuplicate(o)
        PROVE  MdFresh'
    <3>1. o # None
      BY <2>2, ValuesAssumption, NoneAssumption DEF Order
    <3> QED BY <1>3, <2>2, <3>1 DEF NewOrder, RejectDuplicate
  <2> QED BY <1>4, <2>1, <2>2 DEF Request
<1>5. CASE Match
  <2>1. PICK m \in Ids : MatchOrder(m) \/ PanicInMatch(m)
    BY <1>5 DEF Match
  <2>2. CASE MatchOrder(m)
    BY <1>3, <2>2, MatchOrderFacts
  <2>3. CASE PanicInMatch(m)
    BY <1>3, <2>3 DEF PanicInMatch
  <2> QED BY <2>1, <2>2, <2>3
<1>6. CASE Finish
  BY <1>3, <1>6 DEF Finish, FinishOrder, PanicHeapFull
<1>7. CASE PublishMd
  <2>1. PICK bid \in TopOrder("Buy"), ask \in TopOrder("Sell") :
           published' = [bid |-> bid, ask |-> ask, last |-> last_exec]
    BY <1>7 DEF PublishMd, L1Sent
  <2>2. /\ UNCHANGED <<book, last_exec>>
        /\ published_l2' = L2Data(OrdersOn("Buy"), OrdersOn("Sell"), last_exec)
    BY <1>7 DEF PublishMd
  <2>3. TopOrder("Buy")' = TopOrder("Buy") /\ TopOrder("Sell")' = TopOrder("Sell")
    BY <2>2 DEF TopOrder, Top, Resting
  <2>4. OrdersOn("Buy")' = OrdersOn("Buy") /\ OrdersOn("Sell")' = OrdersOn("Sell")
    BY <2>2 DEF OrdersOn, Resting
  <2> QED BY <2>1, <2>2, <2>3, <2>4 DEF MdFresh
<1>8. CASE PanicInMd
  BY <1>3, <1>8 DEF PanicInMd
<1> QED BY <1>2, <1>4, <1>5, <1>6, <1>7, <1>8 DEF Next

\* Whatever the engine has done, a symbol it has not marked dirty has been
\* published as it stands.
THEOREM PublishedIsFresh == Spec => []MdFresh
<1> DEFINE IInv == TypeOK /\ OneAtATime /\ MdFresh
<1>1. Init => IInv
  <2> SUFFICES ASSUME Init PROVE IInv
    OBVIOUS
  <2>1. Resting("Buy") = {} /\ Resting("Sell") = {}
    BY DEF Init, Resting
  <2>2. OrdersOn("Buy") = {} /\ OrdersOn("Sell") = {}
    BY <2>1 DEF OrdersOn
  <2> QED BY <2>1, <2>2, TypeInit DEF Init, MdFresh, TopOrder
<1>2. IInv /\ [Next]_vars => IInv'
  BY NextKeepsTypes, NextKeepsMdFresh
<1>3. IInv => MdFresh
  OBVIOUS
<1> HIDE DEF IInv
<1> QED BY <1>1, <1>2, <1>3, PTL DEF Spec

\* No step changes the price, time or owner of an order that stays in the book.
THEOREM RankNeverChanges == Spec => RankKept
<1> DEFINE IInv == TypeOK /\ OneAtATime
           Kept == \A id \in Ids : InBook(id) /\ book'[id] # None =>
                      /\ book'[id].price = book[id].price
                      /\ book'[id].update = book[id].update
                      /\ book'[id].user = book[id].user
<1>1. Init => IInv
  BY TypeInit
<1>2. IInv /\ [Next]_vars => IInv'
  BY NextKeepsTypes
<1>3. IInv /\ [Next]_vars => [Kept]_vars
  <2>1. SUFFICES ASSUME TypeOK, OneAtATime, [Next]_vars PROVE Kept
    OBVIOUS
  <2>2. CASE UNCHANGED book
    BY <2>2
  <2>3. ASSUME NEW m \in Ids, MatchOrder(m) PROVE Kept
    <3>1. \A id \in Ids \ {m} : book'[id] = book[id]
      BY <2>1, <2>3, MatchOrderFacts
    <3>2. book'[m] # None => SameTerms(book'[m], book[m])
      BY <2>1, <2>3, MatchOrderFacts
    <3> QED BY <3>1, <3>2 DEF SameTerms
  <2>4. ASSUME NEW id \in Ids, NEW user \in Users, CancelOrder(id, user)
        PROVE  Kept
    BY <2>4 DEF CancelOrder, TypeOK
  <2>5. CASE FinishOrder /\ taker.quantity > 0
    <3>1. taker # None /\ book[taker.id] = None /\ taker.id \in Ids
      BY <2>1, <2>5 DEF FinishOrder, MatchOver, OneAtATime, TypeOK, Order
    <3> QED BY <2>1, <2>5, <3>1 DEF FinishOrder, TypeOK, InBook
  <2> QED BY <2>1, <2>2, <2>3, <2>4, <2>5, BookSteps
<1> HIDE DEF IInv, Kept
<1>4. Spec => [][Kept]_vars
  BY <1>1, <1>2, <1>3, PTL DEF Spec
<1> QED BY <1>4 DEF Kept, RankKept

------------------------------------------------------------------------------
(***************************************************************************)
(* The functions by which the level 2 loop and the sum of quantities are   *)
(* defined exist: a function with the next argument more, or one for sets  *)
(* of one element more, is defined from the one before.  So they satisfy   *)
(* their defining equations.                                               *)
(***************************************************************************)

\* A set of numbers that contains 0 and with each number the next.
LEMMA AllNumbers ==
    ASSUME NEW S, 0 \in S, \A n \in Nat : n \in S => n + 1 \in S
    PROVE  \A n \in Nat : n \in S
<1> DEFINE T == {n \in Nat : n \notin S}
           R == OpToRel(<, Nat)
<1> SUFFICES ASSUME T # {} PROVE FALSE
  OBVIOUS
<1>1. IsWellFoundedOn(R, Nat)
  BY NatLessThanWellFounded
<1>2. PICK x \in T : \A y \in T : ~(<<y, x>> \in R)
  <2> HIDE DEF T, R
  <2>1. T \subseteq Nat
    BY DEF T
  <2> QED BY <1>1, <2>1, WFMin
<1>3. x - 1 \in Nat /\ (x - 1) + 1 = x
  OBVIOUS
<1>4. x - 1 \notin S
  BY <1>3
<1>5. <<x - 1, x>> \in R
  BY <1>3 DEF OpToRel
<1> QED BY <1>2, <1>3, <1>4, <1>5

ReadStep(orders, f, n) == IF n = 0 THEN NoneRead ELSE ReadOrder(f[n - 1], orders[n])

\* One step longer each time, the loop of any length is such a function.
LEMMA ReadingExists ==
    ASSUME NEW orders, Len(orders) \in Nat
    PROVE  \E f : f = [n \in 0 .. Len(orders) |-> ReadStep(orders, f, n)]
<1> DEFINE F(f, k) == f = [n \in 0 .. k |-> ReadStep(orders, f, n)]
           S == {k \in Nat : \E f : F(f, k)}
<1>1. \A f, g, n : n = 0 \/ f[n - 1] = g[n - 1] => ReadStep(orders, f, n) = ReadStep(orders, g, n)
  BY DEF ReadStep
<1>2. 0 \in S
  <2> DEFINE f == [n \in 0 .. 0 |-> ReadStep(orders, <<>>, n)]
  <2>1. F(f, 0)
    <3>1. \A n \in 0 .. 0 : ReadStep(orders, <<>>, n) = ReadStep(orders, f, n)
      <4> HIDE DEF f
      <4> QED BY <1>1
    <3> QED BY <3>1
  <2> QED BY <2>1
<1>3. ASSUME NEW k \in Nat, k \in S PROVE k + 1 \in S
  <2>1. PICK f : F(f, k)
    BY <1>3
  <2> DEFINE g == [n \in 0 .. k + 1 |-> IF n = k + 1 THEN ReadStep(orders, f, n) ELSE f[n]]
  <2>2. \A n \in 0 .. k : g[n] = f[n]
    OBVIOUS
  <2>3. ASSUME NEW n \in 0 .. k + 1 PROVE g[n] = ReadStep(orders, g, n)
    <3>1. n = 0 \/ f[n - 1] = g[n - 1]
      <4> HIDE DEF g
      <4> QED BY <2>2
    <3>2. ReadStep(orders, f, n) = ReadStep(orders, g, n)
      <4> HIDE DEF g
      <4> QED BY <1>1, <3>1
    <3>3. n # k + 1 => f[n] = ReadStep(orders, f, n)
      <4>1. n # k + 1 => n \in 0 .. k
        OBVIOUS
      <4> QED BY <2>1, <4>1
    <3>4. g[n] = IF n = k + 1 THEN ReadStep(orders, f, n) ELSE f[n]
      OBVIOUS
    <3> HIDE DEF g
    <3> QED BY <3>2, <3>3, <3>4
  <2>4. F(g, k + 1)
    <3>1. g = [n \in 0 .. k + 1 |-> g[n]]
      OBVIOUS
    <3> HIDE DEF g
    <3> QED BY <2>3, <3>1
  <2>5. \E f1 : F(f1, k + 1)
    <3> HIDE DEF g, F
    <3> QED BY <2>4
  <2> QED BY <2>5
<1>4. Len(orders) \in S
  <2> HIDE DEF S
  <2> QED BY <1>2, <1>3, AllNumbers
<1> QED BY <1>4

\* The loop of get_l2_data, order by order.
LEMMA ReadingStep ==
    ASSUME NEW orders, Len(orders) \in Nat, NEW n \in 0 .. Len(orders)
    PROVE  Reading(orders)[n] = IF n = 0 THEN NoneRead
                                ELSE ReadOrder(Reading(orders)[n - 1], orders[n])
<1> DEFINE F(f) == f = [k \in 0 .. Len(orders) |-> ReadStep(orders, f, k)]
<1>1. Reading(orders) = CHOOSE f : F(f)
  BY DEF Reading, ReadStep
<1>2. \E f : F(f)
  BY ReadingExists
<1>3. F(CHOOSE f : F(f))
  <2> HIDE DEF F
  <2> QED BY <1>2
<1> HIDE DEF F
<1>4. F(Reading(orders))
  BY <1>1, <1>3
<1> QED BY <1>4 DEF F, ReadStep

\* The sum over a set of orders, an element chosen and the rest.
SumStep(w, f, S) == IF S = {} THEN 0
                    ELSE LET x == CHOOSE x \in S : TRUE
                         IN  w[x].quantity + f[S \ {x}]
IsSum(w, f, S) == f = [t \in SUBSET S |-> SumStep(w, f, t)]

\* The same of the sum, by the size of the sets.
LEMMA SumExists ==
    ASSUME NEW w, NEW S, IsFiniteSet(S)
    PROVE  \E f : IsSum(w, f, S)
<1> DEFINE Upto(k) == {t \in SUBSET S : Cardinality(t) <= k}
           F(f, k) == f = [t \in Upto(k) |-> SumStep(w, f, t)]
           K == {k \in Nat : \E f : F(f, k)}
<1>1. \A f, g, t : t = {} \/ f[t \ {CHOOSE x \in t : TRUE}] = g[t \ {CHOOSE x \in t : TRUE}]
                      => SumStep(w, f, t) = SumStep(w, g, t)
  BY DEF SumStep
<1>2. ASSUME NEW k \in Nat, NEW t \in Upto(k + 1), t # {}
      PROVE  t \ {CHOOSE x \in t : TRUE} \in Upto(k)
  <2> DEFINE x == CHOOSE x \in t : TRUE
  <2>1. x \in t
    BY <1>2
  <2> HIDE DEF x
  <2>2. IsFiniteSet(t) /\ Cardinality(t) \in Nat
    BY FS_Subset, FS_CardinalityType
  <2>3. Cardinality(t \ {x}) = Cardinality(t) - 1
    BY <2>1, <2>2, FS_RemoveElement
  <2>4. Cardinality(t \ {x}) <= k
    BY <2>2, <2>3
  <2>5. t \ {x} \in Upto(k)
    BY <2>4
  <2> QED BY <2>5 DEF x
<1>3. \A k \in Nat : Upto(k) \subseteq Upto(k + 1)
  <2>1. \A t \in SUBSET S : Cardinality(t) \in Nat
    BY FS_Subset, FS_CardinalityType
  <2> QED BY <2>1
<1>4. \A t \in Upto(0) : t = {}
  <2>1. \A t \in SUBSET S : IsFiniteSet(t) /\ Cardinality(t) \in Nat
    BY FS_Subset, FS_CardinalityType
  <2> QED BY <2>1, FS_EmptySet
<1>5. 0 \in K
  <2> DEFINE f == [t \in Upto(0) |-> SumStep(w, <<>>, t)]
  <2>1. \A t \in Upto(0) : SumStep(w, <<>>, t) = SumStep(w, f, t)
    <3> HIDE DEF f, Upto
    <3> QED BY <1>1, <1>4
  <2>2. F(f, 0)
    <3> HIDE DEF Upto
    <3> QED BY <2>1
  <2>3. \E f1 : F(f1, 0)
    <3> HIDE DEF f, F
    <3> QED BY <2>2
  <2> QED BY <2>3
<1>6. ASSUME NEW k \in Nat, k \in K PROVE k + 1 \in K
  <2>1. PICK f : F(f, k)
    BY <1>6
  <2> DEFINE g == [t \in Upto(k + 1) |-> IF t \in Upto(k) THEN f[t] ELSE SumStep(w, f, t)]
  <2>2. \A t \in Upto(k) : g[t] = f[t]
    <3> HIDE DEF Upto
    <3> QED BY <1>3
  <2>3. ASSUME NEW t \in Upto(k + 1) PROVE g[t] = SumStep(w, g, t)
    <3>1. t = {} \/ f[t \ {CHOOSE x \in t : TRUE}] = g[t \ {CHOOSE x \in t : TRUE}]
      <4> HIDE DEF g, Upto
      <4> QED BY <1>2, <2>2
    <3>2. SumStep(w, f, t) = SumStep(w, g, t)
      <4> HIDE DEF g, Upto
      <4> QED BY <1>1, <3>1
    <3>3. t \in Upto(k) => f[t] = SumStep(w, f, t)
      <4> HIDE DEF Upto
      <4> QED BY <2>1
    <3>4. g[t] = IF t \in Upto(k) THEN f[t] ELSE SumStep(w, f, t)
      <4> HIDE DEF Upto
      <4> QED OBVIOUS
    <3> HIDE DEF g, Upto
    <3> QED BY <3>2, <3>3, <3>4
  <2>4. F(g, k + 1)
    <3>1. g = [t \in Upto(k + 1) |-> g[t]]
      <4> HIDE DEF Upto
      <4> QED OBVIOUS
    <3> HIDE DEF g, Upto
    <3> QED BY <2>3, <3>1
  <2>5. \E f1 : F(f1, k + 1)
    <3> HIDE DEF g, F
    <3> QED BY <2>4
  <2> HIDE DEF F
  <2> QED BY <2>5
<1>7. Cardinality(S) \in K
  <2>1. Cardinality(S) \in Nat
    BY FS_CardinalityType
  <2> HIDE DEF K
  <2> QED BY <1>5, <1>6, <2>1, AllNumbers
<1>8. Upto(Cardinality(S)) = SUBSET S
  BY FS_Subset
<1> QED BY <1>7, <1>8 DEF IsSum

\* It does not matter which element is taken out first.
LEMMA SumAny ==
    ASSUME NEW w, NEW S, IsFiniteSet(S), \A x \in S : w[x].quantity \in Nat,
           NEW f, IsSum(w, f, S)
    PROVE  \A t \in SUBSET S : /\ f[t] \in Nat
                               /\ \A x \in t : f[t] = w[x].quantity + f[t \ {x}]
<1> DEFINE P(t) == /\ f[t] \in Nat
                   /\ \A x \in t : f[t] = w[x].quantity + f[t \ {x}]
           K == {k \in Nat : \A t \in SUBSET S : Cardinality(t) <= k => P(t)}
<1>1. \A t \in SUBSET S : /\ IsFiniteSet(t) /\ Cardinality(t) \in Nat
                          /\ (Cardinality(t) = 0 <=> t = {})
                          /\ \A x \in t : Cardinality(t \ {x}) = Cardinality(t) - 1
  BY FS_Subset, FS_CardinalityType, FS_EmptySet, FS_RemoveElement
<1>2. \A t \in SUBSET S : f[t] = SumStep(w, f, t)
  BY DEF IsSum
<1>3. 0 \in K
  <2>1. f[{}] = 0
    <3>1. {} \in SUBSET S
      OBVIOUS
    <3> QED BY <1>2, <3>1 DEF SumStep
  <2>2. P({})
    BY <2>1
  <2>3. \A t \in SUBSET S : Cardinality(t) <= 0 => t = {}
    BY <1>1
  <2> HIDE DEF P
  <2> QED BY <2>2, <2>3
<1>4. ASSUME NEW k \in Nat, k \in K PROVE k + 1 \in K
  <2> SUFFICES ASSUME NEW t \in SUBSET S, Cardinality(t) <= k + 1, t # {} PROVE P(t)
    <3>1. Cardinality({}) <= k
      BY FS_EmptySet
    <3> HIDE DEF P
    <3> QED BY <1>4, <3>1
  <2> DEFINE y == CHOOSE y \in t : TRUE
  <2>1. y \in t /\ f[t] = w[y].quantity + f[t \ {y}]
    BY <1>2 DEF SumStep
  <2> HIDE DEF y
  <2>2. \A u \in SUBSET S : Cardinality(u) <= k => P(u)
    <3> HIDE DEF P
    <3> QED BY <1>4
  <2>3. \A x \in t : t \ {x} \in SUBSET S /\ Cardinality(t \ {x}) <= k
    BY <1>1
  <2>4. \A x \in t : P(t \ {x})
    <3> HIDE DEF P
    <3> QED BY <2>2, <2>3
  <2>5. f[t] \in Nat
    <3>1. f[t \ {y}] \in Nat
      BY <2>1, <2>4
    <3>2. w[y].quantity \in Nat
      BY <2>1
    <3> QED BY <2>1, <3>1, <3>2
  <2>6. ASSUME NEW x \in t, x # y PROVE f[t] = w[x].quantity + f[t \ {x}]
    <3> DEFINE u == (t \ {x}) \ {y}
    <3>1. x \in t \ {y} /\ y \in t \ {x} /\ (t \ {y}) \ {x} = u
      BY <2>1, <2>6
    <3>2. u \in SUBSET S /\ Cardinality(u) <= k
      <4>1. Cardinality(u) = Cardinality(t \ {x}) - 1 /\ Cardinality(t \ {x}) \in Nat
        BY <1>1, <2>3, <3>1
      <4>2. Cardinality(u) <= k
        <5> HIDE DEF u
        <5> QED BY <2>3, <4>1
      <4> QED BY <4>2
    <3>3. P(u)
      <4> HIDE DEF P, u
      <4> QED BY <2>2, <3>2
    <3>4. f[t \ {y}] = w[x].quantity + f[u]
      <4> HIDE DEF u
      <4> QED BY <2>1, <2>4, <3>1
    <3>5. f[t \ {x}] = w[y].quantity + f[u]
      BY <2>4, <3>1
    <3> HIDE DEF u
    <3>6. f[u] \in Nat /\ w[x].quantity \in Nat /\ w[y].quantity \in Nat
      BY <2>1, <3>3
    <3> QED BY <2>1, <3>4, <3>5, <3>6
  <2> QED BY <2>1, <2>5, <2>6
<1>5. \A t \in SUBSET S : P(t)
  <2> HIDE DEF P
  <2>1. \A k \in Nat : k \in K
    <3> HIDE DEF K
    <3> QED BY <1>3, <1>4, AllNumbers
  <2>2. \A t \in SUBSET S : Cardinality(t) \in Nat /\ Cardinality(t) <= Cardinality(t)
    BY <1>1
  <2> QED BY <2>1, <2>2
<1> QED BY <1>5

\* The sum over a subset is the same whichever set it was defined on.
LEMMA SumSame ==
    ASSUME NEW w, NEW S, IsFiniteSet(S), NEW R \in SUBSET S, \A x \in S : w[x].quantity \in Nat,
           NEW f, IsSum(w, f, S), NEW g, IsSum(w, g, R)
    PROVE  g[R] = f[R]
<1> DEFINE K == {k \in Nat : \A t \in SUBSET R : Cardinality(t) <= k => f[t] = g[t]}
<1>1. \A t \in SUBSET R : /\ t \in SUBSET S
                          /\ IsFiniteSet(t) /\ Cardinality(t) \in Nat
                          /\ (Cardinality(t) = 0 <=> t = {})
                          /\ \A x \in t : Cardinality(t \ {x}) = Cardinality(t) - 1
  BY FS_Subset, FS_CardinalityType, FS_EmptySet, FS_RemoveElement
<1>2. \A t \in SUBSET R : f[t] = SumStep(w, f, t) /\ g[t] = SumStep(w, g, t)
  BY <1>1 DEF IsSum
<1>3. 0 \in K
  <2>1. {} \in SUBSET R /\ f[{}] = g[{}]
    <3>1. {} \in SUBSET R
      OBVIOUS
    <3> QED BY <1>2, <3>1 DEF SumStep
  <2>2. \A t \in SUBSET R : Cardinality(t) <= 0 => t = {}
    BY <1>1
  <2> QED BY <2>1, <2>2
<1>4. ASSUME NEW k \in Nat, k \in K PROVE k + 1 \in K
  <2> SUFFICES ASSUME NEW t \in SUBSET R, Cardinality(t) <= k + 1, t # {} PROVE f[t] = g[t]
    <3>1. f[{}] = g[{}]
      <4>1. {} \in SUBSET R
        OBVIOUS
      <4> QED BY <1>2, <4>1 DEF SumStep
    <3>2. k + 1 \in Nat
      OBVIOUS
    <3> QED BY <3>1, <3>2
  <2> DEFINE y == CHOOSE y \in t : TRUE
  <2>1. /\ y \in t
        /\ f[t] = w[y].quantity + f[t \ {y}] /\ g[t] = w[y].quantity + g[t \ {y}]
    BY <1>2 DEF SumStep
  <2> HIDE DEF y
  <2>2. t \ {y} \in SUBSET R /\ Cardinality(t \ {y}) <= k
    BY <1>1, <2>1
  <2> QED BY <1>4, <2>1, <2>2
<1>5. \A k \in Nat : k \in K
  <2> HIDE DEF K
  <2> QED BY <1>3, <1>4, AllNumbers
<1>6. R \in SUBSET R /\ Cardinality(R) \in Nat /\ Cardinality(R) <= Cardinality(R)
  BY <1>1
<1> QED BY <1>5, <1>6

\* The total of a set with one order more.
LEMMA TotalAdds ==
    ASSUME NEW w, NEW S, IsFiniteSet(S), \A x \in S : w[x].quantity \in Nat
    PROVE  /\ TotalQuantity(w, S) \in Nat
           /\ S = {} => TotalQuantity(w, S) = 0
           /\ \A x \in S : TotalQuantity(w, S) = TotalQuantity(w, S \ {x}) + w[x].quantity
<1>1. \A R \in SUBSET S : /\ IsFiniteSet(R)
                          /\ TotalQuantity(w, R) = (CHOOSE f : IsSum(w, f, R))[R]
  BY FS_Subset DEF TotalQuantity, Sets!MapThenSumSet, Sets!MapThenFoldSet, SumStep, IsSum
<1>2. \A R \in SUBSET S : IsSum(w, CHOOSE f : IsSum(w, f, R), R)
  BY <1>1, SumExists
<1>3. PICK f : IsSum(w, f, S)
  BY SumExists
<1>4. ASSUME NEW R \in SUBSET S PROVE TotalQuantity(w, R) = f[R]
  <2> DEFINE g == CHOOSE g : IsSum(w, g, R)
  <2>1. IsSum(w, g, R) /\ TotalQuantity(w, R) = g[R]
    BY <1>1, <1>2
  <2> HIDE DEF g
  <2>2. g[R] = f[R]
    BY <1>3, <2>1, SumSame
  <2> QED BY <2>1, <2>2
<1>5. \A t \in SUBSET S : /\ f[t] \in Nat
                          /\ \A x \in t : f[t] = w[x].quantity + f[t \ {x}]
  BY <1>3, SumAny
<1>6. S \in SUBSET S /\ \A x \in S : S \ {x} \in SUBSET S
  OBVIOUS
<1>7. S = {} => f[S] = 0
  BY <1>3, <1>6 DEF IsSum, SumStep
<1> QED BY <1>4, <1>5, <1>6, <1>7

------------------------------------------------------------------------------
(***************************************************************************)
(* The order in which the iterator yields a side's orders exists.          *)
(***************************************************************************)

Ranked(s, q, k) == \A i, j \in 1 .. k : i < j => q[i] # q[j] /\ ~Before(s, q[j], q[i])

\* A finite set of orders has one that ranks before no other.
LEMMA WorstExists ==
    ASSUME NEW s \in Sides, NEW O, O \subseteq Order, IsFiniteSet(O), O # {}
    PROVE  \E x \in O : \A y \in O : ~Before(s, x, y)
<1> DEFINE D == [x \in O |-> {y \in O : Before(s, x, y)}]
<1>1. D \in [O -> SUBSET O]
  OBVIOUS
<1>2. \A x \in O : \A z \in D[x] : D[z] \subseteq D[x] /\ z \notin D[z]
  BY BeforeIsStrict
<1>3. PICK x \in O : D[x] = {}
  <2> HIDE DEF D
  <2> QED BY <1>1, <1>2, FiniteMinimum
<1> QED BY <1>3

\* Such orders, put last one after the other, rank the whole set.
LEMMA RankingExists ==
    ASSUME NEW s \in Sides, NEW O, O \subseteq Order, IsFiniteSet(O)
    PROVE  \E q \in [1 .. Cardinality(O) -> O] : Ranked(s, q, Cardinality(O))
<1> DEFINE P(T, k) == \E q \in [1 .. k -> T] : Ranked(s, q, k)
           K == {k \in Nat : \A T \in SUBSET O : Cardinality(T) = k => P(T, k)}
<1>1. \A T \in SUBSET O : /\ IsFiniteSet(T) /\ Cardinality(T) \in Nat
                          /\ (Cardinality(T) = 0 <=> T = {})
                          /\ \A x \in T : Cardinality(T \ {x}) = Cardinality(T) - 1
  BY FS_Subset, FS_CardinalityType, FS_EmptySet, FS_RemoveElement
<1>2. 0 \in K
  <2> SUFFICES ASSUME NEW T \in SUBSET O PROVE P(T, 0)
    <3> HIDE DEF P
    <3> QED OBVIOUS
  <2> DEFINE q == [i \in 1 .. 0 |-> {}]
  <2>1. q \in [1 .. 0 -> T] /\ Ranked(s, q, 0)
    BY DEF Ranked
  <2> HIDE DEF q
  <2> QED BY <2>1
<1>3. ASSUME NEW k \in Nat, k \in K PROVE k + 1 \in K
  <2> SUFFICES ASSUME NEW T \in SUBSET O, Cardinality(T) = k + 1 PROVE P(T, k + 1)
    <3> HIDE DEF P
    <3> QED OBVIOUS
  <2>1. PICK x \in T : \A y \in T : ~Before(s, x, y)
    <3>1. T # {} /\ IsFiniteSet(T) /\ T \subseteq Order
      BY <1>1
    <3> QED BY <3>1, WorstExists
  <2>2. P(T \ {x}, k)
    <3>1. T \ {x} \in SUBSET O /\ Cardinality(T \ {x}) = k
      BY <1>1
    <3> HIDE DEF P
    <3> QED BY <1>3, <3>1
  <2>3. PICK q \in [1 .. k -> T \ {x}] : Ranked(s, q, k)
    BY <2>2
  <2> DEFINE r == [i \in 1 .. k + 1 |-> IF i = k + 1 THEN x ELSE q[i]]
  <2>4. \A i \in 1 .. k + 1 : i # k + 1 => i \in 1 .. k
    OBVIOUS
  <2>5. \A i \in 1 .. k : q[i] \in T /\ q[i] # x
    OBVIOUS
  <2>6. r \in [1 .. k + 1 -> T]
    BY <2>4, <2>5
  <2>7. ASSUME NEW i \in 1 .. k + 1, NEW j \in 1 .. k + 1, i < j
        PROVE  r[i] # r[j] /\ ~Before(s, r[j], r[i])
    <3>1. i \in 1 .. k /\ r[i] = q[i]
      BY <2>4, <2>7
    <3>2. CASE j = k + 1
      BY <2>1, <2>5, <3>1, <3>2
    <3>3. CASE j # k + 1
      <4>1. j \in 1 .. k /\ r[j] = q[j]
        BY <2>4, <3>3
      <4> HIDE DEF r
      <4> QED BY <2>3, <2>7, <3>1, <4>1 DEF Ranked
    <3> QED BY <3>2, <3>3
  <2>8. Ranked(s, r, k + 1)
    <3> HIDE DEF r
    <3> QED BY <2>7 DEF Ranked
  <2> HIDE DEF r
  <2> QED BY <2>6, <2>8
<1>4. O \in SUBSET O /\ Cardinality(O) \in Nat
  BY <1>1
<1>5. \A k \in Nat : k \in K
  <2> HIDE DEF K
  <2> QED BY <1>2, <1>3, AllNumbers
<1> QED BY <1>4, <1>5

\* RankOrder is such a sequence, with each order in one place.
LEMMA RankOrderRanks ==
    ASSUME NEW s \in Sides, NEW O, O \subseteq Order, IsFiniteSet(O),
           NEW q, q = RankOrder(s, O)
    PROVE  /\ Cardinality(O) \in Nat /\ Len(q) = Cardinality(O)
           /\ q \in [1 .. Len(q) -> O] /\ Ranked(s, q, Len(q))
           /\ \A o \in O : \E i \in 1 .. Len(q) : q[i] = o
<1> DEFINE n == Cardinality(O)
<1>1. n \in Nat
  BY FS_CardinalityType
<1> HIDE DEF n
<1>2. \A r \in [1 .. n -> O] : DOMAIN r = 1 .. n
  OBVIOUS
<1>3. RankOrder(s, O) = CHOOSE r \in [1 .. n -> O] : Ranked(s, r, n)
  <2>1. \A r \in [1 .. n -> O] :
           Ranked(s, r, n) <=> \A i, j \in DOMAIN r :
                                  i < j => r[i] # r[j] /\ ~Before(s, r[j], r[i])
    BY <1>2 DEF Ranked
  <2> QED BY <2>1 DEF RankOrder, n
<1>4. \E r \in [1 .. n -> O] : Ranked(s, r, n)
  BY RankingExists DEF n
<1>5. q \in [1 .. n -> O] /\ Ranked(s, q, n)
  BY <1>3, <1>4
<1>6. Len(q) = n
  <2>1. q \in Seq(O)
    BY <1>1, <1>5
  <2>2. DOMAIN q = 1 .. Len(q) /\ Len(q) \in Nat /\ DOMAIN q = 1 .. n
    BY <1>2, <1>5, <2>1, LenProperties
  <2>3. 1 .. Len(q) = 1 .. n
    BY <2>2
  <2> DEFINE l == Len(q)
  <2>4. l \in Nat
    BY <2>2
  <2> HIDE DEF l
  <2>5. \A i \in Int : i \in 1 .. l <=> i \in 1 .. n
    BY <2>3 DEF l
  <2>6. l # 0 => l <= n
    BY <1>1, <2>4, <2>5
  <2>7. n # 0 => n <= l
    BY <1>1, <2>4, <2>5
  <2>8. l = n
    BY <1>1, <2>4, <2>6, <2>7
  <2> QED BY <2>8 DEF l
<1>7. q \in Surjection(1 .. n, O)
  <2>1. \A i, j \in 1 .. n : q[i] = q[j] => i = j
    <3>1. \A i, j \in 1 .. n : i < j => q[i] # q[j]
      BY <1>5 DEF Ranked
    <3>2. \A i, j \in 1 .. n : i < j \/ j < i \/ i = j
      BY <1>1
    <3> QED BY <3>1, <3>2
  <2>2. q \in Injection(1 .. n, O)
    BY <1>5, <2>1 DEF Injection, IsInjective
  <2>3. Cardinality(1 .. n) = Cardinality(O)
    <3>1. Cardinality(1 .. n) = n
      BY <1>1, FS_Interval
    <3> QED BY <3>1 DEF n
  <2> QED BY <2>2, <2>3, FS_Injection
<1>8. \A o \in O : \E i \in 1 .. n : q[i] = o
  BY <1>7 DEF Surjection
<1> QED BY <1>1, <1>5, <1>6, <1>8 DEF n

------------------------------------------------------------------------------
(***************************************************************************)
(* The loop of get_l2_data.  After n orders, the levels it has pushed are  *)
(* the best there are among these n, with their sums, and better than the  *)
(* order just read, so that no later order can change them; the entry in   *)
(* hand is the level of that order, the worst so far.                      *)
(***************************************************************************)

\* Orders q of w as an iterator over side s yields them.
Listing(s, q, w) ==
    /\ s \in Sides /\ Len(q) \in Nat
    /\ \A i \in 1 .. Len(q) : /\ q[i].price \in Prices /\ q[i].quantity \in 0 .. QuantityLimit - 1
                              /\ w[q[i].id] = q[i]
    /\ \A i, j \in 1 .. Len(q) : i < j => /\ q[i].id # q[j].id
                                          /\ ~Better(s, q[j].price, q[i].price)

\* The prices that make levels, the orders at a price and what they add up to.
Seen(q, n) == {q[i].price : i \in 1 .. n} \ {p \in Prices : p <= 0}
SeenAt(q, n, p) == {q[i].id : i \in {j \in 1 .. n : q[j].price = p}}
SumAt(w, q, n, p) == TotalQuantity(w, SeenAt(q, n, p)) % QuantityLimit

Levels == [price : Int, quantity : Int]
Readings == [results : Seq(Levels), entry : Levels, overflow : BOOLEAN]

\* l is the level that i - 1 others are better than.
IsLevel(s, w, q, n, l, i) ==
    /\ l \in Levels /\ l.price \in Seen(q, n)
    /\ Cardinality({p \in Seen(q, n) : Better(s, p, l.price)}) = i - 1
    /\ l.quantity = SumAt(w, q, n, l.price)

\* The levels pushed are the best, and cannot change; the one in hand is the last.
ReadSoFar(s, w, q, n, acc) ==
    /\ acc \in Readings
    /\ Len(acc.results) <= Depth
    /\ \A i \in 1 .. Len(acc.results) : /\ IsLevel(s, w, q, n, acc.results[i], i)
                                        /\ Better(s, acc.results[i].price, q[n].price)
    /\ IF n = 0 THEN acc = NoneRead
       ELSE IF Len(acc.results) < Depth
       THEN /\ acc.entry = [price |-> q[n].price, quantity |-> SumAt(w, q, n, q[n].price)]
            /\ Len(acc.results) = Cardinality(Seen(q, n) \ {q[n].price})
       ELSE Cardinality(Seen(q, n)) >= Depth

\* A quotient and a remainder.
LEMMA Divided ==
    ASSUME NEW Q \in Nat \ {0}, NEW a \in Nat
    PROVE  a % Q \in 0 .. Q - 1 /\ a \div Q \in Int /\ a = Q * (a \div Q) + (a % Q)
OBVIOUS

\* Adding modulo the limit at every order, as u32 does, is adding and then reducing.
LEMMA SumReduced ==
    ASSUME NEW Q \in Nat \ {0}, NEW a \in Nat, NEW b \in Nat
    PROVE  ((a % Q) + b) % Q = (a + b) % Q
<1>1. PICK r \in 0 .. Q - 1, k \in Int : r = a % Q /\ a = Q * k + r
  BY Divided
<1>2. PICK t \in 0 .. Q - 1, l \in Int : t = (r + b) % Q /\ r + b = Q * l + t
  <2>1. r + b \in Nat
    OBVIOUS
  <2> DEFINE x == r + b
  <2> HIDE DEF x
  <2>2. x % Q \in 0 .. Q - 1 /\ x \div Q \in Int /\ x = Q * (x \div Q) + (x % Q)
    BY <2>1, Divided DEF x
  <2> QED BY <2>2 DEF x
<1>3. PICK z \in Int : a + b = Q * z + t
  <2>1. a + b = Q * (k + l) + t
    BY <1>1, <1>2
  <2> QED BY <2>1
<1>4. (Q * z + t) % Q = t
  OBVIOUS
<1> QED BY <1>1, <1>2, <1>3, <1>4

\* A price is better than another, worse, or the same.
LEMMA BetterOrder ==
    ASSUME NEW s \in Sides
    PROVE  /\ \A x, y \in Int : x = y \/ Better(s, x, y) \/ Better(s, y, x)
           /\ \A x \in Int : ~Better(s, x, x)
           /\ \A x, y, z \in Int : Better(s, x, y) /\ ~Better(s, z, y) => Better(s, x, z)
           /\ \A x, y, z \in Int : ~Better(s, y, x) /\ ~Better(s, z, y) => ~Better(s, z, x)
<1>1. CASE s = "Buy"
  BY <1>1 DEF Better
<1>2. CASE s # "Buy"
  BY <1>2 DEF Better
<1> QED BY <1>1, <1>2

\* The next order makes its price a level if it is positive, and is no better than
\* the orders before it.
LEMMA SeenGrows ==
    ASSUME NEW s, NEW w, NEW q, Listing(s, q, w), NEW n \in Nat, n < Len(q),
           NEW c, c = q[n + 1].price
    PROVE  /\ c \in Int /\ Seen(q, n) \subseteq Int /\ IsFiniteSet(Seen(q, n))
           /\ Seen(q, n + 1) = Seen(q, n) \cup (IF c > 0 THEN {c} ELSE {})
           /\ \A p \in Seen(q, n) : n > 0 /\ ~Better(s, q[n].price, p) /\ ~Better(s, c, p)
<1>1. ASSUME NEW i \in 1 .. n + 1 PROVE q[i].price \in Prices /\ q[i].price \in Int
  <2>1. i \in 1 .. Len(q)
    BY DEF Listing
  <2> QED BY <2>1, ValuesAssumption DEF Listing
<1>2. c \in Int /\ c \in Prices
  BY <1>1
<1>3. \A i \in 1 .. n + 1 : i = n + 1 \/ i \in 1 .. n
  OBVIOUS
<1>4. {q[i].price : i \in 1 .. n + 1} = {q[i].price : i \in 1 .. n} \cup {c}
  BY <1>3
<1>5. c \in {p \in Prices : p <= 0} <=> ~(c > 0)
  BY <1>2
<1>6. Seen(q, n + 1) = Seen(q, n) \cup (IF c > 0 THEN {c} ELSE {})
  BY <1>4, <1>5 DEF Seen
<1>7. Seen(q, n) \subseteq Int
  BY <1>1 DEF Seen
<1>8. IsFiniteSet(Seen(q, n))
  <2>1. IsFiniteSet(1 .. n)
    BY FS_Interval
  <2> DEFINE f == [i \in 1 .. n |-> q[i].price]
             T == {q[i].price : i \in 1 .. n}
  <2>2. f \in Surjection(1 .. n, T)
    BY DEF Surjection
  <2>3. IsFiniteSet(T)
    <3> HIDE DEF f, T
    <3> QED BY <2>1, <2>2, FS_Surjection
  <2> QED BY <2>3, FS_Subset DEF Seen
<1>9. ASSUME NEW p \in Seen(q, n) PROVE n > 0 /\ ~Better(s, q[n].price, p) /\ ~Better(s, c, p)
  <2>1. PICK i \in 1 .. n : p = q[i].price
    BY DEF Seen
  <2>2. i \in 1 .. Len(q) /\ n \in 1 .. Len(q) /\ n + 1 \in 1 .. Len(q) /\ s \in Sides
    BY DEF Listing
  <2>3. ~Better(s, c, p)
    BY <2>1, <2>2 DEF Listing
  <2>4. i < n => ~Better(s, q[n].price, p)
    BY <2>1, <2>2 DEF Listing
  <2>5. i = n => ~Better(s, q[n].price, p)
    BY <1>1, <2>1, <2>2, BetterOrder
  <2> QED BY <2>3, <2>4, <2>5
<1> QED BY <1>2, <1>6, <1>7, <1>8, <1>9

\* The next order adds to its price's sum alone; a price not read has none.
LEMMA SumGrows ==
    ASSUME NEW s, NEW w, NEW q, Listing(s, q, w), NEW n \in Nat, n < Len(q), NEW p
    PROVE  /\ SumAt(w, q, n, p) \in Nat
           /\ (\A i \in 1 .. n : q[i].price # p) => SumAt(w, q, n, p) = 0
           /\ SumAt(w, q, n + 1, p) = IF p = q[n + 1].price
                                      THEN (SumAt(w, q, n, p) + q[n + 1].quantity) % QuantityLimit
                                      ELSE SumAt(w, q, n, p)
<1> DEFINE S == SeenAt(q, n, p)
           R == SeenAt(q, n + 1, p)
           x == q[n + 1].id
<1>0. QuantityLimit \in Nat \ {0}
  BY MarketDataAssumption
<1>1. \A i \in 1 .. n + 1 : i \in 1 .. Len(q)
  BY DEF Listing
<1>2. \A i \in 1 .. n + 1 : w[q[i].id] = q[i] /\ q[i].quantity \in Nat
  BY <1>0, <1>1 DEF Listing
<1>3. \A i \in 1 .. n + 1 : i = n + 1 \/ i \in 1 .. n
  OBVIOUS
<1>4. \A i \in 1 .. n : q[i].id # x
  BY <1>1 DEF Listing
<1>5. /\ x \notin S
      /\ R = IF p = q[n + 1].price THEN S \cup {x} ELSE S
  BY <1>3, <1>4 DEF SeenAt
<1>6. /\ \A y \in S : w[y].quantity \in Nat
      /\ w[x].quantity = q[n + 1].quantity /\ q[n + 1].quantity \in Nat
  BY <1>2 DEF SeenAt
<1>7. IsFiniteSet(S)
  <2> DEFINE I == {j \in 1 .. n : q[j].price = p}
             f == [i \in I |-> q[i].id]
  <2>1. IsFiniteSet(I)
    <3>1. IsFiniteSet(1 .. n)
      BY FS_Interval
    <3> QED BY <3>1, FS_Subset
  <2>2. f \in Surjection(I, S)
    BY DEF Surjection, SeenAt
  <2> HIDE DEF I, f, S
  <2> QED BY <2>1, <2>2, FS_Surjection
<1> HIDE DEF S, R, x
<1>8. /\ TotalQuantity(w, S) \in Nat
      /\ S = {} => TotalQuantity(w, S) = 0
  BY <1>6, <1>7, TotalAdds
<1>9. SumAt(w, q, n, p) = TotalQuantity(w, S) % QuantityLimit
  BY DEF SumAt, S
<1>10. SumAt(w, q, n + 1, p) = TotalQuantity(w, R) % QuantityLimit
  BY DEF SumAt, R
<1>11. SumAt(w, q, n, p) \in Nat
  <2> DEFINE t == TotalQuantity(w, S)
  <2>1. t \in Nat
    BY <1>8
  <2> HIDE DEF t
  <2>2. t % QuantityLimit \in Nat
    BY <1>0, <2>1, Divided
  <2> QED BY <1>9, <2>2 DEF t
<1>12. (\A i \in 1 .. n : q[i].price # p) => SumAt(w, q, n, p) = 0
  <2>1. (\A i \in 1 .. n : q[i].price # p) => S = {}
    BY DEF S, SeenAt
  <2>2. 0 % QuantityLimit = 0
    BY <1>0
  <2> QED BY <1>8, <1>9, <2>1, <2>2
<1>13. ASSUME p = q[n + 1].price
       PROVE  SumAt(w, q, n + 1, p) = (SumAt(w, q, n, p) + q[n + 1].quantity) % QuantityLimit
  <2> DEFINE T == S \cup {x}
  <2>1. R = T /\ x \in T /\ T \ {x} = S
    BY <1>5, <1>13
  <2>2. IsFiniteSet(T) /\ \A y \in T : w[y].quantity \in Nat
    BY <1>6, <1>7, FS_AddElement
  <2> HIDE DEF T
  <2>3. TotalQuantity(w, T) = TotalQuantity(w, S) + q[n + 1].quantity
    BY <1>6, <2>1, <2>2, TotalAdds
  <2> DEFINE t == TotalQuantity(w, S)
             b == q[n + 1].quantity
  <2>4. /\ t \in Nat /\ b \in Nat
        /\ SumAt(w, q, n, p) = t % QuantityLimit
        /\ SumAt(w, q, n + 1, p) = (t + b) % QuantityLimit
    BY <1>6, <1>8, <1>9, <1>10, <2>1, <2>3
  <2> HIDE DEF t, b
  <2>5. ((t % QuantityLimit) + b) % QuantityLimit = (t + b) % QuantityLimit
    BY <1>0, <2>4, SumReduced
  <2> QED BY <2>4, <2>5 DEF b
<1>14. p # q[n + 1].price => SumAt(w, q, n + 1, p) = SumAt(w, q, n, p)
  BY <1>5, <1>9, <1>10
<1> QED BY <1>11, <1>12, <1>13, <1>14

\* What is better than the last price read is better than the next.
LEMMA NoBetterNext ==
    ASSUME NEW s, NEW w, NEW q, Listing(s, q, w), NEW n \in Nat, n < Len(q)
    PROVE  /\ s \in Sides /\ q[n + 1].price \in Int
           /\ n > 0 => /\ q[n].price \in Int /\ ~Better(s, q[n + 1].price, q[n].price)
                       /\ \A p \in Int : Better(s, p, q[n].price) => Better(s, p, q[n + 1].price)
<1> DEFINE c == q[n + 1].price
           e == q[n].price
<1>1. n + 1 \in 1 .. Len(q) /\ n < n + 1 /\ (n > 0 => n \in 1 .. Len(q)) /\ s \in Sides
  BY DEF Listing
<1>2. c \in Int /\ (n > 0 => e \in Int)
  BY <1>1, ValuesAssumption DEF Listing
<1>3. n > 0 => ~Better(s, c, e)
  BY <1>1 DEF Listing
<1> HIDE DEF c, e
<1>4. n > 0 => \A p \in Int : Better(s, p, e) => Better(s, p, c)
  BY <1>1, <1>2, <1>3, BetterOrder
<1> QED BY <1>1, <1>2, <1>3, <1>4 DEF c, e

\* A level that is better than the next price is not touched by the next order.
LEMMA LevelKept ==
    ASSUME NEW s, NEW w, NEW q, Listing(s, q, w), NEW n \in Nat, n < Len(q),
           NEW i, NEW l, IsLevel(s, w, q, n, l, i), Better(s, l.price, q[n + 1].price)
    PROVE  IsLevel(s, w, q, n + 1, l, i)
<1> DEFINE c == q[n + 1].price
           old == Seen(q, n)
<1>1. /\ c \in Int /\ old \subseteq Int /\ Seen(q, n + 1) = old \cup (IF c > 0 THEN {c} ELSE {})
  BY SeenGrows
<1>2. l \in Levels /\ l.price \in old /\ l.price \in Int
  BY <1>1 DEF IsLevel
<1>3. ~Better(s, c, l.price) /\ l.price # c
  BY <1>1, <1>2 DEF Better
<1>4. {p \in Seen(q, n + 1) : Better(s, p, l.price)} = {p \in old : Better(s, p, l.price)}
  BY <1>1, <1>3
<1>5. SumAt(w, q, n + 1, l.price) = SumAt(w, q, n, l.price)
  BY <1>3, SumGrows
<1> QED BY <1>1, <1>2, <1>4, <1>5 DEF IsLevel

\* The level in hand, if its price is positive, is the next to be pushed.
LEMMA EntryIsLevel ==
    ASSUME NEW s, NEW w, NEW q, Listing(s, q, w), NEW n \in Nat \ {0}, n <= Len(q),
           NEW l, NEW k,
           l = [price |-> q[n].price, quantity |-> SumAt(w, q, n, q[n].price)], l \in Levels,
           k = Cardinality(Seen(q, n) \ {q[n].price})
    PROVE  /\ Cardinality(Seen(q, n)) \in Nat /\ k \in Nat
           /\ l.price > 0 => /\ IsLevel(s, w, q, n, l, k + 1)
                             /\ Cardinality(Seen(q, n)) = k + 1
           /\ ~(l.price > 0) => Cardinality(Seen(q, n)) = k
<1> DEFINE e == q[n].price
           m == n - 1
           old == Seen(q, m)
<1>0. m \in Nat /\ m < Len(q) /\ m + 1 = n /\ s \in Sides
  BY DEF Listing
<1> HIDE DEF m
<1>1. /\ e \in Int /\ old \subseteq Int /\ IsFiniteSet(old)
      /\ Seen(q, n) = old \cup (IF e > 0 THEN {e} ELSE {})
      /\ \A p \in old : ~Better(s, e, p)
  <2>1. e = q[m + 1].price
    BY <1>0
  <2> HIDE DEF e
  <2>2. /\ e \in Int /\ old \subseteq Int /\ IsFiniteSet(old)
        /\ Seen(q, m + 1) = old \cup (IF e > 0 THEN {e} ELSE {})
        /\ \A p \in old : ~Better(s, e, p)
    BY <1>0, <2>1, SeenGrows
  <2> QED BY <1>0, <2>2
<1>2. \A p \in old : p # e => Better(s, p, e)
  BY <1>0, <1>1, BetterOrder
<1>3. ~Better(s, e, e)
  BY <1>0, <1>1, BetterOrder
<1>4. IsFiniteSet(Seen(q, n))
  <2>1. CASE e > 0
    <3>1. Seen(q, n) = old \cup {e}
      BY <1>1, <2>1
    <3>2. IsFiniteSet(old \cup {e})
      BY <1>1, FS_AddElement
    <3> QED BY <3>1, <3>2
  <2>2. CASE ~(e > 0)
    <3>1. Seen(q, n) = old
      BY <1>1, <2>2
    <3> QED BY <1>1, <3>1
  <2> QED BY <2>1, <2>2
<1>5. /\ Cardinality(Seen(q, n)) \in Nat
      /\ k = IF e \in Seen(q, n) THEN Cardinality(Seen(q, n)) - 1 ELSE Cardinality(Seen(q, n))
      /\ k \in Nat
  <2>1. IsFiniteSet(Seen(q, n) \ {e}) /\ k = Cardinality(Seen(q, n) \ {e})
    BY <1>4, FS_RemoveElement
  <2> QED BY <1>4, <2>1, FS_RemoveElement, FS_CardinalityType
<1>6. e \in Seen(q, n) <=> e > 0
  <2>1. n \in 1 .. n /\ n \in 1 .. Len(q)
    BY DEF Listing
  <2>2. e \in Prices
    BY <2>1 DEF Listing
  <2>3. e > 0 <=> ~(e <= 0)
    BY <1>1
  <2> QED BY <2>1, <2>2, <2>3 DEF Seen
<1>7. ASSUME e > 0 PROVE {p \in Seen(q, n) : Better(s, p, e)} = Seen(q, n) \ {e}
  BY <1>1, <1>2, <1>3
<1>8. ASSUME e > 0 PROVE IsLevel(s, w, q, n, l, k + 1)
  <2>1. l.price = e /\ l.quantity = SumAt(w, q, n, e) /\ e \in Seen(q, n)
    BY <1>6, <1>8
  <2>2. Cardinality({p \in Seen(q, n) : Better(s, p, e)}) = (k + 1) - 1
    <3>1. k = (k + 1) - 1 /\ k = Cardinality(Seen(q, n) \ {e})
      BY <1>5
    <3> HIDE DEF e
    <3> QED BY <1>7, <1>8, <3>1
  <2> HIDE DEF e
  <2> QED BY <2>1, <2>2 DEF IsLevel
<1> QED BY <1>5, <1>6, <1>8

\* The count of the levels does not fall.
LEMMA SeenCount ==
    ASSUME NEW s, NEW w, NEW q, Listing(s, q, w), NEW n \in Nat, n < Len(q)
    PROVE  /\ Cardinality(Seen(q, n)) \in Nat /\ Cardinality(Seen(q, n + 1)) \in Nat
           /\ Cardinality(Seen(q, n)) <= Cardinality(Seen(q, n + 1))
<1> DEFINE c == q[n + 1].price
           old == Seen(q, n)
           new == Seen(q, n + 1)
<1>1. /\ IsFiniteSet(old) /\ new = old \cup (IF c > 0 THEN {c} ELSE {})
  BY SeenGrows
<1> HIDE DEF old, new, c
<1>2. IsFiniteSet(old \cup {c})
  BY <1>1, FS_AddElement
<1>3. IsFiniteSet(new)
  BY <1>1, <1>2, FS_Subset
<1>4. old \in SUBSET new
  BY <1>1
<1>5. Cardinality(old) <= Cardinality(new)
  BY <1>3, <1>4, FS_Subset
<1>6. Cardinality(old) \in Nat /\ Cardinality(new) \in Nat
  BY <1>1, <1>3, FS_CardinalityType
<1> QED BY <1>5, <1>6 DEF old, new

\* The first order of a price makes a level of its own.
LEMMA NewPrice ==
    ASSUME NEW s, NEW w, NEW q, Listing(s, q, w), NEW n \in Nat, n < Len(q),
           NEW c, c = q[n + 1].price, n > 0 => c # q[n].price
    PROVE  /\ SumAt(w, q, n + 1, c) = q[n + 1].quantity
           /\ n > 0 => Better(s, q[n].price, c)
           /\ Seen(q, n + 1) \ {c} = Seen(q, n)
<1>1. /\ s \in Sides /\ c \in Int
      /\ n > 0 => q[n].price \in Int /\ ~Better(s, c, q[n].price)
  BY NoBetterNext
<1>2. n > 0 => Better(s, q[n].price, c)
  BY <1>1, BetterOrder
<1>3. ASSUME NEW i \in 1 .. n PROVE q[i].price # c
  <2>1. i \in 1 .. Len(q) /\ n \in 1 .. Len(q) /\ n > 0
    BY DEF Listing
  <2>2. i < n => ~Better(s, q[n].price, q[i].price)
    BY <2>1 DEF Listing
  <2> QED BY <1>2, <2>1, <2>2
<1>4. SumAt(w, q, n, c) = 0
  BY <1>3, SumGrows
<1>5. SumAt(w, q, n + 1, c) = (0 + q[n + 1].quantity) % QuantityLimit
  BY <1>4, SumGrows
<1>6. q[n + 1].quantity \in 0 .. QuantityLimit - 1
  <2>1. n + 1 \in 1 .. Len(q)
    BY DEF Listing
  <2> QED BY <2>1 DEF Listing
<1>7. \A x \in 0 .. QuantityLimit - 1 : (0 + x) % QuantityLimit = x
  BY MarketDataAssumption
<1>8. c \notin Seen(q, n)
  BY <1>3 DEF Seen
<1>9. Seen(q, n + 1) = Seen(q, n) \cup (IF c > 0 THEN {c} ELSE {})
  BY SeenGrows
<1> QED BY <1>2, <1>5, <1>6, <1>7, <1>8, <1>9

\* Before the first order there is no level.
LEMMA NothingSeen ==
    ASSUME NEW q
    PROVE  Seen(q, 0) = {} /\ Cardinality(Seen(q, 0)) = 0
BY FS_EmptySet DEF Seen

\* The fields that AddQuantity changes.
LEMMA AddQuantityFields ==
    ASSUME NEW acc \in Readings, NEW v, (acc.entry.quantity + v) % QuantityLimit \in Int
    PROVE  /\ AddQuantity(acc, v) \in Readings
           /\ AddQuantity(acc, v).results = acc.results
           /\ AddQuantity(acc, v).entry = [price    |-> acc.entry.price,
                                           quantity |-> (acc.entry.quantity + v) % QuantityLimit]
<1> DEFINE x == (acc.entry.quantity + v) % QuantityLimit
           o == acc.overflow \/ acc.entry.quantity + v >= QuantityLimit
           l == [price |-> acc.entry.price, quantity |-> x]
<1>1. acc = [results |-> acc.results, entry |-> acc.entry, overflow |-> acc.overflow]
  BY DEF Readings
<1>2. acc.entry = [price |-> acc.entry.price, quantity |-> acc.entry.quantity]
  BY DEF Readings, Levels
<1>3. [acc.entry EXCEPT !.quantity = x] = l
  <2> HIDE DEF x
  <2> QED BY <1>2
<1>4. AddQuantity(acc, v) = [[acc EXCEPT !.entry = [acc.entry EXCEPT !.quantity = x]]
                                EXCEPT !.overflow = o]
  BY <1>1 DEF AddQuantity
<1>5. AddQuantity(acc, v) = [results |-> acc.results, entry |-> l, overflow |-> o]
  <2> HIDE DEF x, o, l
  <2> QED BY <1>1, <1>3, <1>4
<1>6. o \in BOOLEAN
  OBVIOUS
<1>7. l \in Levels
  <2> HIDE DEF x
  <2>1. x \in Int
    BY DEF x
  <2> QED BY <2>1 DEF Levels, Readings
<1> HIDE DEF o, l
<1>8. AddQuantity(acc, v) \in Readings
  BY <1>5, <1>6, <1>7 DEF Readings
<1> QED BY <1>5, <1>8 DEF l, x

\* What there is to show of the loop's state after an order.
LEMMA ReadTo ==
    ASSUME NEW s, NEW w, NEW q, NEW n \in Nat, NEW next \in Readings,
           NEW k \in Nat, k = Len(next.results), k <= Depth, Depth \in Nat,
           \A i \in 1 .. k : /\ IsLevel(s, w, q, n + 1, next.results[i], i)
                             /\ Better(s, next.results[i].price, q[n + 1].price),
           IF k < Depth
           THEN /\ next.entry = [price    |-> q[n + 1].price,
                                 quantity |-> SumAt(w, q, n + 1, q[n + 1].price)]
                /\ k = Cardinality(Seen(q, n + 1) \ {q[n + 1].price})
           ELSE Cardinality(Seen(q, n + 1)) >= Depth
    PROVE  ReadSoFar(s, w, q, n + 1, next)
<1> DEFINE m == n + 1
<1>1. m # 0
  OBVIOUS
<1> HIDE DEF m
<1> QED BY <1>1 DEF m, ReadSoFar

\* The next order, whether it is of the level in hand, or begins one.
LEMMA ReadNext ==
    ASSUME NEW s, NEW w, NEW q, Listing(s, q, w), NEW n \in Nat, n < Len(q),
           NEW acc, ReadSoFar(s, w, q, n, acc),
           NEW next, next = ReadOrder(acc, q[n + 1])
    PROVE  ReadSoFar(s, w, q, n + 1, next)
<1> DEFINE c == q[n + 1].price
           v == q[n + 1].quantity
           k == Len(acc.results)
<1>0. /\ Depth \in Nat \ {0} /\ QuantityLimit \in Nat \ {0}
      /\ acc \in Readings
      /\ acc.results \in Seq(Levels) /\ k \in Nat /\ k <= Depth
      /\ s \in Sides /\ c \in Int
  BY MarketDataAssumption, NoBetterNext DEF ReadSoFar, Readings
<1>1. v \in Nat /\ v < QuantityLimit
  <2>1. n + 1 \in 1 .. Len(q)
    BY DEF Listing
  <2>2. q[n + 1].quantity \in 0 .. QuantityLimit - 1
    BY <2>1 DEF Listing
  <2> QED BY <1>0, <2>2
<1>2. n = 0 => acc = NoneRead /\ k = 0
  BY DEF ReadSoFar, NoneRead
<1>3. ASSUME NEW i \in 1 .. k
      PROVE  /\ IsLevel(s, w, q, n + 1, acc.results[i], i)
             /\ Better(s, acc.results[i].price, c)
  <2>1. /\ IsLevel(s, w, q, n, acc.results[i], i)
        /\ Better(s, acc.results[i].price, q[n].price)
    BY DEF ReadSoFar
  <2>2. n > 0 /\ acc.results[i].price \in Int
    BY <1>0, <1>2, <2>1 DEF IsLevel, Levels
  <2>3. Better(s, acc.results[i].price, c)
    BY <2>1, <2>2, NoBetterNext
  <2> QED BY <2>1, <2>3, LevelKept
<1>4. CASE k >= Depth
  <2>1. next = acc
    BY <1>4 DEF ReadOrder
  <2>2. n > 0 /\ Cardinality(Seen(q, n)) >= Depth
    BY <1>0, <1>2, <1>4 DEF ReadSoFar
  <2>3. Cardinality(Seen(q, n + 1)) >= Depth
    BY <1>0, <2>2, SeenCount
  <2>4. k = Len(next.results) /\ next \in Readings /\ ~(k < Depth)
    BY <1>0, <1>4, <2>1
  <2>5. \A i \in 1 .. k : /\ IsLevel(s, w, q, n + 1, next.results[i], i)
                          /\ Better(s, next.results[i].price, q[n + 1].price)
    BY <1>3, <2>1
  <2> HIDE DEF c, v, k
  <2> QED BY <1>0, <2>3, <2>4, <2>5, ReadTo
<1>5. CASE k < Depth /\ acc.entry.price = c
  <2>1. next = AddQuantity(acc, v)
    BY <1>0, <1>5 DEF ReadOrder
  <2>2. /\ acc.entry.quantity = SumAt(w, q, n, c)
        /\ k = Cardinality(Seen(q, n + 1) \ {c})
    <3>1. CASE n = 0
      <4>1. acc.entry.quantity = 0
        BY <1>2, <3>1 DEF NoneRead
      <4>2. SumAt(w, q, 0, c) = 0
        BY <3>1, SumGrows
      <4>3. Seen(q, n + 1) \ {c} = Seen(q, n)
        BY <3>1, NewPrice
      <4> QED BY <1>2, <3>1, <4>1, <4>2, <4>3, NothingSeen
    <3>2. CASE n # 0
      <4>1. /\ acc.entry = [price |-> q[n].price, quantity |-> SumAt(w, q, n, q[n].price)]
            /\ k = Cardinality(Seen(q, n) \ {q[n].price})
        BY <1>5, <3>2 DEF ReadSoFar
      <4>2. q[n].price = c
        BY <1>5, <4>1
      <4>3. Seen(q, n + 1) \ {c} = Seen(q, n) \ {c}
        BY SeenGrows
      <4> HIDE DEF c, k
      <4>4. acc.entry = [price |-> c, quantity |-> SumAt(w, q, n, c)]
        BY <4>1, <4>2
      <4>5. k = Cardinality(Seen(q, n + 1) \ {c})
        BY <4>1, <4>2, <4>3
      <4> QED BY <4>4, <4>5
    <3> QED BY <3>1, <3>2
  <2>3. SumAt(w, q, n + 1, c) = (SumAt(w, q, n, c) + v) % QuantityLimit
    BY SumGrows
  <2>4. /\ SumAt(w, q, n, c) \in Nat /\ SumAt(w, q, n + 1, c) \in Nat
    <3>1. SumAt(w, q, n, c) \in Nat
      BY SumGrows
    <3>2. SumAt(w, q, n, c) + v \in Nat
      BY <1>1, <3>1
    <3> DEFINE x == SumAt(w, q, n, c) + v
    <3>3. x \in Nat
      BY <3>2
    <3> HIDE DEF x
    <3>4. x % QuantityLimit \in Nat
      BY <1>0, <3>3, Divided
    <3> QED BY <2>3, <3>1, <3>4 DEF x
  <2>5. /\ next \in Readings /\ next.results = acc.results
        /\ next.entry = [price |-> c, quantity |-> SumAt(w, q, n + 1, c)]
    <3> HIDE DEF c, v, k
    <3>1. (acc.entry.quantity + v) % QuantityLimit = SumAt(w, q, n + 1, c)
      BY <2>2, <2>3
    <3> QED BY <1>0, <1>5, <2>1, <2>4, <3>1, AddQuantityFields
  <2> HIDE DEF c, v
  <2> QED BY <1>0, <1>3, <1>5, <2>2, <2>5, ReadTo DEF c
<1>6. CASE k < Depth /\ acc.entry.price # c
  <2>1. /\ n > 0 => c # q[n].price
    BY <1>6 DEF ReadSoFar
  <2>2. /\ SumAt(w, q, n + 1, c) = v
        /\ n > 0 => Better(s, q[n].price, c)
        /\ Seen(q, n + 1) \ {c} = Seen(q, n)
    BY <2>1, NewPrice
  <2>3. next = [acc EXCEPT !.results = Pushed(acc), !.entry = [price |-> c, quantity |-> v]]
    BY <1>0, <1>6 DEF ReadOrder
  <2>4. /\ next \in Readings /\ next.results = Pushed(acc)
        /\ next.entry = [price |-> c, quantity |-> SumAt(w, q, n + 1, c)]
    <3>1. Pushed(acc) \in Seq(Levels)
      BY <1>0, AppendProperties DEF Pushed, Readings
    <3> DEFINE l == [price |-> c, quantity |-> v]
    <3>2. l \in Levels
      BY <1>0, <1>1 DEF Levels
    <3> HIDE DEF l
    <3>3. next = [results |-> Pushed(acc), entry |-> l, overflow |-> acc.overflow]
      <4>1. acc = [results |-> acc.results, entry |-> acc.entry, overflow |-> acc.overflow]
        BY <1>0 DEF Readings
      <4>2. next = [acc EXCEPT !.results = Pushed(acc), !.entry = l]
        BY <2>3 DEF l
      <4> QED BY <4>1, <4>2
    <3>4. acc.overflow \in BOOLEAN
      BY <1>0 DEF Readings
    <3>5. next \in Readings /\ next.results = Pushed(acc) /\ next.entry = l
      BY <3>1, <3>2, <3>3, <3>4 DEF Readings
    <3> QED BY <2>2, <3>5 DEF l
  <2>5. /\ Len(Pushed(acc)) = Cardinality(Seen(q, n)) /\ Len(Pushed(acc)) <= k + 1
        /\ Len(Pushed(acc)) \in Nat
        /\ \A i \in 1 .. Len(Pushed(acc)) :
              /\ IsLevel(s, w, q, n + 1, Pushed(acc)[i], i)
              /\ Better(s, Pushed(acc)[i].price, c)
    <3>1. CASE n = 0
      <4>1. Pushed(acc) = <<>>
        BY <1>2, <3>1 DEF Pushed, NoneRead
      <4> QED BY <1>0, <3>1, <4>1, NothingSeen
    <3>2. CASE n # 0
      <4> DEFINE l == acc.entry
      <4>1. /\ l = [price |-> q[n].price, quantity |-> SumAt(w, q, n, q[n].price)]
            /\ k = Cardinality(Seen(q, n) \ {q[n].price})
            /\ l \in Levels
        BY <1>0, <1>6, <3>2 DEF ReadSoFar, Readings
      <4>2. /\ l.price > 0 => /\ IsLevel(s, w, q, n, l, k + 1)
                              /\ Cardinality(Seen(q, n)) = k + 1
            /\ ~(l.price > 0) => Cardinality(Seen(q, n)) = k
        <5>1. n \in Nat \ {0} /\ n <= Len(q)
          BY <3>2 DEF Listing
        <5> HIDE DEF l, k
        <5> QED BY <4>1, <5>1, EntryIsLevel
      <4>3. CASE ~(l.price > 0)
        <5>1. Pushed(acc) = acc.results
          BY <4>3 DEF Pushed
        <5> QED BY <1>0, <1>3, <4>2, <4>3, <5>1
      <4>4. CASE l.price > 0
        <5>1. Pushed(acc) = Append(acc.results, l)
          BY <4>4 DEF Pushed
        <5>2. /\ Len(Pushed(acc)) = k + 1 /\ Pushed(acc)[k + 1] = l
              /\ \A i \in 1 .. k : Pushed(acc)[i] = acc.results[i]
          <6> DEFINE t == acc.results
          <6>1. t \in Seq(Levels) /\ l \in Levels
            BY <1>0, <4>1
          <6> HIDE DEF t, l
          <6>2. /\ Len(Append(t, l)) = Len(t) + 1 /\ Append(t, l)[Len(t) + 1] = l
                /\ \A i \in 1 .. Len(t) : Append(t, l)[i] = t[i]
            BY <6>1, AppendProperties
          <6> QED BY <5>1, <6>2 DEF t
        <5>3. Better(s, l.price, c)
          BY <2>2, <3>2, <4>1
        <5>4. IsLevel(s, w, q, n + 1, l, k + 1)
          BY <4>2, <4>4, <5>3, LevelKept
        <5>5. \A i \in 1 .. k + 1 : i = k + 1 \/ i \in 1 .. k
          BY <1>0
        <5> HIDE DEF k, l
        <5> QED BY <1>0, <1>3, <4>2, <4>4, <5>2, <5>3, <5>4, <5>5
      <4> QED BY <4>3, <4>4
    <3> QED BY <3>1, <3>2
  <2>6. /\ Cardinality(Seen(q, n + 1)) >= Cardinality(Seen(q, n))
        /\ Cardinality(Seen(q, n + 1)) \in Nat
    BY SeenCount
  <2>7. Len(next.results) <= Depth
    BY <1>0, <1>6, <2>4, <2>5
  <2> DEFINE k2 == Len(Pushed(acc))
  <2>8. IF k2 < Depth
        THEN /\ next.entry = [price |-> c, quantity |-> SumAt(w, q, n + 1, c)]
             /\ k2 = Cardinality(Seen(q, n + 1) \ {c})
        ELSE Cardinality(Seen(q, n + 1)) >= Depth
    <3> DEFINE a == Cardinality(Seen(q, n))
               b == Cardinality(Seen(q, n + 1))
    <3> HIDE DEF c
    <3>1. Cardinality(Seen(q, n + 1) \ {c}) = a
      BY <2>2
    <3>2. k2 = a /\ k2 \in Nat /\ b >= a /\ b \in Nat
      BY <2>5, <2>6
    <3> HIDE DEF k2, a, b
    <3>3. ~(k2 < Depth) => b >= Depth
      BY <1>0, <3>2
    <3> QED BY <2>4, <3>1, <3>2, <3>3 DEF b
  <2>9. k2 \in Nat /\ k2 = Len(next.results) /\ k2 <= Depth
    BY <2>4, <2>5, <2>7
  <2> HIDE DEF c, v, k2
  <2>10. \A i \in 1 .. k2 : /\ IsLevel(s, w, q, n + 1, next.results[i], i)
                            /\ Better(s, next.results[i].price, c)
    BY <2>4, <2>5 DEF k2
  <2> QED BY <1>0, <2>4, <2>8, <2>9, <2>10, ReadTo DEF c
<1> QED BY <1>0, <1>4, <1>5, <1>6

\* The loop has done this after any number of orders.
LEMMA ReadAll ==
    ASSUME NEW s, NEW w, NEW q, Listing(s, q, w)
    PROVE  \A n \in 0 .. Len(q) : ReadSoFar(s, w, q, n, Reading(q)[n])
<1> DEFINE K == {n \in Nat : n <= Len(q) => ReadSoFar(s, w, q, n, Reading(q)[n])}
<1>0. Len(q) \in Nat
  BY DEF Listing
<1>1. 0 \in K
  <2>1. Reading(q)[0] = NoneRead
    BY <1>0, ReadingStep
  <2>2. NoneRead \in Readings /\ NoneRead.results = <<>>
    BY DEF NoneRead, Readings, Levels
  <2>3. ReadSoFar(s, w, q, 0, NoneRead)
    BY <2>2, MarketDataAssumption DEF ReadSoFar
  <2> QED BY <2>1, <2>3
<1>2. ASSUME NEW n \in Nat, n \in K PROVE n + 1 \in K
  <2> SUFFICES ASSUME n + 1 <= Len(q) PROVE ReadSoFar(s, w, q, n + 1, Reading(q)[n + 1])
    OBVIOUS
  <2>1. n < Len(q) /\ n + 1 \in 0 .. Len(q) /\ n + 1 # 0 /\ (n + 1) - 1 = n
    BY <1>0
  <2>2. ReadSoFar(s, w, q, n, Reading(q)[n])
    BY <1>0, <1>2, <2>1
  <2>3. Reading(q)[n + 1] = ReadOrder(Reading(q)[n], q[n + 1])
    BY <1>0, <2>1, ReadingStep
  <2> QED BY <2>1, <2>2, <2>3, ReadNext
<1>3. \A n \in Nat : n \in K
  <2> HIDE DEF K
  <2> QED BY <1>1, <1>2, AllNumbers
<1> QED BY <1>0, <1>3

\* What get_l2_data returns: the best of the levels, up to Depth of them.
LEMMA LevelsRead ==
    ASSUME NEW s, NEW w, NEW q, Listing(s, q, w),
           NEW n, n = Len(q), NEW count, count = Cardinality(Seen(q, n)),
           NEW levels, levels = GetL2Data(q)
    PROVE  /\ count \in Nat /\ levels \in Seq(Levels)
           /\ Len(levels) = Smaller(count, Depth)
           /\ \A i \in 1 .. Len(levels) : IsLevel(s, w, q, n, levels[i], i)
<1> DEFINE acc == ReadOrders(q)
           k   == Len(acc.results)
<1>1. n \in Nat /\ Depth \in Nat \ {0} /\ ReadSoFar(s, w, q, n, acc)
  <2>1. n \in Nat /\ n \in 0 .. Len(q)
    BY DEF Listing
  <2>2. acc = Reading(q)[n]
    BY DEF ReadOrders
  <2>3. ReadSoFar(s, w, q, n, Reading(q)[n])
    BY <2>1, ReadAll
  <2> HIDE DEF acc
  <2> QED BY <2>1, <2>2, <2>3, MarketDataAssumption
<1>2. levels = IF k >= Depth THEN acc.results ELSE Pushed(acc)
  BY DEF GetL2Data
<1> HIDE DEF acc, k
<1>3. /\ acc.results \in Seq(Levels) /\ acc.entry \in Levels
      /\ k = Len(acc.results) /\ k \in Nat /\ k <= Depth
      /\ \A i \in 1 .. k : IsLevel(s, w, q, n, acc.results[i], i)
  BY <1>1 DEF ReadSoFar, Readings, k
<1>4. CASE n = 0
  <2>1. acc = NoneRead
    BY <1>1, <1>4 DEF ReadSoFar
  <2>2. k = 0 /\ Pushed(acc) = <<>>
    BY <1>3, <2>1 DEF NoneRead, Pushed
  <2>3. count = 0
    BY <1>4, NothingSeen
  <2> QED BY <1>1, <1>2, <2>2, <2>3 DEF Smaller
<1>5. CASE n # 0 /\ k >= Depth
  <2>1. count >= Depth
    BY <1>1, <1>3, <1>5 DEF ReadSoFar
  <2>2. count \in Nat
    <3> DEFINE m == n - 1
    <3>1. m \in Nat /\ m < Len(q) /\ m + 1 = n
      BY <1>1, <1>5
    <3> HIDE DEF m
    <3> QED BY <3>1, SeenCount
  <2> QED BY <1>1, <1>2, <1>3, <1>5, <2>1, <2>2 DEF Smaller
<1>6. CASE n # 0 /\ k < Depth
  <2> DEFINE l == acc.entry
  <2>1. /\ l = [price |-> q[n].price, quantity |-> SumAt(w, q, n, q[n].price)]
        /\ k = Cardinality(Seen(q, n) \ {q[n].price})
        /\ l \in Levels
    BY <1>1, <1>3, <1>6 DEF ReadSoFar, k
  <2>2. n \in Nat \ {0} /\ n <= Len(q)
    BY <1>1, <1>6
  <2> HIDE DEF l
  <2>3. /\ count \in Nat
        /\ l.price > 0 => IsLevel(s, w, q, n, l, k + 1) /\ count = k + 1
        /\ ~(l.price > 0) => count = k
    BY <2>1, <2>2, EntryIsLevel
  <2>4. CASE ~(l.price > 0)
    <3>1. levels = acc.results
      BY <1>1, <1>2, <1>3, <1>6, <2>4 DEF Pushed, l
    <3> QED BY <1>1, <1>3, <1>6, <2>3, <2>4, <3>1 DEF Smaller
  <2>5. CASE l.price > 0
    <3> DEFINE t == acc.results
    <3>1. levels = Append(t, l)
      BY <1>1, <1>2, <1>3, <1>6, <2>5 DEF Pushed, l
    <3>2. t \in Seq(Levels) /\ k = Len(t)
      BY <1>3
    <3> HIDE DEF t
    <3>3. /\ levels \in Seq(Levels) /\ Len(levels) = k + 1 /\ levels[k + 1] = l
          /\ \A i \in 1 .. k : levels[i] = t[i]
      <4> HIDE DEF k
      <4>1. /\ Append(t, l) \in Seq(Levels)
            /\ Len(Append(t, l)) = Len(t) + 1 /\ Append(t, l)[Len(t) + 1] = l
            /\ \A i \in 1 .. Len(t) : Append(t, l)[i] = t[i]
        BY <2>1, <3>2, AppendProperties
      <4> QED BY <3>1, <3>2, <4>1
    <3>4. \A i \in 1 .. k + 1 : i = k + 1 \/ i \in 1 .. k
      BY <1>3
    <3>5. \A i \in 1 .. k + 1 : IsLevel(s, w, q, n, levels[i], i)
      <4>1. \A i \in 1 .. k : IsLevel(s, w, q, n, t[i], i)
        BY <1>3 DEF t
      <4> QED BY <2>3, <2>5, <3>3, <3>4, <4>1
    <3>6. Smaller(count, Depth) = k + 1
      BY <1>1, <1>3, <1>6, <2>3, <2>5 DEF Smaller
    <3> QED BY <2>3, <3>3, <3>5, <3>6
  <2> QED BY <2>4, <2>5
<1> QED BY <1>1, <1>3, <1>4, <1>5, <1>6

------------------------------------------------------------------------------
(***************************************************************************)
(* The level 2 message.  A message that is not stale was made of the book  *)
(* as it is; the orders of a side are such a list as the loop expects, for *)
(* what is left of an order fits its type as what was entered did.         *)
(***************************************************************************)

\* The quantities that the engine accepts fit the type they are added in.
EnteredWithin == \A id \in Ids : submitted[id] # None => submitted[id].quantity \in Quantities

\* Orders are entered by NewOrder alone.
LEMMA NextKeepsEntered ==
    ASSUME TypeOK, EnteredWithin, [Next]_vars
    PROVE  EnteredWithin'
<1>1. CASE UNCHANGED submitted
  BY <1>1 DEF EnteredWithin
<1>2. ASSUME NEW o, o.quantity \in Quantities, NewOrder(o)
      PROVE  EnteredWithin'
  BY <1>2 DEF NewOrder, EnteredWithin, TypeOK
<1>3. CASE UNCHANGED vars
  BY <1>1, <1>3 DEF vars, history_vars
<1>4. CASE Request
  BY <1>1, <1>2, <1>4 DEF Request, RejectDuplicate, CancelOrder, history_vars
<1>5. CASE Match
  BY <1>1, <1>5 DEF Match, MatchOrder, PanicInMatch, history_vars
<1>6. CASE Finish \/ PublishMd \/ PanicInMd
  BY <1>1, <1>6 DEF Finish, FinishOrder, PanicHeapFull, PublishMd, PanicInMd, history_vars
<1> QED BY <1>3, <1>4, <1>5, <1>6 DEF Next

\* What rests on a side has its id, and no more quantity than was entered.
LEMMA RestingOrders ==
    ASSUME TypeOK, OneAtATime, Conservation, EnteredWithin, NEW s \in Sides
    PROVE  /\ IsFiniteSet(OrdersOn(s)) /\ OrdersOn(s) \subseteq Order
           /\ \A id \in Resting(s) : /\ book[id] \in OrdersOn(s) /\ book[id].id = id
                                     /\ book[id].quantity \in 0 .. QuantityLimit - 1
<1>1. IsFiniteSet(Resting(s))
  BY IdsAssumption, FS_Subset DEF Resting
<1>2. IsFiniteSet(OrdersOn(s))
  <2> DEFINE f == [id \in Resting(s) |-> book[id]]
  <2>1. f \in Surjection(Resting(s), OrdersOn(s))
    BY DEF Surjection, OrdersOn
  <2> HIDE DEF f
  <2> QED BY <1>1, <2>1, FS_Surjection
<1>3. ASSUME NEW id \in Resting(s)
      PROVE  /\ book[id] \in Order /\ book[id].id = id
             /\ book[id].quantity \in 0 .. QuantityLimit - 1
  <2>1. id \in Ids /\ book[id] # None /\ book[id] \in Order /\ book[id].quantity \in Nat
    BY DEF Resting, TypeOK, Order
  <2>2. submitted[id] # None /\ submitted[id] \in Order /\ submitted[id].user \in Users
    BY <2>1 DEF OneAtATime, TypeOK, Order
  <2>3. book[id].id = id
    BY <2>1, <2>2 DEF OneAtATime, InBook, SameTerms
  <2>4. cancelled_by[id] = None /\ None \notin Users
    BY <2>1, NoneAssumption DEF OneAtATime, InBook
  <2>5. Remaining(id) = book[id].quantity
    BY <2>1 DEF Remaining, InBook
  <2>6. filled[id] + book[id].quantity = submitted[id].quantity
    BY <2>1, <2>2, <2>4, <2>5 DEF Conservation
  <2>7. submitted[id].quantity \in 0 .. QuantityLimit - 1 /\ filled[id] \in Nat
    BY <2>1, <2>2, ValuesAssumption DEF EnteredWithin, TypeOK
  <2>8. book[id].quantity <= submitted[id].quantity
    BY <2>1, <2>6, <2>7
  <2> QED BY <2>1, <2>3, <2>7, <2>8, MarketDataAssumption
<1> QED BY <1>2, <1>3 DEF OrdersOn

\* They are listed as get_l2_data expects, and each one.
LEMMA SideListing ==
    ASSUME TypeOK, OneAtATime, Conservation, EnteredWithin, NEW s \in Sides,
           NEW q, q = RankOrder(s, OrdersOn(s))
    PROVE  /\ Listing(s, q, book)
           /\ Seen(q, Len(q)) = LevelPrices(s)
           /\ \A p : SeenAt(q, Len(q), p) = RestingAt(s, p)
<1> DEFINE n == Len(q)
           O == OrdersOn(s)
<1>1. /\ IsFiniteSet(O) /\ O \subseteq Order
      /\ \A id \in Resting(s) : /\ book[id] \in O /\ book[id].id = id
                                /\ book[id].quantity \in 0 .. QuantityLimit - 1
  BY RestingOrders
<1> HIDE DEF O
<1>2. /\ n \in Nat /\ q \in [1 .. n -> O] /\ Ranked(s, q, n)
      /\ \A o \in O : \E i \in 1 .. n : q[i] = o
  <2>1. q = RankOrder(s, O)
    BY DEF O
  <2> QED BY <1>1, <2>1, RankOrderRanks
<1> HIDE DEF n
<1>3. \A o \in O : /\ o.id \in Resting(s) /\ book[o.id] = o
                   /\ o.quantity \in 0 .. QuantityLimit - 1 /\ o.price \in Prices
  BY <1>1 DEF O, OrdersOn, Order
<1>4. \A i \in 1 .. n : q[i] \in O
  BY <1>2
<1>5. ASSUME NEW i \in 1 .. n, NEW j \in 1 .. n, i < j
      PROVE  q[i].id # q[j].id /\ ~Better(s, q[j].price, q[i].price)
  <2>1. q[i] # q[j] /\ ~Before(s, q[j], q[i])
    BY <1>2, <1>5 DEF Ranked
  <2> QED BY <1>3, <1>4, <2>1 DEF Before, Better
<1>6. Listing(s, q, book)
  <2>1. \A i \in 1 .. n : /\ q[i].price \in Prices /\ q[i].quantity \in 0 .. QuantityLimit - 1
                          /\ book[q[i].id] = q[i]
    BY <1>3, <1>4
  <2> QED BY <1>2, <1>5, <2>1 DEF Listing, n
<1>7. {q[i].price : i \in 1 .. n} = {book[id].price : id \in Resting(s)}
  <2>1. \A i \in 1 .. n : \E id \in Resting(s) : q[i].price = book[id].price
    BY <1>3, <1>4
  <2>2. \A id \in Resting(s) : \E i \in 1 .. n : q[i].price = book[id].price
    BY <1>1, <1>2
  <2> QED BY <2>1, <2>2
<1>8. ASSUME NEW p PROVE SeenAt(q, n, p) = RestingAt(s, p)
  <2>1. \A i \in 1 .. n : q[i].price = p => q[i].id \in RestingAt(s, p)
    BY <1>3, <1>4 DEF RestingAt
  <2>2. \A id \in RestingAt(s, p) : \E i \in 1 .. n : q[i].price = p /\ q[i].id = id
    <3> SUFFICES ASSUME NEW id \in RestingAt(s, p)
                 PROVE  \E i \in 1 .. n : q[i].price = p /\ q[i].id = id
      OBVIOUS
    <3>1. id \in Resting(s) /\ book[id].price = p
      BY DEF RestingAt
    <3>2. PICK i \in 1 .. n : q[i] = book[id]
      BY <1>1, <1>2, <3>1
    <3> QED BY <1>1, <3>1, <3>2
  <2> QED BY <2>1, <2>2 DEF SeenAt
<1> QED BY <1>6, <1>7, <1>8 DEF Seen, LevelPrices, n

\* The message of one side is complete, with the sums that fit it.
LEMMA SideComplete ==
    ASSUME TypeOK, OneAtATime, Conservation, EnteredWithin, NEW s \in Sides,
           NEW side, side = L2Side(s, OrdersOn(s)), NEW prices, prices = LevelPrices(s)
    PROVE  /\ side.n_entry = Smaller(Cardinality(prices), Depth)
           /\ \A i \in 1 .. Smaller(Cardinality(prices), Depth - 1) :
                 LET level == side.entries[i]
                 IN  /\ level.price \in prices
                     /\ Cardinality({p \in prices : Better(s, p, level.price)}) = i - 1
                     /\ level.quantity = TotalQuantity(book, RestingAt(s, level.price))
                                           % QuantityLimit
<1> DEFINE q      == RankOrder(s, OrdersOn(s))
           n      == Len(q)
           count  == Cardinality(prices)
           levels == GetL2Data(q)
<1>1. /\ Listing(s, q, book) /\ Seen(q, n) = prices
      /\ \A p : SeenAt(q, n, p) = RestingAt(s, p)
  BY SideListing
<1>2. side = L2MdSide(levels)
  BY DEF L2Side
<1> HIDE DEF q
<1>3. /\ count \in Nat /\ levels \in Seq(Levels) /\ Len(levels) = Smaller(count, Depth)
      /\ \A i \in 1 .. Len(levels) : IsLevel(s, book, q, n, levels[i], i)
  BY <1>1, LevelsRead
<1> HIDE DEF n, levels
<1>4. Depth \in Nat \ {0}
  BY MarketDataAssumption
<1>5. side.n_entry = Smaller(count, Depth)
  BY <1>2, <1>3, <1>4 DEF L2MdSide, Smaller
<1>6. ASSUME NEW i \in 1 .. Smaller(count, Depth - 1)
      PROVE  /\ side.entries[i].price \in prices
             /\ Cardinality({p \in prices : Better(s, p, side.entries[i].price)}) = i - 1
             /\ side.entries[i].quantity
                  = TotalQuantity(book, RestingAt(s, side.entries[i].price)) % QuantityLimit
  <2>1. i \in 1 .. Depth /\ i < Depth /\ i \in 1 .. Len(levels) /\ i <= Len(levels)
    BY <1>3, <1>4 DEF Smaller
  <2>2. side.entries[i] = levels[i]
    BY <1>2, <2>1 DEF L2MdSide
  <2>3. IsLevel(s, book, q, n, levels[i], i)
    BY <1>3, <2>1
  <2> HIDE DEF count
  <2> QED BY <1>1, <2>2, <2>3 DEF IsLevel, SumAt
<1> QED BY <1>5, <1>6

\* The level 2 message last sent counts the book's levels and shows the best of
\* them, each with all that rests at its price.
THEOREM LevelsHold == Spec => []LevelsComplete
<1>1. Init => EnteredWithin
  BY DEF Init, EnteredWithin
<1>2. TypeOK /\ EnteredWithin /\ [Next]_vars => EnteredWithin'
  BY NextKeepsEntered
<1>3. ASSUME TypeOK, OneAtATime, Conservation, EnteredWithin, MdFresh
      PROVE  LevelsComplete
  <2> SUFFICES ASSUME Idle /\ ~dirty PROVE LevelsComplete
    BY DEF LevelsComplete
  <2>1. published_l2 = L2Data(OrdersOn("Buy"), OrdersOn("Sell"), last_exec)
    BY <1>3 DEF MdFresh
  <2>2. ASSUME NEW s \in Sides, NEW side,
               side = IF s = "Buy" THEN published_l2.bids ELSE published_l2.asks
        PROVE  side = L2Side(s, OrdersOn(s))
    BY <2>1, <2>2 DEF L2Data, Sides
  <2> QED BY <1>3, <2>2, SideComplete DEF LevelsComplete
<1> QED BY <1>1, <1>2, <1>3, TypeCorrect, OneAtATimeHolds, QuantityConserved,
           PublishedIsFresh, PTL DEF Spec
==============================================================================

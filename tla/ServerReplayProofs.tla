-------------------------- MODULE ServerReplayProofs --------------------------
(***************************************************************************)
(* Theorems about the replay in module Server.  If the clock moves forward *)
(* with every order, the engine's run is a function of the log: whenever   *)
(* it is started again it goes through the same states, and stops at some  *)
(* place of the same run.                                                  *)
(***************************************************************************)
EXTENDS ServerClientsProofs

------------------------------------------------------------------------------
(***************************************************************************)
(* The engine's run.                                                       *)
(***************************************************************************)

\* What the engine's next step depends on.
En == [taken |-> taken, book |-> book, next_exec |-> next_exec, taker |-> taker,
       execs |-> execs]

FirstEn == [taken |-> 0, book |-> NoneOf, next_exec |-> 0, taker |-> None, execs |-> <<>>]

\* Book!Matching and what it uses, of the engine in state s.
RestingIn(s, side) == {id \in Id : Book!SideOf(id) = side /\ s.book[id] # None}
TopIn(s, side) == {id \in RestingIn(s, side) :
                     \A other \in RestingIn(s, side) :
                        ~Book!Before(side, s.book[other], s.book[id])}
Crosses(s, m) ==
    /\ ~(s.execs # <<>> /\ s.taker.quantity = 0)
    /\ m \in TopIn(s, Book!Opposite(Book!SideOf(s.taker.id)))
    /\ Book!DoesCross(Book!SideOf(m), s.taker, s.book[m])

Over(s) == s.taker # None /\ ~\E m \in Id : Crosses(s, m)

ExecutionIn(s, m, quantity) ==
    LET buying == Book!SideOf(s.taker.id) = "Buy"
    IN  [id         |-> s.next_exec,
         buy_order  |-> IF buying THEN s.taker.id ELSE s.book[m].id,
         sell_order |-> IF buying THEN s.book[m].id ELSE s.taker.id,
         price      |-> s.book[m].price,
         quantity   |-> quantity]

\* The engine's steps, one by one: it takes an entry, it trades, it is done.
Takes(l, s) ==
    LET m == l[s.taken + 1]
    IN  IF m.type = "NewOrder"
        THEN [taken |-> s.taken + 1, book |-> s.book, next_exec |-> s.next_exec,
              taker |-> [id |-> m.id, user |-> m.user, price |-> m.price,
                         quantity |-> m.quantity, update |-> s.taken + 1],
              execs |-> <<>>]
        ELSE [taken |-> s.taken + 1,
              book |-> IF s.book[m.id] # None /\ s.book[m.id].user = m.user
                       THEN [s.book EXCEPT ![m.id] = None] ELSE s.book,
              next_exec |-> s.next_exec, taker |-> s.taker, execs |-> s.execs]

Trades(s, m) ==
    LET quantity == Book!Smaller(s.taker.quantity, s.book[m].quantity)
    IN  [taken |-> s.taken,
         book |-> [s.book EXCEPT ![m] = Book!AfterMatch(s.book[m],
                                                        s.book[m].quantity - quantity)],
         next_exec |-> s.next_exec + 1,
         taker |-> [s.taker EXCEPT !.quantity = @ - quantity],
         execs |-> Append(s.execs, ExecutionIn(s, m, quantity))]

Ends(s) ==
    [taken |-> s.taken,
     book |-> IF s.taker.quantity > 0 THEN [s.book EXCEPT ![s.taker.id] = s.taker] ELSE s.book,
     next_exec |-> s.next_exec, taker |-> None, execs |-> <<>>]

Goes(l, s) == s.taker # None \/ s.taken + 1 \in DOMAIN l

Succ(l, s) == IF s.taker = None THEN Takes(l, s)
              ELSE IF \E m \in Id : Crosses(s, m)
                   THEN Trades(s, CHOOSE m \in Id : Crosses(s, m))
              ELSE Ends(s)

\* The ids of the executions at hand are the last that were given out.
Numbered(s) ==
    /\ s.taken \in Nat /\ s.next_exec \in Nat /\ s.execs \in Seq(Book!Execution)
    /\ Len(s.execs) <= s.next_exec
    /\ s.taker = None => s.execs = <<>>
    /\ \A i \in 1 .. Len(s.execs) : s.execs[i].id = s.next_exec - Len(s.execs) + i - 1

\* s comes before t, or is t.
NotAfter(s, t) ==
    \/ s.taken < t.taken /\ s.next_exec <= t.next_exec - Len(t.execs)
    \/ /\ s.taken = t.taken /\ s.next_exec <= t.next_exec
       /\ s.taker = None => t.taker = None

\* The first K steps of the run.
IsRun(l, R, K) ==
    /\ K \in Nat
    /\ R[0] = FirstEn
    /\ \A k \in 0 .. K : Numbered(R[k])
    /\ \A k \in 0 .. K - 1 : Goes(l, R[k]) /\ R[k + 1] = Succ(l, R[k])
    /\ \A i, j \in 0 .. K : i <= j => NotAfter(R[i], R[j])

\* The trades of the log's n-th entry are those of the run.
Made(R, K, n, x) == \E k \in 0 .. K : R[k].taken = n /\ Over(R[k]) /\ R[k].execs = x

\* The engine is somewhere on the run, and has never left it.
OnTheRun ==
    \E R, K : /\ IsRun(log, R, K)
              /\ \E c \in 0 .. K : R[c] = En
              /\ \A n \in DOMAIN trades : trades[n] # None => Made(R, K, n, trades[n])

\* An order's time is its place in the log.
Stamps == \A id \in Id : submitted[id] # None => OrderAt(submitted[id].update, id)

RunInv == Stamps /\ Numbered(En) /\ OnTheRun

------------------------------------------------------------------------------
(***************************************************************************)
(* The run itself.                                                         *)
(***************************************************************************)

LEMMA SuccIsNotBefore ==
    ASSUME NEW l, NEW r, NEW s, Numbered(r), Numbered(s), NotAfter(r, s), Numbered(Succ(l, s))
    PROVE  NotAfter(r, Succ(l, s))
<1> DEFINE t == Succ(l, s)
<1>0. /\ r.taken \in Nat /\ r.next_exec \in Nat /\ s.taken \in Nat /\ s.next_exec \in Nat
      /\ Len(s.execs) \in Nat /\ Len(t.execs) \in Nat /\ s.execs \in Seq(Book!Execution)
      /\ Len(s.execs) <= s.next_exec
      /\ s.taker = None => s.execs = <<>>
  BY DEF Numbered
<1>1. CASE s.taker = None
  <2>1. t.taken = s.taken + 1 /\ t.next_exec = s.next_exec /\ (t.execs = <<>> \/ t.execs = s.execs)
    BY <1>1 DEF Succ, Takes
  <2>2. Len(t.execs) = 0
    <3>1. s.execs = <<>>
      BY <1>0, <1>1
    <3>2. t.execs = <<>>
      BY <2>1, <3>1
    <3> HIDE DEF t
    <3> QED BY <3>2
  <2>3. r.next_exec <= s.next_exec
    BY <1>0 DEF NotAfter
  <2> HIDE DEF t
  <2>4. r.taken < t.taken
    BY <1>0, <2>1 DEF NotAfter
  <2>5. r.next_exec <= t.next_exec - Len(t.execs)
    BY <1>0, <2>1, <2>2, <2>3
  <2> QED BY <2>4, <2>5 DEF NotAfter, t
<1>2. CASE s.taker # None /\ \E m \in Id : Crosses(s, m)
  <2>1. PICK m \in Id : t = Trades(s, m)
    BY <1>2 DEF Succ
  <2>2. /\ t.taken = s.taken /\ t.next_exec = s.next_exec + 1
        /\ \E e : t.execs = Append(s.execs, e)
    BY <2>1 DEF Trades
  <2>3. Len(t.execs) = Len(s.execs) + 1
    BY <1>0, <2>2
  <2> HIDE DEF t
  <2> QED BY <1>0, <1>2, <2>2, <2>3 DEF NotAfter, t
<1>3. CASE s.taker # None /\ ~\E m \in Id : Crosses(s, m)
  <2>1. t = Ends(s)
    BY <1>3 DEF Succ
  <2>2. t.taken = s.taken /\ t.next_exec = s.next_exec /\ t.execs = <<>>
    BY <2>1 DEF Ends
  <2>3. Len(t.execs) = 0
    BY <2>2
  <2> HIDE DEF t
  <2> QED BY <1>0, <1>3, <2>2, <2>3 DEF NotAfter, t
<1> QED BY <1>1, <1>2, <1>3

\* One step more.
LEMMA RunExtends ==
    ASSUME NEW l, NEW R, NEW K, IsRun(l, R, K), Goes(l, R[K]), Numbered(Succ(l, R[K]))
    PROVE  \E Q : /\ IsRun(l, Q, K + 1) /\ Q[K + 1] = Succ(l, R[K])
                  /\ \A k \in 0 .. K : Q[k] = R[k]
<1> DEFINE t == Succ(l, R[K])
           Q == [k \in 0 .. K + 1 |-> IF k = K + 1 THEN t ELSE R[k]]
<1>0. K \in Nat
  BY DEF IsRun
<1>1. Q[K + 1] = t /\ \A k \in 0 .. K : Q[k] = R[k]
  BY <1>0
<1> HIDE DEF Q, t
<1>2. Q[0] = FirstEn /\ \A k \in 0 .. K + 1 : Numbered(Q[k])
  <2>1. Numbered(t)
    BY DEF t
  <2>2. \A k \in 0 .. K + 1 : k = K + 1 \/ k \in 0 .. K
    BY <1>0
  <2>3. 0 \in 0 .. K /\ R[0] = FirstEn /\ \A k \in 0 .. K : Numbered(R[k])
    BY <1>0 DEF IsRun
  <2> QED BY <1>1, <2>1, <2>2, <2>3
<1>3. ASSUME NEW k \in 0 .. (K + 1) - 1
      PROVE  Goes(l, Q[k]) /\ Q[k + 1] = Succ(l, Q[k])
  <2>1. CASE k = K
    <3>1. K \in 0 .. K
      BY <1>0
    <3>2. Q[K] = R[K]
      BY <1>1, <3>1
    <3> QED BY <1>1, <2>1, <3>2 DEF t
  <2>2. CASE k # K
    <3>1. k \in 0 .. K - 1 /\ k \in 0 .. K /\ k + 1 \in 0 .. K
      BY <1>0, <1>3, <2>2
    <3>2. Goes(l, R[k]) /\ R[k + 1] = Succ(l, R[k])
      BY <3>1 DEF IsRun
    <3> QED BY <1>1, <3>1, <3>2
  <2> QED BY <2>1, <2>2
<1>4. ASSUME NEW i \in 0 .. K + 1, NEW j \in 0 .. K + 1, i <= j
      PROVE  NotAfter(Q[i], Q[j])
  <2>0. K \in 0 .. K /\ Numbered(R[K]) /\ Numbered(t)
    BY <1>0 DEF IsRun, t
  <2>1. CASE i \in 0 .. K /\ j \in 0 .. K
    <3>1. NotAfter(R[i], R[j])
      BY <1>4, <2>1 DEF IsRun
    <3> QED BY <1>1, <2>1, <3>1
  <2>2. CASE i \in 0 .. K /\ j = K + 1
    <3>1. NotAfter(R[i], R[K]) /\ Numbered(R[i])
      BY <1>0, <2>0, <2>2 DEF IsRun
    <3>2. NotAfter(R[i], t)
      BY <2>0, <3>1, SuccIsNotBefore DEF t
    <3> QED BY <1>1, <2>2, <3>2
  <2>3. CASE i = K + 1 /\ j = K + 1
    <3>1. NotAfter(t, t)
      BY <2>0 DEF NotAfter, Numbered
    <3> QED BY <1>1, <2>3, <3>1
  <2> QED BY <1>0, <1>4, <2>1, <2>2, <2>3
<1>5. IsRun(l, Q, K + 1)
  BY <1>0, <1>2, <1>3, <1>4 DEF IsRun
<1> QED BY <1>1, <1>5 DEF t

\* What is appended to the log does not change the run.
LEMMA RunOfMore ==
    ASSUME NEW l, NEW l2, NEW R, NEW K, IsRun(l, R, K),
           \A n \in DOMAIN l : n \in DOMAIN l2 /\ l2[n] = l[n]
    PROVE  IsRun(l2, R, K)
<1>1. ASSUME NEW s, Goes(l, s)
      PROVE  Goes(l2, s) /\ Succ(l2, s) = Succ(l, s)
  BY <1>1 DEF Goes, Succ, Takes
<1>2. \A k \in 0 .. K - 1 : Goes(l2, R[k]) /\ R[k + 1] = Succ(l2, R[k])
  BY <1>1 DEF IsRun
<1> QED BY <1>2 DEF IsRun

\* An entry's matching is over at one place of the run.
LEMMA OverOnce ==
    ASSUME NEW l, NEW R, NEW K, IsRun(l, R, K), NEW i \in 0 .. K, NEW j \in 0 .. K,
           Over(R[i]), Over(R[j]), R[i].taken = R[j].taken
    PROVE  i = j
<1>0. K \in Nat
  BY DEF IsRun
<1>1. ASSUME NEW x \in 0 .. K, NEW y \in 0 .. K, Over(R[x]), Over(R[y]),
             R[x].taken = R[y].taken, x < y
      PROVE  FALSE
  <2>1. x \in 0 .. K - 1 /\ x + 1 \in 0 .. K /\ x + 1 <= y
    BY <1>0, <1>1
  <2>2. R[x + 1] = Ends(R[x])
    BY <1>1, <2>1 DEF IsRun, Succ, Over
  <2>3. R[x + 1].taker = None /\ R[x + 1].taken = R[x].taken
    BY <2>2 DEF Ends
  <2>4. NotAfter(R[x + 1], R[y]) /\ Numbered(R[y])
    BY <1>1, <2>1 DEF IsRun
  <2>5. R[y].taker = None
    BY <1>1, <2>3, <2>4 DEF NotAfter, Numbered
  <2> QED BY <1>1, <2>5 DEF Over
<1>2. i < j \/ j < i \/ i = j
  BY <1>0
<1> QED BY <1>1, <1>2

------------------------------------------------------------------------------
(***************************************************************************)
(* The engine's steps are steps of the run.                                *)
(***************************************************************************)

LEMMA NextKeepsStamps ==
    ASSUME Steady, IInv, Stamps, [Next]_vars
    PROVE  Stamps'
<1>0. TypeOK /\ submitted \in [Id -> Book!Order \cup {None}]
  BY IdsAreSides DEF IInv, BookInv, Book!TypeOK, Book!Ids
<1>1. CASE UNCHANGED submitted
  BY <1>0, <1>1, LogGrows DEF Stamps
<1>2. CASE EngineNewOrder
  <2> DEFINE m == log[taken + 1]
  <2>1. taken + 1 \in 1 .. Routed /\ m.type = "NewOrder" /\ m.id \in Id /\ log' = log
    BY <1>2, EngineNewOrderStep DEF IInv, EngineNewOrder
  <2>2. PICK o : o.update = taken + 1 /\ submitted' = [submitted EXCEPT ![m.id] = o]
    BY <1>2, EngineNewOrderStep DEF IInv, ClockReads
  <2>3. taken + 1 \in DOMAIN log
    BY <2>1, RoutedBound, Entries DEF IInv
  <2>4. EntryOf(log', taken + 1, m.id)
    BY <2>1, <2>3 DEF EntryOf
  <2> HIDE DEF m
  <2>5. \A id \in Id : submitted'[id] = IF id = m.id THEN o ELSE submitted[id]
    BY <1>0, <2>1, <2>2
  <2>6. \A n, id : OrderAt(n, id)' <=> EntryOf(log', n, id)
    BY DEF OrderAt, EntryOf
  <2> QED BY <1>0, <2>2, <2>4, <2>5, <2>6, LogGrows DEF Stamps
<1>3. CASE EngineCancelOrder
  BY <1>1, <1>3, EngineCancelOrderStep DEF IInv
<1>4. CASE EngineMatch
  BY <1>1, <1>4, BookMatch DEF IInv, EngineMatch
<1>5. CASE EngineFinish
  BY <1>1, <1>5, EngineFinishStep DEF IInv
<1>6. CASE Die
  BY <1>6 DEF Die, Stamps, NoneOf
<1>7. CASE UNCHANGED engine_vars
  BY <1>1, <1>7 DEF engine_vars, book_vars
<1> QED BY <1>0, <1>2, <1>3, <1>4, <1>5, <1>6, <1>7, EngineSteps

\* The run's matching is the book's.
LEMMA SameCrosses ==
    ASSUME NEW m \in Id, taker # None, ~panicked
    PROVE  Crosses(En, m) <=> Book!Matching(m)
BY IdsAreSides
DEF Crosses, TopIn, RestingIn, En, Book!Matching, Book!Top, Book!Resting, Book!Ids

LEMMA SameOver ==
    ASSUME Book!MatchOver
    PROVE  Over(En)
<1>1. \A m \in Id : ~Book!Matching(m)
  BY IdsAreSides DEF Book!MatchOver, Book!Ids
<1> QED BY <1>1, SameCrosses DEF Book!MatchOver, Over, En

\* No two orders rest at one price with one time: one order is on top.
LEMMA OneOnTop ==
    ASSUME IInv, OrdersInv, Stamps, NEW m \in Id, NEW n \in Id,
           Crosses(En, m), Crosses(En, n)
    PROVE  m = n
<1> DEFINE side == Book!Opposite(Book!SideOf(taker.id))
<1>1. /\ book[m] # None /\ book[n] # None
      /\ ~Book!Before(side, book[n], book[m]) /\ ~Book!Before(side, book[m], book[n])
  BY DEF Crosses, TopIn, RestingIn, En
<1>2. /\ book \in [Id -> Book!Order \cup {None}]
      /\ book[m].price \in Int /\ book[n].price \in Int
      /\ book[m].update \in Int /\ book[n].update \in Int
  BY <1>1, IdsAreSides, ServerAssumption
  DEF IInv, BookInv, Book!TypeOK, Book!Ids, Book!Order
<1>3. /\ submitted[m] # None /\ book[m].update = submitted[m].update
      /\ submitted[n] # None /\ book[n].update = submitted[n].update
  BY <1>1, IdsAreSides
  DEF IInv, BookInv, Book!OneAtATime, Book!SameTerms, Book!InBook, Book!Ids
<1>4. book[m].update = book[n].update
  BY <1>1, <1>2 DEF Book!Before
<1>5. OrderAt(submitted[m].update, m) /\ OrderAt(submitted[m].update, n)
  BY <1>3, <1>4 DEF Stamps
<1> QED BY <1>5 DEF OrderAt

\* What the engine does next is determined by the log and by where it is.
LEMMA EngineRuns ==
    ASSUME Steady, IInv, OrdersInv, Stamps, [Next]_vars, ~Die
    PROVE  \/ En' = En
           \/ Goes(log, En) /\ En' = Succ(log, En)
<1>0. TypeOK /\ taken \in Nat /\ DOMAIN log = 1 .. Len(log)
  BY Entries DEF IInv
<1>1. CASE EngineNewOrder
  <2> DEFINE m == log[taken + 1]
             o == [id |-> m.id, user |-> m.user, price |-> m.price,
                   quantity |-> m.quantity, update |-> taken + 1]
  <2>1. /\ taken + 1 \in 1 .. Routed /\ m.type = "NewOrder" /\ taker = None
        /\ taker' = o /\ execs' = <<>> /\ taken' = taken + 1
        /\ UNCHANGED <<book, next_exec>>
    BY <1>1, EngineNewOrderStep DEF IInv, ClockReads
  <2>2. taken + 1 \in DOMAIN log
    BY <2>1, RoutedBound, Entries DEF IInv
  <2> HIDE DEF o
  <2>3. En' = [taken |-> taken + 1, book |-> book, next_exec |-> next_exec,
               taker |-> o, execs |-> <<>>]
    BY <2>1 DEF En
  <2>4. Takes(log, En) = En'
    BY <2>1, <2>3 DEF Takes, En, o
  <2> QED BY <2>1, <2>2, <2>4 DEF Goes, Succ, En
<1>2. CASE EngineCancelOrder
  <2> DEFINE m == log[taken + 1]
             b == IF book[m.id] # None /\ book[m.id].user = m.user
                  THEN [book EXCEPT ![m.id] = None] ELSE book
  <2>1. /\ taken + 1 \in 1 .. Routed /\ m.type = "CancelOrder" /\ taker = None
        /\ book' = b /\ UNCHANGED <<next_exec, taker, execs>>
    BY <1>2, EngineCancelOrderStep DEF IInv
  <2>2. taken + 1 \in DOMAIN log /\ taken' = taken + 1
    BY <1>2, <2>1, RoutedBound, Entries DEF IInv, EngineCancelOrder
  <2> HIDE DEF b
  <2>3. En' = [taken |-> taken + 1, book |-> b, next_exec |-> next_exec,
               taker |-> taker, execs |-> execs]
    BY <2>1, <2>2 DEF En
  <2>4. Takes(log, En) = En'
    BY <2>1, <2>3 DEF Takes, En, b
  <2> QED BY <2>1, <2>2, <2>4 DEF Goes, Succ, En
<1>3. CASE EngineMatch
  <2>1. taker # None /\ ~panicked /\ UNCHANGED taken
    BY <1>3, BookMatch DEF IInv, EngineMatch
  <2>2. CASE UNCHANGED <<book, next_exec, taker, execs>>
    BY <2>1, <2>2 DEF En
  <2>3. ASSUME NEW m \in Id, Book!MatchOrder(m)
        PROVE  Goes(log, En) /\ En' = Succ(log, En)
    <3>1. Crosses(En, m)
      BY <2>1, <2>3, SameCrosses DEF Book!MatchOrder
    <3>2. \A n \in Id : Crosses(En, n) => n = m
      BY <3>1, OneOnTop
    <3>3. (CHOOSE n \in Id : Crosses(En, n)) = m
      BY <3>1, <3>2
    <3>4. Succ(log, En) = Trades(En, m)
      <4>1. En.taker = taker
        BY DEF En
      <4> QED BY <2>1, <3>1, <3>3, <4>1 DEF Succ
    <3> DEFINE quantity == Book!Smaller(taker.quantity, book[m].quantity)
               b == [book EXCEPT ![m] = Book!AfterMatch(book[m], book[m].quantity - quantity)]
               e == Book!CreateExecution(taker, book[m], quantity)
               t == [taker EXCEPT !.quantity = @ - quantity]
    <3>5. /\ book' = b /\ next_exec' = next_exec + 1 /\ taker' = t
          /\ execs' = Append(execs, e)
      BY <2>3 DEF Book!MatchOrder
    <3>6. ExecutionIn(En, m, quantity) = e
      BY DEF ExecutionIn, Book!CreateExecution, En
    <3>7. Trades(En, m) = [taken |-> taken, book |-> b, next_exec |-> next_exec + 1,
                           taker |-> t, execs |-> Append(execs, ExecutionIn(En, m, quantity))]
      BY DEF Trades, En
    <3> HIDE DEF b, e, t, quantity
    <3>8. En' = Trades(En, m)
      BY <2>1, <3>5, <3>6, <3>7 DEF En
    <3> QED BY <2>1, <3>4, <3>8 DEF Goes, En
  <2> QED BY <1>3, <2>2, <2>3, BookMatch DEF IInv, EngineMatch
<1>4. CASE EngineFinish
  <2> DEFINE b == IF taker.quantity > 0 THEN [book EXCEPT ![taker.id] = taker] ELSE book
  <2>1. /\ taker # None /\ Over(En) /\ UNCHANGED <<taken, next_exec>>
        /\ \/ book' = b /\ taker' = None /\ execs' = <<>>
           \/ UNCHANGED <<book, taker, execs>>
    BY <1>4, EngineFinishStep, SameOver DEF IInv, EngineFinish
  <2>2. CASE UNCHANGED <<book, taker, execs>>
    BY <2>1, <2>2 DEF En
  <2>3. CASE book' = b /\ taker' = None /\ execs' = <<>>
    <3>1. Ends(En) = [taken |-> taken, book |-> b, next_exec |-> next_exec,
                      taker |-> None, execs |-> <<>>]
      BY DEF Ends, En
    <3> HIDE DEF b
    <3>2. En' = Ends(En)
      BY <2>1, <2>3, <3>1 DEF En
    <3>3. Succ(log, En) = Ends(En)
      BY <2>1 DEF Succ, Over
    <3> QED BY <2>1, <3>2, <3>3 DEF Goes, Over
  <2> QED BY <2>1, <2>2, <2>3
<1>5. CASE UNCHANGED engine_vars
  BY <1>5 DEF engine_vars, book_vars, En
<1> QED BY <1>0, <1>1, <1>2, <1>3, <1>4, <1>5, EngineSteps

\* An entry's trades are recorded when its matching is over.
LEMMA TradesSteps ==
    ASSUME IInv, [Next]_vars
    PROVE  \/ UNCHANGED trades
           \/ Over(En) /\ trades' = [trades EXCEPT ![taken] = execs]
<1>0. TypeOK
  BY DEF IInv
<1>1. CASE EngineFinish
  BY <1>1, EngineFinishStep, SameOver DEF IInv, EngineFinish
<1>2. CASE \/ EngineNewOrder \/ EngineCancelOrder \/ EngineSerialization \/ EngineMatch \/ Die
  BY <1>2 DEF EngineNewOrder, EngineCancelOrder, EngineSerialization, EngineMatch, Die
<1>3. CASE \/ \E user \in Users : Subscribe(user) \/ Unsubscribe(user)
           \/ \E i \in Id : Reply(i) \/ HangUp(i)
           \/ PublishExecution \/ PublishAck \/ NotifySerialization
  BY <1>3 DEF Subscribe, Unsubscribe, Reply, HangUp, PublishExecution, PublishAck,
              NotifySerialization
<1>4. CASE \/ Start \/ ReplayMessage \/ FinishReplay \/ BecomeRunning \/ LogFails
           \/ Route \/ Register \/ UNCHANGED vars \/ \E m \in Logged : Logs(m)
  BY <1>4 DEF Start, ReplayMessage, FinishReplay, BecomeRunning, LogFails, Route, Register,
              vars, Logs
<1> QED BY <1>0, <1>1, <1>2, <1>3, <1>4, Steps

LEMMA NextKeepsNumbered ==
    ASSUME IInv, IInv', Numbered(En), [Next]_vars
    PROVE  Numbered(En')
<1> DEFINE Ids(x, n) == \A i \in 1 .. Len(x) : x[i].id = n - Len(x) + i - 1
<1>0. /\ taken' \in Nat /\ next_exec' \in Nat /\ execs' \in Seq(Book!Execution)
      /\ next_exec \in Nat /\ execs \in Seq(Book!Execution) /\ Len(execs) \in Nat
      /\ TypeOK
  <2>1. taken' \in Nat
    BY DEF IInv, TypeOK
  <2>2. /\ next_exec' \in Nat /\ execs' \in Seq(Book!Execution)
        /\ next_exec \in Nat /\ execs \in Seq(Book!Execution) /\ TypeOK
    BY DEF IInv, BookInv, Book!TypeOK
  <2> QED BY <2>1, <2>2
<1>1. /\ Len(execs) <= next_exec
      /\ taker = None => execs = <<>>
      /\ Ids(execs, next_exec)
  BY DEF Numbered, En
<1>2. SUFFICES /\ Len(execs') <= next_exec'
               /\ taker' = None => execs' = <<>>
               /\ Ids(execs', next_exec')
  BY <1>0, <1>2 DEF Numbered, En
<1>3. CASE execs' = <<>>
  BY <1>0, <1>3
<1>4. CASE UNCHANGED <<next_exec, execs>> /\ (taker' = taker \/ taker' # None)
  BY <1>1, <1>4
<1>5. ASSUME NEW m \in Id, Book!MatchOrder(m), taker' # None
      PROVE  /\ Len(execs') <= next_exec'
             /\ taker' = None => execs' = <<>>
             /\ Ids(execs', next_exec')
  <2> DEFINE q == Book!Smaller(taker.quantity, book[m].quantity)
             e == Book!CreateExecution(taker, book[m], q)
  <2>1. /\ next_exec' = next_exec + 1 /\ execs' = Append(execs, e) /\ e.id = next_exec
    BY <1>5 DEF Book!MatchOrder, Book!CreateExecution
  <2> HIDE DEF e
  <2>2. /\ Len(execs') = Len(execs) + 1 /\ execs'[Len(execs) + 1] = e
        /\ \A i \in 1 .. Len(execs) : execs'[i] = execs[i]
    BY <1>0, <2>1
  <2>3. ASSUME NEW i \in 1 .. Len(execs')
        PROVE  execs'[i].id = next_exec' - Len(execs') + i - 1
    <3>1. CASE i \in 1 .. Len(execs)
      <4>1. execs'[i] = execs[i] /\ execs[i].id = next_exec - Len(execs) + i - 1
        BY <1>1, <2>2, <3>1
      <4> QED BY <1>0, <2>1, <2>2, <4>1
    <3>2. CASE i = Len(execs) + 1
      BY <1>0, <2>1, <2>2, <3>2
    <3> QED BY <1>0, <2>2, <3>1, <3>2
  <2>4. Len(execs') <= next_exec'
    BY <1>0, <1>1, <2>1, <2>2
  <2> QED BY <1>5, <2>3, <2>4
<1> HIDE DEF Ids
<1>6. CASE EngineNewOrder
  BY <1>3, <1>6, EngineNewOrderStep DEF IInv
<1>7. CASE EngineCancelOrder
  BY <1>4, <1>7, EngineCancelOrderStep DEF IInv
<1>8. CASE EngineMatch
  BY <1>4, <1>5, <1>8, BookMatch DEF IInv, EngineMatch
<1>9. CASE EngineFinish
  BY <1>3, <1>4, <1>9, EngineFinishStep DEF IInv
<1>10. CASE Die
  BY <1>3, <1>10 DEF Die
<1>11. CASE UNCHANGED engine_vars
  BY <1>4, <1>11 DEF engine_vars, book_vars
<1> QED BY <1>0, <1>6, <1>7, <1>8, <1>9, <1>10, <1>11, EngineSteps

\* The engine goes on with the run, or starts it again.
LEMMA NextKeepsOnTheRun ==
    ASSUME Steady, IInv, IInv', OrdersInv, RunInv, [Next]_vars
    PROVE  OnTheRun'
<1>0. TypeOK /\ trades \in [1 .. MaxLog -> Seq(Book!Execution) \cup {None}]
  BY DEF IInv, TypeOK
<1>1. PICK R, K : /\ IsRun(log, R, K)
                  /\ \E c \in 0 .. K : R[c] = En
                  /\ \A n \in DOMAIN trades : trades[n] # None => Made(R, K, n, trades[n])
  BY DEF RunInv, OnTheRun
<1>2. PICK c \in 0 .. K : R[c] = En
  BY <1>1
<1>3. IsRun(log', R, K)
  BY <1>0, <1>1, LogGrows, RunOfMore
<1>4. \A n \in DOMAIN trades' : trades'[n] # None => Made(R, K, n, trades'[n])
  <2>1. CASE UNCHANGED trades
    BY <1>1, <2>1
  <2>2. CASE Over(En) /\ trades' = [trades EXCEPT ![taken] = execs]
    <3>1. Made(R, K, taken, execs)
      BY <1>2, <2>2 DEF Made, En
    <3>2. \A n \in DOMAIN trades' : /\ n \in DOMAIN trades
                                    /\ trades'[n] = IF n = taken THEN execs ELSE trades[n]
      BY <1>0, <2>2
    <3> QED BY <1>1, <3>1, <3>2
  <2> QED BY <2>1, <2>2, TradesSteps
<1>5. K \in Nat /\ R[0] = FirstEn
  BY <1>1 DEF IsRun
<1>6. CASE Die
  <2>1. En' = FirstEn
    BY <1>6 DEF Die, En, FirstEn
  <2>2. 0 \in 0 .. K
    BY <1>5
  <2> QED BY <1>3, <1>4, <1>5, <2>1, <2>2 DEF OnTheRun
<1>7. CASE En' = En
  BY <1>2, <1>3, <1>4, <1>7 DEF OnTheRun
<1>8. CASE c < K /\ En' = Succ(log, En)
  <2>1. c \in 0 .. K - 1 /\ c + 1 \in 0 .. K
    BY <1>5, <1>8
  <2>2. R[c + 1] = En'
    BY <1>1, <1>2, <1>8, <2>1 DEF IsRun
  <2> QED BY <1>3, <1>4, <2>1, <2>2 DEF OnTheRun
<1>9. CASE c = K /\ Goes(log, En) /\ En' = Succ(log, En)
  <2>1. Numbered(En')
    BY NextKeepsNumbered DEF RunInv
  <2>2. PICK Q : /\ IsRun(log, Q, K + 1) /\ Q[K + 1] = En'
                 /\ \A k \in 0 .. K : Q[k] = R[k]
    BY <1>1, <1>2, <1>9, <2>1, RunExtends
  <2>3. IsRun(log', Q, K + 1)
    BY <1>0, <2>2, LogGrows, RunOfMore
  <2>4. K + 1 \in 0 .. K + 1 /\ \A k \in 0 .. K : k \in 0 .. K + 1
    BY <1>5
  <2>5. \A n \in DOMAIN trades' : trades'[n] # None => Made(Q, K + 1, n, trades'[n])
    BY <1>4, <2>2, <2>4 DEF Made
  <2> QED BY <2>2, <2>3, <2>4, <2>5 DEF OnTheRun
<1>10. c < K \/ c = K
  BY <1>5
<1> QED BY <1>6, <1>7, <1>8, <1>9, <1>10, EngineRuns DEF RunInv

LEMMA RunInit == Init => RunInv
<1> SUFFICES ASSUME Init PROVE RunInv
  OBVIOUS
<1>1. Stamps
  BY IdsAreSides DEF Init, Stamps, Book!Init, Book!Ids
<1>2. En = FirstEn
  BY IdsAreSides DEF Init, En, FirstEn, Book!Init, Book!Ids, NoneOf
<1>3. Numbered(FirstEn)
  BY DEF Numbered, FirstEn
<1>4. OnTheRun
  <2> DEFINE R == [k \in {0} |-> FirstEn]
  <2>1. NotAfter(FirstEn, FirstEn)
    BY <1>3 DEF NotAfter, Numbered
  <2>2. R[0] = FirstEn /\ 0 .. 0 = {0} /\ 0 .. 0 - 1 = {}
    OBVIOUS
  <2> HIDE DEF R
  <2>3. IsRun(log, R, 0)
    BY <1>3, <2>1, <2>2 DEF IsRun
  <2>4. \A n \in DOMAIN trades : trades[n] = None
    BY DEF Init
  <2> QED BY <1>2, <2>2, <2>3, <2>4 DEF OnTheRun
<1> QED BY <1>1, <1>2, <1>3, <1>4 DEF RunInv

\* Whenever the engine is started again it goes through the same states.
THEOREM RunInvariance == ASSUME Steady PROVE Spec => []RunInv
<1>1. IInv /\ IInv' /\ OrdersInv /\ RunInv /\ [Next]_vars => RunInv'
  BY NextKeepsStamps, NextKeepsNumbered, NextKeepsOnTheRun DEF RunInv
<1> HIDE DEF IInv, OrdersInv, RunInv
<1> QED BY <1>1, RunInit, Invariance, OrdersInvariance, PTL DEF Spec

\* The trades that are recorded again are those that were recorded before.
LEMMA RecordedAgain ==
    ASSUME IInv, RunInv, [Next]_vars
    PROVE  \A n \in DOMAIN trades : trades[n] # None => trades'[n] = trades[n]
<1> SUFFICES ASSUME NEW n \in DOMAIN trades, trades[n] # None
             PROVE  trades'[n] = trades[n]
  OBVIOUS
<1>1. CASE UNCHANGED trades
  BY <1>1
<1>2. CASE Over(En) /\ trades' = [trades EXCEPT ![taken] = execs]
  <2>1. trades \in [1 .. MaxLog -> Seq(Book!Execution) \cup {None}]
    BY DEF IInv, TypeOK
  <2>2. CASE n # taken
    BY <1>2, <2>1, <2>2
  <2>3. CASE n = taken
    <3>1. PICK R, K : /\ IsRun(log, R, K)
                      /\ \E c \in 0 .. K : R[c] = En
                      /\ Made(R, K, n, trades[n])
      BY DEF RunInv, OnTheRun
    <3>2. PICK c \in 0 .. K : R[c] = En
      BY <3>1
    <3>3. PICK k \in 0 .. K : R[k].taken = n /\ Over(R[k]) /\ R[k].execs = trades[n]
      BY <3>1 DEF Made
    <3>4. k = c
      BY <1>2, <2>3, <3>1, <3>2, <3>3, OverOnce DEF En
    <3> QED BY <1>2, <2>1, <2>3, <3>2, <3>3, <3>4 DEF En
  <2> QED BY <2>2, <2>3
<1> QED BY <1>1, <1>2, TradesSteps

\* If the clock moves forward with every order, the replay makes the same trades
\* with the same ids as the first time, whatever of the log was written between two
\* crashes and wherever they came.
THEOREM SameTradesAgain == ASSUME Steady PROVE Spec => ReplayRepeats
<1> DEFINE Repeats == \A n \in DOMAIN trades : trades[n] # None => trades'[n] = trades[n]
<1>1. IInv /\ RunInv /\ [Next]_vars => [Repeats]_vars
  BY RecordedAgain
<1> HIDE DEF IInv, RunInv, Repeats
<1>2. Spec => [][Repeats]_vars
  BY <1>1, Invariance, RunInvariance, PTL DEF Spec
<1> QED BY <1>2 DEF ReplayRepeats, Repeats

------------------------------------------------------------------------------
(***************************************************************************)
(* What clients are told is true, and stays true.                          *)
(***************************************************************************)

\* The message t is of an entry of the log l that has been matched, and of one of
\* its trades x.
Vouched(l, x, t) ==
    \E n \in DOMAIN l : /\ About(l, t, n) /\ n \in DOMAIN x /\ x[n] # None
                        /\ t.type = "Execution" => t.exec \in ToSet(x[n])

Answer(id) == [type |-> "Ack", id |-> id]

\* So are the messages on their way, the answers that sessions wait for, and what
\* clients have been told.
AllVouched ==
    /\ \A i \in DOMAIN to_main : to_main[i].type # "Serialized" => Vouched(log, trades, to_main[i])
    /\ \A id \in Id : pending[id] = "acked" => Vouched(log, trades, Answer(id))
    /\ \A i \in DOMAIN told : Vouched(log, trades, told[i])

LEMMA VouchedStays ==
    ASSUME IInv, RunInv, [Next]_vars, NEW t, Vouched(log, trades, t)
    PROVE  Vouched(log', trades', t)
<1>0. TypeOK /\ trades \in [1 .. MaxLog -> Seq(Book!Execution) \cup {None}]
  BY DEF IInv, TypeOK
<1>1. PICK n \in DOMAIN log : /\ About(log, t, n) /\ n \in DOMAIN trades /\ trades[n] # None
                              /\ t.type = "Execution" => t.exec \in ToSet(trades[n])
  BY DEF Vouched
<1>2. n \in DOMAIN log' /\ About(log', t, n)
  BY <1>0, <1>1, LogGrows, AboutGrows
<1>3. trades'[n] = trades[n]
  BY <1>1, RecordedAgain
<1>4. DOMAIN trades' = DOMAIN trades
  BY <1>0, TradesSteps
<1> QED BY <1>1, <1>2, <1>3, <1>4 DEF Vouched

\* Of the type and the contents of a message, no more matters.
LEMMA VouchedFor ==
    ASSUME NEW l, NEW x, NEW s, NEW t, Vouched(l, x, s), s.type = t.type,
           t.type = "Ack" => s.id = t.id,
           t.type # "Ack" => s.exec = t.exec
    PROVE  Vouched(l, x, t)
BY DEF Vouched, About

LEMMA NextKeepsVouched ==
    ASSUME IInv, OrdersInv, ClientsInv, RunInv, AllVouched, [Next]_vars
    PROVE  AllVouched'
<1> USE DEF IInv
<1>0. TypeOK /\ trades \in [1 .. MaxLog -> Seq(Book!Execution) \cup {None}]
  BY DEF TypeOK
<1>1. ASSUME NEW j \in DOMAIN to_main', to_main'[j].type # "Serialized"
      PROVE  Vouched(log', trades', to_main'[j])
  <2>1. ASSUME NEW i \in DOMAIN to_main, to_main'[j] = to_main[i]
        PROVE  Vouched(log', trades', to_main'[j])
    BY <1>1, <2>1, VouchedStays DEF AllVouched
  <2>2. CASE UNCHANGED to_main
    BY <2>1, <2>2
  <2>3. CASE Die
    BY <1>1, <2>3 DEF Die
  <2>4. CASE to_main # <<>> /\ to_main' = Tail(to_main)
    BY <1>0, <2>1, <2>4, MainChannelTail
  <2>5. CASE EngineSerialization
    <3>1. to_main \in Seq(SessionMessage) /\ to_main' = Append(to_main, [type |-> "Serialized"])
      BY <1>0, <2>5 DEF TypeOK, EngineSerialization
    <3>2. j \in DOMAIN to_main /\ to_main'[j] = to_main[j]
      BY <1>1, <3>1
    <3> QED BY <2>1, <3>2
  <2>6. CASE EngineFinish
    <3>1. /\ taker # None /\ trades' = [trades EXCEPT ![taken] = execs] /\ log' = log
          /\ execs \in Seq(Book!Execution)
      BY <2>6, EngineFinishStep DEF EngineFinish
    <3>2. taken \in DOMAIN log /\ taken \in 1 .. MaxLog /\ EntryOf(log, taken, taker.id)
      <4>1. EntryOf(log, taken, taker.id)
        BY <3>1, SameEntry DEF OrdersInv, OrdersOfLog
      <4>2. Len(log) <= MaxLog /\ MaxLog \in Nat
        BY <1>0, ServerAssumption DEF TypeOK
      <4>3. taken \in DOMAIN log /\ taken \in Nat /\ DOMAIN log = 1 .. Len(log) /\ Len(log) \in Nat
        BY <1>0, <4>1, Entries DEF EntryOf
      <4> QED BY <4>1, <4>2, <4>3
    <3>3. taken \in DOMAIN trades' /\ trades'[taken] = execs /\ execs # None
      BY <1>0, <3>1, <3>2, NoneAssumption
    <3>4. CASE /\ j - Len(to_main) \in DOMAIN execs
               /\ to_main'[j].type = "Execution"
               /\ to_main'[j].exec = execs[j - Len(to_main)]
      <4>1. About(log, to_main'[j], taken)
        BY <3>1, <3>4, ExecutionsAbout
      <4>2. to_main'[j].exec \in ToSet(execs)
        BY <3>4 DEF ToSet
      <4> QED BY <3>1, <3>2, <3>3, <4>1, <4>2 DEF Vouched
    <3>5. CASE to_main'[j] = [type |-> "Ack", id |-> taker.id]
      <4>1. About(log, to_main'[j], taken) /\ to_main'[j].type # "Execution"
        BY <3>2, <3>5 DEF About
      <4> QED BY <3>1, <3>2, <3>3, <4>1 DEF Vouched
    <3> QED BY <2>1, <2>6, <3>4, <3>5, FinishMessages
  <2> QED BY <1>0, <2>2, <2>3, <2>4, <2>5, <2>6, MainChannelSteps
<1>2. ASSUME NEW id \in Id, pending'[id] = "acked"
      PROVE  Vouched(log', trades', Answer(id))
  <2>1. CASE pending[id] = "acked"
    BY <2>1, VouchedStays DEF AllVouched
  <2>2. CASE PublishAck /\ to_main[1].id = id
    <3>1. 1 \in DOMAIN to_main /\ to_main[1].type = "Ack"
      <4>1. to_main # <<>> /\ Head(to_main).type = "Ack" /\ to_main' = Tail(to_main)
        BY <2>2 DEF PublishAck
      <4> QED BY <1>0, <4>1, MainChannelTail
    <3>2. Vouched(log, trades, Answer(id))
      BY <2>2, <3>1, VouchedFor DEF AllVouched, Answer
    <3> QED BY <3>2, VouchedStays
  <2> QED BY <1>0, <1>2, <2>1, <2>2, PendingSteps
<1>3. ASSUME NEW i \in DOMAIN told'
      PROVE  Vouched(log', trades', told'[i])
  <2>1. CASE i \in DOMAIN told /\ told'[i] = told[i]
    BY <2>1, VouchedStays DEF AllVouched
  <2>2. CASE /\ told'[i].type = "Ack"
             /\ \E id \in Id : pending[id] = "acked" /\ told'[i].id = id
    <3>1. Vouched(log, trades, told'[i])
      BY <2>2, VouchedFor DEF AllVouched, Answer
    <3> QED BY <3>1, VouchedStays
  <2>3. CASE /\ told'[i].type = "Execution"
             /\ 1 \in DOMAIN to_main /\ to_main[1].type = "Execution"
             /\ told'[i].exec = to_main[1].exec
    <3>1. Vouched(log, trades, told'[i])
      BY <2>3, VouchedFor DEF AllVouched
    <3> QED BY <3>1, VouchedStays
  <2> QED BY <2>1, <2>2, <2>3, ToldNext DEF ClientsInv
<1> QED BY <1>1, <1>2, <1>3 DEF AllVouched

THEOREM VouchedInvariance == ASSUME Steady PROVE Spec => [](RunInv /\ AllVouched)
<1>1. Init => AllVouched
  BY DEF Init, AllVouched
<1>2. IInv /\ OrdersInv /\ ClientsInv /\ RunInv /\ AllVouched /\ [Next]_vars => AllVouched'
  BY NextKeepsVouched
<1> HIDE DEF IInv, OrdersInv, ClientsInv, RunInv, AllVouched
<1> QED BY <1>1, <1>2, Invariance, ClientsInvariance, RunInvariance, PTL DEF Spec

\* If the clock moves forward with every order, what clients have been told is in
\* the log and stays true of the books that are rebuilt from it after a crash.
THEOREM ToldIsKept == ASSUME Steady PROVE Spec => []ToldStaysTrue
<1>1. OrdersInv /\ AllVouched => ToldStaysTrue
  <2> SUFFICES ASSUME OrdersInv, AllVouched, NEW i \in DOMAIN told
               PROVE  LET n == Incoming(told[i])
                      IN  /\ n \in DOMAIN log /\ trades[n] # None
                          /\ told[i].type = "Execution" => told[i].exec \in ToSet(trades[n])
    BY DEF ToldStaysTrue
  <2>1. PICK n \in DOMAIN log :
           /\ About(log, told[i], n) /\ trades[n] # None
           /\ told[i].type = "Execution" => told[i].exec \in ToSet(trades[n])
    BY DEF AllVouched, Vouched
  <2>2. Incoming(told[i]) = n
    BY <2>1, AboutIsIncoming DEF OrdersInv
  <2> QED BY <2>1, <2>2
<1> QED BY <1>1, OrdersInvariance, VouchedInvariance, PTL

------------------------------------------------------------------------------
(***************************************************************************)
(* Nothing is told twice.                                                  *)
(***************************************************************************)

\* The executions of the order at n are on their way, or have been told.
DoneWith(n) == n \in 1 .. taken /\ (taker # None /\ ~panicked => n # taken)

QueuedDone ==
    \A i \in DOMAIN to_main : to_main[i].type = "Execution" =>
        \E n : About(log, to_main[i], n) /\ DoneWith(n)

QueuedOnce ==
    \A i, j \in DOMAIN to_main :
        i # j /\ to_main[i].type = "Execution" /\ to_main[j].type = "Execution"
            => to_main[i].exec # to_main[j].exec

ToldDone ==
    state = "running" => \A i \in DOMAIN told : told[i].type = "Execution" =>
        \E n : About(log, told[i], n) /\ DoneWith(n)

ToldNotQueued ==
    state = "running" => \A i \in DOMAIN told, j \in DOMAIN to_main :
        told[i].type = "Execution" /\ to_main[j].type = "Execution"
            => told[i].exec # to_main[j].exec

\* A session that has its answer waits no more.
AnswersDone ==
    \A i \in DOMAIN told : told[i].type = "Ack" =>
        /\ pending[told[i].id] = "none"
        /\ handler # None /\ handler.msg.type = "NewOrder" => handler.msg.id # told[i].id

NoneTwice == \A i, j \in DOMAIN told : i # j => told[i] # told[j]

OnceInv == Numbered(En) /\ QueuedDone /\ QueuedOnce /\ ToldDone /\ ToldNotQueued
               /\ AnswersDone /\ NoneTwice

\* Messages of one execution are about one order.
LEMMA SameExecution ==
    ASSUME IdsIssuedOnce, NEW s, NEW t, s.type = "Execution", t.type = "Execution",
           s.exec = t.exec, NEW m, NEW n, About(log, s, m), About(log, t, n)
    PROVE  m = n
<1>1. About(log, s, n)
  BY DEF About
<1> QED BY <1>1, AboutOnce DEF IdsIssuedOnce

LEMMA DoneStays ==
    ASSUME IInv, [Next]_vars, ~Die, NEW n, DoneWith(n)
    PROVE  DoneWith(n)'
<1>0. taken \in Nat
  BY Entries DEF IInv
<1>1. panicked => panicked'
  <2>1. CASE EngineNewOrder
    BY <2>1, EngineNewOrderStep DEF IInv
  <2>2. CASE EngineCancelOrder
    BY <2>2, EngineCancelOrderStep DEF IInv
  <2>3. CASE EngineMatch
    BY <2>3, BookMatch DEF IInv, EngineMatch
  <2>4. CASE EngineFinish
    BY <2>4, EngineFinishStep DEF IInv
  <2>5. CASE UNCHANGED engine_vars
    BY <2>5 DEF engine_vars, book_vars
  <2> QED BY <2>1, <2>2, <2>3, <2>4, <2>5, EngineSteps DEF IInv
<1> QED BY <1>0, <1>1, Progress DEF DoneWith

\* The order in the engine's hand is not done with, and is when it is finished.
LEMMA FinishIsDone ==
    ASSUME IInv, OrdersInv, EngineFinish
    PROVE  ~DoneWith(taken) /\ DoneWith(taken)'
<1>1. /\ taker # None /\ ~panicked /\ taken' = taken
      /\ panicked' \/ taker' = None
  BY EngineFinishStep DEF IInv, EngineFinish
<1>2. taken \in 1 .. taken
  BY <1>1, Entries DEF IInv, OrdersInv, OrdersOfLog, OrderAt
<1> QED BY <1>1, <1>2 DEF DoneWith

LEMMA NextKeepsQueuedDone ==
    ASSUME IInv, OrdersInv, QueuedDone, [Next]_vars, ~Die
    PROVE  QueuedDone'
<1> SUFFICES ASSUME NEW j \in DOMAIN to_main', to_main'[j].type = "Execution"
             PROVE  \E n : About(log', to_main'[j], n) /\ DoneWith(n)'
  BY DEF QueuedDone
<1>0. TypeOK
  BY DEF IInv
<1>1. CASE Added(j)
  <2>1. About(log, to_main'[j], taken) /\ EngineFinish
    BY <1>1 DEF Added
  <2>2. UNCHANGED taken /\ DoneWith(taken)'
    BY <2>1, FinishIsDone DEF EngineFinish
  <2>3. About(log', to_main'[j], taken)
    BY <1>0, <2>1, AboutGrows
  <2> QED BY <2>2, <2>3
<1>2. ASSUME NEW i \in DOMAIN to_main, to_main'[j] = to_main[i]
      PROVE  \E n : About(log', to_main'[j], n) /\ DoneWith(n)'
  <2>1. PICK n : About(log, to_main[i], n) /\ DoneWith(n)
    BY <1>2 DEF QueuedDone
  <2> QED BY <1>0, <1>2, <2>1, AboutGrows, DoneStays
<1> QED BY <1>1, <1>2, Channel

\* The executions that an order adds have ids of their own.
LEMMA AddsEachOnce ==
    ASSUME IInv, Numbered(En), EngineFinish, NEW i \in DOMAIN to_main', NEW j \in DOMAIN to_main',
           i \notin DOMAIN to_main, j \notin DOMAIN to_main, i # j,
           to_main'[i].type = "Execution", to_main'[j].type = "Execution"
    PROVE  to_main'[i].exec # to_main'[j].exec
<1>1. /\ Len(to_main) \in Nat /\ i \in Nat /\ j \in Nat
      /\ Len(execs) \in Nat /\ DOMAIN execs = 1 .. Len(execs)
  BY FinishMessages DEF IInv
<1>2. /\ i - Len(to_main) \in DOMAIN execs /\ to_main'[i].exec = execs[i - Len(to_main)]
      /\ j - Len(to_main) \in DOMAIN execs /\ to_main'[j].exec = execs[j - Len(to_main)]
  BY FinishMessages DEF IInv
<1>3. \A k \in 1 .. Len(execs) : execs[k].id = next_exec - Len(execs) + k - 1
  BY DEF Numbered, En
<1>4. next_exec \in Nat
  BY DEF Numbered, En
<1> QED BY <1>1, <1>2, <1>3, <1>4

LEMMA NextKeepsQueuedOnce ==
    ASSUME IInv, OrdersInv, Numbered(En), QueuedDone, QueuedOnce, [Next]_vars, ~Die
    PROVE  QueuedOnce'
<1>0. IdsIssuedOnce
  BY DEF OrdersInv
<1>1. PICK d \in {0, 1} :
         \A j \in DOMAIN to_main' : /\ j \in Nat
                                    /\ \/ j + d \in DOMAIN to_main /\ to_main'[j] = to_main[j + d]
                                       \/ d = 0 /\ Added(j)
  BY Channel
<1> SUFFICES ASSUME NEW i \in DOMAIN to_main', NEW j \in DOMAIN to_main', i # j,
                    to_main'[i].type = "Execution", to_main'[j].type = "Execution"
             PROVE  to_main'[i].exec # to_main'[j].exec
  BY DEF QueuedOnce
<1>2. ASSUME NEW x \in DOMAIN to_main', NEW y \in DOMAIN to_main',
             to_main'[x].type = "Execution", to_main'[y].type = "Execution",
             x + d \in DOMAIN to_main, to_main'[x] = to_main[x + d], Added(y)
      PROVE  to_main'[x].exec # to_main'[y].exec
  <2>1. PICK n : About(log, to_main[x + d], n) /\ DoneWith(n)
    BY <1>2 DEF QueuedDone
  <2>2. About(log, to_main'[y], taken) /\ EngineFinish
    BY <1>2 DEF Added
  <2>3. n # taken
    BY <2>1, <2>2, FinishIsDone
  <2> QED BY <1>0, <1>2, <2>1, <2>2, <2>3, SameExecution
<1>3. CASE /\ i + d \in DOMAIN to_main /\ to_main'[i] = to_main[i + d]
           /\ j + d \in DOMAIN to_main /\ to_main'[j] = to_main[j + d]
  <2>1. i + d # j + d
    BY <1>1
  <2> QED BY <1>3, <2>1 DEF QueuedOnce
<1>4. CASE Added(i) /\ Added(j)
  <2>1. EngineFinish
    BY <1>4 DEF Added
  <2>2. i \notin DOMAIN to_main /\ j \notin DOMAIN to_main
    BY <1>1, <1>4 DEF Added
  <2> QED BY <2>1, <2>2, AddsEachOnce
<1> QED BY <1>1, <1>2, <1>3, <1>4

\* What has been told when the server comes up is of entries that were replayed.
LEMMA ToldBefore ==
    ASSUME IInv, OrdersInv, ClientsInv, BecomeRunning, NEW i \in DOMAIN told,
           told[i].type = "Execution"
    PROVE  \E n : About(log, told[i], n) /\ DoneWith(n) /\ n <= replayed
<1>1. PICK n : About(log, told[i], n)
  BY DEF ClientsInv, ToldSettled
<1>2. n \in DOMAIN log
  BY <1>1, AboutIsIncoming DEF OrdersInv
<1>3. replayed = Len(log) /\ PastReplay
  BY DEF BecomeRunning, ClientsInv, AllReplayed, Served
<1> QED BY <1>1, <1>2, <1>3, Entries DEF IInv, PastReplay, DoneWith

LEMMA NextKeepsToldDone ==
    ASSUME IInv, OrdersInv, ClientsInv, QueuedDone, ToldDone, [Next]_vars, ~Die
    PROVE  ToldDone'
<1> SUFFICES ASSUME state' = "running", NEW i \in DOMAIN told', told'[i].type = "Execution"
             PROVE  \E n : About(log', told'[i], n) /\ DoneWith(n)'
  BY DEF ToldDone
<1>0. TypeOK
  BY DEF IInv
<1>1. ASSUME NEW n, About(log, told'[i], n), DoneWith(n)
      PROVE  About(log', told'[i], n) /\ DoneWith(n)'
  BY <1>0, <1>1, AboutGrows, DoneStays
<1>2. CASE state # "running"
  <2>1. BecomeRunning
    BY <1>0, <1>2, RunningSteps
  <2>2. told' = told
    BY <2>1 DEF BecomeRunning
  <2>3. \E n : About(log, told'[i], n) /\ DoneWith(n)
    BY <2>1, <2>2, ToldBefore
  <2> QED BY <1>1, <2>3
<1>3. CASE state = "running" /\ i \in DOMAIN told /\ told'[i] = told[i]
  BY <1>1, <1>3 DEF ToldDone
<1>4. CASE /\ 1 \in DOMAIN to_main /\ to_main[1].type = "Execution"
           /\ \A n : About(log, told'[i], n) <=> About(log, to_main[1], n)
  BY <1>1, <1>4 DEF QueuedDone
<1> QED BY <1>2, <1>3, <1>4, ToldNext DEF ClientsInv

LEMMA NextKeepsToldNotQueued ==
    ASSUME IInv, OrdersInv, ClientsInv, QueuedOnce, ToldDone, ToldNotQueued, [Next]_vars, ~Die
    PROVE  ToldNotQueued'
<1> SUFFICES ASSUME state' = "running", NEW i \in DOMAIN told', NEW j \in DOMAIN to_main',
                    told'[i].type = "Execution", to_main'[j].type = "Execution",
                    told'[i].exec = to_main'[j].exec
             PROVE  FALSE
  BY DEF ToldNotQueued
<1>0. TypeOK /\ IdsIssuedOnce
  BY DEF IInv, OrdersInv
<1>1. CASE state # "running"
  <2>1. BecomeRunning
    BY <1>0, <1>1, RunningSteps
  <2>2. told' = told /\ to_main' = to_main /\ state = "synced"
    BY <2>1 DEF BecomeRunning
  <2>3. PICK n : About(log, told[i], n) /\ n <= replayed
    BY <2>1, <2>2, ToldBefore
  <2>4. PICK m : About(log, to_main[j], m) /\ m \in Nat
    BY <2>2 DEF ClientsInv, Messages
  <2>5. m > replayed
    BY <2>2, <2>4 DEF ClientsInv, Served, Newer
  <2>6. m = n
    BY <1>0, <2>2, <2>3, <2>4, SameExecution
  <2> QED BY <2>3, <2>4, <2>5, <2>6, Entries DEF IInv
<1>2. CASE state = "running" /\ i \in DOMAIN told /\ told'[i] = told[i]
  <2>1. ASSUME NEW k \in DOMAIN to_main, to_main'[j] = to_main[k]
        PROVE  FALSE
    BY <1>2, <2>1 DEF ToldNotQueued
  <2>2. CASE Added(j)
    <3>1. About(log, to_main'[j], taken) /\ EngineFinish
      BY <2>2 DEF Added
    <3>2. PICK n : About(log, told[i], n) /\ DoneWith(n)
      BY <1>2 DEF ToldDone
    <3>3. n = taken
      BY <1>0, <1>2, <3>1, <3>2, SameExecution
    <3> QED BY <3>1, <3>2, <3>3, FinishIsDone
  <2> QED BY <2>1, <2>2, Channel
<1>3. CASE /\ 1 \in DOMAIN to_main /\ to_main[1].type = "Execution"
           /\ told'[i].exec = to_main[1].exec
           /\ to_main # <<>> /\ to_main' = Tail(to_main)
  <2>1. j + 1 \in DOMAIN to_main /\ j > 0 /\ to_main'[j] = to_main[j + 1] /\ j \in Nat
    BY <1>0, <1>3, MainChannelTail, Channel
  <2>2. 1 # j + 1
    BY <2>1
  <2> QED BY <1>3, <2>1, <2>2 DEF QueuedOnce
<1> QED BY <1>1, <1>2, <1>3, ToldNext DEF ClientsInv

\* Once a session has its answer, or its client is gone, nothing makes it wait again
\* but the order's own handler.
LEMMA AnsweredStays ==
    ASSUME TypeOK, Phases, [Next]_vars, NEW id \in Id, pending[id] = "none",
           handler # None /\ handler.msg.type = "NewOrder" => handler.msg.id # id
    PROVE  /\ pending'[id] = "none"
           /\ \/ handler' # None /\ handler'.msg.type = "NewOrder" => handler'.msg.id # id
              \/ state = "running" /\ \E m \in Logged : Logs(m) /\ handler'.msg = m
<1>1. /\ pending \in [Id -> {"none", "waiting", "acked"}]
      /\ handler \in Handling \cup {None}
  BY DEF TypeOK
<1>2. CASE Register
  <2>1. handler # None /\ handler.msg.type = "NewOrder"
    BY <1>2 DEF Register, Phases
  <2> QED BY <1>1, <1>2, <2>1 DEF Register
<1>3. CASE Route
  <2>1. handler' # None => handler # None /\ handler' = [handler EXCEPT !.at = "routed"]
    BY <1>3 DEF Route
  <2>2. handler' # None => handler'.msg = handler.msg
    BY <1>1, <2>1 DEF Handling
  <2> QED BY <1>3, <2>1, <2>2 DEF Route
<1>4. CASE Die
  BY <1>4 DEF Die
<1>5. CASE \E i \in Id : Reply(i) \/ HangUp(i)
  BY <1>1, <1>5 DEF Reply, HangUp
<1>6. CASE PublishAck
  BY <1>1, <1>6 DEF PublishAck
<1>7. ASSUME NEW m \in Logged, Logs(m)
      PROVE  /\ pending'[id] = "none"
             /\ state = "running" /\ Logs(m) /\ handler'.msg = m
  BY <1>7 DEF Logs
<1>8. CASE \/ EngineNewOrder \/ EngineCancelOrder \/ EngineSerialization
           \/ EngineMatch \/ EngineFinish
  BY <1>8 DEF EngineNewOrder, EngineCancelOrder, EngineSerialization, EngineMatch,
              EngineFinish, main_vars
<1>9. CASE \/ Start \/ ReplayMessage \/ FinishReplay \/ BecomeRunning \/ LogFails
           \/ PublishExecution \/ NotifySerialization \/ UNCHANGED vars
           \/ \E user \in Users : Subscribe(user) \/ Unsubscribe(user)
  BY <1>9 DEF Start, ReplayMessage, FinishReplay, BecomeRunning, LogFails, PublishExecution,
              NotifySerialization, vars, main_vars, Subscribe, Unsubscribe
<1> QED BY <1>2, <1>3, <1>4, <1>5, <1>6, <1>7, <1>8, <1>9, Steps

LEMMA NextKeepsAnswersDone ==
    ASSUME IInv, OrdersInv, ClientsInv, AnswersDone, [Next]_vars
    PROVE  AnswersDone'
<1> USE DEF IInv
<1>0. TypeOK /\ told \in Seq(Told) /\ pending \in [Id -> {"none", "waiting", "acked"}]
  BY DEF TypeOK
<1> DEFINE Done(id) == /\ pending'[id] = "none"
                       /\ handler' # None /\ handler'.msg.type = "NewOrder"
                             => handler'.msg.id # id
<1>1. ASSUME NEW i \in DOMAIN told, told[i].type = "Ack"
      PROVE  Done(told[i].id)
  <2> DEFINE id == told[i].id
  <2>1. id \in Id
    <3>1. told[i] \in Told
      BY <1>0, ElementOfSeq
    <3> QED BY <1>1, <3>1 DEF Told
  <2>2. pending[id] = "none" /\ (handler # None /\ handler.msg.type = "NewOrder" => handler.msg.id # id)
    BY <1>1 DEF AnswersDone
  <2>3. ASSUME state = "running", NEW m \in Logged, Logs(m), m.type = "NewOrder"
        PROVE  m.id # id
    <3>1. PICK n : EntryOf(log, n, id)
      BY <1>1 DEF ClientsInv, ToldSettled, About
    <3>2. id.seq < next_seq /\ id.seq \in Nat /\ next_seq \in Nat
      BY <2>3, <3>1, Entries DEF OrdersInv, RouterAhead, EntryOf
    <3>3. m.id.seq = next_seq
      BY <2>3 DEF Logs
    <3> QED BY <3>2, <3>3
  <2> HIDE DEF id
  <2>4. Done(id)
    BY <1>0, <2>1, <2>2, <2>3, AnsweredStays
  <2> QED BY <2>4 DEF id
<1>2. ASSUME NEW id \in Id, Reply(id)
      PROVE  Done(id)
  BY <1>0, <1>2 DEF Reply, Ready
<1> HIDE DEF Done
<1> SUFFICES ASSUME NEW i \in DOMAIN told', told'[i].type = "Ack"
             PROVE  Done(told'[i].id)
  BY DEF AnswersDone, Done
<1>3. CASE i \in DOMAIN told /\ told'[i] = told[i]
  BY <1>1, <1>3
<1>4. CASE i \notin DOMAIN told
  <2>1. PICK id \in Id : Reply(id) /\ told'[i].id = id
    BY <1>4, ToldNext DEF ClientsInv
  <2> QED BY <1>2, <2>1
<1> QED BY <1>3, <1>4, ToldNext DEF ClientsInv

\* One of an execution's notices goes to its buyer and one to its seller.
LEMMA FeedOnce ==
    ASSUME NEW m, NEW i \in 1 .. Len(Feed(m)), NEW j \in 1 .. Len(Feed(m)), i # j
    PROVE  Feed(m)[i] # Feed(m)[j]
<1> DEFINE b == [type |-> "Execution", side |-> "Buy", exec |-> m.exec]
           s == [type |-> "Execution", side |-> "Sell", exec |-> m.exec]
<1>1. b # s
  <2>1. b.side # s.side
    OBVIOUS
  <2> QED BY <2>1
<1>2. Feed(m) = Notice(m, "Buy") \o Notice(m, "Sell")
  BY DEF Feed
<1> DEFINE x == Notice(m, "Buy")
           y == Notice(m, "Sell")
<1>3. x \in {<<b>>, <<>>} /\ y \in {<<s>>, <<>>}
  BY DEF Notice
<1> HIDE DEF b, s, x, y
<1>4. x \in Seq({b, s}) /\ Len(x) \in 0 .. 1 /\ \A k \in 1 .. Len(x) : x[k] = b
  <2>1. CASE x = <<b>>
    BY <2>1
  <2>2. CASE x = <<>>
    BY <2>2
  <2> QED BY <1>3, <2>1, <2>2
<1>5. y \in Seq({b, s}) /\ Len(y) \in 0 .. 1 /\ \A k \in 1 .. Len(y) : y[k] = s
  <2>1. CASE y = <<s>>
    BY <2>1
  <2>2. CASE y = <<>>
    BY <2>2
  <2> QED BY <1>3, <2>1, <2>2
<1>6. Feed(m) = x \o y
  BY <1>2 DEF x, y
<1> QED BY <1>1, <1>4, <1>5, <1>6, ConcatProperties

LEMMA NextKeepsNoneTwice ==
    ASSUME IInv, OrdersInv, ClientsInv, ToldNotQueued, AnswersDone, NoneTwice, [Next]_vars
    PROVE  NoneTwice'
<1>0. TypeOK /\ DOMAIN told = 1 .. Len(told) /\ Len(told) \in Nat
  BY ToldNext DEF IInv, ClientsInv
<1> DEFINE Old(i) == i \in DOMAIN told /\ told'[i] = told[i]
           Answered(i) == /\ i = Len(told) + 1 /\ told'[i].type = "Ack"
                          /\ \E id \in Id : pending[id] = "acked" /\ told'[i].id = id
           Noticed(i) == /\ i > Len(told) /\ state = "running" /\ told'[i].type = "Execution"
                         /\ 1 \in DOMAIN to_main /\ to_main[1].type = "Execution"
                         /\ told'[i].exec = to_main[1].exec
<1>1. \A i \in DOMAIN told' : Old(i) \/ Answered(i) \/ Noticed(i)
  BY ToldNext DEF ClientsInv
<1>2. ASSUME NEW i, NEW j, Old(i), Answered(j)
      PROVE  told'[i] # told'[j]
  BY <1>2 DEF AnswersDone
<1>3. ASSUME NEW i, NEW j, Old(i), Noticed(j)
      PROVE  told'[i] # told'[j]
  BY <1>3 DEF ToldNotQueued
<1>4. ASSUME NEW i \in DOMAIN told', NEW j \in DOMAIN told', Noticed(i), Noticed(j), i # j
      PROVE  told'[i] # told'[j]
  <2>1. /\ to_main # <<>> /\ Head(to_main).type = "Execution"
        /\ told' = told \o Feed(Head(to_main))
    <3>1. ~UNCHANGED told
      BY <1>0, <1>4
    <3>2. ASSUME NEW id \in Id, told' = Append(told, Answer(id))
          PROVE  FALSE
      <4>1. told'[i] = Answer(id)
        BY <1>0, <1>4, <3>2
      <4> QED BY <1>4, <4>1 DEF Answer
    <3> QED BY <1>0, <3>1, <3>2, ToldSteps DEF Answer
  <2> DEFINE m == Head(to_main)
             f == Feed(m)
  <2>2. m \in SessionMessage
    <3>1. to_main \in Seq(SessionMessage)
      BY <1>0 DEF TypeOK
    <3> QED BY <2>1, <3>1
  <2>3. f \in Seq(Told) /\ told \in Seq(Told)
    BY <1>0, <2>1, <2>2, FeedType DEF TypeOK
  <2>4. \A x, y \in 1 .. Len(f) : x # y => f[x] # f[y]
    BY FeedOnce
  <2>5. told' = told \o f
    BY <2>1
  <2> HIDE DEF f, m
  <2>6. \A x \in DOMAIN told' : x > Len(told) =>
           x \in Nat /\ x - Len(told) \in 1 .. Len(f) /\ told'[x] = f[x - Len(told)]
    BY <1>0, <2>3, <2>5, ConcatProperties
  <2>7. i - Len(told) # j - Len(told)
    BY <1>0, <1>4, <2>6
  <2> QED BY <1>4, <2>4, <2>6, <2>7
<1>5. ASSUME NEW i, NEW j, Answered(i), Noticed(j)
      PROVE  told'[i] # told'[j]
  BY <1>5
<1>6. ASSUME NEW i, NEW j, Old(i), Old(j), i # j
      PROVE  told'[i] # told'[j]
  BY <1>6 DEF NoneTwice
<1>7. ASSUME NEW i, NEW j, Answered(i), Answered(j)
      PROVE  i = j
  BY <1>7
<1> HIDE DEF Old, Answered, Noticed
<1> QED BY <1>1, <1>2, <1>3, <1>4, <1>5, <1>6, <1>7 DEF NoneTwice

LEMMA DieKeepsOnce ==
    ASSUME IInv, OrdersInv, ClientsInv, OnceInv, [Next]_vars, Die
    PROVE  QueuedDone' /\ QueuedOnce' /\ ToldDone' /\ ToldNotQueued'
BY DEF Die, QueuedDone, QueuedOnce, ToldDone, ToldNotQueued

\* However often the server is restarted, and whether or not the clock moves forward.
THEOREM OnceInvariance == Spec => []OnceInv
<1>1. Init => OnceInv
  <2>1. Init => Numbered(En)
    BY RunInit DEF RunInv
  <2> QED BY <2>1 DEF Init, OnceInv, QueuedDone, QueuedOnce, ToldDone, ToldNotQueued,
                      AnswersDone, NoneTwice
<1>2. IInv /\ IInv' /\ OrdersInv /\ ClientsInv /\ OnceInv /\ [Next]_vars => OnceInv'
  <2> SUFFICES ASSUME IInv, IInv', OrdersInv, ClientsInv, OnceInv, [Next]_vars
               PROVE  OnceInv'
    OBVIOUS
  <2>1. Numbered(En)' /\ AnswersDone' /\ NoneTwice'
    BY NextKeepsNumbered, NextKeepsAnswersDone, NextKeepsNoneTwice DEF OnceInv
  <2>2. CASE ~Die
    BY <2>1, <2>2, NextKeepsQueuedDone, NextKeepsQueuedOnce, NextKeepsToldDone,
       NextKeepsToldNotQueued DEF OnceInv
  <2>3. CASE Die
    BY <2>1, <2>3, DieKeepsOnce DEF OnceInv
  <2> QED BY <2>2, <2>3
<1> HIDE DEF IInv, OrdersInv, ClientsInv, OnceInv
<1> QED BY <1>1, <1>2, Invariance, ClientsInvariance, PTL DEF Spec

\* Nothing is told twice, whatever the clock reads.
THEOREM NothingTwice == Spec => []NoneTwice
<1>1. OnceInv => NoneTwice
  BY DEF OnceInv
<1> QED BY <1>1, OnceInvariance, PTL

\* No two of the trades that are recorded have the same id.
LEMMA OneOfEachId ==
    ASSUME RunInv, NEW m \in DOMAIN trades, NEW n \in DOMAIN trades,
           trades[m] # None, trades[n] # None,
           NEW e \in ToSet(trades[m]), NEW f \in ToSet(trades[n]), e.id = f.id
    PROVE  e = f
<1>1. PICK R, K : /\ IsRun(log, R, K)
                  /\ Made(R, K, m, trades[m]) /\ Made(R, K, n, trades[n])
  BY DEF RunInv, OnTheRun
<1>2. PICK j \in 0 .. K : R[j].taken = m /\ R[j].execs = trades[m]
  BY <1>1 DEF Made
<1>3. PICK k \in 0 .. K : R[k].taken = n /\ R[k].execs = trades[n]
  BY <1>1 DEF Made
<1>4. Numbered(R[j]) /\ Numbered(R[k])
  BY <1>1 DEF IsRun
<1>5. ASSUME NEW i \in 0 .. K, NEW x \in ToSet(R[i].execs)
      PROVE  /\ R[i].next_exec - Len(R[i].execs) <= x.id /\ x.id < R[i].next_exec
             /\ x.id \in Int
             /\ \E a \in 1 .. Len(R[i].execs) :
                   /\ x = R[i].execs[a]
                   /\ x.id = R[i].next_exec - Len(R[i].execs) + a - 1
  <2>1. Numbered(R[i])
    BY <1>1 DEF IsRun
  <2>2. /\ R[i].execs \in Seq(Book!Execution) /\ Len(R[i].execs) \in Nat
        /\ DOMAIN R[i].execs = 1 .. Len(R[i].execs) /\ R[i].next_exec \in Nat
    BY <2>1 DEF Numbered
  <2>3. PICK a \in 1 .. Len(R[i].execs) : x = R[i].execs[a]
    BY <2>2 DEF ToSet
  <2>4. x.id = R[i].next_exec - Len(R[i].execs) + a - 1
    BY <2>1, <2>3 DEF Numbered
  <2> QED BY <2>2, <2>3, <2>4
<1>6. ASSUME NEW i \in 0 .. K, NEW h \in 0 .. K, i <= h, R[i].taken # R[h].taken,
             NEW x \in ToSet(R[i].execs), NEW y \in ToSet(R[h].execs), x.id = y.id
      PROVE  FALSE
  <2>1. NotAfter(R[i], R[h]) /\ Numbered(R[i]) /\ Numbered(R[h])
    BY <1>1, <1>6 DEF IsRun
  <2>2. R[i].next_exec <= R[h].next_exec - Len(R[h].execs)
    BY <1>6, <2>1 DEF NotAfter
  <2>3. x.id < R[i].next_exec /\ R[h].next_exec - Len(R[h].execs) <= x.id
    BY <1>5, <1>6
  <2>4. /\ R[i].next_exec \in Nat /\ R[h].next_exec - Len(R[h].execs) \in Int /\ x.id \in Int
    <3>1. x.id \in Int
      BY <1>5
    <3>2. R[i].next_exec \in Nat /\ R[h].next_exec \in Nat /\ R[h].execs \in Seq(Book!Execution)
      BY <2>1 DEF Numbered
    <3> QED BY <3>1, <3>2
  <2> QED BY <2>2, <2>3, <2>4
<1>7. CASE m = n
  <2>1. e \in ToSet(R[j].execs) /\ f \in ToSet(R[j].execs) /\ Len(R[j].execs) \in Nat
        /\ R[j].next_exec \in Nat
    BY <1>2, <1>4, <1>7 DEF Numbered
  <2>2. PICK a \in 1 .. Len(R[j].execs) :
           e = R[j].execs[a] /\ e.id = R[j].next_exec - Len(R[j].execs) + a - 1
    BY <1>5, <2>1
  <2>3. PICK b \in 1 .. Len(R[j].execs) :
           f = R[j].execs[b] /\ f.id = R[j].next_exec - Len(R[j].execs) + b - 1
    BY <1>5, <2>1
  <2>4. a = b
    BY <2>1, <2>2, <2>3
  <2> QED BY <2>2, <2>3, <2>4
<1>8. CASE m # n
  <2>1. j <= k \/ k <= j
    BY <1>1 DEF IsRun
  <2> QED BY <1>2, <1>3, <1>6, <1>8, <2>1
<1> QED BY <1>7, <1>8

\* No client is told anything twice, over all restarts, and no two executions that
\* clients learn of have the same id.
THEOREM ToldOnlyOnce == ASSUME Steady PROVE Spec => []ToldOnce
<1>1. RunInv /\ AllVouched /\ OnceInv => ToldOnce
  <2> SUFFICES ASSUME RunInv, AllVouched, OnceInv,
                      NEW i \in DOMAIN told, NEW j \in DOMAIN told, i # j
               PROVE  /\ told[i] # told[j]
                      /\ told[i].type = "Execution" /\ told[j].type = "Execution"
                            /\ told[i].exec.id = told[j].exec.id => told[i].exec = told[j].exec
    BY DEF ToldOnce
  <2>1. told[i] # told[j]
    BY DEF OnceInv, NoneTwice
  <2>2. ASSUME told[i].type = "Execution", told[j].type = "Execution",
               told[i].exec.id = told[j].exec.id
        PROVE  told[i].exec = told[j].exec
    <3>1. PICK m \in DOMAIN trades : trades[m] # None /\ told[i].exec \in ToSet(trades[m])
      BY <2>2 DEF AllVouched, Vouched
    <3>2. PICK n \in DOMAIN trades : trades[n] # None /\ told[j].exec \in ToSet(trades[n])
      BY <2>2 DEF AllVouched, Vouched
    <3> QED BY <2>2, <3>1, <3>2, OneOfEachId
  <2> QED BY <2>1, <2>2
<1> HIDE DEF RunInv, AllVouched, OnceInv
<1> QED BY <1>1, VouchedInvariance, OnceInvariance, PTL
===============================================================================

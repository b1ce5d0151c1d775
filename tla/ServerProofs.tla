----------------------------- MODULE ServerProofs -----------------------------
(***************************************************************************)
(* Theorems about module Server, for every value of its constants.         *)
(***************************************************************************)
EXTENDS Server, SequenceTheorems, FiniteSetTheorems, TLAPS

------------------------------------------------------------------------------
(***************************************************************************)
(* The engine's book: it meets what module OrderBook assumes, so that what *)
(* is proved there holds of it, and what each of the engine's steps does   *)
(* to it.                                                                  *)
(***************************************************************************)

\* What is proved of the book alone holds of the server's book.
BookThms == INSTANCE OrderBookProofs WITH MaxSeq <- MaxOrders, Depth <- 1

------------------------------------------------------------------------------
(***************************************************************************)
(* The server's book satisfies the assumptions that OrderBook makes.       *)
(***************************************************************************)

LEMMA IdsAreSides == BuyIds \cup SellIds = Id /\ BuyIds \cap SellIds = {}
BY DEF Id, BuyIds, SellIds, Sides

LEMMA IdsAreFinite == IsFiniteSet(BuyIds \cup SellIds)
<1> DEFINE T == 0 .. 2 * MaxOrders - 1
           f == [id \in Id |-> IF id.side = "Buy" THEN id.seq ELSE MaxOrders + id.seq]
<1>1. IsFiniteSet(T)
  BY ServerAssumption, FS_Interval
<1>2. f \in [Id -> T]
  BY ServerAssumption DEF Id, Sides
<1>3. \A x, y \in Id : f[x] = f[y] => x = y
  BY ServerAssumption DEF Id, Sides
<1>4. f \in Injection(Id, T)
  BY <1>2, <1>3 DEF Injection, IsInjective
<1> QED BY <1>1, <1>4, FS_Injection, IdsAreSides

LEMMA BookAssumptions ==
    /\ BuyIds \cap SellIds = {} /\ BookThms!IsFiniteSet(BookThms!Ids)
    /\ Prices \subseteq Int /\ Quantities \subseteq 0 .. QuantityLimit - 1
    /\ Times \subseteq Int /\ MaxOrders \in Nat /\ Capacity \in Nat
    /\ None \notin BookThms!Order \cup BookThms!Execution \cup BookThms!MdEntry \cup Users
    /\ 1 \in Nat \ {0} /\ QuantityLimit \in Nat \ {0}
<1>1. BookThms!IsFiniteSet(BookThms!Ids)
  BY IdsAreFinite DEF BookThms!Ids, BookThms!IsFiniteSet, IsFiniteSet
<1>2. None \notin BookThms!Order \cup BookThms!Execution \cup BookThms!MdEntry \cup Users
  BY NoneAssumption
  DEF Book!Order, Book!Execution, Book!MdEntry, Book!Ids,
      BookThms!Order, BookThms!Execution, BookThms!MdEntry, BookThms!Ids
<1> QED
  BY <1>1, <1>2, IdsAreSides, ServerAssumption

------------------------------------------------------------------------------
(***************************************************************************)
(* The book's steps in the server are steps of module OrderBook, and keep  *)
(* what is proved there to be invariant.                                   *)
(***************************************************************************)

BookInv == Book!TypeOK /\ Book!OneAtATime /\ BookThms!BetweenKnownOrders

LEMMA SameInvariants ==
    /\ Book!TypeOK <=> BookThms!TypeOK
    /\ Book!OneAtATime <=> BookThms!OneAtATime
    /\ Book!TypeOK' <=> BookThms!TypeOK'
    /\ Book!OneAtATime' <=> BookThms!OneAtATime'
<1>1. (Book!TypeOK <=> BookThms!TypeOK) /\ (Book!TypeOK' <=> BookThms!TypeOK')
  BY DEF Book!TypeOK, Book!Order, Book!Execution, Book!MdEntry, Book!L1Md, Book!Ids,
         BookThms!TypeOK, BookThms!Order, BookThms!Execution, BookThms!MdEntry,
         BookThms!L1Md, BookThms!Ids
<1>2. /\ Book!OneAtATime <=> BookThms!OneAtATime
      /\ Book!OneAtATime' <=> BookThms!OneAtATime'
  BY DEF Book!OneAtATime, Book!InBook, Book!SameTerms, Book!Ids,
         BookThms!OneAtATime, BookThms!InBook, BookThms!SameTerms, BookThms!Ids
<1> QED BY <1>1, <1>2

LEMMA SameMatch ==
    ASSUME NEW m \in Book!Ids
    PROVE  /\ Book!Matching(m) <=> BookThms!Matching(m)
           /\ Book!MatchOrder(m) <=> BookThms!MatchOrder(m)
           /\ Book!PanicInMatch(m) <=> BookThms!PanicInMatch(m)
<1>1. Book!Matching(m) <=> BookThms!Matching(m)
  BY DEF Book!Matching, Book!Top, Book!Resting, Book!Opposite, Book!DoesCross, Book!Before,
         Book!SideOf, Book!Ids, BookThms!Matching, BookThms!Top, BookThms!Resting,
         BookThms!Opposite, BookThms!DoesCross, BookThms!Before, BookThms!SideOf, BookThms!Ids
<1>2. Book!MatchOrder(m) <=> BookThms!MatchOrder(m)
  BY <1>1 DEF Book!MatchOrder, Book!AfterMatch, Book!Smaller, Book!CreateExecution,
              Book!SideOf, BookThms!MatchOrder, BookThms!AfterMatch, BookThms!Smaller,
              BookThms!CreateExecution, BookThms!SideOf
<1>3. Book!PanicInMatch(m) <=> BookThms!PanicInMatch(m)
  BY <1>1 DEF Book!PanicInMatch, Book!Smaller, Book!history_vars,
              BookThms!PanicInMatch, BookThms!Smaller, BookThms!history_vars
<1> QED BY <1>1, <1>2, <1>3

LEMMA SameFinish ==
    /\ Book!FinishOrder <=> BookThms!FinishOrder
    /\ Book!PanicHeapFull <=> BookThms!PanicHeapFull
<1>1. Book!MatchOver <=> BookThms!MatchOver
  BY SameMatch DEF Book!MatchOver, BookThms!MatchOver, Book!Ids, BookThms!Ids
<1>2. \A s : Book!HeapFull(s) <=> BookThms!HeapFull(s)
  BY DEF Book!HeapFull, Book!Resting, Book!SideOf, Book!Ids, Book!Cardinality,
         BookThms!HeapFull, BookThms!Resting, BookThms!SideOf, BookThms!Ids,
         BookThms!Cardinality
<1> QED
  BY <1>1, <1>2 DEF Book!FinishOrder, Book!PanicHeapFull, Book!SideOf, Book!LastExec,
     Book!history_vars, BookThms!FinishOrder, BookThms!PanicHeapFull, BookThms!SideOf,
     BookThms!LastExec, BookThms!history_vars

LEMMA NextKeepsBookInv ==
    ASSUME BookInv, BookThms!Next
    PROVE  BookInv'
BY SameInvariants, BookAssumptions, BookThms!NextKeepsTypes, BookThms!NextKeepsKnown DEF BookInv

LEMMA BookNewOrder ==
    ASSUME BookInv, NEW m \in Logged, m.type = "NewOrder", NEW t \in Times,
           NEW o, o = [id |-> m.id, user |-> m.user, price |-> m.price,
                       quantity |-> m.quantity, update |-> t],
           Book!NewOrder(o)
    PROVE  /\ BookInv'
           /\ o \in Book!Order /\ o # None /\ o.id \in Id
           /\ Book!Idle /\ submitted[o.id] = None
           /\ taker' = o /\ execs' = <<>>
           /\ submitted' = [submitted EXCEPT ![o.id] = o]
           /\ UNCHANGED <<book, next_exec, panicked>>
<1>1. /\ m.id \in Id /\ m.user \in Users /\ m.price \in Prices /\ m.quantity \in Quantities
  BY DEF Logged
<1>2. m.id \in BookThms!Ids /\ m.id \in Book!Ids
  BY <1>1, IdsAreSides DEF BookThms!Ids, Book!Ids
<1>3. BookThms!NewOrder(o)
  BY DEF Book!NewOrder, BookThms!NewOrder, Book!Idle, BookThms!Idle
<1>4. BookThms!Next
  BY <1>1, <1>2, <1>3 DEF BookThms!Next, BookThms!Request
<1>5. BookInv'
  BY <1>4, NextKeepsBookInv
<1>6. o \in Book!Order
  BY <1>1, <1>2, ServerAssumption DEF Book!Order
<1> QED
  BY <1>1, <1>5, <1>6, NoneAssumption DEF Book!NewOrder

LEMMA BookMatch ==
    ASSUME BookInv, Book!Match
    PROVE  /\ BookInv'
           /\ taker # None /\ ~panicked /\ taker.id \in Id
           /\ \/ panicked' /\ UNCHANGED <<book, next_exec, taker, execs>>
              \/ ~panicked' /\ \E m \in Id : Book!MatchOrder(m)
           /\ taker' # None /\ taker'.id = taker.id
           /\ \A id \in Id : book'[id] # None => book[id] # None /\ book'[id].user = book[id].user
           /\ UNCHANGED submitted
<1>1. PICK m \in Book!Ids : Book!MatchOrder(m) \/ Book!PanicInMatch(m)
  BY DEF Book!Match
<1>2. BookThms!Next
  BY <1>1, SameMatch DEF BookThms!Next, BookThms!Match, Book!Ids, BookThms!Ids
<1>3. BookInv'
  BY <1>2, NextKeepsBookInv
<1>4. m \in Id /\ m \in BookThms!Ids
  BY IdsAreSides DEF Book!Ids, BookThms!Ids
<1>5. taker # None /\ ~panicked /\ taker \in Book!Order /\ taker.id \in Id
  BY <1>1, IdsAreSides
  DEF Book!MatchOrder, Book!PanicInMatch, Book!Matching, BookInv, Book!TypeOK, Book!Order, Book!Ids
<1>6. book \in [Id -> Book!Order \cup {None}]
  BY IdsAreSides DEF BookInv, Book!TypeOK, Book!Ids
<1>7. CASE Book!MatchOrder(m)
  <2>1. taker' # None /\ taker'.id = taker.id /\ book[m] # None
    BY <1>4, <1>7, SameMatch, SameInvariants, BookAssumptions,
       BookThms!MatchOrderFacts
    DEF BookInv, BookThms!SameTerms
  <2>2. PICK rest : book' = [book EXCEPT ![m] = IF rest = 0 THEN None
                                                ELSE [book[m] EXCEPT !.quantity = rest]]
    BY <1>7 DEF Book!MatchOrder, Book!AfterMatch
  <2>3. book[m] \in Book!Order
    BY <1>4, <1>6, <2>1
  <2>4. \A id \in Id : book'[id] # None => book[id] # None /\ book'[id].user = book[id].user
    BY <1>4, <1>6, <2>1, <2>2, <2>3 DEF Book!Order
  <2>5. UNCHANGED submitted /\ ~panicked'
    BY <1>5, <1>7 DEF Book!MatchOrder
  <2> QED BY <1>3, <1>4, <1>5, <1>7, <2>1, <2>4, <2>5
<1>8. CASE Book!PanicInMatch(m)
  BY <1>3, <1>5, <1>8 DEF Book!PanicInMatch, Book!history_vars
<1> QED BY <1>1, <1>7, <1>8

LEMMA BookFinish ==
    ASSUME BookInv, Book!Finish
    PROVE  /\ BookInv'
           /\ taker # None /\ ~panicked /\ taker.id \in Id /\ taker \in Book!Order
           /\ Book!MatchOver
           /\ \/ /\ ~panicked'
                 /\ book' = IF taker.quantity > 0 THEN [book EXCEPT ![taker.id] = taker]
                            ELSE book
                 /\ taker' = None /\ execs' = <<>>
              \/ panicked' /\ UNCHANGED <<book, taker, execs>>
           /\ UNCHANGED <<next_exec, submitted>>
<1>1. BookThms!Next
  BY SameFinish DEF Book!Finish, BookThms!Next, BookThms!Finish
<1>2. BookInv'
  BY <1>1, NextKeepsBookInv
<1>3. taker # None /\ ~panicked /\ taker \in Book!Order /\ taker.id \in Id /\ Book!MatchOver
  BY IdsAreSides
  DEF Book!Finish, Book!FinishOrder, Book!PanicHeapFull, Book!MatchOver, BookInv, Book!TypeOK,
      Book!Order, Book!Ids
<1> QED
  BY <1>2, <1>3 DEF Book!Finish, Book!FinishOrder, Book!PanicHeapFull, Book!history_vars

LEMMA BookCancelOrder ==
    ASSUME BookInv, NEW id \in Id, NEW user \in Users, Book!CancelOrder(id, user)
    PROVE  /\ BookInv'
           /\ book' = [book EXCEPT ![id] = None]
           /\ UNCHANGED <<next_exec, taker, execs, panicked, submitted>>
<1>1. BookThms!CancelOrder(id, user)
  BY DEF Book!CancelOrder, BookThms!CancelOrder, Book!Idle, BookThms!Idle
<1>2. BookThms!Next
  BY <1>1, IdsAreSides DEF BookThms!Next, BookThms!Request, BookThms!Ids
<1> QED
  BY <1>2, NextKeepsBookInv DEF Book!CancelOrder

LEMMA BookInit == Book!Init => BookInv
<1> SUFFICES ASSUME Book!Init PROVE BookInv
  OBVIOUS
<1>1. published \in Book!L1Md
  BY DEF Book!Init, Book!L1Md
<1>2. execs \in Seq(Book!Execution)
  BY DEF Book!Init
<1>3. Book!TypeOK
  BY <1>1, <1>2 DEF Book!Init, Book!TypeOK
<1>4. Book!OneAtATime /\ BookThms!BetweenKnownOrders
  BY DEF Book!Init, Book!OneAtATime, Book!InBook, BookThms!BetweenKnownOrders
<1> QED
  BY <1>3, <1>4 DEF BookInv

\* The process that is started again has an empty book.
LEMMA BookDie ==
    ASSUME Die
    PROVE  BookInv' /\ taker' = None
<1>1. (Book!Init => BookInv)'
  BY BookInit, PTL
<1>2. Book!Init'
  BY IdsAreSides DEF Die, Book!Init, Book!Ids, NoneOf
<1> QED BY <1>1, <1>2 DEF Die

LEMMA BookUnchanged ==
    ASSUME BookInv, UNCHANGED book_vars
    PROVE  BookInv'
<1>1. BookThms!BetweenKnownOrders'
  BY DEF BookInv, book_vars, BookThms!BetweenKnownOrders, BookThms!Maker
<1> QED
  BY <1>1 DEF BookInv, book_vars, Book!TypeOK, Book!OneAtATime, Book!InBook

------------------------------------------------------------------------------
(***************************************************************************)
(* The inductive invariant, in parts.                                      *)
(***************************************************************************)

\* Entry n of the log is the order with this id.
OrderAt(n, id) == n \in DOMAIN log /\ log[n].type = "NewOrder" /\ log[n].id = id

\* What has been routed to the engine, of the log.
Routed == IF state \in {"down", "replaying"} THEN replayed
          ELSE IF handler # None /\ handler.at = "logged" THEN Len(log) - 1
          ELSE Len(log)

\* EngineFollowsLog, entry by entry.
OnTheWay ==
    LET n == Routed - taken
    IN  ~panicked =>
           /\ n >= 0
           /\ \A i \in 1 .. n : to_engine[i] = log[taken + i]
           /\ \/ Len(to_engine) = n
              \/ /\ state = "loading"
                 /\ Len(to_engine) = n + 1 /\ to_engine[n + 1] = SerializationMessage

\* The answer to the serialization point is there once, and not before the engine
\* has come to it or after the main thread has seen it.
NoAnswer == state # "loading" \/ (~panicked /\ Len(to_engine) > Routed - taken)
Answers == {i \in DOMAIN to_main : to_main[i].type = "Serialized"}

OneAnswer == /\ NoAnswer => Answers = {}
             /\ \A i, j \in Answers : i = j

\* The engine that has died receives nothing; a session's handler runs with the
\* entry that it has appended, and orders are pending that came in with it.
Phases ==
    /\ panicked => to_engine = <<>>
    /\ handler # None => /\ state = "running"
                         /\ replayed < Len(log) /\ handler.msg = log[Len(log)]
                         /\ handler.at = "routed" => handler.msg.type = "NewOrder"
    /\ \A id \in Id : pending[id] # "none" =>
          state = "running" /\ \E n \in replayed + 1 .. Len(log) : OrderAt(n, id)

IInv == TypeOK /\ BookInv /\ OnTheWay /\ OneAnswer /\ Phases

------------------------------------------------------------------------------
(***************************************************************************)
(* What the channel to the engine holds.                                   *)
(***************************************************************************)

LEMMA RoutedBound ==
    ASSUME TypeOK, Phases
    PROVE  Routed \in 0 .. Len(log) /\ Len(log) \in Nat
BY DEF TypeOK, Phases, Routed

\* What the engine takes next is the next entry of the log, or the serialization
\* point behind all of them.
LEMMA HeadIsNext ==
    ASSUME TypeOK, Phases, OnTheWay, to_engine # <<>>
    PROVE  LET m == Head(to_engine)
           IN  /\ ~panicked /\ Len(to_engine) \in Nat \ {0} /\ m = to_engine[1]
               /\ \/ /\ taken + 1 \in 1 .. Routed
                     /\ m = log[taken + 1] /\ m \in Logged
                     /\ m.type \in {"NewOrder", "CancelOrder"}
                     /\ taken < MaxLog
                  \/ /\ state = "loading" /\ m.type = "Serialization"
                     /\ taken = Len(log) /\ Len(to_engine) = 1
<1>1. Routed \in 0 .. Len(log) /\ Len(log) \in Nat /\ Len(log) <= MaxLog /\ taken \in Nat
  BY RoutedBound DEF TypeOK
<1>2. /\ ~panicked /\ Len(to_engine) \in Nat \ {0}
      /\ Head(to_engine) = to_engine[1]
  BY DEF Phases, TypeOK
<1>3. CASE Routed > taken
  <2>1. to_engine[1] = log[taken + 1] /\ taken + 1 \in 1 .. Routed
    BY <1>1, <1>2, <1>3 DEF OnTheWay
  <2>2. taken + 1 \in 1 .. Len(log) /\ taken < MaxLog
    BY <1>1, <2>1, ServerAssumption
  <2>3. log[taken + 1] \in Logged
    BY <2>2, ElementOfSeq DEF TypeOK
  <2>4. log[taken + 1].type \in {"NewOrder", "CancelOrder"}
    BY <2>3 DEF Logged
  <2> QED BY <1>2, <2>1, <2>2, <2>3, <2>4
<1>4. CASE ~(Routed > taken)
  <2>a. Routed - taken >= 0
    BY <1>2 DEF OnTheWay
  <2>b. Routed = taken
    BY <1>1, <1>4, <2>a
  <2>c. Routed - taken = 0
    BY <1>1, <2>b
  <2>d. \/ Len(to_engine) = 0
        \/ state = "loading" /\ Len(to_engine) = 0 + 1
           /\ to_engine[0 + 1] = SerializationMessage
    BY <1>2, <2>c DEF OnTheWay
  <2>1. /\ state = "loading" /\ to_engine[1] = SerializationMessage
        /\ Routed = taken /\ Len(to_engine) = 1
    BY <1>2, <2>b, <2>d
  <2>2. Routed = Len(log)
    BY <2>1 DEF Routed, Phases
  <2> QED BY <1>1, <1>2, <2>1, <2>2 DEF SerializationMessage
<1> QED BY <1>3, <1>4

------------------------------------------------------------------------------
(***************************************************************************)
(* The engine's steps, by what they do to the book.                        *)
(***************************************************************************)

LEMMA EngineNewOrderStep ==
    ASSUME TypeOK, BookInv, Phases, OnTheWay, EngineNewOrder
    PROVE  LET m == log[taken + 1]
           IN  /\ BookInv'
               /\ taken + 1 \in 1 .. Routed /\ m \in Logged /\ m.type = "NewOrder" /\ m.id \in Id
               /\ ~panicked /\ taker = None /\ submitted[m.id] = None
               /\ \E t \in ClockReads :
                     LET o == [id |-> m.id, user |-> m.user, price |-> m.price,
                               quantity |-> m.quantity, update |-> t]
                     IN  /\ taker' = o /\ o \in Book!Order
                         /\ submitted' = [submitted EXCEPT ![m.id] = o]
               /\ taker' # None /\ taker'.id = m.id /\ execs' = <<>>
               /\ UNCHANGED <<book, next_exec, panicked>>
               /\ taken' = taken + 1 /\ to_engine' = Tail(to_engine)
<1> DEFINE m == Head(to_engine)
<1>1. to_engine # <<>> /\ m.type = "NewOrder"
  BY DEF EngineNewOrder
<1>2. /\ taken + 1 \in 1 .. Routed /\ m = log[taken + 1] /\ m \in Logged /\ taken < MaxLog
  BY <1>1, HeadIsNext
<1>3. PICK t \in ClockReads :
         Book!NewOrder([id |-> m.id, user |-> m.user, price |-> m.price,
                        quantity |-> m.quantity, update |-> t])
  BY DEF EngineNewOrder
<1>4. t \in Times
  <2>1. taken + 1 \in 1 .. MaxLog
    BY <1>2, ServerAssumption DEF TypeOK
  <2> QED BY <2>1, ServerAssumption DEF ClockReads
<1> DEFINE o == [id |-> m.id, user |-> m.user, price |-> m.price,
                 quantity |-> m.quantity, update |-> t]
<1>5. /\ BookInv'
      /\ o \in Book!Order /\ o # None /\ o.id \in Id
      /\ Book!Idle /\ submitted[o.id] = None
      /\ taker' = o /\ execs' = <<>>
      /\ submitted' = [submitted EXCEPT ![o.id] = o]
      /\ UNCHANGED <<book, next_exec, panicked>>
  <2> HIDE DEF m
  <2>1. Book!NewOrder(o)
    BY <1>3
  <2> HIDE DEF o
  <2> QED BY <1>1, <1>2, <1>4, <2>1, BookNewOrder DEF o
<1> QED
  BY <1>1, <1>2, <1>5 DEF EngineNewOrder, Book!Idle

LEMMA EngineCancelOrderStep ==
    ASSUME TypeOK, BookInv, Phases, OnTheWay, EngineCancelOrder
    PROVE  LET m == log[taken + 1]
           IN  /\ BookInv'
               /\ taken + 1 \in 1 .. Routed /\ m \in Logged /\ m.type = "CancelOrder" /\ m.id \in Id
               /\ taker = None /\ ~panicked
               /\ book' = IF book[m.id] # None /\ book[m.id].user = m.user
                          THEN [book EXCEPT ![m.id] = None] ELSE book
               /\ UNCHANGED <<next_exec, taker, execs, panicked, submitted>>
               /\ taken' = taken + 1 /\ to_engine' = Tail(to_engine)
<1> DEFINE m == Head(to_engine)
           theirs == book[m.id] # None /\ book[m.id].user = m.user
<1>1. to_engine # <<>> /\ m.type = "CancelOrder"
  BY DEF EngineCancelOrder
<1>2. /\ taken + 1 \in 1 .. Routed /\ m = log[taken + 1] /\ m \in Logged
  BY <1>1, HeadIsNext
<1>3. m.id \in Id /\ m.user \in Users
  BY <1>1, <1>2 DEF Logged
<1>4. /\ taker = None /\ ~panicked /\ taken' = taken + 1 /\ to_engine' = Tail(to_engine)
      /\ IF theirs THEN Book!CancelOrder(m.id, m.user) ELSE UNCHANGED book_vars
  BY DEF EngineCancelOrder, Book!Idle
<1>5. CASE theirs
  <2>1. Book!CancelOrder(m.id, m.user)
    BY <1>4, <1>5
  <2>2. /\ BookInv' /\ book' = [book EXCEPT ![m.id] = None]
        /\ UNCHANGED <<next_exec, taker, execs, panicked, submitted>>
    BY <1>3, <2>1, BookCancelOrder
  <2> HIDE DEF m
  <2> QED BY <1>1, <1>2, <1>3, <1>4, <1>5, <2>2
<1>6. CASE ~theirs
  <2>1. UNCHANGED book_vars
    BY <1>4, <1>6
  <2>2. BookInv' /\ UNCHANGED <<book, next_exec, taker, execs, panicked, submitted>>
    BY <2>1, BookUnchanged DEF book_vars
  <2> HIDE DEF m
  <2> QED BY <1>1, <1>2, <1>3, <1>4, <1>6, <2>2
<1> QED BY <1>5, <1>6

LEMMA EngineSerializationStep ==
    ASSUME TypeOK, BookInv, Phases, OnTheWay, EngineSerialization
    PROVE  /\ BookInv'
           /\ state = "loading" /\ taken = Len(log) /\ Len(to_engine) = 1
           /\ taker = None /\ ~panicked
           /\ to_engine' = Tail(to_engine) /\ UNCHANGED engine_vars
<1>1. to_engine # <<>> /\ Head(to_engine).type = "Serialization"
  BY DEF EngineSerialization
<1>2. state = "loading" /\ taken = Len(log) /\ Len(to_engine) = 1
  BY <1>1, HeadIsNext
<1>3. UNCHANGED book_vars
  BY DEF EngineSerialization, engine_vars
<1> QED
  BY <1>2, <1>3, BookUnchanged DEF EngineSerialization, Book!Idle

\* The steps that the engine's thread has no part in leave the book alone.
LEMMA MainSteps ==
    ASSUME [Next]_vars
    PROVE  \/ Engine
           \/ Die /\ (crashes' = crashes \/ (crashes < MaxCrashes /\ crashes' = crashes + 1))
           \/ Start \/ ReplayMessage \/ FinishReplay \/ BecomeRunning
           \/ \E user \in Users, side \in Sides, price \in Prices, quantity \in Quantities :
                 LogNewOrder(user, side, price, quantity)
           \/ \E user \in Users, id \in Id : LogCancelOrder(user, id)
           \/ Route \/ Register
           \/ \E id \in Id : Reply(id) \/ HangUp(id)
           \/ \E user \in Users : Subscribe(user) \/ Unsubscribe(user)
           \/ PublishExecution \/ PublishAck \/ NotifySerialization
           \/ UNCHANGED vars
BY DEF Next, Starting, Client, Handler, Publisher, Crash, ReplayFails

------------------------------------------------------------------------------
(***************************************************************************)
(* The type invariant.                                                     *)
(***************************************************************************)

LEMMA InitTypeOK == Init => TypeOK /\ BookInv
<1> SUFFICES ASSUME Init PROVE TypeOK /\ BookInv
  OBVIOUS
<1>1. BookInv
  BY BookInit DEF Init
<1>2. log \in Seq(Logged) /\ to_engine \in Seq(Logged \cup {SerializationMessage})
  BY DEF Init
<1>3. to_main \in Seq(SessionMessage) /\ told \in Seq(Told)
  BY DEF Init
<1>4. Len(log) = 0
  BY DEF Init
<1> QED BY <1>1, <1>2, <1>3, <1>4, ServerAssumption DEF Init, TypeOK, BookInv

\* The messages that an order leaves are of their types.
LEMMA MatchesType ==
    ASSUME BookInv, taker # None
    PROVE  Matches \in Seq(SessionMessage) /\ Len(Matches) = Len(execs)
<1>1. execs \in Seq(Book!Execution) /\ taker \in Book!Order
  BY DEF BookInv, Book!TypeOK
<1>2. ASSUME NEW n \in 1 .. Len(execs)
      PROVE  [type |-> "Execution", exec |-> execs[n],
              users |-> [Buy  |-> submitted[execs[n].buy_order].user,
                         Sell |-> submitted[execs[n].sell_order].user]] \in SessionMessage
  <2>0. execs[n] \in Book!Execution
    BY <1>1, ElementOfSeq
  <2>1. execs[n].buy_order \in Id /\ execs[n].sell_order \in Id
    BY <2>0, IdsAreSides DEF Book!Execution
  <2>2. /\ submitted[execs[n].buy_order] # None
        /\ submitted[execs[n].sell_order] # None
    <3>1. /\ taker.id \in {execs[n].buy_order, execs[n].sell_order}
          /\ BookThms!Maker(execs[n]) # taker.id
          /\ submitted[BookThms!Maker(execs[n])] # None
      BY <1>1 DEF BookInv, BookThms!BetweenKnownOrders
    <3>2. BookThms!Maker(execs[n]) \in {execs[n].buy_order, execs[n].sell_order}
      BY DEF BookThms!Maker
    <3>3. submitted[taker.id] # None
      BY DEF BookInv, Book!OneAtATime
    <3> QED BY <3>1, <3>2, <3>3
  <2>3. submitted \in [Id -> Book!Order \cup {None}]
    BY IdsAreSides DEF BookInv, Book!TypeOK, Book!Ids
  <2>4. /\ submitted[execs[n].buy_order].user \in Users
        /\ submitted[execs[n].sell_order].user \in Users
    BY <2>1, <2>2, <2>3 DEF Book!Order
  <2> QED BY <2>0, <2>4 DEF SessionMessage, Sides
<1>3. DOMAIN execs = 1 .. Len(execs) /\ Len(execs) \in Nat
  BY <1>1
<1> QED BY <1>2, <1>3 DEF Matches

LEMMA EngineFinishStep ==
    ASSUME TypeOK, BookInv, EngineFinish
    PROVE  /\ BookInv'
           /\ taker # None /\ ~panicked /\ taker.id \in Id /\ taker \in Book!Order
           /\ Book!MatchOver
           /\ \/ /\ ~panicked'
                 /\ book' = IF taker.quantity > 0 THEN [book EXCEPT ![taker.id] = taker]
                            ELSE book
                 /\ taker' = None /\ execs' = <<>>
                 /\ to_engine' = to_engine
                 /\ to_main' = (to_main \o Matches) \o <<[type |-> "Ack", id |-> taker.id]>>
              \/ /\ panicked' /\ to_engine' = <<>>
                 /\ UNCHANGED <<book, taker, execs>>
                 /\ to_main' = to_main \o Matches
           /\ UNCHANGED <<next_exec, submitted>>
           /\ Matches \in Seq(SessionMessage) /\ Len(Matches) = Len(execs)
           /\ [type |-> "Ack", id |-> taker.id] \in SessionMessage
           /\ execs \in Seq(Book!Execution)
<1>1. Book!Finish
  BY DEF EngineFinish
<1>2. Matches \in Seq(SessionMessage) /\ Len(Matches) = Len(execs)
  BY <1>1, BookFinish, MatchesType
<1>3. [type |-> "Ack", id |-> taker.id] \in SessionMessage
  BY <1>1, BookFinish DEF SessionMessage
<1>4. execs \in Seq(Book!Execution)
  BY DEF BookInv, Book!TypeOK
<1>5. CASE panicked'
  <2>1. to_main' = (to_main \o Matches) \o <<>> /\ to_engine' = <<>>
    BY <1>5 DEF EngineFinish, Receiver
  <2>2. to_main \o Matches \in Seq(SessionMessage)
    BY <1>2, ConcatProperties DEF TypeOK
  <2>3. to_main' = to_main \o Matches
    BY <2>1, <2>2, ConcatEmptySeq
  <2> QED BY <1>1, <1>2, <1>3, <1>4, <1>5, <2>1, <2>3, BookFinish
<1>6. CASE ~panicked'
  <2>1. /\ to_main' = (to_main \o Matches) \o <<[type |-> "Ack", id |-> taker.id]>>
        /\ to_engine' = to_engine
    BY <1>6 DEF EngineFinish, Receiver
  <2> QED BY <1>1, <1>2, <1>3, <1>4, <1>6, <2>1, BookFinish
<1> QED BY <1>5, <1>6

\* A client is told of one or two executions, or of none.
LEMMA FeedType ==
    ASSUME NEW m \in SessionMessage, m.type = "Execution"
    PROVE  /\ Feed(m) \in Seq(Told) /\ Len(Feed(m)) \in 0 .. 2
           /\ \A i \in 1 .. Len(Feed(m)) :
                 Feed(m)[i].type = "Execution" /\ Feed(m)[i].exec = m.exec
<1>1. m.exec \in Book!Execution
  BY DEF SessionMessage
<1>2. ASSUME NEW side \in Sides
      PROVE  /\ Notice(m, side) \in Seq(Told) /\ Len(Notice(m, side)) \in 0 .. 1
             /\ \A i \in 1 .. Len(Notice(m, side)) :
                   Notice(m, side)[i].type = "Execution" /\ Notice(m, side)[i].exec = m.exec
  <2> DEFINE t == [type |-> "Execution", side |-> side, exec |-> m.exec]
  <2>1. t \in Told
    BY <1>1 DEF Told
  <2>2. t.type = "Execution" /\ t.exec = m.exec
    OBVIOUS
  <2>3. Notice(m, side) = <<t>> \/ Notice(m, side) = <<>>
    BY DEF Notice
  <2>4. CASE Notice(m, side) = <<t>>
    <3> HIDE DEF t
    <3>1. <<t>> \in Seq(Told) /\ Len(<<t>>) = 1 /\ <<t>>[1] = t
      BY <2>1
    <3> QED BY <2>2, <2>4, <3>1
  <2>5. CASE Notice(m, side) = <<>>
    BY <2>5
  <2> QED BY <2>3, <2>4, <2>5
<1>3. "Buy" \in Sides /\ "Sell" \in Sides
  BY DEF Sides
<1> DEFINE x == Notice(m, "Buy")
           y == Notice(m, "Sell")
<1>4. /\ x \in Seq(Told) /\ Len(x) \in 0 .. 1
      /\ \A i \in 1 .. Len(x) : x[i].type = "Execution" /\ x[i].exec = m.exec
      /\ y \in Seq(Told) /\ Len(y) \in 0 .. 1
      /\ \A i \in 1 .. Len(y) : y[i].type = "Execution" /\ y[i].exec = m.exec
  BY <1>2, <1>3
<1>5. Feed(m) = x \o y
  BY DEF Feed
<1> HIDE DEF x, y
<1> QED BY <1>4, <1>5, ConcatProperties

LEMMA NextKeepsTypeOK ==
    ASSUME TypeOK, BookInv, Phases, OnTheWay, [Next]_vars
    PROVE  TypeOK' /\ BookInv'
<1>1. CASE Engine
  <2>1. CASE EngineNewOrder
    <3>1. /\ taken + 1 \in 1 .. Routed /\ BookInv' /\ taken' = taken + 1
          /\ to_engine' = Tail(to_engine) /\ to_engine # <<>>
      BY <2>1, EngineNewOrderStep DEF EngineNewOrder
    <3>2. taken' \in 0 .. Len(log) /\ to_engine' \in Seq(Logged \cup {SerializationMessage})
      BY <3>1, RoutedBound DEF TypeOK
    <3> QED BY <2>1, <3>1, <3>2 DEF EngineNewOrder, TypeOK, main_vars, BookInv
  <2>2. CASE EngineCancelOrder
    <3>1. /\ taken + 1 \in 1 .. Routed /\ BookInv' /\ taken' = taken + 1
          /\ to_engine' = Tail(to_engine) /\ to_engine # <<>>
      BY <2>2, EngineCancelOrderStep DEF EngineCancelOrder
    <3>2. taken' \in 0 .. Len(log) /\ to_engine' \in Seq(Logged \cup {SerializationMessage})
      BY <3>1, RoutedBound DEF TypeOK
    <3> QED BY <2>2, <3>1, <3>2 DEF EngineCancelOrder, TypeOK, main_vars, BookInv
  <2>3. CASE EngineSerialization
    <3>1. BookInv' /\ to_engine # <<>>
      BY <2>3, EngineSerializationStep DEF EngineSerialization
    <3>2. [type |-> "Serialized"] \in SessionMessage
      BY DEF SessionMessage
    <3>3. to_main' \in Seq(SessionMessage)
      BY <2>3, <3>2 DEF EngineSerialization, TypeOK
    <3> QED BY <2>3, <3>1, <3>3 DEF EngineSerialization, TypeOK, main_vars, engine_vars, BookInv
  <2>4. CASE EngineMatch
    <3>1. BookInv'
      BY <2>4, BookMatch DEF EngineMatch
    <3>2. to_engine' \in Seq(Logged \cup {SerializationMessage})
      BY <2>4 DEF EngineMatch, Receiver, TypeOK
    <3> QED BY <2>4, <3>1, <3>2 DEF EngineMatch, TypeOK, main_vars, BookInv
  <2>5. CASE EngineFinish
    <3>1. /\ BookInv' /\ Matches \in Seq(SessionMessage)
          /\ [type |-> "Ack", id |-> taker.id] \in SessionMessage
          /\ execs \in Seq(Book!Execution)
          /\ to_engine' \in {to_engine, <<>>}
          /\ \/ to_main' = to_main \o Matches
             \/ to_main' = (to_main \o Matches) \o <<[type |-> "Ack", id |-> taker.id]>>
      BY <2>5, EngineFinishStep
    <3>2. to_main' \in Seq(SessionMessage)
      <4>1. to_main \in Seq(SessionMessage)
        BY DEF TypeOK
      <4>2. to_main \o Matches \in Seq(SessionMessage)
        BY <3>1, <4>1, ConcatProperties
      <4>3. <<[type |-> "Ack", id |-> taker.id]>> \in Seq(SessionMessage)
        BY <3>1
      <4>4. (to_main \o Matches) \o <<[type |-> "Ack", id |-> taker.id]>> \in Seq(SessionMessage)
        BY <4>2, <4>3, ConcatProperties
      <4> QED BY <3>1, <4>2, <4>4
    <3>3. to_engine' \in Seq(Logged \cup {SerializationMessage})
      <4>1. to_engine \in Seq(Logged \cup {SerializationMessage})
        BY DEF TypeOK
      <4>2. <<>> \in Seq(Logged \cup {SerializationMessage})
        OBVIOUS
      <4> QED BY ONLY <3>1, <4>1, <4>2
    <3>4. trades' \in [1 .. MaxLog -> Seq(Book!Execution) \cup {None}]
      BY <2>5, <3>1 DEF EngineFinish, TypeOK
    <3> QED BY <2>5, <3>1, <3>2, <3>3, <3>4 DEF EngineFinish, TypeOK, main_vars, BookInv
  <2> QED BY <1>1, <2>1, <2>2, <2>3, <2>4, <2>5 DEF Engine
<1>2. CASE Die /\ (crashes' = crashes \/ (crashes < MaxCrashes /\ crashes' = crashes + 1))
  <2>1. BookInv'
    BY <1>2, BookDie
  <2>2. Len(log) \in Nat /\ log \in Seq(Logged) /\ Len(log) <= MaxLog
    BY DEF TypeOK
  <2>3. UNCHANGED <<drops, trades, told>> /\ crashes' \in 0 .. MaxCrashes
    BY <1>2, ServerAssumption DEF Die, TypeOK
  <2>4. /\ state' = "down" /\ replayed' = 0 /\ next_seq' = 0 /\ taken' = 0 /\ log' = log
        /\ handler' = None /\ pending' \in [Id -> {"none", "waiting", "acked"}]
        /\ subscribed' = {} /\ to_engine' = <<>> /\ to_main' = <<>>
    BY <1>2 DEF Die
  <2> QED BY <2>1, <2>2, <2>3, <2>4, ServerAssumption DEF TypeOK, BookInv
<1>3. ASSUME UNCHANGED engine_vars, UNCHANGED <<trades, crashes>>
      PROVE  BookInv' /\ Book!TypeOK' /\ trades' = trades /\ crashes' = crashes /\ taken' = taken
  BY <1>3, BookUnchanged DEF BookInv, engine_vars
<1>4. ASSUME UNCHANGED <<log, to_engine, to_main, trades, crashes, drops, told, engine_vars>>,
             UNCHANGED <<next_seq, pending, subscribed, handler>>,
             replayed' \in 0 .. Len(log),
             state' \in {"down", "replaying", "loading", "synced", "running"}
      PROVE  TypeOK' /\ BookInv'
  BY <1>3, <1>4 DEF TypeOK
<1>5. CASE Start
  BY <1>4, <1>5 DEF Start, TypeOK
<1>6. CASE BecomeRunning
  BY <1>4, <1>6 DEF BecomeRunning, TypeOK
<1>7. CASE ReplayMessage
  <2>1. /\ replayed' = replayed + 1 /\ replayed' \in 1 .. Len(log)
        /\ log[replayed + 1] \in Logged
    BY <1>7 DEF ReplayMessage, TypeOK
  <2>2. to_engine' \in Seq(Logged \cup {SerializationMessage})
    BY <1>7, <2>1 DEF ReplayMessage, TypeOK
  <2>3. next_seq' \in 0 .. MaxOrders
    <3>1. log[replayed + 1].type = "NewOrder" => log[replayed + 1].id.seq \in 0 .. MaxOrders - 1
      BY <2>1 DEF Logged, Id
    <3>2. \/ next_seq' = next_seq
          \/ log[replayed + 1].type = "NewOrder" /\ next_seq' = log[replayed + 1].id.seq + 1
      BY <1>7 DEF ReplayMessage
    <3>3. next_seq \in 0 .. MaxOrders /\ MaxOrders \in Nat
      BY ServerAssumption DEF TypeOK
    <3> QED BY <3>1, <3>2, <3>3
  <2> QED BY <1>3, <1>7, <2>1, <2>2, <2>3 DEF ReplayMessage, TypeOK
<1>8. CASE FinishReplay
  <2>1. to_engine' \in Seq(Logged \cup {SerializationMessage})
    BY <1>8 DEF FinishReplay, TypeOK
  <2> QED BY <1>3, <1>8, <2>1 DEF FinishReplay, TypeOK
<1>9. ASSUME NEW user \in Users, NEW side \in Sides, NEW price \in Prices, NEW quantity \in Quantities,
             LogNewOrder(user, side, price, quantity)
      PROVE  TypeOK' /\ BookInv'
  <2> DEFINE m == [type |-> "NewOrder", id |-> [side |-> side, seq |-> next_seq],
                   user |-> user, price |-> price, quantity |-> quantity]
  <2>1. next_seq < MaxOrders /\ next_seq' = next_seq + 1 /\ next_seq' \in 0 .. MaxOrders
    BY <1>9, ServerAssumption DEF LogNewOrder, TypeOK
  <2>2. m \in Logged
    BY <2>1, ServerAssumption DEF Logged, Id, TypeOK
  <2>3. \/ Len(log) < MaxLog /\ log' = Append(log, m) /\ handler' = [msg |-> m, at |-> "logged"]
        \/ UNCHANGED <<log, handler>>
    BY <1>9 DEF LogNewOrder
  <2>4. /\ log' \in Seq(Logged) /\ Len(log') <= MaxLog /\ Len(log') >= Len(log)
        /\ handler' \in Handling \cup {None}
    <3> HIDE DEF m
    <3>1. log \in Seq(Logged) /\ Len(log) \in Nat /\ Len(log) <= MaxLog /\ handler \in Handling \cup {None}
      BY DEF TypeOK
    <3>2. CASE Len(log) < MaxLog /\ log' = Append(log, m) /\ handler' = [msg |-> m, at |-> "logged"]
      BY <2>2, <3>1, <3>2, AppendProperties, ServerAssumption DEF Handling
    <3>3. CASE UNCHANGED <<log, handler>>
      BY <3>1, <3>3
    <3> QED BY <2>3, <3>2, <3>3
  <2> QED BY <1>3, <1>9, <2>1, <2>4 DEF LogNewOrder, TypeOK
<1>10. ASSUME NEW user \in Users, NEW id \in Id, LogCancelOrder(user, id)
       PROVE  TypeOK' /\ BookInv'
  <2> DEFINE m == [type |-> "CancelOrder", id |-> id, user |-> user]
  <2>1. m \in Logged
    BY DEF Logged
  <2>2. Len(log) < MaxLog /\ log' = Append(log, m) /\ handler' = [msg |-> m, at |-> "logged"]
    BY <1>10 DEF LogCancelOrder
  <2>3. /\ log' \in Seq(Logged) /\ Len(log') <= MaxLog /\ Len(log') >= Len(log)
        /\ handler' \in Handling \cup {None}
    <3> HIDE DEF m
    <3> QED BY <2>1, <2>2, ServerAssumption DEF Handling, TypeOK
  <2> QED BY <1>3, <1>10, <2>3 DEF LogCancelOrder, TypeOK
<1>11. CASE Route
  <2>1. handler \in Handling /\ handler.msg \in Logged
    BY <1>11 DEF Route, TypeOK, Handling
  <2>2. to_engine' \in Seq(Logged \cup {SerializationMessage})
    <3>1. to_engine \in Seq(Logged \cup {SerializationMessage})
      BY DEF TypeOK
    <3>2. Append(to_engine, handler.msg) \in Seq(Logged \cup {SerializationMessage})
      BY <2>1, <3>1, AppendProperties
    <3> QED BY <1>11, <3>1, <3>2 DEF Route
  <2>3. handler' \in Handling \cup {None}
    BY <1>11, <2>1 DEF Route, Handling
  <2> QED BY <1>3, <1>11, <2>2, <2>3 DEF Route, TypeOK
<1>12. CASE Register
  BY <1>3, <1>12 DEF Register, TypeOK
<1>13. ASSUME NEW id \in Id, Reply(id)
       PROVE  TypeOK' /\ BookInv'
  <2>1. [type |-> "Ack", id |-> id] \in Told
    BY DEF Told
  <2>2. told' \in Seq(Told)
    BY <1>13, <2>1 DEF Reply, TypeOK
  <2> QED BY <1>3, <1>13, <2>2 DEF Reply, TypeOK
<1>14. ASSUME NEW id \in Id, HangUp(id)
       PROVE  TypeOK' /\ BookInv'
  BY <1>3, <1>14, ServerAssumption DEF HangUp, TypeOK
<1>15. ASSUME NEW user \in Users, Subscribe(user)
       PROVE  TypeOK' /\ BookInv'
  BY <1>3, <1>15 DEF Subscribe, TypeOK
<1>16. ASSUME NEW user \in Users, Unsubscribe(user)
       PROVE  TypeOK' /\ BookInv'
  BY <1>3, <1>16, ServerAssumption DEF Unsubscribe, TypeOK
<1>17. CASE PublishExecution
  <2>1. Head(to_main) \in SessionMessage /\ to_main' \in Seq(SessionMessage)
    BY <1>17 DEF PublishExecution, TypeOK
  <2>2. told' \in Seq(Told)
    <3>1. told \in Seq(Told) /\ Feed(Head(to_main)) \in Seq(Told)
      BY <1>17, <2>1, FeedType DEF PublishExecution, TypeOK
    <3> QED BY <1>17, <3>1 DEF PublishExecution
  <2> QED BY <1>3, <1>17, <2>1, <2>2 DEF PublishExecution, TypeOK, main_vars
<1>18. CASE PublishAck
  <2>1. to_main' \in Seq(SessionMessage)
    BY <1>18 DEF PublishAck, TypeOK
  <2>2. pending' \in [Id -> {"none", "waiting", "acked"}]
    BY <1>18 DEF PublishAck, TypeOK
  <2> QED BY <1>3, <1>18, <2>1, <2>2 DEF PublishAck, TypeOK
<1>19. CASE NotifySerialization
  <2>1. to_main' \in Seq(SessionMessage)
    BY <1>19 DEF NotifySerialization, TypeOK
  <2> QED BY <1>3, <1>19, <2>1 DEF NotifySerialization, TypeOK
<1>20. CASE UNCHANGED vars
  BY <1>4, <1>20 DEF vars, main_vars, TypeOK
<1> QED
  BY <1>1, <1>2, <1>5, <1>6, <1>7, <1>8, <1>9, <1>10, <1>11, <1>12, <1>13, <1>14, <1>15,
     <1>16, <1>17, <1>18, <1>19, <1>20, MainSteps

------------------------------------------------------------------------------
(***************************************************************************)
(* The engine follows the log.                                             *)
(***************************************************************************)

\* A handler appends m to the log.
Logs(m) ==
    /\ log' = Append(log, m) /\ handler' = [msg |-> m, at |-> "logged"]
    /\ Len(log') = Len(log) + 1 /\ log'[Len(log) + 1] = m
    /\ \A n \in DOMAIN log : n \in DOMAIN log' /\ log'[n] = log[n]
    /\ state = "running" /\ handler = None
    /\ m.type = "NewOrder" => m.id.seq = next_seq /\ next_seq' = next_seq + 1
    /\ m.type # "NewOrder" => next_seq' = next_seq
    /\ UNCHANGED <<state, replayed, pending, subscribed, to_engine, to_main, engine_vars,
                   trades, told>>

\* The id is used up, and that is all.
LogFails ==
    /\ next_seq < MaxOrders /\ next_seq' = next_seq + 1
    /\ UNCHANGED <<log, state, replayed, handler, pending, subscribed, to_engine, to_main,
                   engine_vars, crashes, drops, trades, told>>

LEMMA LogNewOrderStep ==
    ASSUME TypeOK, NEW user \in Users, NEW side \in Sides, NEW price \in Prices,
           NEW quantity \in Quantities, LogNewOrder(user, side, price, quantity)
    PROVE  LogFails \/ \E m \in Logged : Logs(m)
<1> DEFINE m == [type |-> "NewOrder", id |-> [side |-> side, seq |-> next_seq],
                 user |-> user, price |-> price, quantity |-> quantity]
<1>1. m \in Logged /\ m.type = "NewOrder" /\ m.id.seq = next_seq
  BY ServerAssumption DEF Logged, Id, TypeOK, LogNewOrder
<1>2. log \in Seq(Logged)
  BY DEF TypeOK
<1>3. CASE log' = Append(log, m) /\ handler' = [msg |-> m, at |-> "logged"]
  <2>1. /\ state = "running" /\ handler = None /\ next_seq' = next_seq + 1
        /\ UNCHANGED <<state, replayed, pending, subscribed, to_engine, to_main,
                       engine_vars, trades, told>>
    BY DEF LogNewOrder, Ready
  <2> HIDE DEF m
  <2>2. /\ Len(log') = Len(log) + 1 /\ log'[Len(log) + 1] = m
        /\ \A n \in DOMAIN log : n \in DOMAIN log' /\ log'[n] = log[n]
    BY <1>1, <1>2, <1>3, AppendProperties
  <2> QED BY <1>1, <1>3, <2>1, <2>2 DEF Logs
<1>4. CASE UNCHANGED <<log, handler>>
  BY <1>4 DEF LogNewOrder, LogFails
<1> QED BY <1>3, <1>4 DEF LogNewOrder

LEMMA LogCancelOrderStep ==
    ASSUME TypeOK, NEW user \in Users, NEW id \in Id, LogCancelOrder(user, id)
    PROVE  \E m \in Logged : Logs(m)
<1> DEFINE m == [type |-> "CancelOrder", id |-> id, user |-> user]
<1>1. m \in Logged /\ m.type = "CancelOrder"
  BY DEF Logged
<1>2. /\ log' = Append(log, m) /\ handler' = [msg |-> m, at |-> "logged"]
      /\ state = "running" /\ handler = None /\ next_seq' = next_seq
      /\ UNCHANGED <<state, replayed, pending, subscribed, to_engine, to_main,
                     engine_vars, trades, told>>
  BY DEF LogCancelOrder, Ready
<1>3. log \in Seq(Logged)
  BY DEF TypeOK
<1> HIDE DEF m
<1>4. /\ Len(log') = Len(log) + 1 /\ log'[Len(log) + 1] = m
      /\ \A n \in DOMAIN log : n \in DOMAIN log' /\ log'[n] = log[n]
  BY <1>1, <1>2, <1>3, AppendProperties
<1> QED BY <1>1, <1>2, <1>4 DEF Logs

\* The steps, by what they are to the proofs that follow.
LEMMA Steps ==
    ASSUME TypeOK, [Next]_vars
    PROVE  \/ EngineNewOrder \/ EngineCancelOrder \/ EngineSerialization
           \/ EngineMatch \/ EngineFinish
           \/ Die
           \/ Start \/ ReplayMessage \/ FinishReplay \/ BecomeRunning
           \/ LogFails \/ (\E m \in Logged : Logs(m))
           \/ Route \/ Register
           \/ \E id \in Id : Reply(id) \/ HangUp(id)
           \/ \E user \in Users : Subscribe(user) \/ Unsubscribe(user)
           \/ PublishExecution \/ PublishAck \/ NotifySerialization
           \/ UNCHANGED vars
BY MainSteps, LogNewOrderStep, LogCancelOrderStep DEF Engine

\* Entries are only ever appended to the log, by the handlers that log.
LEMMA LogSteps ==
    ASSUME TypeOK, [Next]_vars
    PROVE  UNCHANGED log \/ \E m \in Logged : Logs(m)
<1>1. CASE \/ EngineNewOrder \/ EngineCancelOrder \/ EngineSerialization
           \/ EngineMatch \/ EngineFinish
  BY <1>1 DEF EngineNewOrder, EngineCancelOrder, EngineSerialization, EngineMatch,
              EngineFinish
<1>2. CASE \/ Die \/ Start \/ ReplayMessage \/ FinishReplay \/ BecomeRunning \/ LogFails
           \/ Route \/ Register \/ PublishExecution \/ PublishAck \/ NotifySerialization
           \/ UNCHANGED vars
  BY <1>2 DEF Die, Start, ReplayMessage, FinishReplay, BecomeRunning, Route, Register,
              LogFails, PublishExecution, PublishAck, NotifySerialization, vars
<1>3. CASE \/ \E id \in Id : Reply(id) \/ HangUp(id)
           \/ \E user \in Users : Subscribe(user) \/ Unsubscribe(user)
  BY <1>3 DEF Reply, HangUp, Subscribe, Unsubscribe
<1> QED
  BY <1>1, <1>2, <1>3, Steps

\* The entries there are stay where they are.
LEMMA LogGrows ==
    ASSUME TypeOK, [Next]_vars
    PROVE  /\ Len(log) \in Nat /\ Len(log') \in Nat /\ Len(log') >= Len(log)
           /\ DOMAIN log = 1 .. Len(log) /\ DOMAIN log' = 1 .. Len(log')
           /\ \A n \in DOMAIN log : n \in DOMAIN log' /\ log'[n] = log[n]
           /\ \A n, id : OrderAt(n, id) => OrderAt(n, id)'
<1>1. log \in Seq(Logged) /\ Len(log) \in Nat /\ DOMAIN log = 1 .. Len(log)
  BY DEF TypeOK
<1>2. CASE UNCHANGED log
  BY <1>1, <1>2 DEF OrderAt
<1>3. ASSUME NEW m \in Logged, Logs(m)
      PROVE  /\ Len(log') = Len(log) + 1 /\ DOMAIN log' = 1 .. Len(log')
             /\ \A n \in DOMAIN log : n \in DOMAIN log' /\ log'[n] = log[n]
  BY <1>1, <1>3, AppendProperties DEF Logs
<1>4. ASSUME NEW m \in Logged, Logs(m)
      PROVE  \A n, id : OrderAt(n, id) => OrderAt(n, id)'
  BY <1>3, <1>4 DEF OrderAt
<1> QED BY <1>1, <1>2, <1>3, <1>4, LogSteps

LEMMA PhasesInit == Init => Phases /\ OnTheWay /\ OneAnswer
BY DEF Init, Phases, OnTheWay, Routed, OneAnswer, Answers, Book!Init

\* The engine takes the head of its channel.
LEMMA TakesHead ==
    ASSUME TypeOK, Phases, OnTheWay, to_engine # <<>>, to_engine' = Tail(to_engine),
           UNCHANGED <<log, state, handler, replayed, panicked>>,
           \/ taken' = taken + 1 /\ taken + 1 \in 1 .. Routed
           \/ taken' = taken /\ state = "loading" /\ taken = Len(log)
    PROVE  OnTheWay'
<1>1. /\ to_engine \in Seq(Logged \cup {SerializationMessage})
      /\ Len(to_engine) \in Nat \ {0} /\ taken \in Nat
      /\ Routed \in Nat /\ Routed' = Routed
  BY RoutedBound DEF TypeOK, Routed
<1>2. /\ Len(to_engine') = Len(to_engine) - 1
      /\ \A i \in 1 .. Len(to_engine) - 1 : to_engine'[i] = to_engine[i + 1]
  BY <1>1, HeadTailProperties
<1>3. ~panicked
  BY DEF Phases
<1> DEFINE n == Routed - taken
<1>4. /\ n >= 0
      /\ \A i \in 1 .. n : to_engine[i] = log[taken + i]
      /\ \/ Len(to_engine) = n
         \/ /\ state = "loading"
            /\ Len(to_engine) = n + 1 /\ to_engine[n + 1] = SerializationMessage
  BY <1>3 DEF OnTheWay
<1>5. CASE taken' = taken + 1 /\ taken + 1 \in 1 .. Routed
  <2>1. (Routed - taken)' = n - 1
    BY <1>1, <1>5
  <2>2. \A i \in 1 .. n - 1 : to_engine'[i] = log'[taken' + i]
    <3> SUFFICES ASSUME NEW i \in 1 .. n - 1
                 PROVE  to_engine'[i] = log'[taken' + i]
      OBVIOUS
    <3>1. to_engine'[i] = to_engine[i + 1] /\ i + 1 \in 1 .. n
      BY <1>1, <1>2, <1>4
    <3>2. to_engine[i + 1] = log[taken + (i + 1)] /\ taken + (i + 1) = taken' + i
      BY <1>1, <1>4, <1>5, <3>1
    <3> QED BY <3>1, <3>2
  <2> QED BY <1>1, <1>2, <1>4, <1>5, <2>1, <2>2 DEF OnTheWay
<1>6. CASE taken' = taken /\ state = "loading" /\ taken = Len(log)
  <2>1. Routed = Len(log)
    BY <1>6 DEF Phases, Routed
  <2>2. n = 0 /\ Len(to_engine') = 0 /\ (Routed - taken)' = 0
    BY <1>1, <1>2, <1>4, <1>6, <2>1
  <2> HIDE DEF n
  <2>3. 1 .. (Routed - taken)' = {}
    BY <2>2
  <2> QED BY <2>2, <2>3 DEF OnTheWay
<1> QED BY <1>5, <1>6

\* Neither the log nor the channel: what is on the way stays as it is.
LEMMA SameOnTheWay ==
    ASSUME OnTheWay, UNCHANGED <<log, to_engine, taken, panicked>>, Routed' = Routed,
           state = "loading" =>
              state' = "loading" \/ panicked \/ Len(to_engine) = Routed - taken
    PROVE  OnTheWay'
BY DEF OnTheWay

\* One more entry is routed.
LEMMA RoutesOne ==
    ASSUME TypeOK, Phases, OnTheWay, ~panicked, state # "loading", state' # "loading",
           Routed' = Routed + 1, Routed + 1 <= Len(log),
           to_engine' = Append(to_engine, log[Routed + 1]),
           UNCHANGED <<log, taken, panicked>>
    PROVE  OnTheWay'
<1>1. /\ to_engine \in Seq(Logged \cup {SerializationMessage})
      /\ Len(to_engine) \in Nat /\ taken \in Nat /\ Routed \in Nat /\ Len(log) \in Nat
  BY RoutedBound DEF TypeOK
<1>2. log[Routed + 1] \in Logged
  BY <1>1, ElementOfSeq DEF TypeOK
<1>3. /\ Len(to_engine') = Len(to_engine) + 1
      /\ \A i \in 1 .. Len(to_engine) : to_engine'[i] = to_engine[i]
      /\ to_engine'[Len(to_engine) + 1] = log[Routed + 1]
  BY <1>1, <1>2, AppendProperties
<1> DEFINE n == Routed - taken
<1>4. /\ n >= 0 /\ Len(to_engine) = n
      /\ \A i \in 1 .. n : to_engine[i] = log[taken + i]
  BY DEF OnTheWay
<1>5. (Routed - taken)' = n + 1
  BY <1>1
<1>6. \A i \in 1 .. n + 1 : to_engine'[i] = log'[taken' + i]
  <2> SUFFICES ASSUME NEW i \in 1 .. n + 1
               PROVE  to_engine'[i] = log'[taken' + i]
    OBVIOUS
  <2>1. CASE i = n + 1
    <3>1. taken + i = Routed + 1
      BY <1>1, <2>1
    <3> QED BY <1>3, <1>4, <2>1, <3>1
  <2>2. CASE i # n + 1
    BY <1>1, <1>3, <1>4, <2>2
  <2> QED BY <2>1, <2>2
<1> QED
  BY <1>1, <1>3, <1>4, <1>5, <1>6 DEF OnTheWay

\* Messages to the main thread come from the engine and go to the publisher.
LEMMA MainChannelSteps ==
    ASSUME TypeOK, [Next]_vars
    PROVE  \/ UNCHANGED to_main
           \/ Die /\ to_main' = <<>>
           \/ /\ PublishExecution \/ PublishAck \/ NotifySerialization
              /\ to_main # <<>> /\ to_main' = Tail(to_main)
           \/ EngineSerialization
           \/ EngineFinish
<1>1. CASE \/ EngineNewOrder \/ EngineCancelOrder \/ EngineMatch \/ Start \/ ReplayMessage
           \/ FinishReplay \/ BecomeRunning \/ LogFails \/ Route \/ Register
           \/ UNCHANGED vars
  BY <1>1 DEF EngineNewOrder, EngineCancelOrder, EngineMatch, Start, ReplayMessage,
              FinishReplay, BecomeRunning, LogFails, Route, Register, vars
<1>2. CASE \/ \E id \in Id : Reply(id) \/ HangUp(id)
           \/ \E user \in Users : Subscribe(user) \/ Unsubscribe(user)
           \/ \E m \in Logged : Logs(m)
  BY <1>2 DEF Reply, HangUp, Subscribe, Unsubscribe, Logs
<1>3. CASE Die \/ PublishExecution \/ PublishAck \/ NotifySerialization
  BY <1>3 DEF Die, PublishExecution, PublishAck, NotifySerialization
<1> QED
  BY <1>1, <1>2, <1>3, Steps

\* What is left of the channel when its head is taken.
LEMMA MainChannelTail ==
    ASSUME TypeOK, to_main # <<>>, to_main' = Tail(to_main)
    PROVE  /\ 1 \in DOMAIN to_main /\ Head(to_main) = to_main[1]
           /\ \A i \in DOMAIN to_main' : /\ i + 1 \in DOMAIN to_main /\ i > 0
                                        /\ to_main'[i] = to_main[i + 1]
<1>1. to_main \in Seq(SessionMessage)
  BY DEF TypeOK
<1> QED BY <1>1, HeadTailProperties

\* What an order adds: its executions, and its acknowledgement.
LEMMA FinishMessages ==
    ASSUME TypeOK, BookInv, EngineFinish
    PROVE  /\ Len(to_main) \in Nat /\ Len(execs) \in Nat
           /\ DOMAIN to_main = 1 .. Len(to_main) /\ DOMAIN execs = 1 .. Len(execs)
           /\ \A i \in DOMAIN to_main : i \in DOMAIN to_main' /\ to_main'[i] = to_main[i]
           /\ \A i \in DOMAIN to_main' :
                 /\ i \in Nat
                 /\ \/ i \in DOMAIN to_main /\ to_main'[i] = to_main[i]
                    \/ /\ i - Len(to_main) \in DOMAIN execs
                       /\ to_main'[i].type = "Execution"
                       /\ to_main'[i].exec = execs[i - Len(to_main)]
                    \/ /\ i = Len(to_main) + Len(execs) + 1 /\ ~panicked'
                       /\ to_main'[i] = [type |-> "Ack", id |-> taker.id]
<1> DEFINE ack == [type |-> "Ack", id |-> taker.id]
           x == to_main \o Matches
<1>1. /\ to_main \in Seq(SessionMessage) /\ Matches \in Seq(SessionMessage)
      /\ Len(Matches) = Len(execs) /\ execs \in Seq(Book!Execution)
      /\ ack \in SessionMessage
      /\ to_main' = x \/ (~panicked' /\ to_main' = x \o <<ack>>)
  BY EngineFinishStep DEF TypeOK
<1>2. \A n \in DOMAIN execs : Matches[n].type = "Execution" /\ Matches[n].exec = execs[n]
  BY DEF Matches
<1> HIDE DEF ack
<1>3. /\ x \in Seq(SessionMessage) /\ Len(x) = Len(to_main) + Len(execs)
      /\ \A i \in 1 .. Len(to_main) : x[i] = to_main[i]
      /\ \A i \in Len(to_main) + 1 .. Len(to_main) + Len(execs) :
            x[i] = Matches[i - Len(to_main)]
  <2>1. /\ to_main \in Seq(SessionMessage) /\ Matches \in Seq(SessionMessage)
        /\ Len(Matches) = Len(execs)
    BY <1>1
  <2>2. /\ Len(to_main) \in Nat /\ Len(execs) \in Nat
    BY <2>1
  <2>3. Len(to_main \o Matches) = Len(to_main) + Len(Matches)
    BY <2>1, ConcatProperties
  <2>4. to_main \o Matches \in Seq(SessionMessage)
    BY <2>1, ConcatProperties
  <2>5. \A i \in 1 .. Len(to_main) + Len(Matches) :
              (to_main \o Matches)[i] = IF i <= Len(to_main) THEN to_main[i]
                                       ELSE Matches[i - Len(to_main)]
    BY <2>1, ConcatProperties
  <2>6. /\ to_main \o Matches \in Seq(SessionMessage)
        /\ Len(to_main \o Matches) = Len(to_main) + Len(execs)
        /\ \A i \in 1 .. Len(to_main) + Len(execs) :
              (to_main \o Matches)[i] = IF i <= Len(to_main) THEN to_main[i]
                                       ELSE Matches[i - Len(to_main)]
    BY <2>1, <2>3, <2>4, <2>5
  <2> QED BY ONLY <2>2, <2>6
<1> HIDE DEF x, ack
<1>4. /\ x \o <<ack>> \in Seq(SessionMessage) /\ Len(x \o <<ack>>) = Len(x) + 1
      /\ \A i \in 1 .. Len(x) : (x \o <<ack>>)[i] = x[i]
      /\ (x \o <<ack>>)[Len(x) + 1] = ack
  BY <1>1, <1>3, ConcatProperties
<1>5. /\ Len(to_main) \in Nat /\ Len(execs) \in Nat
      /\ DOMAIN to_main = 1 .. Len(to_main) /\ DOMAIN execs = 1 .. Len(execs)
      /\ DOMAIN x = 1 .. Len(x) /\ DOMAIN (x \o <<ack>>) = 1 .. Len(x) + 1
  BY <1>1, <1>3, <1>4
<1>6. \A i \in 1 .. Len(x) :
         \/ i \in DOMAIN to_main /\ x[i] = to_main[i]
         \/ /\ i - Len(to_main) \in DOMAIN execs
            /\ x[i].type = "Execution" /\ x[i].exec = execs[i - Len(to_main)]
  BY <1>2, <1>3, <1>5
<1>7. CASE to_main' = x
  BY <1>3, <1>5, <1>6, <1>7
<1>8. CASE ~panicked' /\ to_main' = x \o <<ack>>
  BY <1>3, <1>4, <1>5, <1>6, <1>8 DEF ack
<1> QED BY <1>1, <1>7, <1>8

LEMMA NextKeepsOnTheWay ==
    ASSUME TypeOK, BookInv, Phases, OnTheWay, OneAnswer, [Next]_vars
    PROVE  OnTheWay'
<1>1. CASE EngineNewOrder
  BY <1>1, EngineNewOrderStep, TakesHead DEF EngineNewOrder, main_vars
<1>2. CASE EngineCancelOrder
  BY <1>2, EngineCancelOrderStep, TakesHead DEF EngineCancelOrder, main_vars
<1>3. CASE EngineSerialization
  BY <1>3, EngineSerializationStep, TakesHead
  DEF EngineSerialization, main_vars, engine_vars, book_vars
<1>4. CASE EngineMatch \/ EngineFinish
  <2>1. /\ ~panicked /\ (panicked' \/ to_engine' = to_engine)
        /\ UNCHANGED <<log, state, replayed, handler, taken>>
    BY <1>4, BookMatch, BookFinish DEF EngineMatch, EngineFinish, Receiver, main_vars
  <2> QED BY <2>1 DEF OnTheWay, Routed
<1>5. CASE Die
  BY <1>5 DEF Die, OnTheWay, Routed
<1>6. CASE Start \/ BecomeRunning
  <2>1. UNCHANGED <<log, to_engine, taken, panicked, replayed, handler>>
    BY <1>6 DEF Start, BecomeRunning, engine_vars, book_vars
  <2>2. Routed' = Routed /\ state # "loading"
    BY <1>6, <2>1 DEF Start, BecomeRunning, Routed
  <2> QED BY <2>1, <2>2, SameOnTheWay
<1>7. CASE ReplayMessage
  <2>1. /\ Routed = replayed /\ Routed' = replayed + 1 /\ replayed + 1 <= Len(log)
        /\ state = "replaying" /\ state' = state /\ ~panicked
        /\ to_engine' = Append(to_engine, log[Routed + 1])
        /\ UNCHANGED <<log, taken, panicked>>
    BY <1>7 DEF ReplayMessage, Routed, engine_vars, book_vars, TypeOK
  <2> QED BY <2>1, RoutesOne
<1>8. CASE FinishReplay
  <2>1. /\ state = "replaying" /\ state' = "loading" /\ replayed = Len(log) /\ handler = None
        /\ ~panicked /\ to_engine' = Append(to_engine, SerializationMessage)
        /\ UNCHANGED <<log, taken, panicked, replayed, handler>>
    BY <1>8 DEF FinishReplay, engine_vars, book_vars, Phases
  <2>2. Routed = Len(log) /\ Routed' = Len(log)
    BY <2>1 DEF Routed
  <2>3. /\ Len(to_engine) = Routed - taken /\ Routed - taken \in Nat
        /\ \A i \in 1 .. Routed - taken : to_engine[i] = log[taken + i]
    BY <2>1, RoutedBound DEF OnTheWay, TypeOK
  <2>4. /\ Len(to_engine') = Len(to_engine) + 1
        /\ \A i \in 1 .. Len(to_engine) : to_engine'[i] = to_engine[i]
        /\ to_engine'[Len(to_engine) + 1] = SerializationMessage
    BY <2>1, AppendProperties DEF TypeOK
  <2> QED BY <2>1, <2>2, <2>3, <2>4 DEF OnTheWay
<1>9. ASSUME NEW m \in Logged, Logs(m)
      PROVE  OnTheWay'
  <2>1. /\ Routed' = Routed /\ state # "loading" /\ UNCHANGED <<to_engine, taken, panicked, state>>
        /\ Routed = Len(log) /\ Len(log) \in Nat /\ DOMAIN log = 1 .. Len(log)
        /\ \A n \in DOMAIN log : log'[n] = log[n]
    BY <1>9, NoneAssumption DEF Logs, Routed, engine_vars, book_vars, TypeOK, Handling
  <2>2. taken \in Nat
    BY DEF TypeOK
  <2>3. \A i \in 1 .. Routed - taken : taken + i \in DOMAIN log
    BY <2>1, <2>2
  <2> QED BY <2>1, <2>2, <2>3 DEF OnTheWay
<1>10. CASE Route
  <2>1. CASE panicked
    BY <1>10, <2>1 DEF Route, OnTheWay, engine_vars, book_vars
  <2>2. CASE ~panicked
    <3>1. /\ state = "running" /\ state' = state /\ handler.at = "logged" /\ handler # None
          /\ to_engine' = Append(to_engine, log[Len(log)])
          /\ UNCHANGED <<log, taken, panicked>>
      BY <1>10, <2>2 DEF Route, Phases, engine_vars, book_vars
    <3>2. handler' = None \/ handler'.at = "routed"
      BY <1>10, <2>2 DEF Route, TypeOK, Handling
    <3>3. Routed = Len(log) - 1 /\ Routed' = Len(log)
      BY <3>1, <3>2 DEF Routed
    <3> QED BY <2>2, <3>1, <3>3, RoutesOne, RoutedBound
  <2> QED BY <2>1, <2>2
<1>11. CASE Register
  <2>1. /\ Routed' = Routed /\ state # "loading"
        /\ UNCHANGED <<log, to_engine, taken, panicked>>
    BY <1>11 DEF Register, Routed, Phases, engine_vars, book_vars
  <2> QED BY <2>1, SameOnTheWay
<1>12. CASE \/ PublishExecution \/ PublishAck \/ UNCHANGED vars
            \/ LogFails
            \/ \E id \in Id : Reply(id) \/ HangUp(id)
            \/ \E user \in Users : Subscribe(user) \/ Unsubscribe(user)
  <2>1. UNCHANGED <<log, to_engine, taken, panicked, state, handler, replayed>>
    BY <1>12 DEF LogFails, PublishExecution, PublishAck, Reply, HangUp, Subscribe, Unsubscribe, vars,
                 main_vars, engine_vars, book_vars
  <2> QED BY <2>1, SameOnTheWay DEF Routed
<1>13. CASE NotifySerialization
  <2>1. /\ UNCHANGED <<log, to_engine, taken, panicked, handler, replayed>>
        /\ state \in {"loading", "synced", "running"} /\ state' = "synced"
        /\ to_main # <<>> /\ Head(to_main).type = "Serialized" /\ to_main' = Tail(to_main)
    BY <1>13 DEF NotifySerialization, engine_vars, book_vars
  <2>2. ~(state = "loading" /\ ~panicked /\ Len(to_engine) > Routed - taken)
    BY <2>1, MainChannelTail DEF OneAnswer, NoAnswer, Answers
  <2>3. Routed' = Routed
    BY <2>1 DEF Routed
  <2>4. state = "loading" => panicked \/ Len(to_engine) = Routed - taken
    BY <2>2, RoutedBound DEF OnTheWay, TypeOK
  <2> QED BY <2>1, <2>3, <2>4, SameOnTheWay
<1> QED
  BY <1>1, <1>2, <1>3, <1>4, <1>5, <1>6, <1>7, <1>8, <1>9, <1>10, <1>11, <1>12, <1>13,
     Steps

LEMMA NextKeepsOneAnswer ==
    ASSUME TypeOK, BookInv, Phases, OnTheWay, OneAnswer, [Next]_vars
    PROVE  OneAnswer'
<1>1. ASSUME UNCHANGED to_main, NoAnswer' => NoAnswer
      PROVE  OneAnswer'
  BY <1>1 DEF OneAnswer, Answers
<1>2. ASSUME taken' = taken + 1, taken + 1 \in 1 .. Routed, to_engine # <<>>,
             to_engine' = Tail(to_engine), UNCHANGED <<log, state, handler, replayed>>, ~panicked
      PROVE  NoAnswer' => NoAnswer
  <2>1. Len(to_engine') = Len(to_engine) - 1 /\ Len(to_engine) \in Nat
    BY <1>2, HeadTailProperties DEF TypeOK
  <2>2. Routed' = Routed /\ Routed \in Nat /\ taken \in Nat
    BY <1>2, RoutedBound DEF Routed, TypeOK
  <2> QED BY <1>2, <2>1, <2>2 DEF NoAnswer
<1>3. CASE EngineNewOrder
  BY <1>1, <1>2, <1>3, EngineNewOrderStep DEF EngineNewOrder, main_vars
<1>4. CASE EngineCancelOrder
  BY <1>1, <1>2, <1>4, EngineCancelOrderStep DEF EngineCancelOrder, main_vars
<1>5. CASE EngineSerialization
  <2>1. /\ state = "loading" /\ taken = Len(log) /\ Len(to_engine) = 1 /\ ~panicked
        /\ to_engine' = Tail(to_engine) /\ UNCHANGED <<taken, state, log, handler, replayed>>
    BY <1>5, EngineSerializationStep DEF EngineSerialization, engine_vars, main_vars
  <2>2. Len(to_engine') = 0
    BY <2>1, HeadTailProperties DEF TypeOK
  <2>3. Routed' = Len(log) /\ Routed = Len(log) /\ Len(log) \in Nat /\ taken \in Nat
    BY <2>1 DEF Routed, Phases, TypeOK
  <2>4. ~NoAnswer' /\ NoAnswer
    <3>1. (Routed - taken)' = 0 /\ Routed - taken = 0
      BY <2>1, <2>3
    <3>2. ~(Len(to_engine) > Routed - taken)'
      BY <2>2, <3>1
    <3> QED BY <2>1, <3>1, <3>2 DEF NoAnswer
  <2>5. Answers = {}
    BY <2>4 DEF OneAnswer
  <2>6. /\ to_main \in Seq(SessionMessage)
        /\ to_main' = Append(to_main, [type |-> "Serialized"])
    BY <1>5 DEF EngineSerialization, TypeOK
  <2>7. \A i \in DOMAIN to_main' : i # Len(to_main) + 1 =>
           i \in DOMAIN to_main /\ to_main'[i] = to_main[i]
    BY <2>6
  <2> QED BY <2>4, <2>5, <2>7 DEF OneAnswer, Answers
<1>6. CASE EngineFinish
  <2>1. /\ UNCHANGED <<log, state, handler, replayed, taken>> /\ ~panicked
        /\ panicked' \/ to_engine' = to_engine
    BY <1>6, EngineFinishStep DEF EngineFinish, main_vars
  <2>2. NoAnswer' => NoAnswer
    BY <2>1 DEF NoAnswer, Routed
  <2>3. \A i \in DOMAIN to_main' : \/ i \in DOMAIN to_main /\ to_main'[i] = to_main[i]
                                  \/ to_main'[i].type \in {"Execution", "Ack"}
    BY <1>6, FinishMessages
  <2> QED BY <2>2, <2>3 DEF OneAnswer, Answers
<1>7. ASSUME to_main # <<>>, to_main' = Tail(to_main)
      PROVE  /\ 1 \in DOMAIN to_main /\ Head(to_main) = to_main[1]
             /\ \A i \in Answers' : i \in Nat \ {0} /\ i + 1 \in Answers
  BY <1>7, MainChannelTail DEF Answers
<1>8. CASE PublishExecution \/ PublishAck
  <2>1. /\ to_main # <<>> /\ to_main' = Tail(to_main)
        /\ UNCHANGED <<log, state, handler, replayed, taken, panicked, to_engine>>
    BY <1>8 DEF PublishExecution, PublishAck, main_vars, engine_vars, book_vars
  <2>2. NoAnswer' => NoAnswer
    BY <2>1 DEF NoAnswer, Routed
  <2> QED BY <1>7, <2>1, <2>2 DEF OneAnswer
<1>9. CASE NotifySerialization
  <2>1. to_main # <<>> /\ to_main' = Tail(to_main) /\ Head(to_main).type = "Serialized"
    BY <1>9 DEF NotifySerialization
  <2>2. 1 \in Answers
    BY <1>7, <2>1 DEF Answers
  <2> QED BY <1>7, <2>1, <2>2 DEF OneAnswer
<1>10. CASE EngineMatch
  <2>1. /\ UNCHANGED <<log, state, handler, replayed, taken, to_main>>
        /\ panicked' \/ (to_engine' = to_engine /\ ~panicked)
    BY <1>10, BookMatch DEF EngineMatch, Receiver, main_vars
  <2>2. NoAnswer' => NoAnswer
    BY <2>1 DEF NoAnswer, Routed
  <2> QED BY <1>1, <2>1, <2>2
<1>11. CASE \/ Start \/ ReplayMessage \/ FinishReplay \/ BecomeRunning \/ Route \/ Register
            \/ \E m \in Logged : Logs(m)
  <2>1. UNCHANGED to_main /\ state # "loading"
    BY <1>11 DEF Start, ReplayMessage, FinishReplay, BecomeRunning, Route, Register, Phases, Logs
  <2> QED BY <1>1, <2>1 DEF NoAnswer
<1>12. CASE \/ LogFails \/ UNCHANGED vars
            \/ \E id \in Id : Reply(id) \/ HangUp(id)
            \/ \E user \in Users : Subscribe(user) \/ Unsubscribe(user)
  <2>1. UNCHANGED <<to_main, to_engine, state, log, handler, replayed, taken, panicked>>
    BY <1>12 DEF LogFails, Reply, HangUp, Subscribe, Unsubscribe, vars, main_vars,
                 engine_vars, book_vars
  <2>2. NoAnswer' => NoAnswer
    BY <2>1 DEF NoAnswer, Routed
  <2> QED BY <1>1, <2>1, <2>2
<1>13. CASE Die
  BY <1>13 DEF Die, OneAnswer, Answers
<1> QED
  BY <1>3, <1>4, <1>5, <1>6, <1>8, <1>9, <1>10, <1>11, <1>12, <1>13, Steps

LEMMA NextKeepsPhases ==
    ASSUME TypeOK, BookInv, Phases, OnTheWay, OneAnswer, [Next]_vars
    PROVE  Phases'
<1> DEFINE Waiting == \A id \in Id : pending[id] # "none" =>
                         /\ state = "running"
                         /\ \E n \in replayed + 1 .. Len(log) : OrderAt(n, id)
           Handles == handler # None =>
                         /\ state = "running"
                         /\ replayed < Len(log) /\ handler.msg = log[Len(log)]
                         /\ handler.at = "routed" => handler.msg.type = "NewOrder"
<1>0. Waiting /\ Handles /\ (panicked => to_engine = <<>>)
  BY DEF Phases
<1>1. replayed \in Nat /\ Len(log) \in Nat /\ replayed <= Len(log)
  BY DEF TypeOK
<1>2. ASSUME UNCHANGED <<replayed, pending, state>> PROVE Waiting'
  <2> SUFFICES ASSUME NEW id \in Id, pending[id] # "none"
               PROVE  state = "running" /\ \E n \in replayed + 1 .. Len(log') : OrderAt(n, id)'
    BY <1>2
  <2>1. PICK n \in replayed + 1 .. Len(log) : OrderAt(n, id)
    BY <1>0
  <2>2. n \in replayed + 1 .. Len(log') /\ OrderAt(n, id)'
    BY <1>1, <2>1, LogGrows
  <2> QED BY <1>0, <2>2
<1>3. ASSUME UNCHANGED <<log, replayed, handler, state, pending>>,
             panicked' => to_engine' = <<>>
      PROVE  Phases'
  BY <1>0, <1>2, <1>3 DEF Phases
<1>4. CASE EngineNewOrder
  BY <1>3, <1>4, EngineNewOrderStep DEF EngineNewOrder, main_vars
<1>5. CASE EngineCancelOrder
  BY <1>3, <1>5, EngineCancelOrderStep DEF EngineCancelOrder, main_vars
<1>6. CASE EngineSerialization
  BY <1>3, <1>6, EngineSerializationStep DEF EngineSerialization, main_vars, engine_vars, book_vars
<1>7. CASE EngineMatch \/ EngineFinish
  BY <1>3, <1>7 DEF EngineMatch, EngineFinish, Receiver, main_vars
<1>8. CASE Die
  <2>1. handler' = None /\ pending' = [id \in Id |-> "none"] /\ to_engine' = <<>>
    BY <1>8 DEF Die
  <2> QED BY <2>1 DEF Phases
<1>9. CASE Start \/ ReplayMessage \/ FinishReplay \/ BecomeRunning
  <2>1. /\ handler = None /\ \A id \in Id : pending[id] = "none"
    BY <1>0, <1>9 DEF Start, ReplayMessage, FinishReplay, BecomeRunning
  <2>2. UNCHANGED <<handler, pending, panicked>> /\ (panicked => to_engine' = to_engine)
    BY <1>9 DEF Start, ReplayMessage, FinishReplay, BecomeRunning, engine_vars, book_vars
  <2> QED BY <1>0, <2>1, <2>2 DEF Phases
<1>10. ASSUME NEW m \in Logged, Logs(m)
       PROVE  Phases'
  <2>1. Waiting'
    BY <1>2, <1>10 DEF Logs
  <2>2. /\ state' = "running" /\ replayed' < Len(log') /\ handler'.msg = log'[Len(log')]
        /\ handler'.at = "logged" /\ UNCHANGED <<to_engine, panicked>>
    BY <1>1, <1>10 DEF Logs, engine_vars, book_vars
  <2> QED BY <1>0, <2>1, <2>2 DEF Phases
<1>11. CASE Route
  <2>1. Waiting'
    BY <1>2, <1>11 DEF Route
  <2>2. /\ handler # None /\ handler \in Handling /\ UNCHANGED <<panicked, state, replayed, log>>
        /\ panicked => to_engine' = to_engine
        /\ \/ handler' = None
           \/ handler.msg.type = "NewOrder" /\ handler' = [handler EXCEPT !.at = "routed"]
    BY <1>11 DEF Route, engine_vars, book_vars, TypeOK
  <2>3. Handles'
    BY <1>0, <2>2 DEF Handling
  <2> QED BY <1>0, <2>1, <2>2, <2>3 DEF Phases
<1>12. CASE Register
  <2>1. /\ handler # None /\ handler.at = "routed" /\ handler' = None
        /\ pending' = [pending EXCEPT ![handler.msg.id] = "waiting"]
        /\ UNCHANGED <<log, state, replayed, to_engine, panicked>>
    BY <1>12 DEF Register, engine_vars, book_vars
  <2>2. /\ state = "running" /\ Len(log) \in replayed + 1 .. Len(log)
        /\ OrderAt(Len(log), handler.msg.id)
    BY <1>0, <1>1, <2>1 DEF OrderAt, TypeOK
  <2>3. handler.msg.id \in Id /\ pending \in [Id -> {"none", "waiting", "acked"}]
    BY <1>0, <2>1 DEF TypeOK, Handling, Logged
  <2>4. Waiting'
    <3> SUFFICES ASSUME NEW id \in Id, pending'[id] # "none"
                 PROVE  state = "running" /\ \E n \in replayed + 1 .. Len(log) : OrderAt(n, id)
      BY <2>1 DEF OrderAt
    <3>1. CASE id = handler.msg.id
      BY <2>2, <3>1
    <3>2. CASE id # handler.msg.id
      BY <1>0, <2>1, <2>3, <3>2
    <3> QED BY <3>1, <3>2
  <2> QED BY <1>0, <2>1, <2>4 DEF Phases
<1>13. CASE \/ \E id \in Id : Reply(id) \/ HangUp(id)
            \/ PublishAck \/ NotifySerialization
  <2>1. UNCHANGED <<log, replayed, handler, to_engine, panicked>>
    BY <1>13 DEF Reply, HangUp, PublishAck, NotifySerialization, engine_vars, book_vars
  <2>2. \A id \in Id : pending'[id] # "none" => pending[id] # "none"
    BY <1>13 DEF Reply, HangUp, PublishAck, NotifySerialization, TypeOK
  <2>3. state' = state \/ (state' = "synced" /\ state # "running" /\ handler = None)
    <3>1. CASE NotifySerialization
      <4>1. 1 \in Answers
        BY <3>1, MainChannelTail DEF NotifySerialization, Answers
      <4> QED BY <3>1, <4>1 DEF NotifySerialization, OneAnswer, NoAnswer
    <3> QED BY <1>13, <3>1 DEF Reply, HangUp, PublishAck
  <2>4. Waiting'
    BY <1>0, <2>1, <2>2, <2>3 DEF OrderAt
  <2>5. Handles'
    BY <1>0, <2>1, <2>3
  <2> QED BY <1>0, <2>1, <2>4, <2>5 DEF Phases
<1>14. CASE \/ LogFails \/ UNCHANGED vars \/ PublishExecution
            \/ \E user \in Users : Subscribe(user) \/ Unsubscribe(user)
  <2>1. UNCHANGED <<log, replayed, handler, state, pending, to_engine, panicked>>
    BY <1>14 DEF LogFails, PublishExecution, Subscribe, Unsubscribe, vars, main_vars,
                 engine_vars, book_vars
  <2> QED BY <1>0, <1>3, <2>1
<1> QED
  BY <1>4, <1>5, <1>6, <1>7, <1>8, <1>9, <1>10, <1>11, <1>12, <1>13, <1>14, Steps

------------------------------------------------------------------------------
(***************************************************************************)
(* The theorems.                                                           *)
(***************************************************************************)

LEMMA FollowsLog ==
    ASSUME TypeOK, OnTheWay
    PROVE  EngineFollowsLog
<1> SUFFICES ASSUME state # "down", ~panicked
             PROVE  LET between == SubSeq(log, taken + 1, Routed)
                    IN  \/ to_engine = between
                        \/ /\ state = "loading"
                           /\ to_engine = Append(between, SerializationMessage)
  <2>1. state # "down" =>
           Routed = IF state = "replaying" THEN replayed
                    ELSE IF handler # None /\ handler.at = "logged" THEN Len(log) - 1
                    ELSE Len(log)
    BY DEF Routed
  <2> QED BY <2>1 DEF EngineFollowsLog
<1> DEFINE between == SubSeq(log, taken + 1, Routed)
           n == Routed - taken
<1>1. /\ log \in Seq(Logged) /\ to_engine \in Seq(Logged \cup {SerializationMessage})
      /\ taken \in Nat /\ Len(to_engine) \in Nat
  BY DEF TypeOK
<1>2. /\ n >= 0 /\ \A i \in 1 .. n : to_engine[i] = log[taken + i]
      /\ \/ Len(to_engine) = n
         \/ state = "loading" /\ Len(to_engine) = n + 1 /\ to_engine[n + 1] = SerializationMessage
  BY DEF OnTheWay
<1>3. Routed \in Int /\ Routed <= Len(log) /\ Len(log) \in Nat
  BY <1>1, <1>2 DEF TypeOK, Routed
<1>4. \A i \in taken + 1 .. Routed : log[i] \in Logged
  BY <1>1, <1>3, ElementOfSeq
<1>5. between \in Seq(Logged) /\ Len(between) = n
  BY <1>1, <1>2, <1>3, <1>4, SubSeqProperties
<1>6. \A i \in 1 .. n : between[i] = to_engine[i]
  BY <1>1, <1>2, <1>3, <1>4, SubSeqProperties
<1> HIDE DEF between, n
<1>7. CASE Len(to_engine) = n
  BY <1>1, <1>5, <1>6, <1>7, SeqEqual DEF between
<1>8. CASE /\ state = "loading" /\ Len(to_engine) = n + 1
           /\ to_engine[n + 1] = SerializationMessage
  <2> DEFINE A == Logged \cup {SerializationMessage}
             more == Append(between, SerializationMessage)
  <2>1. between \in Seq(A) /\ SerializationMessage \in A /\ n \in Nat
    BY <1>1, <1>2, <1>5
  <2> HIDE DEF A
  <2>2. /\ more \in Seq(A) /\ Len(more) = n + 1 /\ more[n + 1] = SerializationMessage
        /\ \A i \in 1 .. n : more[i] = between[i]
    BY <1>5, <2>1, AppendProperties
  <2> HIDE DEF more
  <2>3. \A i \in 1 .. n + 1 : to_engine[i] = more[i]
    BY <1>6, <1>8, <2>1, <2>2
  <2>4. to_engine \in Seq(A)
    BY <1>1 DEF A
  <2>5. to_engine = more
    BY <1>8, <2>2, <2>3, <2>4, SeqEqual
  <2> QED BY <1>8, <2>5 DEF between, more
<1> QED BY <1>2, <1>7, <1>8

THEOREM Invariance == Spec => []IInv
<1>1. Init => IInv
  BY InitTypeOK, PhasesInit DEF IInv
<1>2. IInv /\ [Next]_vars => IInv'
  BY NextKeepsTypeOK, NextKeepsOnTheWay, NextKeepsOneAnswer, NextKeepsPhases DEF IInv
<1> QED BY <1>1, <1>2, PTL DEF Spec

\* The state stays within the types of the code: the engine never takes more than
\* the log holds, the sessions' requests are of their kinds, and every execution
\* on its way to the clients names two orders that were entered and their owners.
THEOREM TypesHold == Spec => []TypeOK
<1>1. IInv => TypeOK
  BY DEF IInv
<1> QED BY <1>1, Invariance, PTL

\* For any number of orders, users and restarts: what the engine has taken, what is
\* in its channel and what the handler has yet to route are the log in its order,
\* and the serialization point of the replay is behind all of it.
THEOREM EngineFollows == Spec => []EngineFollowsLog
<1>1. IInv => EngineFollowsLog
  BY FollowsLog DEF IInv
<1> QED BY <1>1, Invariance, PTL

------------------------------------------------------------------------------
(***************************************************************************)
(* The orders, over all restarts: their ids are issued once, the engine    *)
(* knows the orders of the log that it has taken, and an order that was    *)
(* cancelled does not come back.                                           *)
(***************************************************************************)

\* The router is ahead of all ids that have been routed.
RouterAhead ==
    \A n \in DOMAIN log :
        /\ log[n].type = "NewOrder"
        /\ state \in {"loading", "synced", "running"} \/ n <= replayed
        => log[n].id.seq < next_seq

\* The engine's orders are those of the entries it has taken, and the one in its
\* hand is of the last of them.
OrdersOfLog ==
    /\ taker # None => OrderAt(taken, taker.id)
    /\ \A id \in Id : submitted[id] # None =>
          \E n \in 1 .. taken : OrderAt(n, id) /\ log[n].user = submitted[id].user

\* Of CancelSticks: nor is the order in the matcher's hand.
CancelsStick ==
    \A m, n \in 1 .. taken :
        /\ m < n /\ log[m].type = "NewOrder" /\ log[n].type = "CancelOrder"
        /\ log[n].id = log[m].id /\ log[n].user = log[m].user
        => book[log[m].id] = None /\ (taker # None => taker.id # log[m].id)

OrdersInv == IdsIssuedOnce /\ RouterAhead /\ OrdersOfLog /\ CancelsStick

------------------------------------------------------------------------------
\* The entries of the log are of their types.
LEMMA Entries ==
    ASSUME TypeOK
    PROVE  /\ DOMAIN log = 1 .. Len(log) /\ Len(log) \in Nat
           /\ taken \in 0 .. Len(log) /\ replayed \in 0 .. Len(log) /\ next_seq \in Nat
           /\ \A n \in DOMAIN log :
                 /\ log[n] \in Logged /\ log[n].type \in {"NewOrder", "CancelOrder"}
                 /\ log[n].id \in Id /\ log[n].id.seq \in Nat /\ log[n].user \in Users
<1>1. log \in Seq(Logged) /\ DOMAIN log = 1 .. Len(log) /\ Len(log) \in Nat
  BY DEF TypeOK
<1>2. \A n \in DOMAIN log : log[n] \in Logged
  BY <1>1, ElementOfSeq
<1>3. ASSUME NEW e \in Logged
      PROVE  /\ e.type \in {"NewOrder", "CancelOrder"}
             /\ e.id \in Id /\ e.id.seq \in Nat /\ e.user \in Users
  BY ServerAssumption DEF Logged, Id
<1> QED BY <1>1, <1>2, <1>3 DEF TypeOK

\* The steps, by what they do to the router.
LEMMA RouterSteps ==
    ASSUME TypeOK, Phases, [Next]_vars
    PROVE  \/ UNCHANGED <<log, state, replayed, next_seq>>
           \/ Die
           \/ Start \/ ReplayMessage \/ FinishReplay \/ BecomeRunning \/ NotifySerialization
           \/ LogFails \/ \E m \in Logged : Logs(m)
<1>1. CASE \/ EngineNewOrder \/ EngineCancelOrder \/ EngineSerialization
           \/ EngineMatch \/ EngineFinish
  BY <1>1 DEF EngineNewOrder, EngineCancelOrder, EngineSerialization, EngineMatch,
              EngineFinish, main_vars
<1>2. CASE Route \/ Register \/ PublishExecution \/ PublishAck \/ UNCHANGED vars
  BY <1>2 DEF Route, Register, PublishExecution, PublishAck, vars, main_vars
<1>3. CASE \/ \E id \in Id : Reply(id) \/ HangUp(id)
           \/ \E user \in Users : Subscribe(user) \/ Unsubscribe(user)
  BY <1>3 DEF Reply, HangUp, Subscribe, Unsubscribe
<1> QED BY <1>1, <1>2, <1>3, Steps

LEMMA NextKeepsIds ==
    ASSUME TypeOK, Phases, IdsIssuedOnce, RouterAhead, [Next]_vars
    PROVE  IdsIssuedOnce' /\ RouterAhead'
<1>1. CASE UNCHANGED <<log, state, replayed, next_seq>>
  BY <1>1 DEF IdsIssuedOnce, RouterAhead
<1>2. CASE Die
  BY <1>2, Entries DEF Die, IdsIssuedOnce, RouterAhead
<1>3. CASE Start \/ BecomeRunning \/ NotifySerialization
  BY <1>3 DEF Start, BecomeRunning, NotifySerialization, IdsIssuedOnce, RouterAhead
<1>4. CASE FinishReplay
  BY <1>4, Entries DEF FinishReplay, IdsIssuedOnce, RouterAhead
<1>5. CASE ReplayMessage
  <2>1. /\ UNCHANGED <<log, state>> /\ replayed' = replayed + 1 /\ state = "replaying"
        /\ replayed + 1 \in DOMAIN log
        /\ next_seq' = IF /\ log[replayed + 1].type = "NewOrder"
                          /\ log[replayed + 1].id.seq >= next_seq
                       THEN log[replayed + 1].id.seq + 1 ELSE next_seq
    BY <1>5, Entries DEF ReplayMessage
  <2>2. ASSUME NEW n \in DOMAIN log, log[n].type = "NewOrder", n <= replayed + 1
        PROVE  log[n].id.seq < next_seq'
    <3>1. CASE n = replayed + 1
      BY <2>1, <2>2, <3>1, Entries
    <3>2. CASE n # replayed + 1
      <4>1. n <= replayed
        BY <2>2, <3>2, Entries
      <4>2. log[n].id.seq < next_seq
        BY <2>2, <4>1 DEF RouterAhead
      <4>3. next_seq' >= next_seq
        BY <2>1, Entries
      <4>4. next_seq' \in Nat /\ next_seq \in Nat /\ log[n].id.seq \in Nat
        BY <2>1, Entries
      <4> QED BY <4>2, <4>3, <4>4
    <3> QED BY <3>1, <3>2
  <2> QED BY <2>1, <2>2 DEF IdsIssuedOnce, RouterAhead
<1>6. CASE LogFails
  BY <1>6, Entries DEF LogFails, IdsIssuedOnce, RouterAhead
<1>7. ASSUME NEW m \in Logged, Logs(m)
      PROVE  IdsIssuedOnce' /\ RouterAhead'
  <2> DEFINE k == Len(log) + 1
  <2>1. /\ state = "running" /\ log'[k] = m
        /\ m.type = "NewOrder" => m.id.seq = next_seq /\ next_seq' = next_seq + 1
        /\ m.type # "NewOrder" => next_seq' = next_seq
        /\ Len(log') = k
    BY <1>7 DEF Logs
  <2>2. \A n \in DOMAIN log' : n = k \/ (n \in DOMAIN log /\ log'[n] = log[n])
    BY <1>7, <2>1, Entries, LogGrows
  <2>3. \A n \in DOMAIN log : log[n].type = "NewOrder" => log[n].id.seq < next_seq
    BY <2>1 DEF RouterAhead
  <2>4. \A n \in DOMAIN log' : log'[n].type = "NewOrder" =>
           \/ n = k /\ log'[n].id.seq = next_seq /\ next_seq' = next_seq + 1
           \/ n \in DOMAIN log /\ log'[n] = log[n] /\ log'[n].id.seq < next_seq
    BY <2>1, <2>2, <2>3
  <2>5. next_seq \in Nat /\ \A n \in DOMAIN log : log[n].id.seq \in Nat
    BY Entries
  <2>6. next_seq' \in {next_seq, next_seq + 1}
    BY <2>1
  <2>7. IdsIssuedOnce'
    <3> SUFFICES ASSUME NEW i \in DOMAIN log', NEW j \in DOMAIN log', i # j,
                        log'[i].type = "NewOrder", log'[j].type = "NewOrder"
                 PROVE  log'[i].id.seq # log'[j].id.seq
      BY DEF IdsIssuedOnce
    <3>1. ASSUME NEW n \in DOMAIN log', log'[n].type = "NewOrder", n # k
          PROVE  log'[n].id.seq # next_seq
      BY <2>4, <2>5, <3>1
    <3>2. CASE i = k
      BY <2>1, <3>1, <3>2
    <3>3. CASE j = k
      BY <2>1, <3>1, <3>3
    <3>4. CASE i # k /\ j # k
      BY <2>2, <3>4 DEF IdsIssuedOnce
    <3> QED BY <3>2, <3>3, <3>4
  <2>8. RouterAhead'
    BY <2>4, <2>5, <2>6 DEF RouterAhead
  <2> QED BY <2>7, <2>8
<1> QED BY <1>1, <1>2, <1>3, <1>4, <1>5, <1>6, <1>7, RouterSteps

------------------------------------------------------------------------------
\* The steps, by what they do to the engine.
LEMMA EngineSteps ==
    ASSUME TypeOK, [Next]_vars
    PROVE  \/ EngineNewOrder \/ EngineCancelOrder \/ EngineMatch \/ EngineFinish
           \/ Die
           \/ UNCHANGED engine_vars
<1>1. CASE EngineSerialization \/ PublishExecution \/ PublishAck \/ NotifySerialization
  BY <1>1 DEF EngineSerialization, PublishExecution, PublishAck, NotifySerialization
<1>2. CASE \/ Start \/ ReplayMessage \/ FinishReplay \/ BecomeRunning \/ LogFails
           \/ Route \/ Register \/ UNCHANGED vars
  BY <1>2 DEF Start, ReplayMessage, FinishReplay, BecomeRunning, LogFails, Route, Register,
              vars
<1>3. CASE \/ \E m \in Logged : Logs(m)
           \/ \E id \in Id : Reply(id) \/ HangUp(id)
           \/ \E user \in Users : Subscribe(user) \/ Unsubscribe(user)
  BY <1>3 DEF Logs, Reply, HangUp, Subscribe, Unsubscribe
<1> QED BY <1>1, <1>2, <1>3, Steps

\* No two entries are orders of one id.
LEMMA OneEntry ==
    ASSUME IdsIssuedOnce, NEW m, NEW n, NEW id, OrderAt(m, id), OrderAt(n, id)
    PROVE  m = n
BY DEF IdsIssuedOnce, OrderAt

\* An entry that is taken, and what it is in the next state.
LEMMA TakenStays ==
    ASSUME TypeOK, [Next]_vars, taken' \in {taken, taken + 1}
    PROVE  \A n \in 1 .. taken : /\ n \in DOMAIN log /\ n \in 1 .. taken'
                                 /\ n \in DOMAIN log' /\ log'[n] = log[n]
BY Entries, LogGrows

LEMMA NextKeepsOrdersOfLog ==
    ASSUME TypeOK, BookInv, Phases, OnTheWay, OrdersOfLog, [Next]_vars
    PROVE  OrdersOfLog'
<1>0. taken \in Nat
  BY Entries
<1>1. ASSUME taken' \in {taken, taken + 1}, UNCHANGED submitted
      PROVE  \A id \in Id : submitted'[id] # None =>
                \E n \in 1 .. taken' : OrderAt(n, id)' /\ log'[n].user = submitted'[id].user
  <2> SUFFICES ASSUME NEW id \in Id, submitted[id] # None
               PROVE  \E n \in 1 .. taken' : OrderAt(n, id)' /\ log'[n].user = submitted[id].user
    BY <1>1
  <2>1. PICK n \in 1 .. taken : OrderAt(n, id) /\ log[n].user = submitted[id].user
    BY DEF OrdersOfLog
  <2>2. n \in 1 .. taken' /\ log'[n] = log[n]
    BY <1>1, <2>1, TakenStays
  <2> QED BY <2>1, <2>2, LogGrows
<1>8. ASSUME taker # None, taken' = taken, taker'.id = taker.id
      PROVE  OrderAt(taken, taker.id)'
  <2>1. OrderAt(taken, taker.id)
    BY <1>8 DEF OrdersOfLog
  <2>2. taken \in DOMAIN log' /\ log'[taken] = log[taken]
    BY <2>1, LogGrows DEF OrderAt
  <2> QED BY <1>8, <2>1, <2>2 DEF OrderAt
<1>2. CASE EngineNewOrder
  <2> DEFINE m == log[taken + 1]
  <2>1. /\ taken + 1 \in 1 .. Routed /\ m.type = "NewOrder" /\ m.id \in Id
        /\ taken' = taken + 1 /\ taker'.id = m.id
    BY <1>2, EngineNewOrderStep
  <2>2. PICK o \in Book!Order : o.user = m.user /\ submitted' = [submitted EXCEPT ![m.id] = o]
    BY <1>2, EngineNewOrderStep
  <2>3. taken + 1 \in DOMAIN log /\ log' = log
    BY <1>2, <2>1, RoutedBound DEF EngineNewOrder, TypeOK
  <2>4. taken' \in DOMAIN log' /\ log'[taken'] = m
    BY <2>1, <2>3
  <2>5. submitted \in [Id -> Book!Order \cup {None}]
    BY IdsAreSides DEF BookInv, Book!TypeOK, Book!Ids
  <2>6. ASSUME NEW id \in Id, submitted'[id] # None
        PROVE  \E n \in 1 .. taken' : OrderAt(n, id)' /\ log'[n].user = submitted'[id].user
    <3>1. CASE id = m.id
      <4>1. taken' \in 1 .. taken' /\ submitted'[id].user = m.user
        BY <1>0, <2>1, <2>2, <2>5, <3>1
      <4> QED BY <2>1, <2>4, <3>1, <4>1 DEF OrderAt
    <3>2. CASE id # m.id
      <4>1. submitted'[id] = submitted[id]
        BY <2>1, <2>2, <2>5, <3>2
      <4>2. PICK n \in 1 .. taken : OrderAt(n, id) /\ log[n].user = submitted[id].user
        BY <2>6, <4>1 DEF OrdersOfLog
      <4>3. n \in 1 .. taken' /\ log'[n] = log[n] /\ OrderAt(n, id)'
        BY <2>1, <4>2, TakenStays, LogGrows
      <4> QED BY <4>1, <4>2, <4>3
    <3> QED BY <3>1, <3>2
  <2>7. OrderAt(taken, taker.id)'
    BY <2>1, <2>4 DEF OrderAt
  <2> QED BY <2>6, <2>7 DEF OrdersOfLog
<1>3. CASE EngineCancelOrder
  <2>1. taken' = taken + 1 /\ taker' = None /\ UNCHANGED submitted
    BY <1>3, EngineCancelOrderStep
  <2> QED BY <1>1, <2>1 DEF OrdersOfLog
<1>4. CASE EngineMatch
  <2>1. /\ taker # None /\ taker'.id = taker.id /\ UNCHANGED <<submitted, taken>>
    BY <1>4, BookMatch DEF EngineMatch
  <2>2. OrderAt(taken, taker.id)'
    BY <1>8, <2>1
  <2> QED BY <1>1, <2>1, <2>2 DEF OrdersOfLog
<1>5. CASE EngineFinish
  <2>1. taker # None /\ taker' \in {None, taker} /\ UNCHANGED <<submitted, taken>>
    BY <1>5, EngineFinishStep DEF EngineFinish
  <2>2. taker' # None => OrderAt(taken, taker.id)'
    BY <1>8, <2>1
  <2> QED BY <1>1, <2>1, <2>2 DEF OrdersOfLog
<1>6. CASE Die
  BY <1>6 DEF Die, OrdersOfLog, NoneOf
<1>7. CASE UNCHANGED engine_vars
  <2>1. UNCHANGED <<taken, taker, submitted>>
    BY <1>7 DEF engine_vars, book_vars
  <2>2. taker' # None => OrderAt(taken, taker.id)'
    BY <1>8, <2>1
  <2> QED BY <1>1, <2>1, <2>2 DEF OrdersOfLog
<1> QED BY <1>2, <1>3, <1>4, <1>5, <1>6, <1>7, EngineSteps

------------------------------------------------------------------------------
\* An entry of the log that cancels an earlier one, for its owner.
Cancels(n, m) == /\ m < n /\ log[m].type = "NewOrder" /\ log[n].type = "CancelOrder"
                 /\ log[n].id = log[m].id /\ log[n].user = log[m].user

LEMMA NextKeepsCancels ==
    ASSUME TypeOK, BookInv, Phases, OnTheWay, IdsIssuedOnce, OrdersOfLog, CancelsStick,
           [Next]_vars
    PROVE  CancelsStick'
<1>0. taken \in Nat /\ book \in [Id -> Book!Order \cup {None}]
  BY Entries, IdsAreSides DEF BookInv, Book!TypeOK, Book!Ids
<1>1. ASSUME taken' \in {taken, taken + 1}, taken' = taken + 1 => log'[taken'].type = "NewOrder",
             NEW m \in 1 .. taken', NEW n \in 1 .. taken', Cancels(n, m)'
      PROVE  /\ m \in DOMAIN log /\ log'[m] = log[m] /\ log[m].id \in Id
             /\ book[log[m].id] = None /\ (taker # None => taker.id # log[m].id)
             /\ m \in 1 .. taken
  <2>1. m \in 1 .. taken /\ n \in 1 .. taken
    BY <1>0, <1>1 DEF Cancels
  <2>2. Cancels(n, m) /\ m \in DOMAIN log /\ log'[m] = log[m]
    BY <1>1, <2>1, TakenStays DEF Cancels
  <2> QED BY <2>1, <2>2, Entries DEF CancelsStick, Cancels
<1>2. ASSUME \A m, n \in 1 .. taken' : Cancels(n, m)' =>
                 book'[log'[m].id] = None /\ (taker' # None => taker'.id # log'[m].id)
      PROVE  CancelsStick'
  BY <1>2 DEF CancelsStick, Cancels
<1>3. CASE EngineNewOrder
  <2>1. /\ taken + 1 \in 1 .. Routed /\ log[taken + 1].type = "NewOrder"
        /\ taken' = taken + 1 /\ taker'.id = log[taken + 1].id /\ UNCHANGED book
        /\ log' = log
    BY <1>3, EngineNewOrderStep DEF EngineNewOrder
  <2>2. taken + 1 \in DOMAIN log
    BY <2>1, RoutedBound, Entries
  <2>3. ASSUME NEW m \in 1 .. taken', NEW n \in 1 .. taken', Cancels(n, m)'
        PROVE  book'[log'[m].id] = None /\ taker'.id # log'[m].id
    <3>1. m \in 1 .. taken /\ m \in DOMAIN log /\ book[log[m].id] = None
      BY <1>1, <2>1, <2>3
    <3>2. log[m].type = "NewOrder" /\ m # taken + 1
      BY <1>0, <2>1, <2>3, <3>1 DEF Cancels
    <3>3. log[m].id # log[taken + 1].id
      BY <2>1, <2>2, <3>1, <3>2 DEF IdsIssuedOnce
    <3> QED BY <2>1, <3>1, <3>3
  <2> QED BY <1>2, <2>3
<1>4. CASE EngineCancelOrder
  <2> DEFINE c == log[taken + 1]
  <2>1. /\ taken + 1 \in 1 .. Routed /\ c.type = "CancelOrder" /\ c.id \in Id
        /\ taken' = taken + 1 /\ taker = None /\ taker' = None /\ log' = log
        /\ book' = IF book[c.id] # None /\ book[c.id].user = c.user
                   THEN [book EXCEPT ![c.id] = None] ELSE book
    BY <1>4, EngineCancelOrderStep DEF EngineCancelOrder
  <2>2. \A id \in Id : book[id] = None => book'[id] = None
    BY <1>0, <2>1
  <2>3. ASSUME NEW m \in 1 .. taken', NEW n \in 1 .. taken', Cancels(n, m)'
        PROVE  book'[log'[m].id] = None
    <3>1. m < n /\ n <= taken + 1
      BY <2>1, <2>3 DEF Cancels
    <3>2. m \in 1 .. taken /\ Cancels(n, m)
      BY <1>0, <2>1, <2>3, <3>1 DEF Cancels
    <3>3. m \in DOMAIN log /\ log[m].id \in Id
      BY <3>2, Entries
    <3>4. CASE n # taken + 1
      <4>1. n \in 1 .. taken
        BY <1>0, <2>1, <2>3, <3>4
      <4>2. book[log[m].id] = None
        BY <3>2, <4>1 DEF CancelsStick, Cancels
      <4> QED BY <2>1, <2>2, <3>3, <4>2
    <3>5. CASE n = taken + 1
      <4> DEFINE id == log[m].id
      <4>1. c.id = id /\ c.user = log[m].user /\ OrderAt(m, id)
        BY <3>2, <3>3, <3>5 DEF Cancels, OrderAt
      <4>2. CASE book[id] = None
        BY <2>1, <2>2, <3>3, <4>2
      <4>3. CASE book[id] # None
        <5>1. submitted[id] # None /\ book[id].user = submitted[id].user
          BY <3>3, <4>3, IdsAreSides
          DEF BookInv, Book!OneAtATime, Book!InBook, Book!SameTerms, Book!Ids
        <5>2. PICK k \in 1 .. taken : OrderAt(k, id) /\ log[k].user = submitted[id].user
          BY <3>3, <5>1 DEF OrdersOfLog
        <5>3. k = m
          BY <4>1, <5>2, OneEntry
        <5>4. book' = [book EXCEPT ![id] = None]
          BY <2>1, <4>1, <4>3, <5>1, <5>2, <5>3
        <5> QED BY <1>0, <2>1, <3>3, <5>4
      <4> QED BY <4>2, <4>3
    <3> QED BY <3>4, <3>5
  <2> QED BY <1>2, <2>1, <2>3
<1>5. CASE EngineMatch
  <2>1. /\ taker # None /\ taker'.id = taker.id /\ taken' = taken
        /\ \A id \in Id : book[id] = None => book'[id] = None
    BY <1>5, BookMatch DEF EngineMatch
  <2> QED BY <1>0, <1>1, <1>2, <2>1
<1>6. CASE EngineFinish
  <2>1. /\ taker # None /\ taker' \in {None, taker} /\ taken' = taken
        /\ book' \in {book, [book EXCEPT ![taker.id] = taker]}
    BY <1>6, EngineFinishStep DEF EngineFinish
  <2>2. ASSUME NEW m \in 1 .. taken', NEW n \in 1 .. taken', Cancels(n, m)'
        PROVE  book'[log'[m].id] = None /\ (taker' # None => taker'.id # log'[m].id)
    <3>1. /\ log'[m] = log[m] /\ log[m].id \in Id
          /\ book[log[m].id] = None /\ taker.id # log[m].id
      BY <1>0, <1>1, <2>1, <2>2
    <3> QED BY <1>0, <2>1, <3>1
  <2> QED BY <1>2, <2>2
<1>7. CASE Die
  BY <1>7 DEF Die, CancelsStick
<1>8. CASE UNCHANGED engine_vars
  <2>1. UNCHANGED <<taken, taker, book>>
    BY <1>8 DEF engine_vars, book_vars
  <2> QED BY <1>0, <1>1, <1>2, <2>1
<1> QED BY <1>3, <1>4, <1>5, <1>6, <1>7, <1>8, EngineSteps

------------------------------------------------------------------------------
THEOREM OrdersInvariance == Spec => []OrdersInv
<1>1. Init => OrdersInv
  BY IdsAreSides DEF Init, OrdersInv, IdsIssuedOnce, RouterAhead, OrdersOfLog, CancelsStick,
                     Book!Init, Book!Ids
<1>2. IInv /\ OrdersInv /\ [Next]_vars => OrdersInv'
  BY NextKeepsIds, NextKeepsOrdersOfLog, NextKeepsCancels DEF IInv, OrdersInv
<1> HIDE DEF IInv, OrdersInv
<1> QED BY <1>1, <1>2, Invariance, PTL DEF Spec

\* The log never holds two orders of one id, whatever fails to be logged and however
\* often the server is restarted: the router is ahead of every id in the log.
THEOREM IdsUnique == Spec => []IdsIssuedOnce
<1>1. OrdersInv => IdsIssuedOnce
  BY DEF OrdersInv
<1> QED BY <1>1, OrdersInvariance, PTL

\* A cancelled order is gone, and no restart brings it back.
THEOREM CancelsAreFinal == Spec => []CancelSticks
<1>1. OrdersInv => CancelSticks
  BY DEF OrdersInv, CancelsStick, CancelSticks
<1> QED BY <1>1, OrdersInvariance, PTL

\* The engine is never given an order whose id it has seen: new_order never turns
\* an order away as a duplicate, and Book!NewOrder's assumption on ids is met.
NeverSeen ==
    to_engine # <<>> /\ Head(to_engine).type = "NewOrder"
        => submitted[Head(to_engine).id] = None

THEOREM EngineSeesIdsOnce == Spec => []NeverSeen
<1>1. IInv /\ OrdersInv => NeverSeen
  <2> SUFFICES ASSUME IInv, OrdersInv, to_engine # <<>>, Head(to_engine).type = "NewOrder",
                      submitted[Head(to_engine).id] # None
               PROVE  FALSE
    BY DEF NeverSeen
  <2> DEFINE m == Head(to_engine)
  <2>1. taken + 1 \in 1 .. Routed /\ m = log[taken + 1] /\ m \in Logged
    BY HeadIsNext DEF IInv
  <2>2. taken + 1 \in DOMAIN log /\ taken \in Nat
    BY <2>1, RoutedBound, Entries DEF IInv
  <2>3. m.id \in Id /\ OrderAt(taken + 1, m.id)
    BY <2>1, <2>2, Entries DEF IInv, OrderAt
  <2>4. PICK n \in 1 .. taken : OrderAt(n, m.id)
    BY <2>3 DEF OrdersInv, OrdersOfLog
  <2>5. n = taken + 1
    BY <2>3, <2>4, OneEntry DEF OrdersInv
  <2> QED BY <2>2, <2>5
<1> QED BY <1>1, Invariance, OrdersInvariance, PTL
------------------------------------------------------------------------------
(***************************************************************************)
(* An order stays.  The book conserves quantity, whoever sends what; the   *)
(* orders taken are known to it as they were entered, and a cancel that it *)
(* has obeyed is one of the owner's in the log.                            *)
(***************************************************************************)

\* What the engine has taken as an order it has entered with these terms.
TakenAreEntered ==
    \A n \in 1 .. taken : log[n].type = "NewOrder" =>
        /\ submitted[log[n].id] # None
        /\ submitted[log[n].id].quantity = log[n].quantity

ByOwnersCancel ==
    \A id \in Id : cancelled_by[id] # None =>
        \E m, n \in 1 .. taken : Cancels(n, m) /\ log[m].id = id

StayInv == /\ BookThms!NothingEmptyRests /\ BookThms!Conservation
           /\ TakenAreEntered /\ ByOwnersCancel

\* The engine's steps are steps of the book.
LEMMA BookSteps ==
    ASSUME TypeOK, BookInv, Phases, OnTheWay, [Next]_vars
    PROVE  BookThms!Next \/ Die \/ UNCHANGED book_vars
<1>1. CASE EngineNewOrder
  <2> DEFINE m == Head(to_engine)
  <2>1. m.type = "NewOrder" /\ taken + 1 \in 1 .. Routed /\ m \in Logged /\ taken < MaxLog
    BY <1>1, HeadIsNext DEF EngineNewOrder
  <2>2. PICK t \in ClockReads :
           Book!NewOrder([id |-> m.id, user |-> m.user, price |-> m.price,
                          quantity |-> m.quantity, update |-> t])
    BY <1>1 DEF EngineNewOrder
  <2>3. t \in Times
    <3>1. taken + 1 \in 1 .. MaxLog
      BY <2>1, ServerAssumption DEF TypeOK
    <3> QED BY <3>1, ServerAssumption DEF ClockReads
  <2>4. /\ m.id \in BookThms!Ids /\ m.user \in Users /\ m.price \in Prices
        /\ m.quantity \in Quantities
    BY <2>1, IdsAreSides DEF Logged, BookThms!Ids
  <2> DEFINE o == [id |-> m.id, user |-> m.user, price |-> m.price,
                   quantity |-> m.quantity, update |-> t]
  <2>5. BookThms!NewOrder(o)
    BY <2>2 DEF Book!NewOrder, BookThms!NewOrder, Book!Idle, BookThms!Idle
  <2> QED BY <2>3, <2>4, <2>5 DEF BookThms!Next, BookThms!Request
<1>2. CASE EngineCancelOrder
  <2> DEFINE m == Head(to_engine)
  <2>1. m.type = "CancelOrder" /\ m \in Logged
    BY <1>2, HeadIsNext DEF EngineCancelOrder
  <2>2. m.id \in BookThms!Ids /\ m.user \in Users
    BY <2>1, IdsAreSides DEF Logged, BookThms!Ids
  <2>3. Book!CancelOrder(m.id, m.user) \/ UNCHANGED book_vars
    BY <1>2 DEF EngineCancelOrder
  <2>4. CASE Book!CancelOrder(m.id, m.user)
    <3>1. BookThms!CancelOrder(m.id, m.user)
      BY <2>4 DEF Book!CancelOrder, BookThms!CancelOrder, Book!Idle, BookThms!Idle
    <3> QED BY <2>2, <3>1 DEF BookThms!Next, BookThms!Request
  <2> QED BY <2>3, <2>4
<1>3. CASE EngineMatch
  <2>1. PICK m \in Book!Ids : Book!MatchOrder(m) \/ Book!PanicInMatch(m)
    BY <1>3 DEF EngineMatch, Book!Match
  <2> QED BY <2>1, SameMatch DEF BookThms!Next, BookThms!Match, Book!Ids, BookThms!Ids
<1>4. CASE EngineFinish
  BY <1>4, SameFinish DEF EngineFinish, Book!Finish, BookThms!Next, BookThms!Finish
<1>5. CASE UNCHANGED engine_vars
  BY <1>5 DEF engine_vars
<1> QED BY <1>1, <1>2, <1>3, <1>4, <1>5, EngineSteps

LEMMA NextKeepsQuantity ==
    ASSUME TypeOK, BookInv, Phases, OnTheWay, BookThms!NothingEmptyRests,
           BookThms!Conservation, [Next]_vars
    PROVE  BookThms!NothingEmptyRests' /\ BookThms!Conservation'
<1>1. CASE BookThms!Next
  BY <1>1, SameInvariants, BookAssumptions, BookThms!NextKeepsRest,
     BookThms!NextKeepsConservation DEF BookInv
<1>2. CASE UNCHANGED book_vars
  BY <1>2 DEF book_vars, BookThms!NothingEmptyRests, BookThms!Conservation,
              BookThms!Remaining, BookThms!InBook, BookThms!InHand
<1>3. CASE Die
  <2>1. \A id \in BookThms!Ids : book'[id] = None /\ submitted'[id] = None
    BY <1>3, IdsAreSides DEF Die, NoneOf, BookThms!Ids
  <2> QED BY <2>1 DEF BookThms!NothingEmptyRests, BookThms!Conservation, BookThms!InBook
<1> QED BY <1>1, <1>2, <1>3, BookSteps

LEMMA NextKeepsEntered ==
    ASSUME TypeOK, BookInv, Phases, OnTheWay, TakenAreEntered, [Next]_vars
    PROVE  TakenAreEntered'
<1>0. taken \in Nat /\ submitted \in [Id -> Book!Order \cup {None}]
  BY Entries, IdsAreSides DEF BookInv, Book!TypeOK, Book!Ids
<1>1. ASSUME taken' \in {taken, taken + 1}, UNCHANGED submitted,
             taken' = taken + 1 => log'[taken'].type = "CancelOrder"
      PROVE  TakenAreEntered'
  <2> SUFFICES ASSUME NEW n \in 1 .. taken', log'[n].type = "NewOrder"
               PROVE  /\ submitted[log'[n].id] # None
                      /\ submitted[log'[n].id].quantity = log'[n].quantity
    BY <1>1 DEF TakenAreEntered
  <2>1. n \in 1 .. taken
    BY <1>0, <1>1
  <2>2. log'[n] = log[n]
    BY <1>1, <2>1, TakenStays
  <2> QED BY <2>1, <2>2 DEF TakenAreEntered
<1>2. CASE EngineNewOrder
  <2> DEFINE m == log[taken + 1]
  <2>1. /\ m.type = "NewOrder" /\ m.id \in Id /\ submitted[m.id] = None
        /\ taken' = taken + 1 /\ log' = log
    BY <1>2, EngineNewOrderStep DEF EngineNewOrder
  <2>2. PICK o \in Book!Order : /\ o.quantity = m.quantity
                                /\ submitted' = [submitted EXCEPT ![m.id] = o]
    BY <1>2, EngineNewOrderStep
  <2>3. o # None
    BY NoneAssumption, <2>2
  <2> SUFFICES ASSUME NEW n \in 1 .. taken', log[n].type = "NewOrder"
               PROVE  /\ submitted'[log[n].id] # None
                      /\ submitted'[log[n].id].quantity = log[n].quantity
    BY <2>1 DEF TakenAreEntered
  <2>4. CASE n = taken + 1
    BY <1>0, <2>1, <2>2, <2>3, <2>4
  <2>5. CASE n # taken + 1
    <3>1. n \in 1 .. taken
      BY <1>0, <2>1, <2>5
    <3>2. submitted[log[n].id] # None /\ submitted[log[n].id].quantity = log[n].quantity
      BY <3>1 DEF TakenAreEntered
    <3>3. submitted'[log[n].id] = submitted[log[n].id]
      BY <1>0, <2>1, <2>2, <3>2
    <3> QED BY <3>2, <3>3
  <2> QED BY <2>4, <2>5
<1>3. CASE EngineCancelOrder
  <2>1. /\ taken + 1 \in 1 .. Routed /\ log[taken + 1].type = "CancelOrder"
        /\ taken' = taken + 1 /\ UNCHANGED <<log, submitted>>
    BY <1>3, EngineCancelOrderStep DEF EngineCancelOrder
  <2> QED BY <1>1, <2>1
<1>4. CASE EngineMatch
  <2>1. UNCHANGED <<taken, submitted>>
    BY <1>4, BookMatch DEF EngineMatch
  <2> QED BY <1>0, <1>1, <2>1
<1>5. CASE EngineFinish
  <2>1. UNCHANGED <<taken, submitted>>
    BY <1>5, EngineFinishStep DEF EngineFinish
  <2> QED BY <1>0, <1>1, <2>1
<1>6. CASE Die
  BY <1>6 DEF Die, TakenAreEntered
<1>7. CASE UNCHANGED engine_vars
  <2>1. UNCHANGED <<taken, submitted>>
    BY <1>7 DEF engine_vars, book_vars
  <2> QED BY <1>0, <1>1, <2>1
<1> QED BY <1>2, <1>3, <1>4, <1>5, <1>6, <1>7, EngineSteps

LEMMA NextKeepsOwners ==
    ASSUME TypeOK, BookInv, Phases, OnTheWay, OrdersOfLog, ByOwnersCancel, [Next]_vars
    PROVE  ByOwnersCancel'
<1>0. taken \in Nat /\ cancelled_by \in [Id -> Users \cup {None}]
  BY Entries, IdsAreSides DEF BookInv, Book!TypeOK, Book!Ids
<1>1. ASSUME taken' \in {taken, taken + 1}, NEW id \in Id, cancelled_by[id] # None
      PROVE  \E m, n \in 1 .. taken' : Cancels(n, m)' /\ log'[m].id = id
  <2>1. PICK m \in 1 .. taken, n \in 1 .. taken : Cancels(n, m) /\ log[m].id = id
    BY <1>1 DEF ByOwnersCancel
  <2>2. /\ m \in 1 .. taken' /\ log'[m] = log[m]
        /\ n \in 1 .. taken' /\ log'[n] = log[n]
    BY <1>1, <2>1, TakenStays
  <2> QED BY <2>1, <2>2 DEF Cancels
<1>2. ASSUME taken' \in {taken, taken + 1}, UNCHANGED cancelled_by
      PROVE  ByOwnersCancel'
  BY <1>1, <1>2 DEF ByOwnersCancel
<1>3. CASE EngineNewOrder
  <2>1. taken' = taken + 1 /\ UNCHANGED cancelled_by
    BY <1>3 DEF EngineNewOrder, Book!NewOrder
  <2> QED BY <1>2, <2>1
<1>4. CASE EngineCancelOrder
  <2> DEFINE c == log[taken + 1]
  <2>1. /\ taken + 1 \in 1 .. Routed /\ c.type = "CancelOrder" /\ c.id \in Id
        /\ taken' = taken + 1 /\ log' = log
    BY <1>4, EngineCancelOrderStep DEF EngineCancelOrder
  <2>2. c = Head(to_engine)
    BY <1>4, <2>1, HeadIsNext DEF EngineCancelOrder
  <2>3. CASE UNCHANGED book_vars
    BY <1>2, <2>1, <2>3 DEF book_vars
  <2>4. CASE /\ book[c.id] # None /\ book[c.id].user = c.user
             /\ Book!CancelOrder(c.id, c.user)
    <3>1. cancelled_by' = [cancelled_by EXCEPT ![c.id] = c.user]
      BY <2>4 DEF Book!CancelOrder
    <3>2. submitted[c.id] # None /\ book[c.id].user = submitted[c.id].user
      BY <2>1, <2>4, IdsAreSides
      DEF BookInv, Book!OneAtATime, Book!InBook, Book!SameTerms, Book!Ids
    <3>3. PICK k \in 1 .. taken : OrderAt(k, c.id) /\ log[k].user = submitted[c.id].user
      BY <2>1, <3>2 DEF OrdersOfLog
    <3>4. PICK last \in 1 .. taken' : last = taken + 1
      BY <1>0, <2>1
    <3>5. /\ k \in 1 .. taken' /\ log'[k].id = c.id
          /\ k < last /\ log'[k].type = "NewOrder" /\ log'[k].user = c.user
          /\ log'[last] = c
      BY <1>0, <2>1, <2>4, <3>2, <3>3, <3>4 DEF OrderAt
    <3>6. Cancels(last, k)'
      BY <2>1, <3>5 DEF Cancels
    <3>7. ASSUME NEW id \in Id, cancelled_by'[id] # None
          PROVE  \E m, n \in 1 .. taken' : Cancels(n, m)' /\ log'[m].id = id
      <4>1. CASE id = c.id
        BY <3>5, <3>6, <4>1
      <4>2. CASE id # c.id
        <5>1. cancelled_by[id] # None
          BY <1>0, <2>1, <3>1, <3>7, <4>2
        <5> QED BY <1>1, <2>1, <5>1
      <4> QED BY <4>1, <4>2
    <3> QED BY <3>7 DEF ByOwnersCancel
  <2> QED BY <1>4, <2>2, <2>3, <2>4 DEF EngineCancelOrder
<1>5. CASE EngineMatch
  <2>1. UNCHANGED <<taken, cancelled_by>>
    BY <1>5 DEF EngineMatch, Book!Match, Book!MatchOrder, Book!PanicInMatch, Book!history_vars
  <2> QED BY <1>0, <1>2, <2>1
<1>6. CASE EngineFinish
  <2>1. UNCHANGED <<taken, cancelled_by>>
    BY <1>6 DEF EngineFinish, Book!Finish, Book!FinishOrder, Book!PanicHeapFull,
                Book!history_vars
  <2> QED BY <1>0, <1>2, <2>1
<1>7. CASE Die
  BY <1>7 DEF Die, NoneOf, ByOwnersCancel
<1>8. CASE UNCHANGED engine_vars
  <2>1. UNCHANGED <<taken, cancelled_by>>
    BY <1>8 DEF engine_vars, book_vars
  <2> QED BY <1>0, <1>2, <2>1
<1> QED BY <1>3, <1>4, <1>5, <1>6, <1>7, <1>8, EngineSteps

\* What was taken and not cancelled by its owner is executed, in the books or in the
\* matcher's hand, through any restarts and whatever others do.
THEOREM UncancelledStay == Spec => []OrdersStay
<1>1. Init => StayInv
  <2> SUFFICES ASSUME Init PROVE StayInv
    OBVIOUS
  <2>1. taken = 0 /\ \A id \in Id : /\ book[id] = None /\ submitted[id] = None
                                    /\ cancelled_by[id] = None
    BY IdsAreSides DEF Init, Book!Init, Book!Ids
  <2>2. BookThms!Ids = Id
    BY IdsAreSides DEF BookThms!Ids
  <2> QED BY <2>1, <2>2 DEF StayInv, TakenAreEntered, ByOwnersCancel, BookThms!NothingEmptyRests,
                            BookThms!Conservation, BookThms!InBook
<1>2. IInv /\ OrdersInv /\ StayInv /\ [Next]_vars => StayInv'
  BY NextKeepsQuantity, NextKeepsEntered, NextKeepsOwners DEF IInv, OrdersInv, StayInv
<1>3. IInv /\ OrdersInv /\ StayInv => OrdersStay
  <2> SUFFICES ASSUME IInv, OrdersInv, StayInv, NEW k \in 1 .. taken, log[k].type = "NewOrder",
                      \A c \in k + 1 .. taken :
                          log[c] # [type |-> "CancelOrder", id |-> log[k].id,
                                    user |-> log[k].user]
               PROVE  filled[log[k].id] + Book!Remaining(log[k].id) = log[k].quantity
    BY DEF OrdersStay
  <2> DEFINE id == log[k].id
  <2>1. /\ k \in DOMAIN log /\ id \in Id /\ OrderAt(k, id) /\ taken \in Nat
        /\ \A n \in 1 .. taken : log[n] \in Logged
    BY Entries DEF IInv, OrderAt
  <2>2. submitted[id] # None /\ submitted[id].quantity = log[k].quantity
    BY DEF StayInv, TakenAreEntered
  <2>3. cancelled_by[id] = None
    <3> SUFFICES ASSUME cancelled_by[id] # None PROVE FALSE
      OBVIOUS
    <3>1. PICK m \in 1 .. taken, n \in 1 .. taken : Cancels(n, m) /\ log[m].id = id
      BY <2>1 DEF StayInv, ByOwnersCancel
    <3>2. m \in DOMAIN log /\ OrderAt(m, id)
      BY <2>1, <3>1, Entries DEF IInv, Cancels, OrderAt
    <3>3. m = k
      BY <2>1, <3>2, OneEntry DEF OrdersInv
    <3>4. /\ n \in k + 1 .. taken /\ log[n] \in Logged /\ log[n].type = "CancelOrder"
          /\ log[n].id = id /\ log[n].user = log[k].user
      BY <2>1, <3>1, <3>3 DEF Cancels
    <3>5. log[n] = [type |-> "CancelOrder", id |-> id, user |-> log[k].user]
      BY <3>4 DEF Logged
    <3> QED BY <3>4, <3>5
  <2>4. id \in BookThms!Ids /\ submitted[id] \in Book!Order /\ submitted[id].user # None
    <3>1. submitted \in [Id -> Book!Order \cup {None}]
      BY IdsAreSides DEF IInv, BookInv, Book!TypeOK, Book!Ids
    <3>2. submitted[id].user \in Users
      BY <2>1, <2>2, <3>1 DEF Book!Order
    <3> QED BY <2>1, <2>2, <3>1, <3>2, IdsAreSides, NoneAssumption DEF BookThms!Ids
  <2>5. filled[id] + BookThms!Remaining(id) = submitted[id].quantity
    BY <2>2, <2>3, <2>4 DEF StayInv, BookThms!Conservation
  <2>6. BookThms!Remaining(id) = Book!Remaining(id)
    BY DEF BookThms!Remaining, BookThms!InBook, BookThms!InHand,
           Book!Remaining, Book!InBook, Book!InHand
  <2> QED BY <2>2, <2>5, <2>6
<1> HIDE DEF IInv, OrdersInv, StayInv
<1> QED BY <1>1, <1>2, <1>3, Invariance, OrdersInvariance, PTL DEF Spec
==============================================================================

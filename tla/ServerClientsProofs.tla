-------------------------- MODULE ServerClientsProofs --------------------------
(***************************************************************************)
(* Theorems about what module Server tells its clients: nobody is served   *)
(* before the replay is over, no news is told of replayed orders, and an   *)
(* order's executions are told before its answer.                          *)
(***************************************************************************)
EXTENDS ServerProofs

------------------------------------------------------------------------------
(***************************************************************************)
(* The order that a message is about.                                      *)
(***************************************************************************)

\* OrderAt, of any log.
EntryOf(l, n, id) == n \in DOMAIN l /\ l[n].type = "NewOrder" /\ l[n].id = id

\* The order at n of the log is the one that came in, of those of the message.
About(l, t, n) ==
    IF t.type = "Ack" THEN EntryOf(l, n, t.id)
    ELSE \E b, s \in DOMAIN l : /\ EntryOf(l, b, t.exec.buy_order)
                                /\ EntryOf(l, s, t.exec.sell_order)
                                /\ n = IF b > s THEN b ELSE s

LEMMA SameEntry == \A n, id : OrderAt(n, id) <=> EntryOf(log, n, id)
BY DEF OrderAt, EntryOf

LEMMA AboutOnce ==
    ASSUME NEW l, NEW t, NEW m, NEW n, About(l, t, m), About(l, t, n),
           \A i, j \in DOMAIN l :
              l[i].type = "NewOrder" /\ l[j].type = "NewOrder" /\ i # j =>
                 l[i].id.seq # l[j].id.seq
    PROVE  m = n
<1>1. \A i, j, id : EntryOf(l, i, id) /\ EntryOf(l, j, id) => i = j
  BY DEF EntryOf
<1>2. CASE t.type = "Ack"
  BY <1>1, <1>2 DEF About
<1>3. CASE t.type # "Ack"
  <2>1. PICK b, s : /\ EntryOf(l, b, t.exec.buy_order) /\ EntryOf(l, s, t.exec.sell_order)
                    /\ m = IF b > s THEN b ELSE s
    BY <1>3 DEF About
  <2>2. PICK c, r : /\ EntryOf(l, c, t.exec.buy_order) /\ EntryOf(l, r, t.exec.sell_order)
                    /\ n = IF c > r THEN c ELSE r
    BY <1>3 DEF About
  <2>3. b = c /\ s = r
    BY <1>1, <2>1, <2>2
  <2> QED BY <2>1, <2>2, <2>3
<1> QED BY <1>2, <1>3

LEMMA PositionIs ==
    ASSUME IdsIssuedOnce, NEW n, NEW id, EntryOf(log, n, id)
    PROVE  Position(id) = n
<1> DEFINE found == {i \in DOMAIN log : log[i].type = "NewOrder" /\ log[i].id = id}
<1>1. \A i \in found : i = n
  BY DEF IdsIssuedOnce, EntryOf
<1>2. n \in found
  BY DEF EntryOf
<1> QED BY <1>1, <1>2 DEF Position

LEMMA AboutIsIncoming ==
    ASSUME IdsIssuedOnce, NEW t, NEW n, About(log, t, n)
    PROVE  Incoming(t) = n /\ n \in DOMAIN log
<1>1. CASE t.type = "Ack"
  BY <1>1, PositionIs DEF About, Incoming, EntryOf
<1>2. CASE t.type # "Ack"
  <2>1. PICK b, s \in DOMAIN log : /\ EntryOf(log, b, t.exec.buy_order)
                                   /\ EntryOf(log, s, t.exec.sell_order)
                                   /\ n = IF b > s THEN b ELSE s
    BY <1>2 DEF About
  <2>2. Position(t.exec.buy_order) = b /\ Position(t.exec.sell_order) = s
    BY <2>1, PositionIs
  <2> QED BY <1>2, <2>1, <2>2 DEF Incoming
<1> QED BY <1>1, <1>2

LEMMA AboutGrows ==
    ASSUME TypeOK, [Next]_vars, NEW t, NEW n, About(log, t, n)
    PROVE  About(log', t, n)
<1>1. \A i, id : EntryOf(log, i, id) => EntryOf(log', i, id)
  BY LogGrows DEF EntryOf
<1>2. \A i \in DOMAIN log : i \in DOMAIN log'
  BY LogGrows
<1> QED BY <1>1, <1>2 DEF About

\* What a message is about does not change.
LEMMA AboutWas ==
    ASSUME TypeOK, IdsIssuedOnce', [Next]_vars, NEW t, NEW m, NEW n,
           About(log, t, m), About(log', t, n)
    PROVE  m = n
<1>1. About(log', t, m)
  BY AboutGrows
<1> QED BY <1>1, AboutOnce DEF IdsIssuedOnce

------------------------------------------------------------------------------
(***************************************************************************)
(* The invariant, in parts.                                                *)
(***************************************************************************)

\* The engine has done with the order at n of the log.
Behind(n) == n \in 1 .. taken /\ (taker # None => n # taken)

\* Messages are about orders the engine has taken; acknowledged orders it has done
\* with.
Messages ==
    \A i \in DOMAIN to_main : to_main[i].type # "Serialized" =>
        \E n \in 1 .. taken : /\ About(log, to_main[i], n)
                              /\ to_main[i].type = "Ack" => Behind(n)

\* ExecutionsBeforeAck, of the messages still on their way.
AcksLast ==
    \A i, j \in DOMAIN to_main :
        i < j /\ to_main[i].type = "Ack" /\ to_main[j].type = "Execution" =>
            \A n : ~(About(log, to_main[i], n) /\ About(log, to_main[j], n))

\* No execution that the order at n came in for is on its way, or will be.
Settled(n) ==
    /\ Behind(n)
    /\ \A j \in DOMAIN to_main : to_main[j].type = "Execution" => ~About(log, to_main[j], n)

AckedSettled ==
    \A id \in Id : pending[id] = "acked" => \E n : EntryOf(log, n, id) /\ Settled(n)

\* The clients that are served have been told of settled orders.
ToldSettled ==
    \A i \in DOMAIN told :
        \E n : /\ About(log, told[i], n)
               /\ state = "running" /\ told[i].type = "Ack" => Settled(n)

ToldInOrder ==
    \A i, j \in DOMAIN told :
        i < j /\ told[i].type = "Ack" /\ told[j].type = "Execution" =>
            \A n : ~(About(log, told[i], n) /\ About(log, told[j], n))

\* The engine has taken all that was replayed, and is beyond it with an order in
\* hand.
PastReplay == taken >= replayed /\ (taker # None => taken > replayed)

\* The i-th message is about no replayed order.
Newer(i) == to_main[i].type # "Serialized" =>
                \A n : About(log, to_main[i], n) => n > replayed

\* The serialization point is behind what was replayed, and all that comes after
\* it is news.
Served ==
    /\ state \in {"synced", "running"} => PastReplay /\ \A i \in DOMAIN to_main : Newer(i)
    /\ \A i \in Answers : PastReplay /\ \A j \in DOMAIN to_main : i < j => Newer(j)

\* The log does not grow between the replay and the first session.
AllReplayed == state \in {"loading", "synced"} => replayed = Len(log)

ClientsInv == Messages /\ AcksLast /\ AckedSettled /\ ToldSettled /\ ToldInOrder
                  /\ Served /\ AllReplayed

------------------------------------------------------------------------------
(***************************************************************************)
(* What a step does to the engine's progress and to the channel.           *)
(***************************************************************************)

LEMMA Progress ==
    ASSUME IInv, [Next]_vars
    PROVE  \/ Die
           \/ taken' = taken + 1
           \/ taken' = taken /\ (taker' # None => taker # None)
<1>1. CASE EngineNewOrder
  BY <1>1, EngineNewOrderStep DEF IInv
<1>2. CASE EngineCancelOrder
  BY <1>2, EngineCancelOrderStep DEF IInv
<1>3. CASE EngineMatch
  BY <1>3, BookMatch DEF IInv, EngineMatch
<1>4. CASE EngineFinish
  BY <1>4, EngineFinishStep DEF IInv, EngineFinish
<1>5. CASE UNCHANGED engine_vars
  BY <1>5 DEF engine_vars, book_vars
<1> QED BY <1>1, <1>2, <1>3, <1>4, <1>5, EngineSteps DEF IInv

LEMMA BehindStays ==
    ASSUME IInv, [Next]_vars, ~Die, NEW n, Behind(n)
    PROVE  Behind(n)'
<1>1. taken \in Nat
  BY Entries DEF IInv
<1> QED BY <1>1, Progress DEF Behind

\* The executions of the order in the engine's hand are about it.
LEMMA ExecutionsAbout ==
    ASSUME IInv, OrdersInv, taker # None, NEW k \in DOMAIN execs, NEW t,
           t.type = "Execution", t.exec = execs[k]
    PROVE  About(log, t, taken)
<1> DEFINE e == execs[k]
           x == BookThms!Maker(e)
<1>1. /\ execs \in Seq(Book!Execution) /\ k \in 1 .. Len(execs)
      /\ e \in Book!Execution /\ taker \in Book!Order
  BY ElementOfSeq DEF IInv, BookInv, Book!TypeOK
<1>2. /\ taker.id \in {e.buy_order, e.sell_order} /\ x # taker.id /\ submitted[x] # None
  BY <1>1 DEF IInv, BookInv, BookThms!BetweenKnownOrders
<1>3. x \in {e.buy_order, e.sell_order} /\ x \in Id
  BY <1>1, IdsAreSides DEF BookThms!Maker, Book!Execution
<1>4. PICK m \in 1 .. taken : EntryOf(log, m, x)
  BY <1>2, <1>3, SameEntry DEF OrdersInv, OrdersOfLog
<1>5. EntryOf(log, taken, taker.id) /\ taken \in DOMAIN log /\ m \in DOMAIN log
  BY <1>4, SameEntry DEF OrdersInv, OrdersOfLog, EntryOf
<1>6. taken \in Nat /\ m \in Nat /\ m <= taken
  BY <1>4, Entries DEF IInv
<1> HIDE DEF x, e
<1>7. CASE taker.id = e.buy_order /\ x = e.sell_order
  <2>1. taken = IF taken > m THEN taken ELSE m
    BY <1>6
  <2> QED BY <1>4, <1>5, <1>7, <2>1 DEF About, e
<1>8. CASE taker.id = e.sell_order /\ x = e.buy_order
  <2>1. taken = IF m > taken THEN m ELSE taken
    BY <1>6
  <2> QED BY <1>4, <1>5, <1>8, <2>1 DEF About, e
<1> QED BY <1>2, <1>3, <1>7, <1>8

\* A message that a step adds at the end of the channel.
Added(j) ==
    /\ \A i \in DOMAIN to_main : i < j
    /\ \/ /\ to_main'[j].type = "Serialized"
          /\ EngineSerialization
          /\ \A i \in DOMAIN to_main' : i <= j
       \/ /\ EngineFinish
          /\ to_main'[j].type \in {"Execution", "Ack"}
          /\ About(log, to_main'[j], taken)
          /\ taker # None /\ taken \in 1 .. taken'
          /\ to_main'[j].type = "Ack" => Behind(taken)' /\ \A i \in DOMAIN to_main' : i <= j

\* What is in the channel was there before, d places further back, or is added.
LEMMA Channel ==
    ASSUME IInv, OrdersInv, [Next]_vars, ~Die
    PROVE  \E d \in {0, 1} :
              \A j \in DOMAIN to_main' :
                 /\ j \in Nat
                 /\ \/ j + d \in DOMAIN to_main /\ to_main'[j] = to_main[j + d]
                    \/ d = 0 /\ Added(j)
<1> USE DEF IInv
<1>1. /\ to_main \in Seq(SessionMessage) /\ DOMAIN to_main = 1 .. Len(to_main)
      /\ Len(to_main) \in Nat
  BY DEF TypeOK
<1>2. CASE UNCHANGED to_main
  BY <1>1, <1>2
<1>3. CASE to_main # <<>> /\ to_main' = Tail(to_main)
  BY <1>1, <1>3, MainChannelTail
<1>4. CASE EngineSerialization
  <2>1. to_main' = Append(to_main, [type |-> "Serialized"])
    BY <1>4 DEF EngineSerialization
  <2>2. /\ DOMAIN to_main' = 1 .. Len(to_main) + 1
        /\ \A i \in 1 .. Len(to_main) : to_main'[i] = to_main[i]
        /\ to_main'[Len(to_main) + 1] = [type |-> "Serialized"]
    BY <1>1, <2>1
  <2>3. Added(Len(to_main) + 1)
    BY <1>1, <1>4, <2>2 DEF Added
  <2>4. \A j \in DOMAIN to_main' : /\ j \in Nat
                                   /\ \/ j \in DOMAIN to_main /\ to_main'[j] = to_main[j]
                                      \/ j = Len(to_main) + 1
    BY <1>1, <2>2
  <2> QED BY <2>3, <2>4
<1>5. CASE EngineFinish
  <2>1. /\ taker # None /\ taken' = taken
        /\ ~panicked' => taker' = None
    BY <1>5, EngineFinishStep DEF EngineFinish
  <2>2. EntryOf(log, taken, taker.id) /\ taken \in 1 .. taken
    BY <2>1, SameEntry, Entries DEF OrdersInv, OrdersOfLog, EntryOf
  <2>3. ASSUME NEW j \in DOMAIN to_main'
        PROVE  /\ j \in Nat
               /\ (j \in DOMAIN to_main /\ to_main'[j] = to_main[j]) \/ Added(j)
    <3>1. /\ j \in Nat /\ Len(execs) \in Nat /\ DOMAIN execs = 1 .. Len(execs)
          /\ \A i \in DOMAIN to_main' : i <= Len(to_main) + Len(execs) + 1
      BY <1>1, <1>5, FinishMessages
    <3>2. \/ j \in DOMAIN to_main /\ to_main'[j] = to_main[j]
          \/ /\ j - Len(to_main) \in DOMAIN execs
             /\ to_main'[j].type = "Execution"
             /\ to_main'[j].exec = execs[j - Len(to_main)]
          \/ /\ j = Len(to_main) + Len(execs) + 1 /\ ~panicked'
             /\ to_main'[j] = [type |-> "Ack", id |-> taker.id]
      BY <1>5, FinishMessages
    <3>3. CASE /\ j - Len(to_main) \in DOMAIN execs
               /\ to_main'[j].type = "Execution"
               /\ to_main'[j].exec = execs[j - Len(to_main)]
      <4>1. About(log, to_main'[j], taken)
        BY <2>1, <3>3, ExecutionsAbout
      <4>2. \A i \in DOMAIN to_main : i < j
        BY <1>1, <3>1, <3>3
      <4> QED BY <1>5, <2>1, <2>2, <3>1, <3>3, <4>1, <4>2 DEF Added
    <3>4. CASE /\ j = Len(to_main) + Len(execs) + 1 /\ ~panicked'
               /\ to_main'[j] = [type |-> "Ack", id |-> taker.id]
      <4>1. About(log, to_main'[j], taken)
        BY <2>2, <3>4 DEF About
      <4>2. \A i \in DOMAIN to_main : i < j
        BY <1>1, <3>1, <3>4
      <4>3. Behind(taken)'
        BY <2>1, <2>2, <3>4 DEF Behind
      <4> QED BY <1>5, <2>1, <2>2, <3>1, <3>4, <4>1, <4>2, <4>3 DEF Added
    <3> QED BY <3>1, <3>2, <3>3, <3>4
  <2> QED BY <2>3
<1> QED BY <1>2, <1>3, <1>4, <1>5, MainChannelSteps

LEMMA NextKeepsMessages ==
    ASSUME IInv, OrdersInv, IdsIssuedOnce', Messages, AcksLast, [Next]_vars, ~Die
    PROVE  Messages' /\ AcksLast'
<1>0. TypeOK /\ taken \in Nat /\ taken' \in {taken, taken + 1}
  BY Entries, Progress DEF IInv
<1>1. PICK d \in {0, 1} :
         \A j \in DOMAIN to_main' : /\ j \in Nat
                                    /\ \/ j + d \in DOMAIN to_main /\ to_main'[j] = to_main[j + d]
                                       \/ d = 0 /\ Added(j)
  BY Channel
<1>2. Messages'
  <2> SUFFICES ASSUME NEW j \in DOMAIN to_main', to_main'[j].type # "Serialized"
               PROVE  \E n \in 1 .. taken' : /\ About(log', to_main'[j], n)
                                             /\ to_main'[j].type = "Ack" => Behind(n)'
    BY DEF Messages
  <2>1. CASE j + d \in DOMAIN to_main /\ to_main'[j] = to_main[j + d]
    <3>1. PICK n \in 1 .. taken : /\ About(log, to_main'[j], n)
                                  /\ to_main'[j].type = "Ack" => Behind(n)
      BY <2>1 DEF Messages
    <3>2. About(log', to_main'[j], n) /\ n \in 1 .. taken'
      BY <1>0, <3>1, AboutGrows
    <3> QED BY <3>1, <3>2, BehindStays
  <2>2. CASE Added(j)
    <3>1. /\ About(log, to_main'[j], taken) /\ taken \in 1 .. taken'
          /\ to_main'[j].type = "Ack" => Behind(taken)'
      BY <2>2 DEF Added
    <3>2. About(log', to_main'[j], taken)
      BY <1>0, <3>1, AboutGrows
    <3> QED BY <3>1, <3>2 DEF Behind
  <2> QED BY <1>1, <2>1, <2>2
<1>3. AcksLast'
  <2> SUFFICES ASSUME NEW i \in DOMAIN to_main', NEW j \in DOMAIN to_main', i < j,
                      to_main'[i].type = "Ack", to_main'[j].type = "Execution",
                      NEW n, About(log', to_main'[i], n), About(log', to_main'[j], n)
               PROVE  FALSE
    BY DEF AcksLast
  <2>1. i \in Nat /\ j \in Nat
    BY <1>1
  <2>2. CASE Added(i)
    BY <2>1, <2>2 DEF Added
  <2>3. CASE i + d \in DOMAIN to_main /\ to_main'[i] = to_main[i + d]
    <3>1. PICK m \in 1 .. taken : About(log, to_main'[i], m) /\ Behind(m)
      BY <2>3 DEF Messages
    <3>2. m = n
      BY <1>0, <3>1, AboutWas
    <3>3. CASE Added(j)
      <4>1. About(log, to_main'[j], taken) /\ taker # None
        BY <3>3 DEF Added
      <4>2. taken = n
        BY <1>0, <4>1, AboutWas
      <4> QED BY <3>1, <3>2, <4>1, <4>2 DEF Behind
    <3>4. CASE j + d \in DOMAIN to_main /\ to_main'[j] = to_main[j + d]
      <4>1. PICK k \in 1 .. taken : About(log, to_main'[j], k)
        BY <3>4 DEF Messages
      <4>2. k = n
        BY <1>0, <4>1, AboutWas
      <4>3. i + d < j + d
        BY <2>1
      <4> QED BY <2>3, <3>1, <3>2, <3>4, <4>1, <4>2, <4>3 DEF AcksLast
    <3> QED BY <1>1, <3>3, <3>4
  <2> QED BY <1>1, <2>2, <2>3
<1> QED BY <1>2, <1>3

LEMMA SettledStays ==
    ASSUME IInv, OrdersInv, IdsIssuedOnce', Messages, [Next]_vars, ~Die, NEW n, Settled(n)
    PROVE  Settled(n)'
<1>0. TypeOK
  BY DEF IInv
<1>1. PICK d \in {0, 1} :
         \A j \in DOMAIN to_main' : /\ j \in Nat
                                    /\ \/ j + d \in DOMAIN to_main /\ to_main'[j] = to_main[j + d]
                                       \/ d = 0 /\ Added(j)
  BY Channel
<1>2. Behind(n)'
  BY BehindStays DEF Settled
<1>3. ASSUME NEW j \in DOMAIN to_main', to_main'[j].type = "Execution",
             About(log', to_main'[j], n)
      PROVE  FALSE
  <2>1. CASE Added(j)
    <3>1. About(log, to_main'[j], taken) /\ taker # None
      BY <1>3, <2>1 DEF Added
    <3>2. taken = n
      BY <1>0, <1>3, <3>1, AboutWas
    <3> QED BY <3>1, <3>2 DEF Settled, Behind
  <2>2. CASE j + d \in DOMAIN to_main /\ to_main'[j] = to_main[j + d]
    <3>1. PICK m \in 1 .. taken : About(log, to_main'[j], m)
      BY <1>3, <2>2 DEF Messages
    <3>2. m = n
      BY <1>0, <1>3, <3>1, AboutWas
    <3> QED BY <1>3, <2>2, <3>1, <3>2 DEF Settled
  <2> QED BY <1>1, <2>1, <2>2
<1> QED BY <1>2, <1>3 DEF Settled

------------------------------------------------------------------------------
(***************************************************************************)
(* Settled orders and their clients.                                       *)
(***************************************************************************)

\* The steps, by what they do to the pending orders: a session is acknowledged by
\* the publisher, of the message at the head.
LEMMA PendingSteps ==
    ASSUME TypeOK, [Next]_vars, NEW id \in Id, pending'[id] = "acked"
    PROVE  \/ pending[id] = "acked"
           \/ PublishAck /\ to_main[1].id = id
<1>1. pending \in [Id -> {"none", "waiting", "acked"}]
  BY DEF TypeOK
<1>2. CASE PublishAck
  BY <1>1, <1>2, MainChannelTail DEF PublishAck
<1>3. CASE Register
  BY <1>1, <1>3 DEF Register
<1>4. CASE Die
  BY <1>4 DEF Die
<1>5. CASE \E i \in Id : Reply(i) \/ HangUp(i)
  BY <1>1, <1>5 DEF Reply, HangUp
<1>6. CASE \/ EngineNewOrder \/ EngineCancelOrder \/ EngineSerialization
           \/ EngineMatch \/ EngineFinish
  BY <1>6 DEF EngineNewOrder, EngineCancelOrder, EngineSerialization, EngineMatch,
              EngineFinish, main_vars
<1>7. CASE \/ Start \/ ReplayMessage \/ FinishReplay \/ BecomeRunning \/ LogFails \/ Route
           \/ \E m \in Logged : Logs(m)
  BY <1>7 DEF Start, ReplayMessage, FinishReplay, BecomeRunning, LogFails, Route, Logs
<1>8. CASE \/ PublishExecution \/ NotifySerialization \/ UNCHANGED vars
           \/ \E user \in Users : Subscribe(user) \/ Unsubscribe(user)
  BY <1>8 DEF PublishExecution, NotifySerialization, vars, main_vars, Subscribe, Unsubscribe
<1> QED BY <1>2, <1>3, <1>4, <1>5, <1>6, <1>7, <1>8, Steps

LEMMA NextKeepsAcked ==
    ASSUME IInv, OrdersInv, IdsIssuedOnce', Messages, AcksLast, AckedSettled, [Next]_vars, ~Die
    PROVE  AckedSettled'
<1>0. TypeOK
  BY DEF IInv
<1> SUFFICES ASSUME NEW id \in Id, pending'[id] = "acked"
             PROVE  \E n : EntryOf(log', n, id) /\ Settled(n)'
  BY DEF AckedSettled
<1>1. \A n : EntryOf(log, n, id) => EntryOf(log', n, id)
  BY <1>0, LogGrows DEF EntryOf
<1>2. CASE pending[id] = "acked"
  <2>1. PICK n : EntryOf(log, n, id) /\ Settled(n)
    BY <1>2 DEF AckedSettled
  <2> QED BY <1>1, <2>1, SettledStays
<1>3. CASE PublishAck /\ to_main[1].id = id
  <2>1. /\ to_main # <<>> /\ to_main' = Tail(to_main) /\ Head(to_main).type = "Ack"
        /\ UNCHANGED <<taken, taker, log>>
    BY <1>3 DEF PublishAck, engine_vars, book_vars
  <2>2. /\ 1 \in DOMAIN to_main /\ to_main[1].type = "Ack"
        /\ \A j \in DOMAIN to_main' : /\ j + 1 \in DOMAIN to_main /\ 1 < j + 1
                                      /\ to_main'[j] = to_main[j + 1]
    BY <1>0, <2>1, MainChannelTail
  <2>3. PICK n : About(log, to_main[1], n) /\ Behind(n)
    BY <2>2 DEF Messages
  <2>4. \A j \in DOMAIN to_main' : to_main'[j].type = "Execution" => ~About(log, to_main'[j], n)
    BY <2>2, <2>3 DEF AcksLast
  <2>5. Settled(n)'
    BY <2>1, <2>3, <2>4 DEF Settled, Behind
  <2>6. EntryOf(log', n, id)
    BY <1>1, <1>3, <2>2, <2>3 DEF About
  <2> QED BY <2>5, <2>6
<1> QED BY <1>0, <1>2, <1>3, PendingSteps

\* What a step tells the clients.
LEMMA ToldSteps ==
    ASSUME TypeOK, [Next]_vars
    PROVE  \/ UNCHANGED told
           \/ \E id \in Id : /\ Reply(id)
                             /\ told' = Append(told, [type |-> "Ack", id |-> id])
           \/ /\ PublishExecution /\ state = "running" /\ to_main # <<>>
              /\ Head(to_main).type = "Execution"
              /\ told' = told \o Feed(Head(to_main))
<1>1. CASE PublishExecution
  BY <1>1 DEF PublishExecution
<1>2. CASE \/ \E user \in Users : Subscribe(user) \/ Unsubscribe(user)
           \/ \E i \in Id : Reply(i) \/ HangUp(i)
  BY <1>2 DEF Subscribe, Unsubscribe, Reply, HangUp
<1>3. CASE \/ EngineNewOrder \/ EngineCancelOrder \/ EngineSerialization
           \/ EngineMatch \/ EngineFinish \/ Die
  BY <1>3 DEF EngineNewOrder, EngineCancelOrder, EngineSerialization, EngineMatch,
              EngineFinish, Die
<1>4. CASE \/ Start \/ ReplayMessage \/ FinishReplay \/ BecomeRunning \/ LogFails \/ Route
           \/ Register \/ PublishAck \/ NotifySerialization \/ UNCHANGED vars
           \/ \E m \in Logged : Logs(m)
  BY <1>4 DEF Start, ReplayMessage, FinishReplay, BecomeRunning, LogFails, Route, Register,
              PublishAck, NotifySerialization, vars, Logs
<1> QED BY <1>1, <1>2, <1>3, <1>4, Steps

\* The notices of an execution are about what its message is about.
LEMMA FeedAbout ==
    ASSUME NEW l, NEW m \in SessionMessage, m.type = "Execution",
           NEW i \in 1 .. Len(Feed(m)), NEW n
    PROVE  /\ Feed(m)[i].type = "Execution" /\ Feed(m)[i].exec = m.exec
           /\ About(l, Feed(m)[i], n) <=> About(l, m, n)
<1>1. Feed(m)[i].type = "Execution" /\ Feed(m)[i].exec = m.exec
  BY FeedType
<1> QED BY <1>1 DEF About

\* Clients are told of the messages at the head of the channel, and of settled
\* orders.
LEMMA ToldNext ==
    ASSUME IInv, OrdersInv, AckedSettled, [Next]_vars
    PROVE  /\ Len(told) \in Nat /\ Len(told') \in Nat
           /\ DOMAIN told = 1 .. Len(told) /\ DOMAIN told' = 1 .. Len(told')
           /\ \A i \in DOMAIN told' :
                 \/ i \in DOMAIN told /\ told'[i] = told[i]
                 \/ /\ i = Len(told) + 1 /\ i = Len(told')
                    /\ state = "running" /\ told'[i].type = "Ack"
                    /\ UNCHANGED log
                    /\ \E id \in Id : /\ Reply(id) /\ pending[id] = "acked"
                                      /\ told'[i].id = id
                    /\ \E n : About(log, told'[i], n) /\ Settled(n)
                 \/ /\ i > Len(told)
                    /\ state = "running" /\ told'[i].type = "Execution"
                    /\ UNCHANGED log
                    /\ 1 \in DOMAIN to_main /\ to_main[1].type = "Execution"
                    /\ told'[i].exec = to_main[1].exec
                    /\ to_main # <<>> /\ to_main' = Tail(to_main)
                    /\ \A n : About(log, told'[i], n) <=> About(log, to_main[1], n)
<1>0. TypeOK /\ told \in Seq(Told) /\ DOMAIN told = 1 .. Len(told) /\ Len(told) \in Nat
  BY DEF IInv, TypeOK
<1>1. CASE UNCHANGED told
  BY <1>0, <1>1
<1>2. ASSUME NEW id \in Id, Reply(id), told' = Append(told, [type |-> "Ack", id |-> id])
      PROVE  /\ Len(told') = Len(told) + 1
             /\ \A i \in 1 .. Len(told) : told'[i] = told[i]
             /\ told'[Len(told) + 1] = [type |-> "Ack", id |-> id]
             /\ UNCHANGED log /\ state = "running" /\ pending[id] = "acked"
             /\ DOMAIN told' = 1 .. Len(told')
             /\ \E n : About(log, [type |-> "Ack", id |-> id], n) /\ Settled(n)
  <2>1. [type |-> "Ack", id |-> id] \in Told
    BY DEF Told
  <2>2. UNCHANGED log /\ state = "running" /\ pending[id] = "acked"
    BY <1>2 DEF Reply, Ready
  <2>3. PICK n : EntryOf(log, n, id) /\ Settled(n)
    BY <2>2 DEF AckedSettled
  <2>4. About(log, [type |-> "Ack", id |-> id], n)
    BY <2>3 DEF About
  <2> QED BY <1>0, <1>2, <2>1, <2>2, <2>3, <2>4, AppendProperties
<1>3. CASE /\ PublishExecution /\ state = "running" /\ to_main # <<>>
           /\ Head(to_main).type = "Execution"
           /\ told' = told \o Feed(Head(to_main))
  <2> DEFINE m == Head(to_main)
             f == Feed(m)
  <2>1. m \in SessionMessage /\ m.type = "Execution" /\ 1 \in DOMAIN to_main /\ m = to_main[1]
    BY <1>0, <1>3 DEF TypeOK
  <2>2. f \in Seq(Told)
    BY <2>1, FeedType
  <2>3. \A i \in 1 .. Len(f) : /\ f[i].type = "Execution" /\ f[i].exec = to_main[1].exec
                               /\ \A n : About(log, f[i], n) <=> About(log, to_main[1], n)
    BY <2>1, FeedAbout
  <2>4. UNCHANGED log /\ to_main # <<>> /\ to_main' = Tail(to_main)
    BY <1>3 DEF PublishExecution
  <2> HIDE DEF f, m
  <2>5. told' = told \o f
    BY <1>3 DEF f, m
  <2>6. /\ Len(told \o f) = Len(told) + Len(f) /\ Len(f) \in Nat
        /\ DOMAIN (told \o f) = 1 .. Len(told \o f)
    BY <1>0, <2>2, ConcatProperties
  <2>7. \A i \in 1 .. Len(told) + Len(f) :
           (told \o f)[i] = IF i <= Len(told) THEN told[i] ELSE f[i - Len(told)]
    BY <1>0, <2>2, ConcatProperties
  <2>8. \A i \in 1 .. Len(told') : \/ i \in 1 .. Len(told) /\ told'[i] = told[i]
                                   \/ /\ i > Len(told) /\ i - Len(told) \in 1 .. Len(f)
                                      /\ told'[i] = f[i - Len(told)]
    BY <1>0, <2>5, <2>6, <2>7
  <2> QED BY <1>0, <1>3, <2>1, <2>3, <2>4, <2>5, <2>6, <2>8
<1>4. CASE \E id \in Id : Reply(id) /\ told' = Append(told, [type |-> "Ack", id |-> id])
  <2>1. PICK id \in Id : Reply(id) /\ told' = Append(told, [type |-> "Ack", id |-> id])
    BY <1>4
  <2>2. \A i \in 1 .. Len(told) + 1 : i \in 1 .. Len(told) \/ i = Len(told) + 1
    BY <1>0
  <2> QED BY <1>0, <1>2, <2>1, <2>2
<1> QED BY <1>0, <1>1, <1>3, <1>4, ToldSteps

\* The server runs when it has come up, and only then.
LEMMA RunningSteps ==
    ASSUME TypeOK, [Next]_vars, state' = "running", state # "running"
    PROVE  BecomeRunning
<1>1. CASE \/ \E user \in Users : Subscribe(user) \/ Unsubscribe(user)
           \/ \E i \in Id : Reply(i) \/ HangUp(i)
  BY <1>1 DEF Subscribe, Unsubscribe, Reply, HangUp
<1>2. CASE \/ EngineNewOrder \/ EngineCancelOrder \/ EngineSerialization
           \/ EngineMatch \/ EngineFinish \/ Die
  BY <1>2 DEF EngineNewOrder, EngineCancelOrder, EngineSerialization, EngineMatch,
              EngineFinish, Die, main_vars
<1>3. CASE \/ Start \/ ReplayMessage \/ FinishReplay \/ LogFails \/ Route
           \/ Register \/ PublishExecution \/ PublishAck \/ NotifySerialization
           \/ UNCHANGED vars \/ \E m \in Logged : Logs(m)
  BY <1>3 DEF Start, ReplayMessage, FinishReplay, LogFails, Route, Register,
              PublishExecution, PublishAck, NotifySerialization, vars, main_vars, Logs
<1> QED BY <1>1, <1>2, <1>3, Steps

LEMMA NextKeepsToldInOrder ==
    ASSUME IInv, OrdersInv, IdsIssuedOnce', AckedSettled, ToldSettled, ToldInOrder, [Next]_vars
    PROVE  ToldInOrder'
<1>0. TypeOK
  BY DEF IInv
<1> SUFFICES ASSUME NEW i \in DOMAIN told', NEW j \in DOMAIN told', i < j,
                    told'[i].type = "Ack", told'[j].type = "Execution",
                    NEW n, About(log', told'[i], n), About(log', told'[j], n)
             PROVE  FALSE
  BY DEF ToldInOrder
<1>1. /\ i \in Nat /\ j \in Nat /\ Len(told) \in Nat /\ Len(told') \in Nat
      /\ i \in 1 .. Len(told') /\ j \in 1 .. Len(told') /\ DOMAIN told = 1 .. Len(told)
  BY ToldNext
<1>2. i \in DOMAIN told /\ told'[i] = told[i]
  <2>1. \/ i \in DOMAIN told /\ told'[i] = told[i]
        \/ i = Len(told')
    BY ToldNext
  <2> QED BY <1>1, <2>1
<1>3. PICK m : /\ About(log, told[i], m)
               /\ state = "running" => Settled(m)
  BY <1>2 DEF ToldSettled
<1>4. m = n
  BY <1>0, <1>2, <1>3, AboutWas
<1>5. CASE j \in DOMAIN told /\ told'[j] = told[j]
  <2>1. PICK k : About(log, told[j], k)
    BY <1>5 DEF ToldSettled
  <2>2. k = n
    BY <1>0, <1>5, <2>1, AboutWas
  <2> QED BY <1>2, <1>3, <1>4, <1>5, <2>1, <2>2 DEF ToldInOrder
<1>6. CASE /\ state = "running" /\ UNCHANGED log
           /\ 1 \in DOMAIN to_main /\ to_main[1].type = "Execution"
           /\ About(log, told'[j], n) <=> About(log, to_main[1], n)
  BY <1>3, <1>4, <1>6 DEF Settled
<1> QED BY <1>5, <1>6, ToldNext

LEMMA NextKeepsToldSettled ==
    ASSUME IInv, OrdersInv, IdsIssuedOnce', Messages, AckedSettled, ToldSettled,
           Served, AllReplayed, [Next]_vars
    PROVE  ToldSettled'
<1>0. TypeOK
  BY DEF IInv
<1>1. ASSUME NEW i \in DOMAIN told'
      PROVE  \E n : /\ About(log, told'[i], n)
                    /\ told'[i].type = "Ack" /\ state = "running" => Settled(n)
  <2>1. CASE i \in DOMAIN told /\ told'[i] = told[i]
    BY <2>1 DEF ToldSettled
  <2>2. CASE \E n : About(log, told'[i], n) /\ Settled(n)
    BY <2>2
  <2>3. CASE /\ told'[i].type = "Execution"
             /\ 1 \in DOMAIN to_main /\ to_main[1].type = "Execution"
             /\ \A n : About(log, told'[i], n) <=> About(log, to_main[1], n)
    BY <2>3 DEF Messages
  <2> QED BY <2>1, <2>2, <2>3, ToldNext
<1> SUFFICES ASSUME NEW i \in DOMAIN told'
             PROVE  \E n : /\ About(log', told'[i], n)
                           /\ state' = "running" /\ told'[i].type = "Ack" => Settled(n)'
  BY DEF ToldSettled
<1>2. PICK n : /\ About(log, told'[i], n)
               /\ told'[i].type = "Ack" /\ state = "running" => Settled(n)
  BY <1>1
<1>3. About(log', told'[i], n)
  BY <1>0, <1>2, AboutGrows
<1>4. CASE state' # "running" \/ told'[i].type # "Ack"
  BY <1>3, <1>4
<1>5. CASE state' = "running" /\ told'[i].type = "Ack" /\ state = "running"
  <2>1. ~Die
    BY <1>5 DEF Die
  <2> QED BY <1>2, <1>3, <1>5, <2>1, SettledStays
<1>6. CASE state' = "running" /\ told'[i].type = "Ack" /\ state # "running"
  <2>1. BecomeRunning
    BY <1>0, <1>6, RunningSteps
  <2>2. /\ state = "synced" /\ UNCHANGED <<taken, taker, to_main, log, told>>
    BY <2>1 DEF BecomeRunning, engine_vars, book_vars
  <2>3. n \in DOMAIN log
    BY <1>2, AboutIsIncoming DEF OrdersInv
  <2>4. n \in 1 .. replayed
    BY <1>0, <2>2, <2>3, Entries DEF AllReplayed
  <2>5. Behind(n)
    BY <1>0, <2>2, <2>4, Entries DEF Served, PastReplay, Behind
  <2>6. \A j \in DOMAIN to_main : to_main[j].type = "Execution" => ~About(log, to_main[j], n)
    <3> SUFFICES ASSUME NEW j \in DOMAIN to_main, to_main[j].type = "Execution",
                        About(log, to_main[j], n)
                 PROVE  FALSE
      OBVIOUS
    <3>1. n > replayed
      BY <2>2 DEF Served, Newer
    <3> QED BY <1>0, <2>4, <3>1, Entries
  <2>7. Settled(n)
    BY <2>5, <2>6 DEF Settled
  <2> QED BY <1>3, <2>2, <2>7 DEF Settled, Behind
<1> QED BY <1>4, <1>5, <1>6

------------------------------------------------------------------------------
(***************************************************************************)
(* The replay.                                                             *)
(***************************************************************************)

LEMMA NextKeepsAllReplayed ==
    ASSUME IInv, AllReplayed, [Next]_vars
    PROVE  AllReplayed'
<1> USE DEF IInv
<1>1. CASE UNCHANGED <<log, state, replayed, next_seq>>
  BY <1>1 DEF AllReplayed
<1>2. CASE NotifySerialization
  <2>1. 1 \in Answers
    BY <1>2, MainChannelTail DEF NotifySerialization, Answers
  <2>2. state = "loading"
    BY <2>1 DEF OneAnswer, NoAnswer
  <2> QED BY <1>2, <2>2 DEF NotifySerialization, AllReplayed
<1>3. CASE \/ Die \/ Start \/ ReplayMessage \/ FinishReplay \/ BecomeRunning \/ LogFails
           \/ \E m \in Logged : Logs(m)
  BY <1>3 DEF Die, Start, ReplayMessage, FinishReplay, BecomeRunning, LogFails, Logs, AllReplayed
<1> QED BY <1>1, <1>2, <1>3, RouterSteps

\* Once the engine is beyond what was replayed it stays there.
LEMMA PastReplayStays ==
    ASSUME IInv, [Next]_vars, ~Die, UNCHANGED replayed, PastReplay
    PROVE  PastReplay'
<1>1. taken \in Nat /\ replayed \in Nat
  BY Entries DEF IInv
<1> QED BY <1>1, Progress DEF PastReplay

\* What is added behind the serialization point, or when the server is up, is news.
LEMMA AddsNews ==
    ASSUME IInv, OrdersInv, IdsIssuedOnce', [Next]_vars, UNCHANGED replayed, PastReplay,
           NEW j, Added(j)
    PROVE  Newer(j)'
<1>1. CASE to_main'[j].type = "Serialized"
  BY <1>1 DEF Newer
<1>2. CASE About(log, to_main'[j], taken) /\ taker # None
  <2>1. taken > replayed
    BY <1>2 DEF PastReplay
  <2>2. \A n : About(log', to_main'[j], n) => n = taken
    BY <1>2, AboutWas DEF IInv
  <2> QED BY <2>1, <2>2 DEF Newer
<1> QED BY <1>1, <1>2 DEF Added

LEMMA NewsStays ==
    ASSUME IInv, IdsIssuedOnce', Messages, [Next]_vars, UNCHANGED replayed,
           NEW i \in DOMAIN to_main, Newer(i), NEW j, to_main'[j] = to_main[i]
    PROVE  Newer(j)'
<1> SUFFICES ASSUME to_main[i].type # "Serialized", NEW n, About(log', to_main[i], n)
             PROVE  n > replayed
  BY DEF Newer
<1>1. PICK m \in 1 .. taken : About(log, to_main[i], m)
  BY DEF Messages
<1>2. m = n
  BY <1>1, AboutWas DEF IInv
<1> QED BY <1>1, <1>2 DEF Newer

LEMMA NextKeepsServed ==
    ASSUME IInv, OrdersInv, IdsIssuedOnce', Messages, Served, [Next]_vars, ~Die
    PROVE  Served'
<1>0. /\ TypeOK /\ taken \in Nat /\ replayed \in Nat /\ taken <= Len(log) /\ Len(log) \in Nat
      /\ replayed <= Len(log) /\ Answers \subseteq DOMAIN to_main
  BY Entries DEF IInv, Answers
<1>1. PICK d \in {0, 1} :
         \A j \in DOMAIN to_main' : /\ j \in Nat
                                    /\ \/ j + d \in DOMAIN to_main /\ to_main'[j] = to_main[j + d]
                                       \/ d = 0 /\ Added(j)
  BY Channel
<1>2. ASSUME UNCHANGED replayed, PastReplay, \A i \in DOMAIN to_main : Newer(i)
      PROVE  PastReplay' /\ \A j \in DOMAIN to_main' : Newer(j)'
  <2>1. \A j \in DOMAIN to_main' : Newer(j)'
    BY <1>1, <1>2, AddsNews, NewsStays
  <2> QED BY <1>2, <2>1, PastReplayStays
<1>3. ASSUME state' \in {"synced", "running"}
      PROVE  PastReplay' /\ \A j \in DOMAIN to_main' : Newer(j)'
  <2>1. CASE state \in {"synced", "running"}
    <3>1. UNCHANGED replayed
      BY <1>0, <2>1, RouterSteps
      DEF IInv, Start, ReplayMessage, FinishReplay, BecomeRunning, NotifySerialization, LogFails, Logs
    <3> QED BY <1>2, <2>1, <3>1 DEF Served
  <2>2. CASE state \notin {"synced", "running"}
    <3>1. NotifySerialization
      BY <1>0, <1>3, <2>2, RouterSteps
      DEF IInv, Start, ReplayMessage, FinishReplay, BecomeRunning, LogFails, Logs
    <3>2. /\ to_main # <<>> /\ Head(to_main).type = "Serialized" /\ to_main' = Tail(to_main)
          /\ UNCHANGED <<replayed, taken, taker, log>>
      BY <3>1 DEF NotifySerialization, engine_vars, book_vars
    <3>3. /\ 1 \in Answers
          /\ \A j \in DOMAIN to_main' : /\ j + 1 \in DOMAIN to_main /\ 1 < j + 1
                                        /\ to_main'[j] = to_main[j + 1]
      BY <1>0, <3>2, MainChannelTail DEF Answers
    <3>4. PastReplay /\ \A j \in DOMAIN to_main' : Newer(j + 1)
      BY <3>3 DEF Served
    <3>5. PastReplay'
      BY <3>2, <3>4 DEF PastReplay
    <3>6. \A j \in DOMAIN to_main' : Newer(j)'
      BY <3>2, <3>3, <3>4, NewsStays
    <3> QED BY <3>5, <3>6
  <2> QED BY <2>1, <2>2
<1>4. ASSUME NEW i \in Answers'
      PROVE  PastReplay' /\ \A j \in DOMAIN to_main' : i < j => Newer(j)'
  <2>0. i \in DOMAIN to_main' /\ to_main'[i].type = "Serialized" /\ i \in Nat
    BY <1>1, <1>4 DEF Answers
  <2>1. CASE i + d \in DOMAIN to_main /\ to_main'[i] = to_main[i + d]
    <3>1. i + d \in Answers
      BY <2>0, <2>1 DEF Answers
    <3>2. state = "loading"
      BY <3>1 DEF IInv, OneAnswer, NoAnswer
    <3>3. UNCHANGED replayed
      BY <1>0, <3>2, RouterSteps
      DEF IInv, Start, ReplayMessage, FinishReplay, BecomeRunning, NotifySerialization, LogFails, Logs
    <3>4. PastReplay /\ \A j \in DOMAIN to_main : i + d < j => Newer(j)
      BY <3>1 DEF Served
    <3>5. ASSUME NEW j \in DOMAIN to_main', i < j
          PROVE  Newer(j)'
      <4>1. CASE j + d \in DOMAIN to_main /\ to_main'[j] = to_main[j + d]
        <5>1. i + d < j + d
          BY <1>1, <2>0, <3>5
        <5> QED BY <3>3, <3>4, <4>1, <5>1, NewsStays
      <4>2. CASE Added(j)
        BY <3>3, <3>4, <4>2, AddsNews
      <4> QED BY <1>1, <4>1, <4>2
    <3> QED BY <3>3, <3>4, <3>5, PastReplayStays
  <2>2. CASE Added(i)
    <3>1. EngineSerialization /\ \A j \in DOMAIN to_main' : j <= i
      BY <2>0, <2>2 DEF Added
    <3>2. taken = Len(log) /\ taker = None /\ UNCHANGED <<taken, taker, replayed>>
      BY <3>1, EngineSerializationStep
      DEF IInv, EngineSerialization, engine_vars, book_vars, main_vars
    <3>3. PastReplay'
      BY <1>0, <3>2 DEF PastReplay
    <3>4. \A j \in DOMAIN to_main' : ~(i < j)
      BY <1>1, <2>0, <3>1
    <3> QED BY <3>3, <3>4
  <2> QED BY <1>1, <2>0, <2>1, <2>2
<1> QED BY <1>3, <1>4 DEF Served

------------------------------------------------------------------------------
(***************************************************************************)
(* The theorems.                                                           *)
(***************************************************************************)

\* When the process dies nothing is left of the messages and the sessions.
LEMMA DieKeepsClients ==
    ASSUME IInv, OrdersInv, ClientsInv, [Next]_vars, Die
    PROVE  ClientsInv'
<1>1. /\ to_main' = <<>> /\ pending' = [id \in Id |-> "none"] /\ state' = "down"
      /\ log' = log /\ told' = told
  BY DEF Die
<1>2. Messages' /\ AcksLast' /\ Served' /\ Answers' = {}
  BY <1>1 DEF Messages, AcksLast, Served, Answers
<1>3. AckedSettled' /\ AllReplayed'
  BY <1>1 DEF AckedSettled, AllReplayed
<1>4. ToldSettled' /\ ToldInOrder'
  BY <1>1 DEF ClientsInv, ToldSettled, ToldInOrder
<1> QED BY <1>2, <1>3, <1>4 DEF ClientsInv

LEMMA NextKeepsClients ==
    ASSUME IInv, OrdersInv, OrdersInv', ClientsInv, [Next]_vars
    PROVE  ClientsInv'
<1>1. IdsIssuedOnce'
  BY DEF OrdersInv
<1>2. CASE ~Die
  <2>1. Messages' /\ AcksLast' /\ AckedSettled' /\ Served'
    BY <1>1, <1>2, NextKeepsMessages, NextKeepsAcked, NextKeepsServed DEF ClientsInv
  <2>2. ToldSettled' /\ ToldInOrder' /\ AllReplayed'
    BY <1>1, NextKeepsToldSettled, NextKeepsToldInOrder, NextKeepsAllReplayed DEF ClientsInv
  <2> QED BY <2>1, <2>2 DEF ClientsInv
<1> QED BY <1>2, DieKeepsClients

THEOREM ClientsInvariance == Spec => [](OrdersInv /\ ClientsInv)
<1>1. Init => ClientsInv
  BY DEF Init, ClientsInv, Messages, AcksLast, AckedSettled, ToldSettled, ToldInOrder,
         Served, AllReplayed, Answers
<1>2. IInv /\ OrdersInv /\ OrdersInv' /\ ClientsInv /\ [Next]_vars => ClientsInv'
  BY NextKeepsClients
<1> HIDE DEF IInv, OrdersInv, ClientsInv
<1> QED BY <1>1, <1>2, Invariance, OrdersInvariance, PTL DEF Spec

\* However long the log is and whatever the engine and the main thread do first: no
\* session is served before the engine has taken all that was replayed.
THEOREM NoneServedEarly == Spec => []CaughtUp
<1>1. OrdersInv /\ ClientsInv => CaughtUp
  BY DEF ClientsInv, Served, PastReplay, CaughtUp
<1> QED BY <1>1, ClientsInvariance, PTL

\* No client is told of an order that was replayed, though the replay makes the
\* engine send every message again.
THEOREM OnlyNewsIsTold == Spec => NewsOnly
<1> DEFINE Tells == \A n \in Len(told) + 1 .. Len(told') : Incoming(told'[n]) > replayed
<1>1. IInv /\ OrdersInv /\ ClientsInv /\ [Next]_vars => [Tells]_vars
  <2> SUFFICES ASSUME IInv, OrdersInv, ClientsInv, [Next]_vars,
                      NEW n \in Len(told) + 1 .. Len(told')
               PROVE  Incoming(told'[n]) > replayed
    OBVIOUS
  <2>0. /\ n \in DOMAIN told' /\ n \notin DOMAIN told /\ IdsIssuedOnce
    BY ToldNext DEF ClientsInv, OrdersInv
  <2>1. CASE /\ told'[n].type = "Ack"
             /\ \E id \in Id : pending[id] = "acked" /\ told'[n].id = id
    <3>1. PICK k \in replayed + 1 .. Len(log) : OrderAt(k, told'[n].id)
      BY <2>1 DEF IInv, Phases
    <3>2. About(log, told'[n], k)
      BY <2>1, <3>1, SameEntry DEF About
    <3>3. Incoming(told'[n]) = k
      BY <2>0, <3>2, AboutIsIncoming
    <3> QED BY <3>1, <3>3, Entries DEF IInv
  <2>2. CASE /\ told'[n].type = "Execution" /\ state = "running"
             /\ 1 \in DOMAIN to_main /\ to_main[1].type = "Execution"
             /\ \A k : About(log, told'[n], k) <=> About(log, to_main[1], k)
    <3>1. PICK k : About(log, to_main[1], k)
      BY <2>2 DEF ClientsInv, Messages
    <3>2. k > replayed
      BY <2>2, <3>1 DEF ClientsInv, Served, Newer
    <3>3. Incoming(told'[n]) = k
      BY <2>0, <2>2, <3>1, AboutIsIncoming
    <3> QED BY <3>2, <3>3
  <2> QED BY <2>0, <2>1, <2>2, ToldNext DEF ClientsInv
<1> HIDE DEF IInv, OrdersInv, ClientsInv, Tells
<1>2. Spec => [][Tells]_vars
  BY <1>1, Invariance, ClientsInvariance, PTL DEF Spec
<1> QED BY <1>2 DEF NewsOnly, Tells

\* A client's answer comes behind the executions that its order came in for.
THEOREM AnswersComeLast == Spec => []ExecutionsBeforeAck
<1>1. OrdersInv /\ ClientsInv => ExecutionsBeforeAck
  <2> SUFFICES ASSUME OrdersInv, ClientsInv, NEW i \in DOMAIN told, NEW j \in DOMAIN told,
                      i < j, told[i].type = "Ack", told[j].type = "Execution"
               PROVE  Incoming(told[i]) # Incoming(told[j])
    BY DEF ExecutionsBeforeAck
  <2>1. PICK m : About(log, told[i], m)
    BY DEF ClientsInv, ToldSettled
  <2>2. PICK n : About(log, told[j], n)
    BY DEF ClientsInv, ToldSettled
  <2>3. Incoming(told[i]) = m /\ Incoming(told[j]) = n
    BY <2>1, <2>2, AboutIsIncoming DEF OrdersInv
  <2>4. m # n
    BY <2>1, <2>2 DEF ClientsInv, ToldInOrder
  <2> QED BY <2>3, <2>4
<1> QED BY <1>1, ClientsInvariance, PTL
===============================================================================

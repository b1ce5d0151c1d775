--------------------------- MODULE OpenOrdersProofs ---------------------------
(***************************************************************************)
(* Theorems about module OpenOrders: an answer holds what the books held   *)
(* at one moment, nothing of other users and nothing less than the client  *)
(* could expect.  The engine's responses, the context they are gathered in *)
(* and the answer are followed for each query whose key nobody else uses   *)
(* at the time; whose the orders are, for all keys.                        *)
(***************************************************************************)
EXTENDS OpenOrders, SequenceTheorems, FunctionTheorems, FiniteSetTheorems, TLAPS

\* The numbers stay in their bounds, the queries on their way are those that have
\* been asked, and a query that waits has a context.
Numbers ==
    /\ \A s \in Sessions : next[s] <= Len(asked)
    /\ Len(asked) <= MaxRequests /\ Len(owner) <= MaxOrders
    /\ handler # None => handler \in DOMAIN asked
    /\ \A i \in DOMAIN to_engine :
          /\ to_engine[i].type = "NewOrder" => to_engine[i].order \in DOMAIN owner
          /\ to_engine[i].type = "Query" =>
                to_engine[i].request \in DOMAIN asked /\ to_engine[i].key = asked[to_engine[i].request].key
    /\ \A n \in DOMAIN asked : asked[n].after <= Len(owner)
    /\ \A n \in waiting : contexts[asked[n].key] # None
    /\ \A n \in Requests : snapshot[n] # None \/ answer[n] # None => n \in DOMAIN asked

Shape == Typed /\ Numbers

OwnedBy(owners, u) == {o \in DOMAIN owners : owners[o] = u}

\* Of OnlyOwnOrders: a list of orders under a key holds orders of the key's user,
\* on its way, gathered or given.
OwnLists ==
    /\ \A i \in DOMAIN to_main : to_main[i].orders \in Seq(OwnedBy(owner, to_main[i].key.user))
    /\ \A k \in Key : contexts[k] # None => contexts[k].orders \in Seq(OwnedBy(owner, k.user))
    /\ \A n \in Requests :
          answer[n] # None => answer[n] \in Seq(OwnedBy(owner, asked[n].key.user))

\* The queries that are not done with: the connection is there and has no answer.
Live == waiting \cup ({handler} \ {None})

\* ... and nobody else uses the key.
Alone(n) == n \in Live /\ asked[n].key \notin clashed

Asks(m, k) == m.type = "Query" /\ m.key = k

\* The response is all of the answer to n.
Whole(m, n) == m.last /\ snapshot[n] # None /\ m.orders = InOrder(snapshot[n])

\* A key is one query's: of the connections' and of those on their way.
OneEach ==
    ~panicked =>
        \A n \in Live : Alone(n) =>
            /\ \A l \in Live : asked[l].key = asked[n].key => l = n
            /\ \A i \in DOMAIN to_engine : Asks(to_engine[i], asked[n].key) =>
                  /\ to_engine[i].request = n
                  /\ \A j \in DOMAIN to_engine : Asks(to_engine[j], asked[n].key) => j = i
                  /\ \A j \in DOMAIN to_main : to_main[j].key # asked[n].key

\* A response on its way to a query is all of its answer, or a full one is before it.
FullAhead(i, k) == \E j \in 1 .. i : to_main[j].key = k /\ Len(to_main[j].orders) >= Chunk

WholeOrFull ==
    ~panicked =>
        \A n \in Live : Alone(n) =>
            \A i \in DOMAIN to_main : to_main[i].key = asked[n].key =>
                \/ FullAhead(i, asked[n].key)
                \/ /\ Whole(to_main[i], n)
                   /\ \A j \in DOMAIN to_main : to_main[j].key = asked[n].key => j = i

\* The context of a query has nothing of the answer yet, or has all of it, and then
\* nothing more comes.
Gathered ==
    ~panicked =>
        \A n \in waiting : Alone(n) =>
            LET k == asked[n].key
                c == contexts[k]
            IN  \/ c.in_flight = 1 /\ c.orders = <<>>
                \/ /\ c.in_flight = 0
                   /\ snapshot[n] # None /\ c.orders = InOrder(snapshot[n])
                   /\ \A i \in DOMAIN to_engine : ~Asks(to_engine[i], k)
                   /\ \A i \in DOMAIN to_main : to_main[i].key # k

\* The answer is the snapshot, which the engine does not take again.
Given ==
    \A n \in Requests : GotAnswer(n) /\ asked[n].key \notin clashed =>
        /\ snapshot[n] # None /\ answer[n] = InOrder(snapshot[n])
        /\ \A i \in DOMAIN to_engine :
              to_engine[i].type = "Query" => to_engine[i].request # n

\* Of SeesEarlierOrders: the channel keeps the order in which the sessions send, so
\* that the snapshot has the earlier orders.
EarlierFirst ==
    \A i, j \in DOMAIN to_engine :
        /\ i < j /\ to_engine[i].type = "Query" /\ to_engine[j].type = "NewOrder"
        => to_engine[j].order > asked[to_engine[i].request].after

SnapshotHasEarlier ==
    \A n \in Requests : snapshot[n] # None =>
        {o \in 1 .. asked[n].after : owner[o] = asked[n].key.user} \subseteq snapshot[n] \cup Gone

IInv ==
    /\ Shape /\ OwnLists
    /\ OneEach /\ WholeOrFull /\ Gathered /\ Given
    /\ EarlierFirst /\ SnapshotHasEarlier

------------------------------------------------------------------------------
\* Lists and channels

\* The first message of a channel is taken ...
LEMMA Taken ==
    ASSUME NEW S, NEW q \in Seq(S), q # <<>>
    PROVE  /\ Head(q) = q[1] /\ Head(q) \in S /\ 1 \in DOMAIN q
           /\ Tail(q) \in Seq(S) /\ DOMAIN Tail(q) = 1 .. Len(q) - 1
           /\ \A i \in DOMAIN Tail(q) : i + 1 \in DOMAIN q /\ Tail(q)[i] = q[i + 1]
<1>1. Len(q) \in Nat \ {0} /\ DOMAIN q = 1 .. Len(q)
  BY EmptySeq, LenProperties
<1>2. Tail(q) \in Seq(S) /\ Len(Tail(q)) = Len(q) - 1 /\ Head(q) \in S
  BY HeadTailProperties
<1>3. DOMAIN Tail(q) = 1 .. Len(q) - 1
  BY <1>2, LenProperties
<1>4. \A i \in 1 .. Len(q) - 1 : Tail(q)[i] = q[i + 1]
  BY <1>2, HeadTailProperties
<1> QED BY <1>1, <1>2, <1>3, <1>4

\* ... and others come behind.
LEMMA Sent ==
    ASSUME NEW S, NEW q \in Seq(S), NEW m \in S
    PROVE  /\ Append(q, m) \in Seq(S) /\ Len(q) \in Nat /\ DOMAIN q = 1 .. Len(q)
           /\ DOMAIN Append(q, m) = 1 .. Len(q) + 1 /\ Len(Append(q, m)) = Len(q) + 1
           /\ Append(q, m)[Len(q) + 1] = m
           /\ \A i \in DOMAIN q : i \in DOMAIN Append(q, m) /\ Append(q, m)[i] = q[i]
<1>1. Len(q) \in Nat /\ DOMAIN q = 1 .. Len(q)
  BY LenProperties
<1>2. Append(q, m) \in Seq(S) /\ Len(Append(q, m)) = Len(q) + 1
  BY AppendProperties
<1>3. DOMAIN Append(q, m) = 1 .. Len(q) + 1
  BY <1>2, LenProperties
<1>4. Append(q, m)[Len(q) + 1] = m /\ \A i \in 1 .. Len(q) : Append(q, m)[i] = q[i]
  BY AppendProperties
<1> QED BY <1>1, <1>2, <1>3, <1>4

\* The list of a set of orders has each once.
LEMMA ListOfSet ==
    ASSUME NEW S \in SUBSET Orders
    PROVE  /\ InOrder(S) \in Seq(S)
           /\ ToSet(InOrder(S)) = S /\ Len(InOrder(S)) = Cardinality(S)
<1>1. IsFiniteSet(S)
  <2>1. MaxOrders \in Int /\ 1 \in Int
    BY OpenOrdersAssumption
  <2>2. IsFiniteSet(Orders)
    BY <2>1, FS_Interval DEF Orders
  <2> QED BY <2>2, FS_Subset
<1>2. Cardinality(S) \in Nat /\ IsFiniteSet(1 .. Cardinality(S)) /\ Cardinality(1 .. Cardinality(S)) = Cardinality(S)
  BY <1>1, FS_CardinalityType, FS_Interval
<1>3. PICK f : f \in Bijection(1 .. Cardinality(S), S)
  BY <1>1, FS_CardinalityType DEF ExistsBijection
<1>4. f \in [1 .. Cardinality(S) -> S] /\ IsInjective(f)
  BY <1>3 DEF Bijection, Injection
<1>5. InOrder(S) \in [1 .. Cardinality(S) -> S] /\ IsInjective(InOrder(S))
  BY <1>4 DEF InOrder, SetToSeq
<1>6. InOrder(S) \in Injection(1 .. Cardinality(S), S)
  BY <1>5 DEF Injection
<1>7. InOrder(S) \in Surjection(1 .. Cardinality(S), S)
  BY <1>1, <1>2, <1>6, FS_Injection
<1>8. \A o \in S : \E i \in 1 .. Cardinality(S) : InOrder(S)[i] = o
  BY <1>7 DEF Surjection
<1>9. InOrder(S) \in Seq(S) /\ Len(InOrder(S)) = Cardinality(S)
  BY <1>2, <1>5
<1>10. ToSet(InOrder(S)) = S
  BY <1>5, <1>8 DEF ToSet
<1> QED BY <1>9, <1>10

\* What EngineAnswers sends for a list of orders.
Responses(key, list) ==
    [i \in DOMAIN Chunks(list) |->
        [key |-> key, orders |-> Chunks(list)[i].orders, last |-> Chunks(list)[i].last]]

\* The loop of get_open_orders: the first response is the only one and has the
\* whole list, or it is full.
LEMMA ResponsesTo ==
    ASSUME NEW key \in Key, NEW T \in SUBSET Orders, NEW list \in Seq(T)
    PROVE  /\ Responses(key, list) \in Seq(Response) /\ 1 \in DOMAIN Responses(key, list)
           /\ \A i \in DOMAIN Responses(key, list) :
                 Responses(key, list)[i].key = key /\ Responses(key, list)[i].orders \in Seq(T)
           /\ \/ Len(Responses(key, list)[1].orders) >= Chunk
              \/ /\ DOMAIN Responses(key, list) = {1}
                 /\ Responses(key, list)[1].last /\ Responses(key, list)[1].orders = list
<1> DEFINE full == Len(list) \div Chunk
           end(i) == IF i > full THEN Len(list) ELSE i * Chunk
<1>1. Len(list) \in Nat /\ DOMAIN list = 1 .. Len(list) /\ Chunk \in Nat /\ Chunk > 0
  BY OpenOrdersAssumption, LenProperties
<1>2. full \in Nat /\ full * Chunk <= Len(list) /\ Len(list) < (full + 1) * Chunk
  BY <1>1
<1>3. DOMAIN Chunks(list) = 1 .. full + 1 /\ DOMAIN Responses(key, list) = 1 .. full + 1
  BY <1>1, <1>2 DEF Chunks, Responses
<1> HIDE DEF full
<1>4. ASSUME NEW i \in 1 .. full + 1
      PROVE  /\ (i - 1) * Chunk \in Nat /\ end(i) \in Nat /\ end(i) <= Len(list)
  <2>1. i \in Nat /\ i - 1 \in Nat
    BY <1>2
  <2>2. (i - 1) * Chunk \in Nat /\ i * Chunk \in Nat
    BY <2>1, <1>1
  <2>3. CASE i > full
    BY <2>2, <2>3, <1>1
  <2>4. CASE i <= full
    <3>1. i * Chunk <= full * Chunk
      BY <2>4, <2>1, <1>1, <1>2
    <3> QED BY <3>1, <2>2, <2>4, <1>1, <1>2
  <2> QED BY <2>3, <2>4, <2>1, <1>2
<1>5. ASSUME NEW i \in 1 .. full + 1
      PROVE  /\ Responses(key, list)[i].key = key
             /\ Responses(key, list)[i].orders = SubSeq(list, (i - 1) * Chunk + 1, end(i))
             /\ Responses(key, list)[i].last = (i = full + 1)
             /\ Responses(key, list)[i] =
                    [key |-> key, orders |-> SubSeq(list, (i - 1) * Chunk + 1, end(i)), last |-> i = full + 1]
  BY <1>3 DEF Responses, Chunks, full
<1>6. ASSUME NEW i \in 1 .. full + 1
      PROVE  SubSeq(list, (i - 1) * Chunk + 1, end(i)) \in Seq(T)
  <2>1. (i - 1) * Chunk + 1 \in Int /\ (i - 1) * Chunk + 1 >= 1 /\ end(i) \in Int /\ end(i) <= Len(list)
    BY <1>4
  <2>2. \A j \in (i - 1) * Chunk + 1 .. end(i) : list[j] \in T
    <3> HIDE DEF end
    <3> TAKE j \in (i - 1) * Chunk + 1 .. end(i)
    <3>1. j \in 1 .. Len(list)
      BY <2>1, <1>1
    <3> QED BY <3>1, ElementOfSeq
  <2> HIDE DEF end
  <2> QED BY <2>1, <2>2, SubSeqProperties
<1>7. ASSUME NEW i \in 1 .. full + 1
      PROVE  Responses(key, list)[i] \in Response
  <2>1. SubSeq(list, (i - 1) * Chunk + 1, end(i)) \in Seq(Orders)
    BY <1>6, SeqMonotonic
  <2>2. (i = full + 1) \in BOOLEAN
    OBVIOUS
  <2>3. ASSUME NEW o \in Seq(Orders), NEW b \in BOOLEAN
        PROVE  [key |-> key, orders |-> o, last |-> b] \in Response
    BY DEF Response
  <2>4. [key |-> key, orders |-> SubSeq(list, (i - 1) * Chunk + 1, end(i)), last |-> i = full + 1] \in Response
    BY <2>1, <2>2, <2>3, Zenon
  <2> HIDE DEF end
  <2> QED BY <2>4, <1>5
<1>8. Responses(key, list) \in Seq(Response)
  <2> HIDE DEF end
  <2> QED BY <1>2, <1>3, <1>7 DEF Responses
<1>9. CASE full = 0
  <2>1. end(1) = Len(list) /\ (1 - 1) * Chunk + 1 = 1
    BY <1>9, <1>1
  <2>2. Responses(key, list)[1].orders = list
    <3>1. 1 \in 1 .. full + 1
      BY <1>2
    <3>2. Responses(key, list)[1].orders = SubSeq(list, 1, Len(list))
      BY <3>1, <2>1, <1>5
    <3> QED BY <3>2, SubSeqFull
  <2>3. DOMAIN Responses(key, list) = {1} /\ Responses(key, list)[1].last
    <3>1. 1 .. full + 1 = {1} /\ 1 = full + 1 /\ 1 \in 1 .. full + 1
      BY <1>9
    <3> QED BY <3>1, <1>3, <1>5
  <2>4. \A i \in 1 .. full + 1 : Responses(key, list)[i].key = key /\ Responses(key, list)[i].orders \in Seq(T)
    BY <1>5, <1>6
  <2> HIDE DEF end
  <2> QED BY <2>2, <2>3, <2>4, <1>3, <1>8
<1>10. CASE full >= 1
  <2>1. end(1) = Chunk /\ (1 - 1) * Chunk + 1 = 1 /\ 1 \in 1 .. full + 1
    <3>1. ~(1 > full) /\ 1 * Chunk = Chunk /\ (1 - 1) * Chunk = 0
      BY <1>10, <1>1, <1>2
    <3>2. 1 \in 1 .. full + 1
      BY <1>10, <1>2
    <3> QED BY <3>1, <3>2
  <2>2. \A j \in 1 .. Chunk : list[j] \in T
    <3>1. Chunk <= Len(list)
      BY <2>1, <1>4
    <3> QED BY <3>1, <1>1, ElementOfSeq
  <2>3. Len(SubSeq(list, 1, Chunk)) = Chunk
    BY <2>2, <1>1, SubSeqProperties
  <2>4. Responses(key, list)[1].orders = SubSeq(list, 1, Chunk)
    BY <2>1, <1>5
  <2> HIDE DEF end
  <2>5. Len(Responses(key, list)[1].orders) >= Chunk
    BY <2>3, <2>4, <1>1
  <2>6. \A i \in 1 .. full + 1 : Responses(key, list)[i].key = key /\ Responses(key, list)[i].orders \in Seq(T)
    BY <1>5, <1>6
  <2> QED BY <2>1, <2>5, <2>6, <1>3, <1>8
<1> QED BY <1>2, <1>9, <1>10

------------------------------------------------------------------------------
\* What the actions find

\* The queries and the orders that have been made.
LEMMA Made ==
    ASSUME Shape
    PROVE  /\ DOMAIN asked = 1 .. Len(asked) /\ Len(asked) \in Nat /\ Len(asked) <= MaxRequests
           /\ DOMAIN asked \subseteq Requests /\ waiting \subseteq DOMAIN asked /\ Live \subseteq DOMAIN asked
           /\ \A n \in DOMAIN asked :
                 /\ asked[n].session \in Sessions /\ asked[n].key \in Key
                 /\ asked[n].after \in Nat /\ asked[n].after <= Len(owner)
           /\ DOMAIN owner = 1 .. Len(owner) /\ Len(owner) \in Nat /\ Len(owner) <= MaxOrders
           /\ DOMAIN owner \subseteq Orders /\ open \subseteq DOMAIN owner
           /\ MaxOrders \in Nat /\ MaxRequests \in Nat
<1> DEFINE Question == [session : Sessions, key : Key, after : 0 .. MaxOrders]
<1>1. /\ asked \in Seq(Question) /\ owner \in Seq(Users)
      /\ waiting \subseteq DOMAIN asked /\ open \subseteq DOMAIN owner
      /\ Len(asked) <= MaxRequests /\ Len(owner) <= MaxOrders
      /\ \A n \in DOMAIN asked : asked[n].after <= Len(owner)
      /\ handler # None => handler \in DOMAIN asked
  BY DEF Shape, Typed, Numbers
<1>2. DOMAIN asked = 1 .. Len(asked) /\ Len(asked) \in Nat /\ DOMAIN owner = 1 .. Len(owner) /\ Len(owner) \in Nat
  BY <1>1, LenProperties
<1>3. \A n \in DOMAIN asked : asked[n] \in Question
  BY <1>1, <1>2, ElementOfSeq
<1>4. MaxOrders \in Nat /\ MaxRequests \in Nat
  BY OpenOrdersAssumption
<1>5. \A n \in DOMAIN asked :
         asked[n].session \in Sessions /\ asked[n].key \in Key /\ asked[n].after \in 0 .. MaxOrders
  BY <1>3
<1>6. DOMAIN asked \subseteq Requests /\ DOMAIN owner \subseteq Orders
  BY <1>1, <1>2, <1>4 DEF Requests, Orders
<1>7. Live \subseteq DOMAIN asked
  BY <1>1 DEF Live
<1> HIDE DEF Question
<1> QED BY <1>1, <1>2, <1>4, <1>5, <1>6, <1>7

\* The messages of the two channels.
LEMMA Messages ==
    ASSUME Shape
    PROVE  /\ to_engine \in Seq(Query \cup Entered) /\ to_main \in Seq(Response)
           /\ DOMAIN to_engine = 1 .. Len(to_engine) /\ Len(to_engine) \in Nat
           /\ DOMAIN to_main = 1 .. Len(to_main) /\ Len(to_main) \in Nat
           /\ \A i \in DOMAIN to_engine :
                 /\ to_engine[i].type = "NewOrder" => to_engine[i].order \in DOMAIN owner
                 /\ to_engine[i].type = "Query" =>
                       /\ to_engine[i].key \in Key /\ to_engine[i].request \in DOMAIN asked
                       /\ to_engine[i].key = asked[to_engine[i].request].key
           /\ \A i \in DOMAIN to_main :
                 /\ to_main[i].key \in Key /\ to_main[i].orders \in Seq(Orders)
                 /\ to_main[i].last \in BOOLEAN
<1>1. to_engine \in Seq(Query \cup Entered) /\ to_main \in Seq(Response)
  BY DEF Shape, Typed
<1>2. /\ DOMAIN to_engine = 1 .. Len(to_engine) /\ Len(to_engine) \in Nat
      /\ DOMAIN to_main = 1 .. Len(to_main) /\ Len(to_main) \in Nat
  BY <1>1, LenProperties
<1>3. \A i \in DOMAIN to_main : to_main[i] \in Response
  BY <1>1, <1>2, ElementOfSeq
<1>4. \A i \in DOMAIN to_engine :
         /\ to_engine[i].type = "NewOrder" => to_engine[i].order \in DOMAIN owner
         /\ to_engine[i].type = "Query" =>
               /\ to_engine[i].request \in DOMAIN asked
               /\ to_engine[i].key = asked[to_engine[i].request].key
  BY DEF Shape, Numbers
<1>5. \A n \in DOMAIN asked : asked[n].key \in Key
  BY Made
<1>6. \A i \in DOMAIN to_main :
         to_main[i].key \in Key /\ to_main[i].orders \in Seq(Orders) /\ to_main[i].last \in BOOLEAN
  BY <1>3 DEF Response
<1> QED BY <1>1, <1>2, <1>4, <1>5, <1>6

\* The order at the head of the engine's channel.
LEMMA HeadOrder ==
    ASSUME Shape, to_engine # <<>>, Head(to_engine).type = "NewOrder"
    PROVE  /\ 1 \in DOMAIN to_engine /\ to_engine[1] = Head(to_engine)
           /\ Head(to_engine).order \in DOMAIN owner
<1>1. to_engine \in Seq(Query \cup Entered)
  BY Messages
<1>2. Head(to_engine) = to_engine[1] /\ 1 \in DOMAIN to_engine
  BY <1>1, Taken
<1> QED BY <1>2, Messages

\* The query at its head, the orders of the user and the responses.
LEMMA HeadQuery ==
    ASSUME Shape, to_engine # <<>>, Head(to_engine).type = "Query"
    PROVE  LET m    == Head(to_engine)
               mine == OrdersOf(m.key.user)
           IN  /\ 1 \in DOMAIN to_engine /\ to_engine[1] = m
               /\ m.request \in DOMAIN asked /\ m.key = asked[m.request].key /\ m.key \in Key
               /\ mine \in SUBSET Orders /\ mine \subseteq OwnedBy(owner, m.key.user)
               /\ InOrder(mine) \in Seq(mine)
               /\ EngineAnswers =>
                     /\ to_main' = to_main \o Responses(m.key, InOrder(mine))
                     /\ snapshot' = [snapshot EXCEPT ![m.request] = mine]
<1>1. to_engine \in Seq(Query \cup Entered)
  BY Messages
<1>2. Head(to_engine) = to_engine[1] /\ 1 \in DOMAIN to_engine
  BY <1>1, Taken
<1>3. open \subseteq DOMAIN owner /\ DOMAIN owner \subseteq Orders
  BY Made
<1>4. /\ Head(to_engine).request \in DOMAIN asked /\ Head(to_engine).key \in Key
      /\ Head(to_engine).key = asked[Head(to_engine).request].key
  BY <1>2, Messages
<1>5. /\ OrdersOf(Head(to_engine).key.user) \in SUBSET Orders
      /\ OrdersOf(Head(to_engine).key.user) \subseteq OwnedBy(owner, Head(to_engine).key.user)
  BY <1>3 DEF OrdersOf, OwnedBy
<1>6. InOrder(OrdersOf(Head(to_engine).key.user)) \in Seq(OrdersOf(Head(to_engine).key.user))
  BY <1>5, ListOfSet
<1>7. EngineAnswers =>
         /\ to_main' = to_main \o Responses(Head(to_engine).key, InOrder(OrdersOf(Head(to_engine).key.user)))
         /\ snapshot' = [snapshot EXCEPT ![Head(to_engine).request] = OrdersOf(Head(to_engine).key.user)]
  BY DEF EngineAnswers, Responses, OrdersOf
<1> QED BY <1>2, <1>4, <1>5, <1>6, <1>7

\* The messages of one channel behind those of another.
LEMMA Followed ==
    ASSUME NEW S, NEW q \in Seq(S), NEW r \in Seq(S)
    PROVE  /\ q \o r \in Seq(S) /\ Len(q) \in Nat /\ Len(r) \in Nat
           /\ DOMAIN q = 1 .. Len(q) /\ DOMAIN r = 1 .. Len(r) /\ DOMAIN (q \o r) = 1 .. Len(q) + Len(r)
           /\ \A i \in DOMAIN q : (q \o r)[i] = q[i]
           /\ \A i \in DOMAIN (q \o r) :
                 i \notin DOMAIN q => i - Len(q) \in DOMAIN r /\ (q \o r)[i] = r[i - Len(q)]
<1>1. /\ Len(q) \in Nat /\ Len(r) \in Nat /\ DOMAIN q = 1 .. Len(q) /\ DOMAIN r = 1 .. Len(r)
  BY LenProperties
<1>2. /\ q \o r \in Seq(S) /\ Len(q \o r) = Len(q) + Len(r)
      /\ \A i \in 1 .. Len(q) + Len(r) : (q \o r)[i] = IF i <= Len(q) THEN q[i] ELSE r[i - Len(q)]
  BY ConcatProperties
<1>3. DOMAIN (q \o r) = 1 .. Len(q) + Len(r)
  BY <1>2, LenProperties
<1> QED BY <1>1, <1>2, <1>3

------------------------------------------------------------------------------
\* Types

\* A context that recv has been called on is a context.
LEMMA RecvOfContext ==
    ASSUME NEW c \in Context, NEW m \in Response
    PROVE  /\ Recv(c, m) \in Context /\ Recv(c, m).orders = c.orders \o m.orders
           /\ Recv(c, m).in_flight = IF m.last THEN Decrement(c.in_flight) ELSE c.in_flight
<1> DEFINE list  == c.orders \o m.orders
           count == IF m.last THEN Decrement(c.in_flight) ELSE c.in_flight
<1>1. c.in_flight \in 0 .. Word - 1 /\ c.orders \in Seq(Orders)
  BY DEF Context
<1>2. list \in Seq(Orders)
  BY <1>1, ConcatProperties DEF Response
<1>3. count \in 0 .. Word - 1
  BY <1>1, OpenOrdersAssumption DEF Decrement
<1>4. Recv(c, m) = [c EXCEPT !.orders = list, !.in_flight = count]
  BY DEF Recv
<1> HIDE DEF list, count
<1>5. [c EXCEPT !.orders = list, !.in_flight = count].orders = list
  BY DEF Context
<1>6. [c EXCEPT !.orders = list, !.in_flight = count].in_flight = count
  BY DEF Context
<1>7. [c EXCEPT !.orders = list, !.in_flight = count] \in Context
  BY <1>2, <1>3 DEF Context
<1> QED BY <1>4, <1>5, <1>6, <1>7 DEF list, count

LEMMA ShapeInit == Init => Shape
<1> SUFFICES ASSUME Init PROVE Shape
  OBVIOUS
<1>1. Typed
  <2>1. 0 \in 0 .. MaxRequests
    BY OpenOrdersAssumption
  <2>2. \A S : <<>> \in Seq(S)
    BY EmptySeq
  <2>3. Init => asked = <<>> /\ owner = <<>> /\ to_engine = <<>> /\ to_main = <<>>
    BY DEF Init
  <2>4. /\ asked \in Seq([session : Sessions, key : Key, after : 0 .. MaxOrders])
        /\ to_engine \in Seq(Query \cup Entered) /\ to_main \in Seq(Response) /\ owner \in Seq(Users)
    BY <2>2, <2>3, Zenon
  <2>5. contexts \in [Key -> Context \cup {None}] /\ answer \in [Requests -> Seq(Orders) \cup {None}]
    BY DEF Init
  <2>6. snapshot \in [Requests -> (SUBSET Orders) \cup {None}]
    BY DEF Init
  <2>7. user \in [Sessions -> Users \cup {None}] /\ next \in [Sessions -> 0 .. MaxRequests]
    BY <2>1 DEF Init
  <2>8. /\ closed = {} /\ unparked = {} /\ handler = None /\ waiting = {} /\ open = {} /\ clashed = {}
        /\ engine_up = TRUE /\ panicked = FALSE
    BY DEF Init
  <2> QED BY <2>4, <2>5, <2>6, <2>7, <2>8 DEF Typed
<1>2. Numbers
  BY OpenOrdersAssumption DEF Init, Numbers
<1> QED BY <1>1, <1>2 DEF Shape

\* The first half of the variables keep their types ...
LEMMA SessionsTyped ==
    ASSUME Shape, [Next]_vars
    PROVE  /\ user' \in [Sessions -> Users \cup {None}] /\ next' \in [Sessions -> 0 .. MaxRequests]
           /\ closed' \subseteq Sessions /\ unparked' \subseteq Sessions
           /\ handler' \in Requests \cup {None} /\ waiting' \subseteq DOMAIN asked'
           /\ owner' \in Seq(Users) /\ Len(owner') <= MaxOrders /\ DOMAIN owner \subseteq DOMAIN owner'
           /\ asked' \in Seq([session : Sessions, key : Key, after : 0 .. MaxOrders])
           /\ Len(asked') <= MaxRequests /\ DOMAIN asked \subseteq DOMAIN asked'
           /\ \A n \in DOMAIN asked : asked'[n] = asked[n]
           /\ \A o \in DOMAIN owner : owner'[o] = owner[o]
           /\ \A s \in Sessions : next'[s] <= Len(asked')
           /\ handler' # None => handler' \in DOMAIN asked'
           /\ \A n \in DOMAIN asked' : asked'[n].after <= Len(owner')
           /\ clashed' \subseteq Key /\ clashed \subseteq clashed'
           /\ engine_up' \in BOOLEAN /\ panicked' \in BOOLEAN
<1> DEFINE Question == [session : Sessions, key : Key, after : 0 .. MaxOrders]
<1>1. /\ user \in [Sessions -> Users \cup {None}] /\ next \in [Sessions -> 0 .. MaxRequests]
      /\ closed \subseteq Sessions /\ unparked \subseteq Sessions
      /\ handler \in Requests \cup {None} /\ waiting \subseteq DOMAIN asked
      /\ contexts \in [Key -> Context \cup {None}]
      /\ owner \in Seq(Users) /\ Len(owner) <= MaxOrders
      /\ asked \in Seq(Question) /\ Len(asked) <= MaxRequests
      /\ \A s \in Sessions : next[s] <= Len(asked)
      /\ handler # None => handler \in DOMAIN asked
      /\ \A n \in DOMAIN asked : asked[n].after <= Len(owner)
      /\ clashed \subseteq Key /\ engine_up \in BOOLEAN /\ panicked \in BOOLEAN
  BY DEF Shape, Typed, Numbers
<1>2. /\ DOMAIN asked = 1 .. Len(asked) /\ Len(asked) \in Nat
      /\ DOMAIN owner = 1 .. Len(owner) /\ Len(owner) \in Nat
      /\ MaxOrders \in Nat /\ MaxRequests \in Nat /\ DOMAIN asked \subseteq Requests
  BY Made
<1> HIDE DEF Question
<1>3. CASE \E s \in Sessions, u \in Users : Authenticate(s, u)
  BY <1>1, <1>2, <1>3 DEF Authenticate, pending_vars, channel_vars, engine_vars, Question
<1>4. CASE \E s \in Sessions : EnterOrder(s)
  <2>1. PICK s \in Sessions : EnterOrder(s)
    BY <1>4
  <2>2. user[s] \in Users /\ owner' = Append(owner, user[s]) /\ Len(owner) < MaxOrders
    BY <2>1, <1>1 DEF EnterOrder, SignedIn
  <2>3. /\ owner' \in Seq(Users) /\ DOMAIN owner' = 1 .. Len(owner) + 1 /\ Len(owner') = Len(owner) + 1
        /\ \A o \in DOMAIN owner : o \in DOMAIN owner' /\ owner'[o] = owner[o]
    BY <2>2, <1>1, Sent
  <2>4. UNCHANGED <<user, next, closed, handler, contexts, waiting, unparked, engine_up, panicked, asked, clashed>>
    BY <2>1 DEF EnterOrder, session_vars, pending_vars, engine_vars
  <2>5. \A n \in DOMAIN asked' : asked'[n].after <= Len(owner')
    <3>1. \A n \in DOMAIN asked : asked[n].after \in Nat
      BY Made
    <3> QED BY <3>1, <2>3, <2>4, <1>1, <1>2
  <2> QED BY <1>1, <1>2, <2>2, <2>3, <2>4, <2>5 DEF Question
<1>5. CASE \E s \in Sessions : Ask(s)
  <2>1. PICK s \in Sessions : Ask(s)
    BY <1>5
  <2> DEFINE key == [user |-> user[s], seq |-> next[s]]
             q   == [session |-> s, key |-> key, after |-> Len(owner)]
  <2>2. /\ user[s] \in Users /\ asked' = Append(asked, q) /\ Len(asked) < MaxRequests
        /\ next' = [next EXCEPT ![s] = @ + 1]
        /\ handler' \in {handler, Len(asked) + 1} /\ clashed' \in {clashed, clashed \cup {key}}
        /\ UNCHANGED <<user, closed, contexts, waiting, unparked, engine_up, panicked, owner>>
    BY <2>1, <1>1 DEF Ask, SignedIn, pending_vars, engine_vars
  <2>3. key \in Key
    BY <2>2, <1>1 DEF Key
  <2>4. q \in Question
    BY <2>3, <1>1, <1>2 DEF Question
  <2> HIDE DEF key
  <2>5. q.after = Len(owner)
    OBVIOUS
  <2> HIDE DEF q
  <2>6. /\ asked' \in Seq(Question) /\ DOMAIN asked' = 1 .. Len(asked) + 1 /\ Len(asked') = Len(asked) + 1
        /\ asked'[Len(asked) + 1] = q
        /\ \A n \in DOMAIN asked : n \in DOMAIN asked' /\ asked'[n] = asked[n]
    BY <2>2, <2>4, <1>1, Sent
  <2>7. \A n \in DOMAIN asked' : asked'[n].after <= Len(owner')
    BY <2>2, <2>5, <2>6, <1>1, <1>2
  <2>8. next' \in [Sessions -> 0 .. MaxRequests] /\ \A t \in Sessions : next'[t] <= Len(asked')
    BY <2>2, <2>6, <1>1, <1>2
  <2>9. handler' \in Requests \cup {None} /\ (handler' # None => handler' \in DOMAIN asked')
    BY <2>2, <2>6, <1>1, <1>2 DEF Requests
  <2>10. waiting' \subseteq DOMAIN asked' /\ clashed' \subseteq Key /\ clashed \subseteq clashed'
    BY <2>2, <2>3, <2>6, <1>1
  <2>11. Len(asked') <= MaxRequests
    BY <2>2, <2>6, <1>2
  <2> QED BY <1>1, <2>2, <2>6, <2>7, <2>8, <2>9, <2>10, <2>11 DEF Question
<1>6. CASE Register
  BY <1>1, <1>2, <1>6 DEF Register, session_vars, channel_vars, engine_vars, Question
<1>7. CASE \E s \in Sessions : Poll(s)
  BY <1>1, <1>2, <1>7 DEF Poll, session_vars, channel_vars, engine_vars, Question
<1>8. CASE \E s \in Sessions : HangUp(s)
  <2>1. PICK s \in Sessions : HangUp(s)
    BY <1>8
  <2> QED BY <1>1, <1>2, <2>1 DEF HangUp, channel_vars, engine_vars, Question
<1>9. CASE EngineTakesOrder \/ EngineAnswers \/ EngineDies \/ \E o \in Orders : EngineRemovesOrder(o)
  BY <1>1, <1>2, <1>9 DEF EngineTakesOrder, EngineAnswers, EngineDies, EngineRemovesOrder,
     session_vars, pending_vars, engine_vars, channel_vars, Question
<1>10. CASE Receive
  <2>1. contexts[Head(to_main).key] # None => contexts[Head(to_main).key].task \in Sessions
    <3>1. to_main # <<>> /\ to_main \in Seq(Response)
      BY <1>10, Messages DEF Receive
    <3>2. Head(to_main) \in Response
      BY <3>1, Taken
    <3>3. Head(to_main).key \in Key
      BY <3>2 DEF Response
    <3> QED BY <3>3, <1>1 DEF Context
  <2>2. /\ unparked' \subseteq unparked \cup ({contexts[Head(to_main).key].task} \ closed)
        /\ contexts[Head(to_main).key] = None => unparked' = unparked
        /\ UNCHANGED <<user, next, closed, handler, waiting, engine_up, panicked, asked, owner, clashed>>
    BY <1>10 DEF Receive, session_vars, engine_vars
  <2> QED BY <1>1, <1>2, <2>1, <2>2 DEF Question
<1>11. CASE ReceivePanics
  BY <1>1, <1>2, <1>11 DEF ReceivePanics, session_vars, pending_vars, Question
<1>12. CASE UNCHANGED vars
  BY <1>1, <1>2, <1>12 DEF vars, session_vars, pending_vars, engine_vars, Question
<1> QED BY <1>3, <1>4, <1>5, <1>6, <1>7, <1>8, <1>9, <1>10, <1>11, <1>12 DEF Next, Client, EngineStep, Publisher

\* What a step does to the engine's channel: nothing, a message goes in at the end,
\* one is taken at the head, or the receiver is gone.
LEMMA EngineChannel ==
    ASSUME Shape, [Next]_vars
    PROVE  \/ UNCHANGED to_engine
           \/ \E s \in Sessions :
                 /\ EnterOrder(s) /\ user[s] \in Users
                 /\ to_engine' = Append(to_engine, [type |-> "NewOrder", order |-> Len(owner) + 1])
                 /\ [type |-> "NewOrder", order |-> Len(owner) + 1] \in Query \cup Entered
                 /\ owner' = Append(owner, user[s])
           \/ \E s \in Sessions, key \in Key :
                 /\ Ask(s) /\ engine_up /\ key = [user |-> user[s], seq |-> next[s]]
                 /\ to_engine' = Append(to_engine, [type |-> "Query", key |-> key, request |-> Len(asked) + 1])
                 /\ [type |-> "Query", key |-> key, request |-> Len(asked) + 1] \in Query \cup Entered
                 /\ handler = None /\ handler' = Len(asked) + 1
                 /\ asked' = Append(asked, [session |-> s, key |-> key, after |-> Len(owner)])
                 /\ [session |-> s, key |-> key, after |-> Len(owner)]
                       \in [session : Sessions, key : Key, after : 0 .. MaxOrders]
           \/ /\ EngineStep
              /\ to_engine # <<>> /\ to_engine' = Tail(to_engine)
           \/ (EngineDies \/ ReceivePanics) /\ to_engine' = <<>>
<1>1. /\ DOMAIN asked = 1 .. Len(asked) /\ Len(asked) \in Nat /\ DOMAIN owner = 1 .. Len(owner)
      /\ Len(owner) \in Nat /\ Len(owner) <= MaxOrders /\ MaxOrders \in Nat /\ MaxRequests \in Nat
  BY Made
<1>2. user \in [Sessions -> Users \cup {None}] /\ next \in [Sessions -> 0 .. MaxRequests]
  BY DEF Shape, Typed
<1>3. ASSUME NEW s \in Sessions, EnterOrder(s)
      PROVE  /\ user[s] \in Users /\ owner' = Append(owner, user[s])
             /\ to_engine' = Append(to_engine, [type |-> "NewOrder", order |-> Len(owner) + 1])
             /\ [type |-> "NewOrder", order |-> Len(owner) + 1] \in Query \cup Entered
  <2>1. user[s] \in Users /\ Len(owner) < MaxOrders
    BY <1>2, <1>3 DEF EnterOrder, SignedIn
  <2>2. Len(owner) + 1 \in Orders
    BY <2>1, <1>1 DEF Orders
  <2> QED BY <2>1, <2>2, <1>3 DEF EnterOrder, Entered
<1>4. ASSUME NEW s \in Sessions, Ask(s), engine_up
      PROVE  \E key \in Key :
                /\ key = [user |-> user[s], seq |-> next[s]]
                /\ to_engine' = Append(to_engine, [type |-> "Query", key |-> key, request |-> Len(asked) + 1])
                /\ [type |-> "Query", key |-> key, request |-> Len(asked) + 1] \in Query \cup Entered
                /\ handler = None /\ handler' = Len(asked) + 1
                /\ asked' = Append(asked, [session |-> s, key |-> key, after |-> Len(owner)])
                /\ [session |-> s, key |-> key, after |-> Len(owner)]
                      \in [session : Sessions, key : Key, after : 0 .. MaxOrders]
  <2>1. user[s] \in Users /\ next[s] \in 0 .. MaxRequests /\ Len(asked) < MaxRequests /\ handler = None
    BY <1>2, <1>4 DEF Ask, SignedIn, Connected, Ready
  <2>2. [user |-> user[s], seq |-> next[s]] \in Key
    BY <2>1 DEF Key
  <2>3. Len(asked) + 1 \in Requests /\ Len(owner) \in 0 .. MaxOrders
    BY <2>1, <1>1 DEF Requests
  <2>4. /\ handler' = Len(asked) + 1
        /\ to_engine' = Append(to_engine, [type |-> "Query", key |-> [user |-> user[s], seq |-> next[s]],
                                           request |-> Len(asked) + 1])
        /\ asked' = Append(asked, [session |-> s, key |-> [user |-> user[s], seq |-> next[s]],
                                   after |-> Len(owner)])
    BY <1>4 DEF Ask
  <2>5. WITNESS [user |-> user[s], seq |-> next[s]] \in Key
  <2>6. ASSUME NEW k \in Key, NEW n \in Requests, NEW a \in 0 .. MaxOrders
        PROVE  /\ [type |-> "Query", key |-> k, request |-> n] \in Query \cup Entered
               /\ [session |-> s, key |-> k, after |-> a] \in [session : Sessions, key : Key, after : 0 .. MaxOrders]
    BY DEF Query
  <2> QED BY <2>1, <2>2, <2>3, <2>4, <2>6, Zenon
<1>5. ASSUME NEW s \in Sessions, Ask(s), ~engine_up
      PROVE  UNCHANGED to_engine
  BY <1>5 DEF Ask
<1>6. CASE \/ \E s \in Sessions, u \in Users : Authenticate(s, u)
           \/ \E s \in Sessions : Poll(s) \/ HangUp(s)
           \/ Register \/ Receive \/ UNCHANGED vars \/ \E o \in Orders : EngineRemovesOrder(o)
  BY <1>6 DEF Authenticate, Poll, HangUp, Register, Receive, EngineRemovesOrder, vars, channel_vars
<1>7. CASE EngineStep
  BY <1>7 DEF EngineStep, EngineTakesOrder, EngineAnswers
<1>8. CASE EngineDies \/ ReceivePanics
  BY <1>8 DEF EngineDies, ReceivePanics
<1>9. CASE \E s \in Sessions : EnterOrder(s)
  BY <1>3, <1>9, Zenon
<1>10. CASE \E s \in Sessions : Ask(s)
  BY <1>4, <1>5, <1>10, Zenon
<1> QED BY <1>6, <1>7, <1>8, <1>9, <1>10 DEF Next, Client, Publisher

\* What a step does to the publisher's channel.
LEMMA MainChannel ==
    ASSUME Shape, [Next]_vars
    PROVE  \/ UNCHANGED to_main
           \/ EngineAnswers /\ to_engine # <<>> /\ Head(to_engine).type = "Query"
           \/ Receive /\ to_main # <<>> /\ to_main' = Tail(to_main)
           \/ ReceivePanics /\ to_main' = <<>> /\ panicked'
<1>1. CASE UNCHANGED vars
  BY <1>1 DEF vars, channel_vars
<1>2. CASE Next
  BY <1>2 DEF Next, Client, EngineStep, Publisher, Authenticate, EnterOrder, Ask, HangUp, Poll, Register,
     EngineTakesOrder, EngineAnswers, EngineDies, EngineRemovesOrder, Receive, ReceivePanics, channel_vars
<1> QED BY <1>1, <1>2

\* What is known of a message on its way to the engine stays true of it.
LEMMA EngineMessages ==
    ASSUME Shape, [Next]_vars
    PROVE  /\ to_engine' \in Seq(Query \cup Entered)
           /\ \A i \in DOMAIN to_engine' :
                 /\ to_engine'[i].type = "NewOrder" => to_engine'[i].order \in DOMAIN owner'
                 /\ to_engine'[i].type = "Query" =>
                       /\ to_engine'[i].request \in DOMAIN asked'
                       /\ to_engine'[i].key = asked'[to_engine'[i].request].key
<1> DEFINE Known(m) == /\ m.type = "NewOrder" => m.order \in DOMAIN owner'
                       /\ m.type = "Query" => m.request \in DOMAIN asked' /\ m.key = asked'[m.request].key
<1>1. to_engine \in Seq(Query \cup Entered)
  BY Messages
<1>2. \A i \in DOMAIN to_engine : Known(to_engine[i])
  BY Messages, SessionsTyped
<1>3. asked \in Seq([session : Sessions, key : Key, after : 0 .. MaxOrders]) /\ owner \in Seq(Users)
  BY DEF Shape, Typed
<1>4. SUFFICES to_engine' \in Seq(Query \cup Entered) /\ \A i \in DOMAIN to_engine' : Known(to_engine'[i])
  OBVIOUS
<1>5. CASE UNCHANGED to_engine
  <2> HIDE DEF Known
  <2> QED BY <1>1, <1>2, <1>5
<1>6. ASSUME NEW m \in Query \cup Entered, Known(m), to_engine' = Append(to_engine, m)
      PROVE  to_engine' \in Seq(Query \cup Entered) /\ \A i \in DOMAIN to_engine' : Known(to_engine'[i])
  <2> HIDE DEF Known
  <2>1. /\ Append(to_engine, m) \in Seq(Query \cup Entered) /\ Len(to_engine) \in Nat
        /\ DOMAIN to_engine = 1 .. Len(to_engine) /\ DOMAIN Append(to_engine, m) = 1 .. Len(to_engine) + 1
        /\ Append(to_engine, m)[Len(to_engine) + 1] = m
        /\ \A i \in DOMAIN to_engine : Append(to_engine, m)[i] = to_engine[i]
    BY <1>1, Sent
  <2>2. \A i \in DOMAIN Append(to_engine, m) : i \in DOMAIN to_engine \/ i = Len(to_engine) + 1
    BY <2>1
  <2>3. \A i \in DOMAIN Append(to_engine, m) : Known(Append(to_engine, m)[i])
    BY <2>1, <2>2, <1>2, <1>6
  <2> QED BY <2>1, <2>3, <1>6
<1>7. CASE \E s \in Sessions :
              /\ EnterOrder(s) /\ user[s] \in Users
              /\ to_engine' = Append(to_engine, [type |-> "NewOrder", order |-> Len(owner) + 1])
              /\ [type |-> "NewOrder", order |-> Len(owner) + 1] \in Query \cup Entered
              /\ owner' = Append(owner, user[s])
  <2>1. Len(owner) + 1 \in DOMAIN owner'
    BY <1>3, <1>7, Sent
  <2>2. Known([type |-> "NewOrder", order |-> Len(owner) + 1])
    BY <2>1
  <2> HIDE DEF Known
  <2> QED BY <2>2, <1>6, <1>7
<1>8. CASE \E s \in Sessions, key \in Key :
              /\ to_engine' = Append(to_engine, [type |-> "Query", key |-> key, request |-> Len(asked) + 1])
              /\ [type |-> "Query", key |-> key, request |-> Len(asked) + 1] \in Query \cup Entered
              /\ asked' = Append(asked, [session |-> s, key |-> key, after |-> Len(owner)])
              /\ [session |-> s, key |-> key, after |-> Len(owner)]
                    \in [session : Sessions, key : Key, after : 0 .. MaxOrders]
  <2>1. PICK s \in Sessions, key \in Key :
              /\ to_engine' = Append(to_engine, [type |-> "Query", key |-> key, request |-> Len(asked) + 1])
              /\ [type |-> "Query", key |-> key, request |-> Len(asked) + 1] \in Query \cup Entered
              /\ asked' = Append(asked, [session |-> s, key |-> key, after |-> Len(owner)])
              /\ [session |-> s, key |-> key, after |-> Len(owner)]
                    \in [session : Sessions, key : Key, after : 0 .. MaxOrders]
    BY <1>8
  <2>2. Len(asked) + 1 \in DOMAIN asked' /\ asked'[Len(asked) + 1] = [session |-> s, key |-> key, after |-> Len(owner)]
    BY <1>3, <2>1, Sent
  <2>3. Known([type |-> "Query", key |-> key, request |-> Len(asked) + 1])
    BY <2>2
  <2> HIDE DEF Known
  <2> QED BY <2>1, <2>3, <1>6
<1>9. CASE to_engine # <<>> /\ to_engine' = Tail(to_engine)
  <2> HIDE DEF Known
  <2> QED BY <1>1, <1>2, <1>9, Taken
<1>10. CASE to_engine' = <<>>
  BY <1>10, EmptySeq
<1> QED BY <1>5, <1>7, <1>8, <1>9, <1>10, EngineChannel

\* ... and the second half: the engine's and the publisher's.
LEMMA MainMessages ==
    ASSUME Shape, [Next]_vars
    PROVE  to_main' \in Seq(Response)
<1>1. to_main \in Seq(Response)
  BY Messages
<1>2. CASE EngineAnswers /\ to_engine # <<>> /\ Head(to_engine).type = "Query"
  <2> DEFINE m    == Head(to_engine)
             mine == OrdersOf(m.key.user)
  <2>1. /\ m.key \in Key /\ mine \in SUBSET Orders /\ InOrder(mine) \in Seq(mine)
        /\ to_main' = to_main \o Responses(m.key, InOrder(mine))
    BY <1>2, HeadQuery
  <2> HIDE DEF m, mine
  <2>2. Responses(m.key, InOrder(mine)) \in Seq(Response)
    BY <2>1, ResponsesTo
  <2> QED BY <2>1, <2>2, <1>1, Followed
<1>3. CASE to_main # <<>> /\ to_main' = Tail(to_main)
  BY <1>1, <1>3, Taken
<1>4. CASE to_main' = <<>>
  BY <1>4, EmptySeq
<1> QED BY <1>1, <1>2, <1>3, <1>4, MainChannel

\* The publisher's step: the response at the head and its context.
LEMMA HeadResponse ==
    ASSUME Shape, to_main # <<>>
    PROVE  LET m == Head(to_main)
           IN  /\ 1 \in DOMAIN to_main /\ to_main[1] = m /\ m \in Response
               /\ m.key \in Key /\ m.orders \in Seq(Orders) /\ m.last \in BOOLEAN
               /\ contexts[m.key] \in Context \cup {None}
<1>1. to_main \in Seq(Response) /\ contexts \in [Key -> Context \cup {None}]
  BY DEF Shape, Typed
<1>2. /\ 1 \in DOMAIN to_main /\ to_main[1] = Head(to_main) /\ Head(to_main) \in Response
  BY <1>1, Taken
<1>3. Head(to_main).key \in Key /\ Head(to_main).orders \in Seq(Orders) /\ Head(to_main).last \in BOOLEAN
  BY <1>2 DEF Response
<1> QED BY <1>1, <1>2, <1>3

\* Register's context is a context.
LEMMA NewContext ==
    ASSUME NEW s \in Sessions
    PROVE  [in_flight |-> 1, orders |-> <<>>, task |-> s] \in Context
<1>1. 1 \in 0 .. Word - 1
  BY OpenOrdersAssumption
<1>2. <<>> \in Seq(Orders)
  BY EmptySeq
<1> QED BY <1>1, <1>2 DEF Context

\* What a step does to the contexts.
LEMMA ContextSteps ==
    ASSUME Shape, [Next]_vars
    PROVE  \/ UNCHANGED contexts
           \/ /\ Register /\ handler \in DOMAIN asked
              /\ contexts' = [contexts EXCEPT ![asked[handler].key] =
                                [in_flight |-> 1, orders |-> <<>>, task |-> asked[handler].session]]
              /\ [in_flight |-> 1, orders |-> <<>>, task |-> asked[handler].session] \in Context
           \/ /\ Receive /\ to_main # <<>>
              /\ contexts[Head(to_main).key] \in Context /\ Len(Head(to_main).orders) < Chunk
              /\ contexts' = [contexts EXCEPT ![Head(to_main).key] =
                                Recv(contexts[Head(to_main).key], Head(to_main))]
<1>1. CASE UNCHANGED vars
  BY <1>1 DEF vars, pending_vars
<1>2. CASE \/ \E s \in Sessions : Client(s) \/ Poll(s)
           \/ EngineStep \/ EngineDies \/ ReceivePanics
           \/ \E o \in Orders : EngineRemovesOrder(o)
  BY <1>2 DEF Client, EngineStep, Authenticate, EnterOrder, Ask, HangUp, Poll,
     EngineTakesOrder, EngineAnswers, EngineDies, EngineRemovesOrder, ReceivePanics, pending_vars
<1>3. CASE Register
  <2>1. handler \in DOMAIN asked
    BY <1>3 DEF Register, Shape, Numbers
  <2>2. asked[handler].session \in Sessions
    BY <2>1, Made
  <2>3. [in_flight |-> 1, orders |-> <<>>, task |-> asked[handler].session] \in Context
    BY <2>2, NewContext
  <2> QED BY <1>3, <2>1, <2>3 DEF Register
<1>4. CASE Receive
  <2>1. to_main # <<>>
    BY <1>4 DEF Receive
  <2>2. contexts[Head(to_main).key] \in Context \cup {None}
    BY <2>1, HeadResponse
  <2> QED BY <1>4, <2>1, <2>2 DEF Receive
<1> QED BY <1>1, <1>2, <1>3, <1>4 DEF Next, Publisher

\* What a step does to the queries that wait.
LEMMA WaitingSteps ==
    ASSUME [Next]_vars
    PROVE  \/ UNCHANGED waiting
           \/ \E s \in Sessions : Poll(s) /\ waiting' = waiting \ Answered(s)
           \/ \E s \in Sessions : HangUp(s) /\ waiting' = {n \in waiting : asked[n].session # s}
           \/ Register /\ handler # None /\ waiting' = waiting \cup {handler} /\ handler' = None
<1>1. CASE UNCHANGED vars
  BY <1>1 DEF vars, pending_vars
<1>2. CASE Next
  BY <1>2 DEF Next, Client, EngineStep, Publisher, Authenticate, EnterOrder, Ask, HangUp, Poll, Register,
     EngineTakesOrder, EngineAnswers, EngineDies, EngineRemovesOrder, Receive, ReceivePanics, pending_vars
<1> QED BY <1>1, <1>2

\* A context is never taken out of the map.
LEMMA ContextsStay ==
    ASSUME Shape, [Next]_vars
    PROVE  /\ contexts' \in [Key -> Context \cup {None}]
           /\ \A k \in Key : contexts[k] # None => contexts'[k] # None
           /\ \A n \in waiting' : contexts'[asked'[n].key] # None
<1>1. contexts \in [Key -> Context \cup {None}]
  BY DEF Shape, Typed
<1>2. \A n \in DOMAIN asked : asked[n].key \in Key
  BY Made
<1>3. /\ contexts' \in [Key -> Context \cup {None}]
      /\ \A k \in Key : contexts[k] # None => contexts'[k] # None
  <2>1. CASE UNCHANGED contexts
    BY <2>1, <1>1
  <2>2. ASSUME NEW key \in Key, NEW c \in Context, contexts' = [contexts EXCEPT ![key] = c]
        PROVE  <1>3
    BY <2>2, <1>1, NoneAssumption
  <2>3. ASSUME Register, handler \in DOMAIN asked,
               contexts' = [contexts EXCEPT ![asked[handler].key] =
                              [in_flight |-> 1, orders |-> <<>>, task |-> asked[handler].session]],
               [in_flight |-> 1, orders |-> <<>>, task |-> asked[handler].session] \in Context
        PROVE  <1>3
    BY <2>3, <2>2, <1>2, Zenon
  <2>4. ASSUME to_main # <<>>, contexts[Head(to_main).key] \in Context,
               contexts' = [contexts EXCEPT ![Head(to_main).key] =
                              Recv(contexts[Head(to_main).key], Head(to_main))]
        PROVE  <1>3
    <3>1. Head(to_main) \in Response /\ Head(to_main).key \in Key
      BY <2>4, HeadResponse
    <3>2. Recv(contexts[Head(to_main).key], Head(to_main)) \in Context
      BY <2>4, <3>1, RecvOfContext
    <3> QED BY <2>4, <2>2, <3>1, <3>2, Zenon
  <2> QED BY <2>1, <2>3, <2>4, ContextSteps
<1>4. \A n \in waiting : n \in DOMAIN asked /\ asked'[n] = asked[n] /\ contexts[asked[n].key] # None
  BY SessionsTyped, Made DEF Shape, Numbers
<1>5. CASE waiting' \subseteq waiting
  BY <1>2, <1>3, <1>4, <1>5
<1>6. CASE Register /\ waiting' = waiting \cup {handler}
  <2>1. handler \in DOMAIN asked /\ asked' = asked
    BY <1>6 DEF Shape, Numbers, Register
  <2>2. contexts'[asked[handler].key] # None
    <3>1. contexts' = [contexts EXCEPT ![asked[handler].key] =
                         [in_flight |-> 1, orders |-> <<>>, task |-> asked[handler].session]]
      BY <1>6 DEF Register
    <3>2. [in_flight |-> 1, orders |-> <<>>, task |-> asked[handler].session] \in Context
      BY <2>1, Made, NewContext
    <3> QED BY <3>1, <3>2, <2>1, <1>1, <1>2, NoneAssumption
  <2> QED BY <1>2, <1>3, <1>4, <1>6, <2>1, <2>2
<1> QED BY <1>3, <1>5, <1>6, WaitingSteps

\* What a step does to the snapshots.
LEMMA SnapshotSteps ==
    ASSUME Shape, [Next]_vars
    PROVE  \/ UNCHANGED snapshot
           \/ EngineAnswers /\ to_engine # <<>> /\ Head(to_engine).type = "Query"
<1>1. CASE UNCHANGED vars
  BY <1>1 DEF vars, engine_vars
<1>2. CASE Next
  BY <1>2 DEF Next, Client, EngineStep, Publisher, Authenticate, EnterOrder, Ask, HangUp, Poll, Register,
     EngineTakesOrder, EngineAnswers, EngineDies, EngineRemovesOrder, Receive, ReceivePanics, engine_vars
<1> QED BY <1>1, <1>2

\* What a step does to the answers: they are taken out of contexts that there are.
LEMMA AnswerSteps ==
    ASSUME Shape, [Next]_vars
    PROVE  \/ UNCHANGED answer
           \/ /\ \E s \in Sessions : Poll(s) /\ waiting' = waiting \ Answered(s)
              /\ UNCHANGED <<handler, contexts, to_engine, to_main, snapshot, panicked, asked, clashed>>
              /\ \A n \in Requests :
                    \/ answer'[n] = answer[n]
                    \/ /\ n \in waiting /\ n \notin waiting' /\ contexts[asked[n].key] \in Context
                       /\ contexts[asked[n].key].in_flight = 0
                       /\ answer'[n] = contexts[asked[n].key].orders
<1>1. CASE \E s \in Sessions : Poll(s)
  <2>1. PICK s \in Sessions : Poll(s)
    BY <1>1
  <2>2. \A n \in waiting : contexts[asked[n].key] \in Context
    <3>1. \A n \in waiting : asked[n].key \in Key /\ contexts[asked[n].key] # None
      BY Made DEF Shape, Numbers
    <3> QED BY <3>1 DEF Shape, Typed
  <2>3. /\ waiting' = waiting \ Answered(s)
        /\ answer' = [n \in Requests |-> IF n \in Answered(s)
                                         THEN contexts[asked[n].key].orders ELSE answer[n]]
        /\ UNCHANGED <<handler, contexts, to_engine, to_main, snapshot, panicked, asked, clashed>>
    BY <2>1 DEF Poll, channel_vars, engine_vars
  <2>4. \A n \in Answered(s) : n \in waiting /\ contexts[asked[n].key].in_flight = 0
    BY DEF Answered
  <2> QED BY <2>1, <2>2, <2>3, <2>4
<1>2. CASE UNCHANGED vars
  BY <1>2 DEF vars
<1>3. CASE Next /\ ~\E s \in Sessions : Poll(s)
  BY <1>3 DEF Next, Client, EngineStep, Publisher, Authenticate, EnterOrder, Ask, HangUp, Register,
     EngineTakesOrder, EngineAnswers, EngineDies, EngineRemovesOrder, Receive, ReceivePanics
<1> QED BY <1>1, <1>2, <1>3

\* What a step does to the books.
LEMMA OpenSteps ==
    ASSUME Shape, [Next]_vars
    PROVE  \/ open' \subseteq open
           \/ /\ to_engine # <<>> /\ Head(to_engine).type = "NewOrder" /\ to_engine' = Tail(to_engine)
              /\ open' = open \cup {Head(to_engine).order} /\ UNCHANGED owner
<1>1. CASE UNCHANGED vars
  BY <1>1 DEF vars, engine_vars
<1>2. CASE EngineTakesOrder
  BY <1>2 DEF EngineTakesOrder
<1>3. CASE Next /\ ~EngineTakesOrder
  BY <1>3 DEF Next, Client, EngineStep, Publisher, Authenticate, EnterOrder, Ask, HangUp, Poll, Register,
     EngineAnswers, EngineDies, EngineRemovesOrder, Receive, ReceivePanics, engine_vars
<1> QED BY <1>1, <1>2, <1>3

LEMMA ShapeStep ==
    ASSUME Shape, [Next]_vars
    PROVE  Shape'
<1>1. /\ snapshot \in [Requests -> (SUBSET Orders) \cup {None}]
      /\ answer \in [Requests -> Seq(Orders) \cup {None}]
      /\ \A n \in Requests : snapshot[n] # None \/ answer[n] # None => n \in DOMAIN asked
  BY DEF Shape, Typed, Numbers
<1>2. DOMAIN asked \subseteq DOMAIN asked' /\ DOMAIN owner \subseteq DOMAIN owner'
  BY SessionsTyped
<1>3. DOMAIN asked \subseteq Requests /\ open \subseteq DOMAIN owner /\ waiting \subseteq DOMAIN asked
  BY Made
<1>4. /\ snapshot' \in [Requests -> (SUBSET Orders) \cup {None}]
      /\ \A n \in Requests : snapshot'[n] # None => n \in DOMAIN asked'
  <2>1. CASE UNCHANGED snapshot
    BY <2>1, <1>1, <1>2
  <2>2. CASE EngineAnswers /\ to_engine # <<>> /\ Head(to_engine).type = "Query"
    <3>1. /\ Head(to_engine).request \in DOMAIN asked
          /\ OrdersOf(Head(to_engine).key.user) \in SUBSET Orders
          /\ snapshot' = [snapshot EXCEPT ![Head(to_engine).request] = OrdersOf(Head(to_engine).key.user)]
      BY <2>2, HeadQuery
    <3> QED BY <3>1, <1>1, <1>2, <1>3
  <2> QED BY <2>1, <2>2, SnapshotSteps
<1>5. /\ answer' \in [Requests -> Seq(Orders) \cup {None}]
      /\ \A n \in Requests : answer'[n] # None => n \in DOMAIN asked'
  <2>1. CASE UNCHANGED answer
    BY <2>1, <1>1, <1>2
  <2>2. CASE \E s \in Sessions : Poll(s)
    <3>1. \A n \in Requests :
             \/ answer'[n] = answer[n]
             \/ n \in waiting /\ answer'[n] \in Seq(Orders)
      BY AnswerSteps DEF Context
    <3>2. \A n \in Requests : answer'[n] \in Seq(Orders) \cup {None} /\ (answer'[n] # None => n \in DOMAIN asked')
      BY <3>1, <1>1, <1>2, <1>3
    <3>3. \E e : answer' = [n \in Requests |-> e[n]]
      <4>1. PICK s \in Sessions : Poll(s)
        BY <2>2
      <4>2. answer' = [n \in Requests |-> IF n \in Answered(s)
                                          THEN contexts[asked[n].key].orders ELSE answer[n]]
        BY <4>1 DEF Poll
      <4> QED BY <4>2
    <3> QED BY <3>2, <3>3
  <2> QED BY <2>1, <2>2, AnswerSteps
<1>6. open' \subseteq DOMAIN owner'
  <2>1. to_engine # <<>> /\ Head(to_engine).type = "NewOrder" => Head(to_engine).order \in DOMAIN owner
    BY HeadOrder
  <2> QED BY <2>1, <1>2, <1>3, OpenSteps
<1>7. Typed'
  BY <1>4, <1>5, <1>6, SessionsTyped, EngineMessages, MainMessages, ContextsStay DEF Typed
<1>8. Numbers'
  BY <1>4, <1>5, SessionsTyped, EngineMessages, ContextsStay DEF Numbers
<1> QED BY <1>7, <1>8 DEF Shape

------------------------------------------------------------------------------
\* Whose orders: OnlyOwnOrders

\* An order stays its user's.
LEMMA OwnedGrows ==
    ASSUME Shape, [Next]_vars, NEW u, NEW list \in Seq(OwnedBy(owner, u))
    PROVE  list \in Seq(OwnedBy(owner', u))
<1>1. OwnedBy(owner, u) \subseteq OwnedBy(owner', u)
  BY SessionsTyped DEF OwnedBy
<1> QED BY <1>1, SeqMonotonic

LEMMA OwnListsStep ==
    ASSUME Shape, OwnLists, [Next]_vars
    PROVE  OwnLists'
<1> DEFINE Own(m)  == m.orders \in Seq(OwnedBy(owner, m.key.user))
           Kept(m) == m.orders \in Seq(OwnedBy(owner', m.key.user))
<1>1. \A m : Own(m) => Kept(m)
  BY OwnedGrows
<1>2. to_main \in Seq(Response) /\ \A i \in DOMAIN to_main : Own(to_main[i])
  BY Messages DEF OwnLists
<1>3. \A i \in DOMAIN to_main' : Kept(to_main'[i])
  <2>1. CASE UNCHANGED to_main
    BY <2>1, <1>1, <1>2
  <2>2. CASE EngineAnswers /\ to_engine # <<>> /\ Head(to_engine).type = "Query"
    <3> DEFINE key  == Head(to_engine).key
               mine == OrdersOf(key.user)
               new  == Responses(key, InOrder(mine))
    <3>1. /\ key \in Key /\ mine \in SUBSET Orders /\ mine \subseteq OwnedBy(owner, key.user)
          /\ InOrder(mine) \in Seq(mine) /\ to_main' = to_main \o new
      BY <2>2, HeadQuery
    <3>2. ASSUME NEW k \in Key, NEW T \in SUBSET Orders, NEW list \in Seq(T)
          PROVE  /\ Responses(k, list) \in Seq(Response)
                 /\ \A i \in DOMAIN Responses(k, list) :
                       Responses(k, list)[i].key = k /\ Responses(k, list)[i].orders \in Seq(T)
      BY ResponsesTo
    <3> HIDE DEF key, mine
    <3>3. /\ new \in Seq(Response)
          /\ \A i \in DOMAIN new : new[i].key = key /\ new[i].orders \in Seq(mine)
      BY <3>1, <3>2
    <3> HIDE DEF new
    <3>4. \A i \in DOMAIN new : Own(new[i])
      BY <3>1, <3>3, SeqMonotonic
    <3> HIDE DEF Own, Kept
    <3>5. \A i \in DOMAIN (to_main \o new) : Own((to_main \o new)[i])
      BY <3>3, <3>4, <1>2, Followed
    <3> QED BY <3>1, <3>5, <1>1
  <2>3. CASE to_main # <<>> /\ to_main' = Tail(to_main)
    <3> HIDE DEF Own, Kept
    <3> QED BY <2>3, <1>1, <1>2, Taken
  <2>4. CASE to_main' = <<>>
    BY <2>4
  <2> QED BY <2>1, <2>2, <2>3, <2>4, MainChannel
<1>4. ASSUME NEW k \in Key, contexts'[k] # None
      PROVE  contexts'[k].orders \in Seq(OwnedBy(owner', k.user))
  <2>1. contexts \in [Key -> Context \cup {None}] /\ \A n \in DOMAIN asked : asked[n].key \in Key
    BY Made DEF Shape, Typed
  <2>2. contexts[k] # None => contexts[k].orders \in Seq(OwnedBy(owner, k.user))
    BY DEF OwnLists
  <2>3. CASE contexts'[k] = contexts[k]
    BY <2>2, <2>3, <1>4, OwnedGrows
  <2>4. CASE contexts'[k].orders = <<>>
    BY <2>4, EmptySeq
  <2>5. ASSUME to_main # <<>>, k = Head(to_main).key, contexts[k] \in Context,
               contexts'[k] = Recv(contexts[k], Head(to_main))
        PROVE  contexts'[k].orders \in Seq(OwnedBy(owner', k.user))
    <3>1. Head(to_main) \in Response /\ Own(Head(to_main)) /\ contexts[k] # None
      BY <2>5, <1>2, HeadResponse, NoneAssumption
    <3>2. contexts'[k].orders = contexts[k].orders \o Head(to_main).orders
      BY <2>5, <3>1, RecvOfContext
    <3>3. contexts'[k].orders \in Seq(OwnedBy(owner, k.user))
      BY <2>2, <2>5, <3>1, <3>2, ConcatProperties
    <3> QED BY <3>3, OwnedGrows
  <2>6. CASE UNCHANGED contexts
    BY <2>3, <2>6
  <2>7. CASE /\ handler \in DOMAIN asked
             /\ contexts' = [contexts EXCEPT ![asked[handler].key] =
                               [in_flight |-> 1, orders |-> <<>>, task |-> asked[handler].session]]
    <3>1. k = asked[handler].key => contexts'[k].orders = <<>>
      BY <2>1, <2>7
    <3>2. k # asked[handler].key => contexts'[k] = contexts[k]
      BY <2>1, <2>7
    <3> QED BY <3>1, <3>2, <2>3, <2>4
  <2>8. CASE /\ to_main # <<>> /\ contexts[Head(to_main).key] \in Context
             /\ contexts' = [contexts EXCEPT ![Head(to_main).key] =
                               Recv(contexts[Head(to_main).key], Head(to_main))]
    <3>1. k = Head(to_main).key => contexts'[k] = Recv(contexts[k], Head(to_main))
      BY <2>1, <2>8
    <3>2. k # Head(to_main).key => contexts'[k] = contexts[k]
      BY <2>1, <2>8
    <3> QED BY <3>1, <3>2, <2>3, <2>5, <2>8
  <2> QED BY <2>6, <2>7, <2>8, ContextSteps
<1>5. ASSUME NEW n \in Requests, answer'[n] # None
      PROVE  answer'[n] \in Seq(OwnedBy(owner', asked'[n].key.user))
  <2>1. CASE answer'[n] = answer[n]
    <3>1. n \in DOMAIN asked /\ asked'[n] = asked[n]
      BY <2>1, <1>5, SessionsTyped DEF Shape, Numbers
    <3>2. answer[n] \in Seq(OwnedBy(owner, asked[n].key.user))
      BY <2>1, <1>5 DEF OwnLists
    <3> QED BY <2>1, <3>1, <3>2, OwnedGrows
  <2>2. CASE /\ n \in waiting /\ contexts[asked[n].key] \in Context
             /\ answer'[n] = contexts[asked[n].key].orders
    <3>1. asked[n].key \in Key /\ asked'[n] = asked[n] /\ contexts[asked[n].key] # None
      BY <2>2, Made, SessionsTyped, NoneAssumption
    <3>2. answer'[n] \in Seq(OwnedBy(owner, asked[n].key.user))
      BY <2>2, <3>1 DEF OwnLists
    <3> QED BY <3>1, <3>2, OwnedGrows
  <2> QED BY <2>1, <2>2, AnswerSteps
<1> QED BY <1>3, <1>4, <1>5 DEF OwnLists

------------------------------------------------------------------------------
\* One query's key: AnswerIsSnapshot

\* A process that has ended stays so.
LEMMA PanicLasts ==
    ASSUME [Next]_vars, ~panicked'
    PROVE  ~panicked
<1>1. CASE UNCHANGED vars
  BY <1>1 DEF vars
<1>2. CASE Next
  BY <1>2 DEF Next, Client, EngineStep, Publisher, Authenticate, EnterOrder, Ask, HangUp, Poll, Register,
     EngineTakesOrder, EngineAnswers, EngineDies, EngineRemovesOrder, Receive, ReceivePanics
<1> QED BY <1>1, <1>2

\* A query comes to live by Ask only, and does so with a key that nothing
\* outstanding has, or the key is not its own.
LEMMA LiveSteps ==
    ASSUME Shape, [Next]_vars, NEW n \in Live'
    PROVE  \/ /\ n \in Live /\ n \in DOMAIN asked /\ asked'[n] = asked[n] /\ asked[n].key \in Key
              /\ Alone(n)' => Alone(n)
           \/ /\ n = Len(asked) + 1
              /\ \E s \in Sessions : Ask(s) /\ engine_up
<1>1. \A l \in Live : l \in DOMAIN asked /\ asked'[l] = asked[l] /\ asked[l].key \in Key
  BY SessionsTyped, Made
<1>2. clashed \subseteq clashed'
  BY SessionsTyped
<1>3. CASE n \in Live
  BY <1>1, <1>2, <1>3 DEF Alone
<1>4. CASE n \in waiting' /\ n \notin waiting
  <2>1. n = handler /\ handler # None
    BY <1>4, WaitingSteps
  <2> QED BY <2>1, <1>3 DEF Live
<1>5. CASE n = handler' /\ n # handler /\ n # None
  <2>1. CASE UNCHANGED vars
    BY <2>1, <1>5 DEF vars
  <2>2. CASE \E s \in Sessions : Ask(s)
    <3>1. PICK s \in Sessions : Ask(s)
      BY <2>2
    <3> QED BY <3>1, <1>5 DEF Ask
  <2>3. CASE Next /\ ~\E s \in Sessions : Ask(s)
    BY <2>3, <1>5 DEF Next, Client, EngineStep, Publisher, Authenticate, EnterOrder, HangUp, Poll, Register,
       EngineTakesOrder, EngineAnswers, EngineDies, EngineRemovesOrder, Receive, ReceivePanics
  <2> QED BY <2>1, <2>2, <2>3
<1> QED BY <1>3, <1>4, <1>5 DEF Live

\* Where the queries come from that are on their way.
LEMMA QueriesStay ==
    ASSUME Shape, [Next]_vars, ~\E s \in Sessions : Ask(s) /\ engine_up
    PROVE  \E d \in {0, 1} :
              /\ EngineAnswers => d = 1
              /\ \A i \in DOMAIN to_engine' : to_engine'[i].type = "Query" =>
                    i + d \in DOMAIN to_engine /\ to_engine'[i] = to_engine[i + d]
<1>1. to_engine \in Seq(Query \cup Entered) /\ DOMAIN to_engine = 1 .. Len(to_engine) /\ Len(to_engine) \in Nat
  BY Messages
<1>2. CASE to_engine # <<>> /\ to_engine' = Tail(to_engine)
  <2>1. \A i \in DOMAIN to_engine' : i + 1 \in DOMAIN to_engine /\ to_engine'[i] = to_engine[i + 1]
    BY <1>1, <1>2, Taken
  <2> QED BY <2>1
<1>3. EngineAnswers => to_engine # <<>> /\ to_engine' = Tail(to_engine)
  BY DEF EngineAnswers
<1>4. CASE ~EngineAnswers /\ UNCHANGED to_engine
  BY <1>1, <1>4
<1>5. CASE ~EngineAnswers /\ to_engine' = <<>>
  BY <1>5
<1>6. ASSUME NEW m \in Query \cup Entered, m.type = "NewOrder", ~EngineAnswers, to_engine' = Append(to_engine, m)
      PROVE  \A i \in DOMAIN to_engine' : to_engine'[i].type = "Query" =>
                i + 0 \in DOMAIN to_engine /\ to_engine'[i] = to_engine[i + 0]
  <2>1. /\ DOMAIN to_engine' = 1 .. Len(to_engine) + 1 /\ to_engine'[Len(to_engine) + 1] = m
        /\ \A i \in DOMAIN to_engine : to_engine'[i] = to_engine[i]
    BY <1>1, <1>6, Sent
  <2> QED BY <2>1, <1>1, <1>6
<1>7. CASE /\ ~EngineAnswers
           /\ to_engine' = Append(to_engine, [type |-> "NewOrder", order |-> Len(owner) + 1])
           /\ [type |-> "NewOrder", order |-> Len(owner) + 1] \in Query \cup Entered
  BY <1>6, <1>7
<1> QED BY <1>2, <1>3, <1>4, <1>5, <1>7, EngineChannel

\* Where the responses come from.
LEMMA ResponsesStay ==
    ASSUME Shape, [Next]_vars, NEW i \in DOMAIN to_main'
    PROVE  \/ \E j \in DOMAIN to_main : to_main'[i] = to_main[j]
           \/ /\ EngineAnswers /\ to_engine # <<>> /\ Head(to_engine).type = "Query"
              /\ to_main'[i].key = Head(to_engine).key
<1>1. to_main \in Seq(Response)
  BY Messages
<1>2. CASE EngineAnswers /\ to_engine # <<>> /\ Head(to_engine).type = "Query"
  <2> DEFINE key  == Head(to_engine).key
             mine == OrdersOf(key.user)
  <2>1. /\ key \in Key /\ mine \in SUBSET Orders /\ InOrder(mine) \in Seq(mine)
        /\ to_main' = to_main \o Responses(key, InOrder(mine))
    BY <1>2, HeadQuery
  <2> HIDE DEF key, mine
  <2>2. /\ Responses(key, InOrder(mine)) \in Seq(Response)
        /\ \A j \in DOMAIN Responses(key, InOrder(mine)) : Responses(key, InOrder(mine))[j].key = key
    BY <2>1, ResponsesTo
  <2>3. \/ i \in DOMAIN to_main /\ to_main'[i] = to_main[i]
        \/ to_main'[i].key = key
    BY <2>1, <2>2, <1>1, Followed
  <2> QED BY <2>3, <1>2 DEF key
<1>3. CASE to_main # <<>> /\ to_main' = Tail(to_main)
  BY <1>1, <1>3, Taken
<1> QED BY <1>2, <1>3, MainChannel

\* Ask's key, when it is alone, is nobody's at the time.
LEMMA AskAlone ==
    ASSUME Shape, [Next]_vars, NEW s \in Sessions, Ask(s), engine_up
    PROVE  \E key \in Key :
              /\ UNCHANGED <<to_main, contexts, waiting, snapshot, answer, panicked, owner>>
              /\ Live = waiting /\ Live' = waiting \cup {Len(asked) + 1} /\ ~panicked
              /\ asked'[Len(asked) + 1].key = key /\ Len(asked) + 1 \notin DOMAIN asked
              /\ asked'[Len(asked) + 1].after = Len(owner)
              /\ to_engine' = Append(to_engine, [type |-> "Query", key |-> key, request |-> Len(asked) + 1])
              /\ [type |-> "Query", key |-> key, request |-> Len(asked) + 1] \in Query \cup Entered
              /\ key \notin clashed' =>
                    /\ \A n \in Live : asked[n].key # key
                    /\ \A i \in DOMAIN to_engine : ~Asks(to_engine[i], key)
                    /\ \A i \in DOMAIN to_main : to_main[i].key # key
<1> DEFINE key == [user |-> user[s], seq |-> next[s]]
           n   == Len(asked) + 1
           q   == [session |-> s, key |-> key, after |-> Len(owner)]
<1>1. /\ user[s] \in Users /\ next[s] \in 0 .. MaxRequests /\ Len(asked) < MaxRequests
      /\ handler = None /\ ~panicked
  BY DEF Ask, SignedIn, Connected, Ready, Shape, Typed
<1>2. /\ DOMAIN asked = 1 .. Len(asked) /\ Len(asked) \in Nat /\ MaxRequests \in Nat
      /\ Len(owner) \in 0 .. MaxOrders
  BY Made
<1>3. key \in Key
  BY <1>1 DEF Key
<1>4. /\ asked' = Append(asked, q) /\ handler' = n
      /\ to_engine' = Append(to_engine, [type |-> "Query", key |-> key, request |-> n])
      /\ clashed' = IF Outstanding(key) THEN clashed \cup {key} ELSE clashed
      /\ UNCHANGED <<to_main, contexts, waiting, snapshot, answer, panicked, owner>>
  BY DEF Ask, pending_vars, engine_vars
<1>5. asked \in Seq([session : Sessions, key : Key, after : 0 .. MaxOrders])
  BY DEF Shape, Typed
<1> HIDE DEF key
<1>6. q \in [session : Sessions, key : Key, after : 0 .. MaxOrders] /\ q.key = key /\ q.after = Len(owner)
  BY <1>2, <1>3
<1>7. n \in Requests
  BY <1>1, <1>2 DEF Requests
<1>8. [type |-> "Query", key |-> key, request |-> n] \in Query \cup Entered
  BY <1>3, <1>7 DEF Query
<1>9. asked'[n] = q
  <2> HIDE DEF q
  <2> QED BY <1>4, <1>5, <1>6, Sent
<1>10. n \notin DOMAIN asked /\ n # None
  BY <1>2, <1>7, NoneAssumption
<1>11. Live = waiting /\ Live' = waiting \cup {n}
  BY <1>1, <1>4, <1>10 DEF Live
<1>12. key \notin clashed' => ~Outstanding(key)
  BY <1>4
<1>13. ~Outstanding(key) =>
          /\ \A l \in Live : asked[l].key # key
          /\ \A i \in DOMAIN to_engine : ~Asks(to_engine[i], key)
          /\ \A i \in DOMAIN to_main : to_main[i].key # key
  BY <1>11 DEF Outstanding, Asks
<1> WITNESS key \in Key
<1> QED BY <1>1, <1>4, <1>6, <1>8, <1>9, <1>10, <1>11, <1>12, <1>13

LEMMA OneEachStep ==
    ASSUME Shape, OneEach, [Next]_vars
    PROVE  OneEach'
<1> SUFFICES ASSUME ~panicked', NEW n \in Live', Alone(n)'
             PROVE  /\ \A l \in Live' : asked'[l].key = asked'[n].key => l = n
                    /\ \A i \in DOMAIN to_engine' : Asks(to_engine'[i], asked'[n].key) =>
                          /\ to_engine'[i].request = n
                          /\ \A j \in DOMAIN to_engine' : Asks(to_engine'[j], asked'[n].key) => j = i
                          /\ \A j \in DOMAIN to_main' : to_main'[j].key # asked'[n].key
  BY DEF OneEach, Asks
<1>1. ~panicked
  BY PanicLasts
<1>2. CASE \E s \in Sessions : Ask(s) /\ engine_up
  <2>1. PICK s \in Sessions : Ask(s) /\ engine_up
    BY <1>2
  <2> DEFINE new == Len(asked) + 1
  <2>2. PICK key \in Key :
              /\ UNCHANGED <<to_main, contexts, waiting, snapshot, answer, panicked, owner>>
              /\ Live = waiting /\ Live' = waiting \cup {new}
              /\ asked'[new].key = key /\ new \notin DOMAIN asked
              /\ to_engine' = Append(to_engine, [type |-> "Query", key |-> key, request |-> new])
              /\ [type |-> "Query", key |-> key, request |-> new] \in Query \cup Entered
              /\ key \notin clashed' =>
                    /\ \A l \in Live : asked[l].key # key
                    /\ \A i \in DOMAIN to_engine : ~Asks(to_engine[i], key)
                    /\ \A i \in DOMAIN to_main : to_main[i].key # key
    BY <2>1, AskAlone
  <2> HIDE DEF new
  <2>3. \A l \in Live : asked'[l] = asked[l]
    BY SessionsTyped, Made
  <2>4. /\ to_engine \in Seq(Query \cup Entered)
        /\ DOMAIN to_engine = 1 .. Len(to_engine) /\ Len(to_engine) \in Nat
    BY Messages
  <2> DEFINE q == [type |-> "Query", key |-> key, request |-> new]
  <2>5. q.type = "Query" /\ q.key = key /\ q.request = new
    OBVIOUS
  <2> HIDE DEF q
  <2>6. /\ DOMAIN to_engine' = 1 .. Len(to_engine) + 1 /\ to_engine'[Len(to_engine) + 1] = q
        /\ \A i \in DOMAIN to_engine : to_engine'[i] = to_engine[i]
    BY <2>2, <2>4, Sent DEF q
  <2>7. CASE n = new
    <3>1. key \notin clashed' /\ asked'[n].key = key
      BY <2>2, <2>7 DEF Alone
    <3>2. \A l \in Live' : asked'[l].key = asked'[n].key => l = n
      BY <3>1, <2>2, <2>3, <2>7
    <3>3. \A i \in DOMAIN to_engine' : Asks(to_engine'[i], asked'[n].key) => i = Len(to_engine) + 1
      BY <3>1, <2>2, <2>4, <2>6
    <3>4. \A j \in DOMAIN to_main' : to_main'[j].key # asked'[n].key
      BY <3>1, <2>2
    <3> QED BY <3>2, <3>3, <3>4, <2>5, <2>6, <2>7
  <2>8. CASE n \in Live /\ Alone(n) /\ asked'[n] = asked[n]
    <3>1. asked'[n].key \notin clashed'
      BY DEF Alone
    <3>2. asked[n].key # key
      BY <3>1, <2>2, <2>8
    <3>3. \A l \in Live' : asked'[l].key = asked'[n].key => l = n
      BY <3>2, <1>1, <2>2, <2>3, <2>8 DEF OneEach
    <3>4. \A i \in DOMAIN to_engine' : Asks(to_engine'[i], asked'[n].key) =>
             i \in DOMAIN to_engine /\ to_engine'[i] = to_engine[i]
      BY <3>2, <2>4, <2>5, <2>6, <2>8 DEF Asks
    <3> QED BY <3>3, <3>4, <1>1, <2>2, <2>8 DEF OneEach
  <2>9. n = new \/ (n \in Live /\ Alone(n) /\ asked'[n] = asked[n])
    BY LiveSteps DEF new
  <2> QED BY <2>7, <2>8, <2>9
<1>3. CASE ~\E s \in Sessions : Ask(s) /\ engine_up
  <2>1. \A l \in Live' : l \in Live /\ asked'[l] = asked[l]
    BY <1>3, LiveSteps
  <2>2. Alone(n)
    BY <1>3, LiveSteps
  <2>3. PICK d \in {0, 1} :
           /\ EngineAnswers => d = 1
           /\ \A i \in DOMAIN to_engine' : to_engine'[i].type = "Query" =>
                 i + d \in DOMAIN to_engine /\ to_engine'[i] = to_engine[i + d]
    BY <1>3, QueriesStay
  <2>4. \A l \in Live : asked[l].key = asked[n].key => l = n
    BY <1>1, <2>1, <2>2 DEF OneEach
  <2>5. ASSUME NEW i \in DOMAIN to_engine', Asks(to_engine'[i], asked'[n].key)
        PROVE  /\ to_engine'[i].request = n
               /\ \A j \in DOMAIN to_engine' : Asks(to_engine'[j], asked'[n].key) => j = i
               /\ \A j \in DOMAIN to_main' : to_main'[j].key # asked'[n].key
    <3>1. i + d \in DOMAIN to_engine /\ Asks(to_engine[i + d], asked[n].key) /\ to_engine'[i] = to_engine[i + d]
      BY <2>1, <2>3, <2>5 DEF Asks
    <3>2. /\ to_engine[i + d].request = n
          /\ \A j \in DOMAIN to_engine : Asks(to_engine[j], asked[n].key) => j = i + d
          /\ \A j \in DOMAIN to_main : to_main[j].key # asked[n].key
      BY <3>1, <1>1, <2>1, <2>2 DEF OneEach
    <3>3. ASSUME NEW j \in DOMAIN to_engine', Asks(to_engine'[j], asked'[n].key)
          PROVE  j = i
      <4>1. j + d \in DOMAIN to_engine /\ Asks(to_engine[j + d], asked[n].key)
        BY <2>1, <2>3, <3>3 DEF Asks
      <4>2. j + d = i + d
        BY <4>1, <3>2
      <4>3. DOMAIN to_engine' = 1 .. Len(to_engine')
        BY EngineMessages, LenProperties
      <4>4. j \in Int /\ i \in Int
        BY <4>3
      <4>5. d \in Int
        BY <2>3
      <4>6. ASSUME NEW a \in Int, NEW b \in Int, NEW c \in Int, a + c = b + c
            PROVE  a = b
        BY <4>6
      <4> QED BY <4>2, <4>4, <4>5, <4>6
    <3>4. ASSUME NEW j \in DOMAIN to_main', to_main'[j].key = asked'[n].key
          PROVE  FALSE
      <4>1. EngineAnswers /\ to_engine # <<>> /\ Head(to_engine).type = "Query" /\ Head(to_engine).key = asked[n].key
        BY <3>2, <3>4, <2>1, ResponsesStay
      <4>2. 1 \in DOMAIN to_engine /\ Asks(to_engine[1], asked[n].key)
        BY <4>1, HeadQuery DEF Asks
      <4>3. 1 = i + 1
        BY <4>1, <4>2, <3>2, <2>3
      <4>4. DOMAIN to_engine' = 1 .. Len(to_engine')
        BY EngineMessages, LenProperties
      <4> QED BY <4>3, <4>4
    <3> QED BY <3>1, <3>2, <3>3, <3>4
  <2> QED BY <2>1, <2>4, <2>5
<1> QED BY <1>2, <1>3

\* The first response to a query whose key is its own is all of its answer, unless
\* the process ends of it.
LEMMA FirstResponse ==
    ASSUME Shape, WholeOrFull, ~panicked, to_main # <<>>, NEW n \in Live, Alone(n),
           Head(to_main).key = asked[n].key, Len(Head(to_main).orders) < Chunk
    PROVE  /\ Whole(Head(to_main), n)
           /\ \A i \in DOMAIN to_main : to_main[i].key = asked[n].key => i = 1
           /\ \A i \in DOMAIN Tail(to_main) : Tail(to_main)[i].key # asked[n].key
<1>1. 1 \in DOMAIN to_main /\ to_main[1] = Head(to_main)
  BY HeadResponse
<1>2. ~FullAhead(1, asked[n].key)
  <2>1. Chunk \in Nat
    BY OpenOrdersAssumption
  <2>2. Len(Head(to_main).orders) \in Nat
    BY HeadResponse, LenProperties
  <2> QED BY <1>1, <2>1, <2>2 DEF FullAhead
<1>3. Whole(to_main[1], n) /\ \A i \in DOMAIN to_main : to_main[i].key = asked[n].key => i = 1
  BY <1>1, <1>2 DEF WholeOrFull
<1>4. \A i \in DOMAIN Tail(to_main) : i \in Nat \ {0} /\ i + 1 \in DOMAIN to_main /\ Tail(to_main)[i] = to_main[i + 1]
  BY Messages, Taken
<1> QED BY <1>1, <1>3, <1>4

\* What Receive takes is not full when a query whose key it has waits.
LEMMA ReceivedIsNotFull ==
    ASSUME Shape, Receive, NEW n \in Live, Head(to_main).key = asked[n].key
    PROVE  Len(Head(to_main).orders) < Chunk /\ n \in waiting
<1>1. handler = None
  BY DEF Receive, Ready
<1>2. n \in waiting
  BY <1>1 DEF Live
<1>3. contexts[asked[n].key] # None
  BY <1>2 DEF Shape, Numbers
<1> QED BY <1>2, <1>3 DEF Receive

\* A snapshot is taken at the query's turn only.
LEMMA SnapshotStays ==
    ASSUME Shape, [Next]_vars, NEW n \in DOMAIN asked,
           EngineAnswers => Head(to_engine).key # asked[n].key \/ Head(to_engine).request # n
    PROVE  snapshot'[n] = snapshot[n]
<1>1. CASE EngineAnswers /\ to_engine # <<>> /\ Head(to_engine).type = "Query"
  <2>1. /\ Head(to_engine).key = asked[Head(to_engine).request].key
        /\ snapshot' = [snapshot EXCEPT ![Head(to_engine).request] = OrdersOf(Head(to_engine).key.user)]
    BY <1>1, HeadQuery
  <2>2. snapshot \in [Requests -> (SUBSET Orders) \cup {None}]
    BY DEF Shape, Typed
  <2>3. n # Head(to_engine).request
    BY <1>1, <2>1
  <2> QED BY <2>1, <2>2, <2>3
<1> QED BY <1>1, SnapshotSteps

LEMMA WholeOrFullStep ==
    ASSUME Shape, OneEach, WholeOrFull, [Next]_vars
    PROVE  WholeOrFull'
<1> SUFFICES ASSUME ~panicked', NEW n \in Live', Alone(n)',
                    NEW i \in DOMAIN to_main', to_main'[i].key = asked'[n].key
             PROVE  \/ FullAhead(i, asked[n].key)'
                    \/ /\ Whole(to_main[i], n)'
                       /\ \A j \in DOMAIN to_main' : to_main'[j].key = asked'[n].key => j = i
  BY DEF WholeOrFull
<1>1. ~panicked
  BY PanicLasts
<1>2. /\ to_main \in Seq(Response) /\ DOMAIN to_main = 1 .. Len(to_main) /\ Len(to_main) \in Nat
      /\ to_main' \in Seq(Response) /\ DOMAIN to_main' = 1 .. Len(to_main') /\ Len(to_main') \in Nat
  BY Messages, MainMessages, LenProperties
<1>3. CASE \E s \in Sessions : Ask(s) /\ engine_up /\ n = Len(asked) + 1
  <2>1. PICK s \in Sessions : Ask(s) /\ engine_up
    BY <1>3
  <2>2. /\ UNCHANGED to_main
        /\ asked'[n].key \notin clashed' => \A j \in DOMAIN to_main : to_main[j].key # asked'[n].key
    BY <2>1, <1>3, AskAlone
  <2>3. asked'[n].key \notin clashed'
    BY DEF Alone
  <2> QED BY <2>2, <2>3
<1>4. CASE n \in Live /\ n \in DOMAIN asked /\ asked'[n] = asked[n] /\ Alone(n)
  <2> DEFINE k == asked[n].key
  <2>1. \A j \in DOMAIN to_main : to_main[j].key = k =>
           \/ FullAhead(j, k)
           \/ Whole(to_main[j], n) /\ \A l \in DOMAIN to_main : to_main[l].key = k => l = j
    BY <1>1, <1>4 DEF WholeOrFull
  <2>2. \A j \in DOMAIN to_engine : Asks(to_engine[j], k) =>
           to_engine[j].request = n /\ \A l \in DOMAIN to_main : to_main[l].key # k
    BY <1>1, <1>4 DEF OneEach
  <2>3. CASE UNCHANGED to_main /\ ~EngineAnswers
    <3>1. snapshot'[n] = snapshot[n]
      BY <1>4, <2>3, SnapshotStays
    <3>2. i \in DOMAIN to_main /\ to_main[i].key = k
      BY <1>4, <2>3
    <3>3. FullAhead(i, k) => FullAhead(i, asked[n].key)'
      BY <1>4, <2>3 DEF FullAhead
    <3>4. Whole(to_main[i], n) => Whole(to_main[i], n)'
      BY <2>3, <3>1 DEF Whole
    <3> QED BY <1>4, <2>1, <2>3, <3>2, <3>3, <3>4
  <2>4. CASE EngineAnswers /\ to_engine # <<>> /\ Head(to_engine).type = "Query"
    <3> DEFINE m    == Head(to_engine)
               mine == OrdersOf(m.key.user)
               new  == Responses(m.key, InOrder(mine))
    <3>1. /\ 1 \in DOMAIN to_engine /\ to_engine[1] = m /\ m.type = "Query" /\ m.key \in Key
          /\ mine \in SUBSET Orders /\ InOrder(mine) \in Seq(mine)
          /\ to_main' = to_main \o new /\ snapshot' = [snapshot EXCEPT ![m.request] = mine]
      BY <2>4, HeadQuery
    <3> HIDE DEF m, mine
    <3> DEFINE list == InOrder(mine)
               key  == m.key
    <3> HIDE DEF list, key
    <3>0. /\ Responses(key, list) \in Seq(Response) /\ 1 \in DOMAIN Responses(key, list)
          /\ \A j \in DOMAIN Responses(key, list) : Responses(key, list)[j].key = key
          /\ \/ Len(Responses(key, list)[1].orders) >= Chunk
             \/ /\ DOMAIN Responses(key, list) = {1} /\ Responses(key, list)[1].last
                /\ Responses(key, list)[1].orders = list
      <4>1. key \in Key /\ mine \in SUBSET Orders /\ list \in Seq(mine)
        BY <3>1 DEF key, list
      <4> QED BY <4>1, ResponsesTo
    <3>2. /\ new \in Seq(Response) /\ 1 \in DOMAIN new
          /\ \A j \in DOMAIN new : new[j].key = m.key
          /\ \/ Len(new[1].orders) >= Chunk
             \/ DOMAIN new = {1} /\ new[1].last /\ new[1].orders = InOrder(mine)
      BY <3>0 DEF list, key
    <3> HIDE DEF new
    <3>3. /\ Len(new) \in Nat /\ DOMAIN new = 1 .. Len(new) /\ DOMAIN to_main' = 1 .. Len(to_main) + Len(new)
          /\ \A j \in DOMAIN to_main : to_main'[j] = to_main[j]
          /\ \A j \in DOMAIN to_main' :
                j \notin DOMAIN to_main => j - Len(to_main) \in DOMAIN new /\ to_main'[j] = new[j - Len(to_main)]
      BY <3>1, <3>2, <1>2, Followed
    <3>4. CASE m.key = k
      <4>1. m.request = n /\ \A j \in DOMAIN to_main : to_main[j].key # k
        BY <2>2, <3>1, <3>4 DEF Asks
      <4>2. \A j \in DOMAIN to_main' : to_main'[j].key = k => j \notin DOMAIN to_main
        BY <4>1, <3>3
      <4>3. i \notin DOMAIN to_main
        BY <4>2, <1>4
      <4>4. i > Len(to_main) /\ Len(to_main) + 1 \in 1 .. i /\ Len(to_main) + 1 \in DOMAIN to_main'
            /\ Len(to_main) + 1 \notin DOMAIN to_main
        BY <4>3, <3>2, <3>3, <1>2
      <4>5. to_main'[Len(to_main) + 1] = new[1]
        <5>1. to_main'[Len(to_main) + 1] = new[Len(to_main) + 1 - Len(to_main)]
          BY <4>4, <3>3
        <5> QED BY <5>1, <1>2
      <4>6. CASE Len(new[1].orders) >= Chunk
        <5>1. to_main'[Len(to_main) + 1].key = asked'[n].key
          BY <4>5, <3>2, <3>4, <1>4
        <5> QED BY <5>1, <4>4, <4>5, <4>6 DEF FullAhead
      <4>7. CASE DOMAIN new = {1} /\ new[1].last /\ new[1].orders = InOrder(mine)
        <5>1. \A j \in DOMAIN to_main' : to_main'[j].key = k => j = Len(to_main) + 1
          BY <4>2, <4>7, <3>3, <1>2
        <5>2. i = Len(to_main) + 1
          BY <5>1, <1>4
        <5>3. snapshot'[n] = mine /\ mine # None
          <6>1. snapshot \in [Requests -> (SUBSET Orders) \cup {None}] /\ n \in Requests
            BY <1>4, Made DEF Shape, Typed
          <6> QED BY <6>1, <3>1, <4>1, NoneAssumption
        <5>4. Whole(to_main[i], n)'
          BY <5>2, <5>3, <4>5, <4>7 DEF Whole
        <5> QED BY <5>1, <5>2, <5>4, <1>4
      <4> QED BY <4>6, <4>7, <3>2
    <3>5. CASE m.key # k
      <4>1. snapshot'[n] = snapshot[n]
        BY <1>4, <3>5, SnapshotStays DEF m
      <4>2. \A j \in DOMAIN to_main' : to_main'[j].key = k => j \in DOMAIN to_main /\ to_main[j] = to_main'[j]
        BY <3>2, <3>3, <3>5
      <4>3. i \in DOMAIN to_main /\ to_main[i].key = k /\ to_main'[i] = to_main[i]
        BY <4>2, <1>4
      <4>4. FullAhead(i, k) => FullAhead(i, asked[n].key)'
        <5>1. \A j \in 1 .. i : j \in DOMAIN to_main
          BY <4>3, <1>2
        <5> QED BY <5>1, <3>3, <1>4 DEF FullAhead
      <4>5. Whole(to_main[i], n) => Whole(to_main[i], n)'
        BY <4>1, <4>3 DEF Whole
      <4> QED BY <2>1, <4>2, <4>3, <4>4, <4>5, <1>4
    <3> QED BY <3>4, <3>5
  <2>5. CASE Receive /\ to_main # <<>> /\ to_main' = Tail(to_main)
    <3>1. \A j \in DOMAIN to_main' : j + 1 \in DOMAIN to_main /\ to_main'[j] = to_main[j + 1]
      BY <2>5, <1>2, Taken
    <3>2. Head(to_main).key # k
      <4> SUFFICES ASSUME Head(to_main).key = k PROVE FALSE
        OBVIOUS
      <4>1. Len(Head(to_main).orders) < Chunk
        BY <1>4, <2>5, ReceivedIsNotFull
      <4> QED BY <4>1, <1>1, <1>4, <2>5, FirstResponse
    <3>3. to_main[1].key # k
      BY <3>2, <2>5, HeadResponse
    <3>4. ~EngineAnswers
      BY <2>5 DEF EngineAnswers, Receive, engine_vars, vars, channel_vars
    <3>5. snapshot'[n] = snapshot[n]
      BY <1>4, <3>4, SnapshotStays
    <3>6. i + 1 \in DOMAIN to_main /\ to_main[i + 1] = to_main'[i] /\ to_main[i + 1].key = k
      BY <3>1, <1>4
    <3>7. FullAhead(i + 1, k) => FullAhead(i, asked[n].key)'
      <4> SUFFICES ASSUME NEW j \in 1 .. i + 1, to_main[j].key = k, Len(to_main[j].orders) >= Chunk
                   PROVE  FullAhead(i, asked[n].key)'
        BY DEF FullAhead
      <4>1. j # 1 /\ j - 1 \in 1 .. i /\ i \in Nat
        BY <3>3, <1>2
      <4>2. j - 1 \in DOMAIN to_main'
        BY <4>1, <1>2
      <4>3. (j - 1) + 1 = j
        BY <4>1
      <4>4. to_main'[j - 1] = to_main[j]
        BY <4>2, <4>3, <3>1
      <4> QED BY <4>1, <4>4, <1>4 DEF FullAhead
    <3>8. ASSUME Whole(to_main[i + 1], n), \A l \in DOMAIN to_main : to_main[l].key = k => l = i + 1
          PROVE  Whole(to_main[i], n)' /\ \A j \in DOMAIN to_main' : to_main'[j].key = asked'[n].key => j = i
      <4>1. Whole(to_main[i], n)'
        BY <3>5, <3>6, <3>8 DEF Whole
      <4>2. \A j \in DOMAIN to_main' : to_main'[j].key = k => j + 1 = i + 1
        BY <3>1, <3>8
      <4> QED BY <4>1, <4>2, <1>2, <1>4
    <3> QED BY <3>6, <3>7, <3>8, <2>1
  <2>6. CASE to_main' = <<>>
    BY <2>6
  <2>7. EngineAnswers => to_engine # <<>> /\ Head(to_engine).type = "Query"
    BY DEF EngineAnswers
  <2> QED BY <2>3, <2>4, <2>5, <2>6, <2>7, MainChannel
<1>5. \/ n \in Live /\ n \in DOMAIN asked /\ asked'[n] = asked[n] /\ Alone(n)
      \/ \E s \in Sessions : Ask(s) /\ engine_up /\ n = Len(asked) + 1
  BY LiveSteps
<1> QED BY <1>3, <1>4, <1>5

\* The publisher and the engine do not move together.
LEMMA ReceiveAlone == ASSUME Shape, Receive PROVE ~EngineAnswers
<1>1. Receive => UNCHANGED to_engine
  BY DEF Receive
<1>2. ASSUME to_engine # <<>>, Tail(to_engine) = to_engine PROVE FALSE
  <2>1. to_engine \in Seq(Query \cup Entered)
    BY Messages
  <2>2. Len(Tail(to_engine)) = Len(to_engine) - 1 /\ Len(to_engine) \in Nat
    BY <2>1, <1>2, HeadTailProperties, LenProperties
  <2> QED BY <2>2, <1>2
<1> QED BY <1>1, <1>2 DEF EngineAnswers

\* While nothing with a query's key is on its way, nothing comes, unless some
\* other query is made with it.
LEMMA StaysQuiet ==
    ASSUME Shape, [Next]_vars, NEW n \in Live, Alone(n)', NEW k, k = asked[n].key,
           \A i \in DOMAIN to_engine : ~Asks(to_engine[i], k)
    PROVE  /\ \A i \in DOMAIN to_engine' : ~Asks(to_engine'[i], k)
           /\ EngineAnswers => Head(to_engine).key # k
<1>1. k \in Key /\ asked'[n] = asked[n] /\ n \in DOMAIN asked
  BY Made, SessionsTyped
<1>2. ASSUME EngineAnswers, Head(to_engine).key = k PROVE FALSE
  <2>1. to_engine # <<>> /\ Head(to_engine).type = "Query"
    BY <1>2 DEF EngineAnswers
  <2>2. 1 \in DOMAIN to_engine /\ Asks(to_engine[1], k)
    BY <1>2, <2>1, HeadQuery DEF Asks
  <2> QED BY <2>2
<1>3. CASE ~\E s \in Sessions : Ask(s) /\ engine_up
  <2>1. PICK d \in {0, 1} :
           \A i \in DOMAIN to_engine' : to_engine'[i].type = "Query" =>
              i + d \in DOMAIN to_engine /\ to_engine'[i] = to_engine[i + d]
    BY <1>3, QueriesStay
  <2> QED BY <2>1, <1>2 DEF Asks
<1>4. CASE \E s \in Sessions : Ask(s) /\ engine_up
  <2>1. PICK s \in Sessions : Ask(s) /\ engine_up
    BY <1>4
  <2>2. PICK key \in Key :
              /\ to_engine' = Append(to_engine, [type |-> "Query", key |-> key, request |-> Len(asked) + 1])
              /\ [type |-> "Query", key |-> key, request |-> Len(asked) + 1] \in Query \cup Entered
              /\ key \notin clashed' => \A l \in Live : asked[l].key # key
    BY <2>1, AskAlone
  <2>3. k # key
    BY <2>2, <1>1 DEF Alone
  <2> DEFINE q == [type |-> "Query", key |-> key, request |-> Len(asked) + 1]
  <2>4. q.key = key
    OBVIOUS
  <2> HIDE DEF q
  <2>5. to_engine \in Seq(Query \cup Entered)
    BY Messages
  <2>6. \A i \in DOMAIN to_engine' : to_engine'[i] = q \/ (i \in DOMAIN to_engine /\ to_engine'[i] = to_engine[i])
    BY <2>2, <2>5, Sent DEF q
  <2> QED BY <2>3, <2>4, <2>6, <1>2 DEF Asks
<1> QED BY <1>3, <1>4

LEMMA GatheredStep ==
    ASSUME Shape, OneEach, WholeOrFull, Gathered, [Next]_vars
    PROVE  Gathered'
<1> DEFINE Fresh(c)   == c.in_flight = 1 /\ c.orders = <<>>
           Done(c, l) == c.in_flight = 0 /\ snapshot[l] # None /\ c.orders = InOrder(snapshot[l])
           Quiet(k)   == /\ \A i \in DOMAIN to_engine : ~Asks(to_engine[i], k)
                         /\ \A i \in DOMAIN to_main : to_main[i].key # k
<1> SUFFICES ASSUME ~panicked', NEW n \in waiting', Alone(n)'
             PROVE  \/ Fresh(contexts'[asked'[n].key])
                    \/ Done(contexts[asked[n].key], n)' /\ Quiet(asked[n].key)'
  BY DEF Gathered
<1>1. ~panicked
  BY PanicLasts
<1>2. contexts \in [Key -> Context \cup {None}]
  BY DEF Shape, Typed
<1>3. CASE Register /\ n = handler
  <2>1. /\ n \in DOMAIN asked /\ asked'[n] = asked[n] /\ asked[n].key \in Key
        /\ contexts' = [contexts EXCEPT ![asked[n].key] =
                          [in_flight |-> 1, orders |-> <<>>, task |-> asked[n].session]]
    BY <1>3, Made, SessionsTyped DEF Register, Shape, Numbers
  <2>2. contexts'[asked'[n].key] = [in_flight |-> 1, orders |-> <<>>, task |-> asked[n].session]
    BY <2>1, <1>2
  <2> QED BY <2>2
<1>4. CASE n \in waiting /\ ~(Register /\ n = handler)
  <2> DEFINE k == asked[n].key
             c == contexts[k]
  <2>1. /\ n \in Live /\ n \in DOMAIN asked /\ asked'[n] = asked[n] /\ k \in Key
        /\ c # None /\ c \in Context /\ k \notin clashed /\ Alone(n)
    BY <1>2, <1>4, Made, SessionsTyped DEF Live, Alone, Shape, Typed, Numbers
  <2>2. Fresh(c) \/ (Done(c, n) /\ Quiet(k))
    BY <1>1, <1>4, <2>1 DEF Gathered
  <2>3. Quiet(k) => Quiet(asked[n].key)'
    <3> SUFFICES ASSUME Quiet(k) PROVE Quiet(asked[n].key)'
      OBVIOUS
    <3>1. /\ \A i \in DOMAIN to_engine' : ~Asks(to_engine'[i], k)
          /\ EngineAnswers => Head(to_engine).key # k
      BY <2>1, StaysQuiet
    <3>2. \A i \in DOMAIN to_main' : to_main'[i].key # k
      BY <3>1, ResponsesStay
    <3> QED BY <3>1, <3>2, <2>1 DEF Asks
  <2>4. Done(c, n) /\ Quiet(k) => snapshot'[n] = snapshot[n]
    <3> SUFFICES ASSUME Quiet(k) PROVE snapshot'[n] = snapshot[n]
      OBVIOUS
    <3>1. EngineAnswers => Head(to_engine).key # k
      BY <2>1, StaysQuiet
    <3> QED BY <3>1, <2>1, SnapshotStays
  <2>5. CASE contexts'[k] = c
    BY <2>1, <2>2, <2>3, <2>4, <2>5
  <2>6. CASE Register
    <3>1. handler \in Live /\ handler \in DOMAIN asked /\ handler # n
      BY <1>4, <2>6 DEF Register, Live, Shape, Numbers
    <3>2. asked[handler].key # k
      BY <1>1, <2>1, <3>1 DEF OneEach
    <3>3. contexts' = [contexts EXCEPT ![asked[handler].key] =
                         [in_flight |-> 1, orders |-> <<>>, task |-> asked[handler].session]]
      BY <2>6 DEF Register
    <3>4. contexts'[k] = c
      BY <3>2, <3>3, <2>1, <1>2
    <3> QED BY <3>4, <2>5
  <2>7. CASE /\ Receive /\ to_main # <<>> /\ Head(to_main).key = k
             /\ contexts' = [contexts EXCEPT ![k] = Recv(c, Head(to_main))]
    <3>1. Len(Head(to_main).orders) < Chunk
      BY <2>1, <2>7, ReceivedIsNotFull
    <3>2. /\ Whole(Head(to_main), n)
          /\ \A i \in DOMAIN Tail(to_main) : Tail(to_main)[i].key # k
      BY <3>1, <1>1, <2>1, <2>7, FirstResponse
    <3>3. 1 \in DOMAIN to_main /\ to_main[1].key = k /\ Head(to_main) \in Response /\ Head(to_main).orders \in Seq(Orders)
      BY <2>7, HeadResponse
    <3>4. Fresh(c)
      BY <2>2, <3>3
    <3>5. \A i \in DOMAIN to_engine : ~Asks(to_engine[i], k)
      BY <1>1, <2>1, <3>3 DEF OneEach
    <3>6. \A i \in DOMAIN to_engine' : ~Asks(to_engine'[i], k)
      BY <2>1, <3>5, StaysQuiet
    <3>7. contexts'[k] = Recv(c, Head(to_main))
      BY <2>1, <2>7, <1>2
    <3>8. /\ contexts'[k].orders = c.orders \o Head(to_main).orders
          /\ contexts'[k].in_flight = Decrement(c.in_flight)
      <4>1. /\ Recv(c, Head(to_main)).orders = c.orders \o Head(to_main).orders
            /\ Recv(c, Head(to_main)).in_flight =
                  IF Head(to_main).last THEN Decrement(c.in_flight) ELSE c.in_flight
        <5> HIDE DEF c
        <5> QED BY <2>1, <3>3, RecvOfContext
      <4>2. Head(to_main).last
        BY <3>2 DEF Whole
      <4> HIDE DEF c, k
      <4> QED BY <4>1, <4>2, <3>7
    <3>9. contexts'[k].orders = Head(to_main).orders
      BY <3>3, <3>4, <3>8, ConcatEmptySeq
    <3>10. contexts'[k].in_flight = 0
      <4>1. Decrement(1) = 0
        BY OpenOrdersAssumption DEF Decrement
      <4> QED BY <4>1, <3>4, <3>8
    <3>11. snapshot'[n] = snapshot[n]
      BY <2>1, <2>7, ReceiveAlone, SnapshotStays
    <3>12. Done(contexts[asked[n].key], n)'
      BY <2>1, <3>2, <3>9, <3>10, <3>11 DEF Whole
    <3>13. to_main' = Tail(to_main)
      BY <2>7 DEF Receive
    <3> QED BY <2>1, <3>2, <3>6, <3>12, <3>13 DEF Asks
  <2>8. ASSUME /\ Receive /\ to_main # <<>> /\ contexts[Head(to_main).key] \in Context
               /\ contexts' = [contexts EXCEPT ![Head(to_main).key] =
                                 Recv(contexts[Head(to_main).key], Head(to_main))]
        PROVE  contexts'[k] = c \/ (Head(to_main).key = k /\ contexts' = [contexts EXCEPT ![k] = Recv(c, Head(to_main))])
    BY <2>8, <2>1, <1>2
  <2>9. CASE UNCHANGED contexts
    BY <2>5, <2>9
  <2> HIDE DEF c, k, Fresh, Done, Quiet
  <2> QED BY <2>5, <2>6, <2>7, <2>8, <2>9, ContextSteps
<1>5. n \in waiting \/ (Register /\ n = handler)
  BY WaitingSteps
<1> QED BY <1>3, <1>4, <1>5

LEMMA GivenStep ==
    ASSUME Shape, OneEach, Gathered, Given, [Next]_vars
    PROVE  Given'
<1> SUFFICES ASSUME NEW n \in Requests, GotAnswer(n)', asked'[n].key \notin clashed'
             PROVE  /\ snapshot'[n] # None /\ answer'[n] = InOrder(snapshot'[n])
                    /\ \A i \in DOMAIN to_engine' : to_engine'[i].type = "Query" => to_engine'[i].request # n
  BY DEF Given
<1>1. CASE answer'[n] = answer[n]
  <2>1. n \in DOMAIN asked /\ asked'[n] = asked[n] /\ GotAnswer(n) /\ asked[n].key \notin clashed
    BY <1>1, SessionsTyped DEF GotAnswer, Shape, Numbers
  <2>2. /\ snapshot[n] # None /\ answer[n] = InOrder(snapshot[n])
        /\ \A i \in DOMAIN to_engine : to_engine[i].type = "Query" => to_engine[i].request # n
    BY <2>1 DEF Given
  <2>3. EngineAnswers => Head(to_engine).request # n
    <3> SUFFICES ASSUME EngineAnswers PROVE Head(to_engine).request # n
      OBVIOUS
    <3>1. to_engine # <<>> /\ Head(to_engine).type = "Query"
      BY DEF EngineAnswers
    <3>2. 1 \in DOMAIN to_engine /\ to_engine[1] = Head(to_engine)
      BY <3>1, HeadQuery
    <3> QED BY <3>1, <3>2, <2>2
  <2>4. snapshot'[n] = snapshot[n]
    BY <2>1, <2>3, SnapshotStays
  <2>5. CASE \E s \in Sessions : Ask(s) /\ engine_up
    <3>1. PICK key \in Key :
              /\ to_engine' = Append(to_engine, [type |-> "Query", key |-> key, request |-> Len(asked) + 1])
              /\ [type |-> "Query", key |-> key, request |-> Len(asked) + 1] \in Query \cup Entered
              /\ Len(asked) + 1 \notin DOMAIN asked
      BY <2>5, AskAlone
    <3> DEFINE q == [type |-> "Query", key |-> key, request |-> Len(asked) + 1]
    <3>2. q.request # n
      BY <2>1, <3>1
    <3> HIDE DEF q
    <3>3. to_engine \in Seq(Query \cup Entered)
      BY Messages
    <3>4. \A i \in DOMAIN to_engine' : to_engine'[i] = q \/ (i \in DOMAIN to_engine /\ to_engine'[i] = to_engine[i])
      BY <3>1, <3>3, Sent DEF q
    <3> QED BY <3>2, <3>4, <2>2, <2>4, <1>1
  <2>6. CASE ~\E s \in Sessions : Ask(s) /\ engine_up
    <3>1. PICK d \in {0, 1} :
             \A i \in DOMAIN to_engine' : to_engine'[i].type = "Query" =>
                i + d \in DOMAIN to_engine /\ to_engine'[i] = to_engine[i + d]
      BY <2>6, QueriesStay
    <3> QED BY <3>1, <2>2, <2>4, <1>1
  <2> QED BY <2>5, <2>6
<1>2. CASE /\ \E s \in Sessions : Poll(s)
           /\ UNCHANGED <<contexts, to_engine, to_main, snapshot, panicked, asked, clashed>>
           /\ n \in waiting /\ contexts[asked[n].key].in_flight = 0
           /\ answer'[n] = contexts[asked[n].key].orders
  <2>1. ~panicked
    BY <1>2 DEF Poll, Connected, Ready
  <2>2. Alone(n)
    BY <1>2 DEF Alone, Live
  <2>3. /\ snapshot[n] # None /\ answer'[n] = InOrder(snapshot[n])
        /\ \A i \in DOMAIN to_engine : ~Asks(to_engine[i], asked[n].key)
    BY <1>2, <2>1, <2>2 DEF Gathered
  <2>4. \A i \in DOMAIN to_engine : to_engine[i].type = "Query" => to_engine[i].request # n
    BY <2>3, Messages DEF Asks
  <2> QED BY <2>3, <2>4, <1>2
<1> QED BY <1>1, <1>2, AnswerSteps

------------------------------------------------------------------------------
\* The orders entered before: SeesEarlierOrders

LEMMA EarlierFirstStep ==
    ASSUME Shape, EarlierFirst, [Next]_vars
    PROVE  EarlierFirst'
<1> DEFINE Later(m, q, a) == q.type = "Query" /\ m.type = "NewOrder" => m.order > a[q.request].after
<1>1. /\ to_engine \in Seq(Query \cup Entered)
      /\ DOMAIN to_engine = 1 .. Len(to_engine) /\ Len(to_engine) \in Nat
  BY Messages
<1>2. \A i, j \in DOMAIN to_engine : i < j => Later(to_engine[j], to_engine[i], asked)
  BY DEF EarlierFirst
<1>3. \A i \in DOMAIN to_engine : to_engine[i].type = "Query" =>
         /\ to_engine[i].request \in DOMAIN asked
         /\ asked'[to_engine[i].request] = asked[to_engine[i].request]
         /\ asked[to_engine[i].request].after \in Nat /\ asked[to_engine[i].request].after <= Len(owner)
  BY Messages, Made, SessionsTyped
<1>4. \A i, j \in DOMAIN to_engine : i < j => Later(to_engine[j], to_engine[i], asked')
  BY <1>2, <1>3
<1> SUFFICES ASSUME NEW i \in DOMAIN to_engine', NEW j \in DOMAIN to_engine', i < j
             PROVE  Later(to_engine'[j], to_engine'[i], asked')
  BY DEF EarlierFirst
<1>5. CASE UNCHANGED to_engine
  <2> HIDE DEF Later
  <2> QED BY <1>4, <1>5
<1>6. CASE to_engine # <<>> /\ to_engine' = Tail(to_engine)
  <2>1. /\ i + 1 \in DOMAIN to_engine /\ to_engine'[i] = to_engine[i + 1]
        /\ j + 1 \in DOMAIN to_engine /\ to_engine'[j] = to_engine[j + 1]
        /\ i \in Nat /\ j \in Nat
    BY <1>1, <1>6, Taken
  <2>2. i + 1 < j + 1
    BY <2>1
  <2> HIDE DEF Later
  <2> QED BY <1>4, <2>1, <2>2
<1>7. CASE to_engine' = <<>>
  BY <1>7
<1>8. ASSUME NEW m \in Query \cup Entered, to_engine' = Append(to_engine, m)
      PROVE  /\ i \in DOMAIN to_engine /\ to_engine'[i] = to_engine[i]
             /\ (j \in DOMAIN to_engine /\ to_engine'[j] = to_engine[j]) \/ to_engine'[j] = m
  <2>1. /\ DOMAIN to_engine' = 1 .. Len(to_engine) + 1 /\ to_engine'[Len(to_engine) + 1] = m
        /\ \A l \in DOMAIN to_engine : to_engine'[l] = to_engine[l]
    BY <1>1, <1>8, Sent
  <2> QED BY <2>1, <1>1
<1>9. CASE /\ to_engine' = Append(to_engine, [type |-> "NewOrder", order |-> Len(owner) + 1])
           /\ [type |-> "NewOrder", order |-> Len(owner) + 1] \in Query \cup Entered
  <2>1. Len(owner) \in Nat
    BY Made
  <2> DEFINE m == [type |-> "NewOrder", order |-> Len(owner) + 1]
  <2>2. m.order = Len(owner) + 1
    OBVIOUS
  <2>3. \A l \in DOMAIN to_engine : Later(m, to_engine[l], asked')
    BY <1>3, <2>1, <2>2
  <2> HIDE DEF m, Later
  <2>4. m \in Query \cup Entered /\ to_engine' = Append(to_engine, m)
    BY <1>9 DEF m
  <2> QED BY <1>4, <1>8, <2>3, <2>4
<1>10. CASE \E key \in Key :
               /\ to_engine' = Append(to_engine, [type |-> "Query", key |-> key, request |-> Len(asked) + 1])
               /\ [type |-> "Query", key |-> key, request |-> Len(asked) + 1] \in Query \cup Entered
  <2>1. PICK key \in Key :
               /\ to_engine' = Append(to_engine, [type |-> "Query", key |-> key, request |-> Len(asked) + 1])
               /\ [type |-> "Query", key |-> key, request |-> Len(asked) + 1] \in Query \cup Entered
    BY <1>10
  <2> DEFINE m == [type |-> "Query", key |-> key, request |-> Len(asked) + 1]
  <2>2. \A l \in DOMAIN to_engine : Later(m, to_engine[l], asked')
    OBVIOUS
  <2> HIDE DEF m, Later
  <2>3. m \in Query \cup Entered /\ to_engine' = Append(to_engine, m)
    BY <2>1 DEF m
  <2> QED BY <1>4, <1>8, <2>2, <2>3
<1> HIDE DEF Later
<1> QED BY <1>5, <1>6, <1>7, <1>9, <1>10, EngineChannel

\* An order that has left the books does not come back.
LEMMA GoneForGood ==
    ASSUME Shape, [Next]_vars, NEW o \in Gone
    PROVE  o \in Gone'
<1>1. /\ to_engine \in Seq(Query \cup Entered) /\ DOMAIN owner = 1 .. Len(owner) /\ Len(owner) \in Nat
      /\ DOMAIN to_engine = 1 .. Len(to_engine)
  BY Messages, Made
<1>2. /\ o \in DOMAIN owner /\ o \notin open
      /\ \A i \in DOMAIN to_engine : to_engine[i] # [type |-> "NewOrder", order |-> o]
  BY DEF Gone, ToSet
<1>3. o \in DOMAIN owner'
  BY <1>2, SessionsTyped
<1>4. \A i \in DOMAIN to_engine' : to_engine'[i] # [type |-> "NewOrder", order |-> o]
  <2>1. CASE UNCHANGED to_engine
    BY <2>1, <1>2
  <2>2. CASE to_engine # <<>> /\ to_engine' = Tail(to_engine)
    BY <2>2, <1>1, <1>2, Taken
  <2>3. CASE to_engine' = <<>>
    BY <2>3
  <2>4. ASSUME NEW m \in Query \cup Entered, m # [type |-> "NewOrder", order |-> o],
               to_engine' = Append(to_engine, m)
        PROVE  \A i \in DOMAIN to_engine' : to_engine'[i] # [type |-> "NewOrder", order |-> o]
    <3>1. \A i \in DOMAIN to_engine' : to_engine'[i] = m \/ (i \in DOMAIN to_engine /\ to_engine'[i] = to_engine[i])
      BY <2>4, <1>1, Sent
    <3> QED BY <3>1, <2>4, <1>2
  <2>5. CASE /\ to_engine' = Append(to_engine, [type |-> "NewOrder", order |-> Len(owner) + 1])
             /\ [type |-> "NewOrder", order |-> Len(owner) + 1] \in Query \cup Entered
    <3>1. [type |-> "NewOrder", order |-> Len(owner) + 1] # [type |-> "NewOrder", order |-> o]
      <4>1. o # Len(owner) + 1
        BY <1>1, <1>2
      <4> QED BY <4>1
    <3> QED BY <3>1, <2>4, <2>5
  <2>6. CASE \E key \in Key :
               /\ to_engine' = Append(to_engine, [type |-> "Query", key |-> key, request |-> Len(asked) + 1])
               /\ [type |-> "Query", key |-> key, request |-> Len(asked) + 1] \in Query \cup Entered
    <3>1. \A key : [type |-> "Query", key |-> key, request |-> Len(asked) + 1] # [type |-> "NewOrder", order |-> o]
      OBVIOUS
    <3> QED BY <3>1, <2>4, <2>6
  <2> QED BY <2>1, <2>2, <2>3, <2>5, <2>6, EngineChannel
<1>5. o \notin open'
  <2>1. to_engine # <<>> /\ Head(to_engine).type = "NewOrder" => Head(to_engine).order # o
    <3> SUFFICES ASSUME to_engine # <<>>, Head(to_engine).type = "NewOrder", Head(to_engine).order = o
                 PROVE  FALSE
      OBVIOUS
    <3>1. Head(to_engine) = to_engine[1] /\ 1 \in DOMAIN to_engine /\ Head(to_engine) \in Query \cup Entered
      BY <1>1, Taken
    <3>2. Head(to_engine) \in Entered
      BY <3>1 DEF Query
    <3>3. Head(to_engine) = [type |-> "NewOrder", order |-> o]
      BY <3>2 DEF Entered
    <3> QED BY <3>1, <3>3, <1>2
  <2> QED BY <2>1, <1>2, OpenSteps
<1> QED BY <1>3, <1>4, <1>5 DEF Gone, ToSet

LEMMA SnapshotHasEarlierStep ==
    ASSUME Shape, EarlierFirst, SnapshotHasEarlier, [Next]_vars
    PROVE  SnapshotHasEarlier'
<1> SUFFICES ASSUME NEW n \in Requests, snapshot'[n] # None,
                    NEW o \in 1 .. asked'[n].after, owner'[o] = asked'[n].key.user
             PROVE  o \in snapshot'[n] \cup Gone'
  BY DEF SnapshotHasEarlier
<1>1. ASSUME n \in DOMAIN asked
      PROVE  /\ asked'[n] = asked[n] /\ o \in DOMAIN owner
             /\ o \in 1 .. asked[n].after /\ owner[o] = asked[n].key.user
  <2>1. asked'[n] = asked[n] /\ asked[n].after \in Nat /\ asked[n].after <= Len(owner)
    BY <1>1, Made, SessionsTyped
  <2>2. o \in DOMAIN owner
    BY <2>1, Made
  <2> QED BY <2>1, <2>2, SessionsTyped
<1>2. CASE snapshot'[n] = snapshot[n]
  <2>1. n \in DOMAIN asked
    BY <1>2 DEF Shape, Numbers
  <2>2. o \in snapshot[n] \cup Gone
    BY <1>1, <1>2, <2>1 DEF SnapshotHasEarlier
  <2> QED BY <1>2, <2>2, GoneForGood
<1>3. CASE EngineAnswers /\ to_engine # <<>> /\ Head(to_engine).type = "Query" /\ snapshot'[n] # snapshot[n]
  <2> DEFINE m    == Head(to_engine)
             mine == OrdersOf(m.key.user)
  <2>1. /\ 1 \in DOMAIN to_engine /\ to_engine[1] = m /\ m.request \in DOMAIN asked
        /\ m.key = asked[m.request].key /\ snapshot' = [snapshot EXCEPT ![m.request] = mine]
    BY <1>3, HeadQuery
  <2> HIDE DEF mine
  <2>2. n = m.request /\ snapshot'[n] = mine
    <3>1. snapshot \in [Requests -> (SUBSET Orders) \cup {None}]
      BY DEF Shape, Typed
    <3> QED BY <3>1, <2>1, <1>3
  <2>3. o \in DOMAIN owner /\ o \in 1 .. asked[n].after /\ owner[o] = m.key.user
    BY <2>1, <2>2, <1>1
  <2>4. CASE o \in open
    BY <2>2, <2>3, <2>4 DEF mine, OrdersOf
  <2>5. CASE o \notin open
    <3>1. ASSUME NEW i \in DOMAIN to_engine, to_engine[i] = [type |-> "NewOrder", order |-> o]
          PROVE  FALSE
      <4>1. i # 1 /\ i \in Nat \ {0}
        BY <3>1, <2>1, <1>3, Messages
      <4>2. 1 < i
        BY <4>1
      <4>3. to_engine[i].order > asked[n].after
        BY <4>2, <3>1, <2>1, <2>2, <1>3 DEF EarlierFirst
      <4>4. o > asked[n].after /\ asked[n].after \in Nat
        BY <4>3, <3>1, <2>1, <2>2, Made
      <4> QED BY <4>4, <2>3
    <3>2. o \in Gone
      BY <3>1, <2>3, <2>5 DEF Gone, ToSet
    <3> QED BY <3>2, GoneForGood
  <2> QED BY <2>4, <2>5
<1> QED BY <1>2, <1>3, SnapshotSteps

------------------------------------------------------------------------------
\* The specification

LEMMA IInvInit == Init => IInv
<1> SUFFICES ASSUME Init PROVE IInv
  OBVIOUS
<1>1. /\ waiting = {} /\ handler = None /\ to_engine = <<>> /\ to_main = <<>>
      /\ \A k \in Key : contexts[k] = None
      /\ \A n \in Requests : snapshot[n] = None /\ answer[n] = None
  BY DEF Init
<1>2. Shape
  BY ShapeInit
<1>3. OwnLists /\ EarlierFirst /\ SnapshotHasEarlier
  BY <1>1 DEF OwnLists, EarlierFirst, SnapshotHasEarlier
<1>4. OneEach /\ WholeOrFull /\ Gathered /\ Given
  BY <1>1 DEF OneEach, WholeOrFull, Gathered, Given, Live, GotAnswer
<1> QED BY <1>2, <1>3, <1>4 DEF IInv

\* All that is known of the query for open orders.
THEOREM Invariance == Spec => []IInv
<1>1. IInv /\ [Next]_vars => IInv'
  BY ShapeStep, OwnListsStep, OneEachStep, WholeOrFullStep, GatheredStep, GivenStep,
     EarlierFirstStep, SnapshotHasEarlierStep DEF IInv
<1> QED BY <1>1, IInvInit, PTL DEF Spec

\* The variables keep their types, the counter of a context that of a word that
\* wraps; and whatever is on its way, gathered or being sent names a query that was
\* asked, by its own key, and orders that were entered.
THEOREM TypesHold == Spec => []TypeOK
<1>1. ASSUME IInv PROVE TypeOK
  <2>1. ASSUME NEW list, NEW u, list \in Seq(OwnedBy(owner, u))
        PROVE  ToSet(list) \subseteq DOMAIN owner
    <3> SUFFICES ASSUME NEW o \in ToSet(list) PROVE o \in DOMAIN owner
      OBVIOUS
    <3>1. PICK i \in DOMAIN list : o = list[i]
      BY DEF ToSet
    <3>2. o \in OwnedBy(owner, u)
      BY <2>1, <3>1, ElementOfSeq, LenProperties
    <3> QED BY <3>2 DEF OwnedBy
  <2>2. \A i \in DOMAIN to_main : ToSet(to_main[i].orders) \subseteq DOMAIN owner
    BY <1>1, <2>1 DEF IInv, OwnLists
  <2>3. \A k \in Key : contexts[k] # None => ToSet(contexts[k].orders) \subseteq DOMAIN owner
    BY <1>1, <2>1 DEF IInv, OwnLists
  <2> QED BY <1>1, <2>2, <2>3 DEF TypeOK, NamesKnown, IInv, Shape, Numbers
<1> QED BY <1>1, Invariance, PTL

\* No user is shown another's orders, whatever sessions share, inherit or change.
THEOREM NobodyElsesOrders == Spec => []OnlyOwnOrders
<1>1. IInv => OnlyOwnOrders
  <2> SUFFICES ASSUME IInv, NEW n \in Requests, GotAnswer(n), NEW o \in ToSet(answer[n])
               PROVE  owner[o] = asked[n].key.user
    BY DEF OnlyOwnOrders
  <2>1. answer[n] \in Seq(OwnedBy(owner, asked[n].key.user))
    BY DEF IInv, OwnLists, GotAnswer
  <2>2. PICK i \in DOMAIN answer[n] : o = answer[n][i]
    BY DEF ToSet
  <2>3. o \in OwnedBy(owner, asked[n].key.user)
    BY <2>1, <2>2, ElementOfSeq, LenProperties
  <2> QED BY <2>3 DEF OwnedBy
<1> QED BY <1>1, Invariance, PTL

\* The answer to a query whose key is its own is the list of its snapshot.
LEMMA AnswerOfSnapshot ==
    ASSUME IInv, NEW n \in Requests, GotAnswer(n), asked[n].key \notin clashed
    PROVE  /\ snapshot[n] # None /\ ToSet(answer[n]) = snapshot[n]
           /\ Len(answer[n]) = Cardinality(snapshot[n])
<1>1. snapshot[n] # None /\ answer[n] = InOrder(snapshot[n])
  BY DEF IInv, Given
<1>2. snapshot[n] \in SUBSET Orders
  BY <1>1 DEF IInv, Shape, Typed
<1> QED BY <1>1, <1>2, ListOfSet

\* An answer is what the books held at one moment.
THEOREM AnswersAreSnapshots == Spec => []AnswerIsSnapshot
<1>1. IInv => AnswerIsSnapshot
  BY AnswerOfSnapshot DEF AnswerIsSnapshot
<1> QED BY <1>1, Invariance, PTL

\* An answer has the orders the user had entered before, or they are gone.
THEOREM EarlierOrdersSeen == Spec => []SeesEarlierOrders
<1>1. IInv => SeesEarlierOrders
  BY AnswerOfSnapshot DEF IInv, SnapshotHasEarlier, SeesEarlierOrders
<1> QED BY <1>1, Invariance, PTL
===============================================================================

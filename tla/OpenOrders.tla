------------------------------ MODULE OpenOrders ------------------------------
(***************************************************************************)
(* The query for a user's open orders: Session::get_open_orders of         *)
(* server/session.rs, OrderEngine::get_open_orders of server/engine.rs,    *)
(* OpenOrdersContext and OpenOrdersSend of server/events.rs and the        *)
(* publisher's branch for the responses.                                   *)
(*                                                                         *)
(* Sessions connect, sign in as any user, also several as one and one as   *)
(* several, enter orders, ask and hang up.  The engine is the books as far *)
(* as a query sees them: whose orders are open (module OrderBook is about  *)
(* which).  An order's number says when it was entered.                    *)
(***************************************************************************)
EXTENDS Integers, Sequences, FiniteSets, SequencesExt

CONSTANTS
    Sessions,    \* connections; a client that comes back is another session
    Users,
    None,        \* Rust's Option::None
    Chunk,       \* OPEN_ORDER_MSG_MAX_LENGTH, orders in a response (10)
    Word,        \* usize is a number below this (2^64)
    MaxOrders,   \* bound: orders the clients enter
    MaxRequests, \* bound: queries the clients make
    Switchers    \* bound: the sessions that sign in more than once

ASSUME OpenOrdersAssumption ==
    /\ Chunk \in Nat \ {0} /\ MaxOrders \in Nat /\ MaxRequests \in Nat
    /\ Switchers \subseteq Sessions
    /\ Word \in Nat /\ Word > MaxRequests + 1    \* no wrapped counter comes back to 0

Requests == 1 .. MaxRequests
Orders == 1 .. MaxOrders

\* OpenOrdersSequence, what a query is known by.
Key == [user : Users, seq : 0 .. MaxRequests]

\* EngineMessage and OpenOrders, as far as they matter here; `request' is
\* history: the code's messages only hold the key.
Query == [type : {"Query"}, key : Key, request : Requests]
Entered == [type : {"NewOrder"}, order : Orders]
Response == [key : Key, orders : Seq(Orders), last : BOOLEAN]

\* OpenOrdersContext; `task' is the connection whose task is unparked.
Context == [in_flight : 0 .. Word - 1, orders : Seq(Orders), task : Sessions]

\* None is none of the values that may stand in its place.
ASSUME NoneAssumption ==
    /\ None \notin Users \cup Requests /\ \A S \in SUBSET Orders : None # S
    /\ None \notin Context /\ None \notin Seq(Orders)

VARIABLES
    user,       \* Session.user, or None before the session has signed in
    next,       \* Session.open_order_seq
    closed,     \* the connections that are gone
    handler,    \* the query that has been sent and is not yet registered
    contexts,   \* pending_open_orders
    waiting,    \* the OpenOrdersSend futures there are, by request
    unparked,   \* connections whose task has been unparked
    to_engine,  \* the channel of EngineMessages
    to_main,    \* the channel of SessionMessages
    open,       \* engine: the orders in the books
    engine_up,  \* the engine thread is alive
    panicked    \* the main thread has died and the process ended

\* History: who entered each order, the queries made,
\* the orders that were open when the engine took each, the answers clients got,
\* and the keys under which a query was made before the last one was done with.
VARIABLES owner, asked, snapshot, answer, clashed

session_vars == <<user, next, closed>>
pending_vars == <<contexts, waiting, unparked>>
channel_vars == <<to_engine, to_main>>
engine_vars == <<open, engine_up, snapshot>>
vars == <<session_vars, handler, pending_vars, channel_vars, engine_vars, panicked,
          owner, asked, answer, clashed>>

Init ==
    /\ user = [s \in Sessions |-> None] /\ next = [s \in Sessions |-> 0]
    /\ closed = {}
    /\ handler = None
    /\ contexts = [k \in Key |-> None]
    /\ waiting = {} /\ unparked = {}
    /\ to_engine = <<>> /\ to_main = <<>>
    /\ open = {} /\ engine_up = TRUE /\ panicked = FALSE
    /\ owner = <<>>
    /\ asked = <<>>
    /\ snapshot = [n \in Requests |-> None] /\ answer = [n \in Requests |-> None]
    /\ clashed = {}

------------------------------------------------------------------------------
\* The sessions.  The main thread runs one handler at a time.

Ready == handler = None /\ ~panicked
Connected(s) == Ready /\ s \notin closed
SignedIn(s) == Connected(s) /\ user[s] # None

\* authenticate, the first time or again; the sequence goes on.
Authenticate(s, u) ==
    /\ Connected(s)
    /\ user[s] = None \/ s \in Switchers
    /\ user' = [user EXCEPT ![s] = u]
    /\ UNCHANGED <<next, closed, handler, pending_vars, channel_vars, engine_vars,
                   panicked, owner, asked, answer, clashed>>

\* new_order, which sends the order to an engine that is alive.
EnterOrder(s) ==
    /\ SignedIn(s) /\ engine_up
    /\ Len(owner) < MaxOrders
    /\ owner' = Append(owner, user[s])
    /\ to_engine' = Append(to_engine, [type |-> "NewOrder", order |-> Len(owner) + 1])
    /\ UNCHANGED <<session_vars, handler, pending_vars, to_main, engine_vars, panicked,
                   asked, answer, clashed>>

\* Some earlier query with this key is not done with.
Outstanding(key) ==
    \/ \E n \in waiting : asked[n].key = key
    \/ \E n \in DOMAIN to_engine : to_engine[n].type = "Query" /\ to_engine[n].key = key
    \/ \E n \in DOMAIN to_main : to_main[n].key = key

\* get_open_orders takes the next number and broadcasts the query ...
Ask(s) ==
    LET key == [user |-> user[s], seq |-> next[s]]
        n   == Len(asked) + 1
    IN  /\ SignedIn(s)
        /\ Len(asked) < MaxRequests
        /\ next' = [next EXCEPT ![s] = @ + 1]
        /\ asked' = Append(asked, [session |-> s, key |-> key, after |-> Len(owner)])
        /\ IF engine_up
           THEN /\ to_engine' = Append(to_engine, [type |-> "Query", key |-> key, request |-> n])
                /\ handler' = n
                /\ clashed' = IF Outstanding(key) THEN clashed \cup {key} ELSE clashed
           ELSE UNCHANGED <<to_engine, handler, clashed>>      \* "internal error"
        /\ UNCHANGED <<user, closed, pending_vars, to_main, engine_vars, panicked,
                       owner, answer>>

\* ... and then puts a context for its answer in the map, in the place of any
\* other with this key.
Register ==
    /\ handler # None /\ ~panicked
    /\ contexts' = [contexts EXCEPT ![asked[handler].key] =
                      [in_flight |-> 1, orders |-> <<>>, task |-> asked[handler].session]]
    /\ waiting' = waiting \cup {handler}
    /\ handler' = None
    /\ UNCHANGED <<session_vars, unparked, channel_vars, engine_vars, panicked,
                   owner, asked, answer, clashed>>

\* Fault: the answer is given with what there is.
AnsweredEarly(s) == {n \in waiting : asked[n].session = s}

\* The connection's futures whose poll finds the answer complete.
Answered(s) == {n \in waiting : asked[n].session = s /\ contexts[asked[n].key].in_flight = 0}

\* The connection's task is polled, and with it its OpenOrdersSend futures.  No
\* context is taken out of the map.
Poll(s) ==
    /\ Connected(s)
    /\ s \in unparked \/ Answered(s) # {}
    /\ answer' = [n \in Requests |-> IF n \in Answered(s)
                                     THEN contexts[asked[n].key].orders ELSE answer[n]]
    /\ waiting' = waiting \ Answered(s)
    /\ unparked' = unparked \ {s}
    /\ UNCHANGED <<session_vars, handler, contexts, channel_vars, engine_vars, panicked,
                   owner, asked, clashed>>

\* The connection is gone, its Session and its futures with it.  OpenOrdersSend
\* has no Drop: the contexts stay.
HangUp(s) ==
    /\ Connected(s)
    /\ closed' = closed \cup {s}
    /\ user' = [user EXCEPT ![s] = None] /\ next' = [next EXCEPT ![s] = 0]
    /\ waiting' = {n \in waiting : asked[n].session # s}
    /\ unparked' = unparked \ {s}
    /\ UNCHANGED <<handler, contexts, channel_vars, engine_vars, panicked, owner, asked,
                   answer, clashed>>

------------------------------------------------------------------------------
\* The engine thread

\* The order comes to rest, or is executed at once.
EngineTakesOrder ==
    /\ engine_up /\ to_engine # <<>> /\ Head(to_engine).type = "NewOrder"
    /\ to_engine' = Tail(to_engine)
    /\ \/ open' = open \cup {Head(to_engine).order}
       \/ UNCHANGED open
    /\ UNCHANGED <<session_vars, handler, pending_vars, to_main, engine_up, snapshot,
                   panicked, owner, asked, answer, clashed>>

\* An order leaves the books: some message was its cancel, or traded with it.
EngineRemovesOrder(o) ==
    /\ engine_up
    /\ o \in open
    /\ open' = open \ {o}
    /\ UNCHANGED <<session_vars, handler, pending_vars, channel_vars, engine_up, snapshot,
                   panicked, owner, asked, answer, clashed>>

\* Fault: the books are read without looking at the user.
OrdersOfAnyone(u) == open

OrdersOf(u) == {o \in open : owner[o] = u}

\* orders of the book: some order, that of the heaps, each order of the set once.
InOrder(S) == SetToSeq(S)

\* get_open_orders' loop: full responses as long as there are orders to fill
\* one, and a last one that is not full and may be empty.
Chunks(list) ==
    LET full == Len(list) \div Chunk
    IN  [i \in 1 .. full + 1 |->
            [orders |-> SubSeq(list, (i - 1) * Chunk + 1,
                               IF i > full THEN Len(list) ELSE i * Chunk),
             last   |-> i = full + 1]]

\* Fault: a query is answered before what was sent before it is taken.
EngineAnswersFirst ==
    /\ engine_up
    /\ \E i \in DOMAIN to_engine :
          LET m      == to_engine[i]
              chunks == Chunks(InOrder(OrdersOf(m.key.user)))
          IN  /\ m.type = "Query"
              /\ to_engine' = RemoveAt(to_engine, i)
              /\ to_main' = to_main \o [n \in DOMAIN chunks |->
                    [key |-> m.key, orders |-> chunks[n].orders, last |-> chunks[n].last]]
              /\ snapshot' = [snapshot EXCEPT ![m.request] = OrdersOf(m.key.user)]
    /\ UNCHANGED <<session_vars, handler, pending_vars, open, engine_up,
                   panicked, owner, asked, answer, clashed>>

\* get_open_orders.  The responses are sent one by one; what receives them
\* takes them one by one, and cannot tell when each was sent.
EngineAnswers ==
    /\ engine_up /\ to_engine # <<>> /\ Head(to_engine).type = "Query"
    /\ to_engine' = Tail(to_engine)
    /\ LET m      == Head(to_engine)
           chunks == Chunks(InOrder(OrdersOf(m.key.user)))
       IN  /\ to_main' = to_main \o [i \in DOMAIN chunks |->
                 [key |-> m.key, orders |-> chunks[i].orders, last |-> chunks[i].last]]
           /\ snapshot' = [snapshot EXCEPT ![m.request] = {o \in open : owner[o] = m.key.user}]
    /\ UNCHANGED <<session_vars, handler, pending_vars, open, engine_up,
                   panicked, owner, asked, answer, clashed>>

\* The thread dies of a panic in an order (module OrderBook shows of which), and
\* the receiver of its channel with it.
EngineDies ==
    /\ engine_up /\ to_engine # <<>> /\ Head(to_engine).type = "NewOrder"
    /\ engine_up' = FALSE
    /\ to_engine' = <<>>
    /\ UNCHANGED <<session_vars, handler, pending_vars, to_main, open, snapshot,
                   panicked, owner, asked, answer, clashed>>

------------------------------------------------------------------------------
\* The publisher, on the main thread

\* Fault: in_flight is a signed number.
DecrementSigned(x) == x - 1

\* in_flight -= 1, in a build that does not check for overflow.
Decrement(x) == (x - 1) % Word

\* Context c after a response m that is not full.
Recv(c, m) ==
    [c EXCEPT !.orders = @ \o m.orders,
              !.in_flight = IF m.last THEN Decrement(@) ELSE @]

\* Fault: the publisher runs beside the handlers.
ReceiveAnytime ==
    /\ ~panicked /\ to_main # <<>>
    /\ LET m == Head(to_main)
           c == contexts[m.key]
       IN  IF c = None THEN UNCHANGED <<contexts, unparked>>
           ELSE /\ Len(m.orders) < Chunk
                /\ contexts' = [contexts EXCEPT ![m.key] = Recv(c, m)]
                /\ unparked' = IF m.last THEN unparked \cup ({c.task} \ closed) ELSE unparked
    /\ to_main' = Tail(to_main)
    /\ UNCHANGED <<session_vars, handler, waiting, to_engine, engine_vars, panicked,
                   owner, asked, answer, clashed>>

\* handle_executions' branch for OpenOrdersResponse: recv, and the task of the
\* context unparked when the last response is in.
Receive ==
    /\ Ready /\ to_main # <<>>
    /\ LET m == Head(to_main)
           c == contexts[m.key]
       IN  IF c = None THEN UNCHANGED <<contexts, unparked>>
           ELSE /\ Len(m.orders) < Chunk
                /\ contexts' = [contexts EXCEPT ![m.key] = Recv(c, m)]
                /\ unparked' = IF m.last /\ Recv(c, m).in_flight = 0
                               THEN unparked \cup ({c.task} \ closed) ELSE unparked
    /\ to_main' = Tail(to_main)
    /\ UNCHANGED <<session_vars, handler, waiting, to_engine, engine_vars, panicked,
                   owner, asked, answer, clashed>>

\* recv's assertion fails on a full response, and a second last response does not
\* get through a build that checks for overflow: the process ends.
ReceivePanics ==
    /\ Ready /\ to_main # <<>>
    /\ LET m == Head(to_main)
           c == contexts[m.key]
       IN  /\ c # None
           /\ Len(m.orders) >= Chunk \/ (m.last /\ c.in_flight = 0)
    /\ panicked' = TRUE
    /\ engine_up' = FALSE
    /\ to_engine' = <<>> /\ to_main' = <<>>
    /\ UNCHANGED <<session_vars, handler, pending_vars, open, snapshot, owner, asked,
                   answer, clashed>>

------------------------------------------------------------------------------
Client(s) == (\E u \in Users : Authenticate(s, u)) \/ EnterOrder(s) \/ Ask(s) \/ HangUp(s)
EngineStep == EngineTakesOrder \/ EngineAnswers
Publisher == Receive \/ ReceivePanics

Next == \/ \E s \in Sessions : Client(s) \/ Poll(s)
        \/ Register \/ EngineStep \/ EngineDies \/ Publisher
        \/ \E o \in Orders : EngineRemovesOrder(o)

\* The engine takes its messages, the handler goes on, the reactor polls the
\* publisher when there is something to receive and a connection whose task has
\* been unparked, among any number of other clients' requests (strong fairness:
\* each of these suspends the others while its handler runs).
Spec == /\ Init /\ [][Next]_vars
        /\ WF_vars(EngineStep) /\ WF_vars(Register) /\ SF_vars(Publisher)
        /\ \A s \in Sessions : SF_vars(s \in unparked /\ Poll(s))

------------------------------------------------------------------------------
\* Correctness

Typed ==
    /\ user \in [Sessions -> Users \cup {None}]
    /\ next \in [Sessions -> 0 .. MaxRequests]
    /\ closed \subseteq Sessions /\ unparked \subseteq Sessions
    /\ handler \in Requests \cup {None}
    /\ contexts \in [Key -> Context \cup {None}]
    /\ waiting \subseteq DOMAIN asked
    /\ to_engine \in Seq(Query \cup Entered) /\ to_main \in Seq(Response)
    /\ open \subseteq DOMAIN owner
    /\ owner \in Seq(Users)
    /\ asked \in Seq([session : Sessions, key : Key, after : 0 .. MaxOrders])
    /\ snapshot \in [Requests -> (SUBSET Orders) \cup {None}]
    /\ answer \in [Requests -> Seq(Orders) \cup {None}]
    /\ clashed \subseteq Key
    /\ engine_up \in BOOLEAN /\ panicked \in BOOLEAN

\* What is on its way between the threads names queries and orders that were made,
\* each query by its own key.
NamesKnown ==
    /\ handler # None => handler \in DOMAIN asked
    /\ \A i \in DOMAIN to_engine :
          /\ to_engine[i].type = "NewOrder" => to_engine[i].order \in DOMAIN owner
          /\ to_engine[i].type = "Query" => /\ to_engine[i].request \in DOMAIN asked
                                           /\ to_engine[i].key = asked[to_engine[i].request].key
    /\ \A i \in DOMAIN to_main : ToSet(to_main[i].orders) \subseteq DOMAIN owner
    /\ \A k \in Key : contexts[k] # None => ToSet(contexts[k].orders) \subseteq DOMAIN owner

TypeOK == Typed /\ NamesKnown

GotAnswer(n) == n \in DOMAIN asked /\ answer[n] # None

\* An answer is what the books held at one moment between the question and the
\* answer, each order once: not parts of two answers, not an older one.  It holds
\* of keys that no two sessions (or two users' turns of one) use at a time.
AnswerIsSnapshot ==
    \A n \in Requests : GotAnswer(n) /\ asked[n].key \notin clashed =>
        /\ snapshot[n] # None
        /\ ToSet(answer[n]) = snapshot[n]
        /\ Len(answer[n]) = Cardinality(snapshot[n])

\* The orders that have left the books.
Gone == {o \in DOMAIN owner : o \notin open /\ [type |-> "NewOrder", order |-> o] \notin ToSet(to_engine)}

\* A client sees the orders its user had entered before it asked, through any
\* session: each is in the answer or has left the books.
SeesEarlierOrders ==
    \A n \in Requests : GotAnswer(n) /\ asked[n].key \notin clashed =>
        {o \in 1 .. asked[n].after : owner[o] = asked[n].key.user}
            \subseteq ToSet(answer[n]) \cup Gone

\* Nobody is shown another user's order, even when sessions share a key, change
\* their user while an answer is on the way, or take over a dead session's key.
OnlyOwnOrders ==
    \A n \in Requests : GotAnswer(n) =>
        \A o \in ToSet(answer[n]) : owner[o] = asked[n].key.user

\* A session that has asked gets its answer unless it hangs up, a thread dies, or
\* somebody else uses its key.
EveryQueryAnswered ==
    \A n \in Requests :
        n \in waiting ~> \/ n \notin waiting \/ panicked \/ ~engine_up
                         \/ asked[n].key \in clashed

\* "assert!((msg.n_order as usize) < OPEN_ORDER_MSG_MAX_LENGTH)": no response that
\* recv is handed is full.
ResponsesNotFull == \A i \in DOMAIN to_main : Len(to_main[i].orders) < Chunk
==============================================================================

-------------------------------- MODULE Server --------------------------------
(***************************************************************************)
(* The server process of server/server.rs and server/session.rs around the *)
(* engine thread of server/engine.rs: the sessions' requests, the router   *)
(* that issues order ids, the log (module Wal shows what it promises), the *)
(* channels to and from the engine, the book (module OrderBook, instanced  *)
(* as Book), the publisher of executions and acknowledgements, replay of   *)
(* the log at the start, and crashes at any point.                         *)
(*                                                                         *)
(* The main thread runs one handler at a time, concurrently with the       *)
(* engine.  A message is sent on a fresh clone of an mpsc sender, which has *)
(* a slot of its own, so that no send waits: the channels are queues.      *)
(***************************************************************************)
EXTENDS Integers, Sequences, FiniteSets, SequencesExt

CONSTANTS
    Users, Prices, Quantities,
    QuantityLimit, \* a quantity is a number below this (2^32)
    Times,       \* the wall clock's readings ...
    Steady,      \* ... in any order or, if TRUE, forward with every order
    Capacity,    \* of a side's heap
    None,
    MaxOrders,   \* bound: ids the router issues
    MaxLog,      \* bound: entries of the log
    MaxCrashes,  \* bound: crashes
    MaxDrops     \* bound: clients that hang up or drop their subscription

Sides == {"Buy", "Sell"}
Id == [side : Sides, seq : 0 .. MaxOrders - 1]
BuyIds == {id \in Id : id.side = "Buy"}
SellIds == {id \in Id : id.side = "Sell"}

\* EngineMessage: what is logged, and what is not.
Logged == [type : {"NewOrder"}, id : Id, user : Users, price : Prices, quantity : Quantities]
              \cup [type : {"CancelOrder"}, id : Id, user : Users]
SerializationMessage == [type |-> "Serialization"]

ASSUME ServerAssumption ==
    /\ QuantityLimit \in Nat \ {0}
    /\ Prices \subseteq Int /\ Quantities \subseteq 0 .. QuantityLimit - 1
    /\ Times \subseteq Int /\ Capacity \in Nat
    /\ Steady \in BOOLEAN /\ (Steady => 1 .. MaxLog \subseteq Times)
    /\ MaxOrders \in Nat /\ MaxLog \in Nat /\ MaxCrashes \in Nat /\ MaxDrops \in Nat

VARIABLES
    log,         \* the entries of the log, on disk
    state,       \* main, replay, ServerState
    replayed,    \* how many entries replay has routed
    next_seq,    \* SingleRouter.seq_list of the symbol
    handler,     \* the request a session is handling: its message and how far it is
    pending,     \* pending_orders: per id, "none", "waiting" or "acked"
    subscribed,  \* sub_map: the users with an execution subscription
    to_engine,   \* the channel of EngineMessages
    to_main,     \* the channel of SessionMessages
    taken,       \* how many entries the engine has taken
    crashes,
    drops

VARIABLES book, next_exec, last_exec, taker, execs, dirty, published, published_l2,
          panicked, submitted, filled, cancelled_by      \* those of OrderBook

\* History: the trades of each entry of the log, as last made; what clients
\* have been told, in that order.
VARIABLES trades, told

\* Market data has no part in this module.
Book == INSTANCE OrderBook WITH MaxSeq <- MaxOrders, Depth <- 1

\* What a session is handling, and the messages it is sent.
Handling == [msg : Logged, at : {"logged", "routed"}]
SessionMessage == [type : {"Execution"}, exec : Book!Execution, users : [Sides -> Users]]
                      \cup [type : {"Ack"}, id : Id] \cup [type : {"Serialized"}]

ASSUME NoneAssumption ==
    None \notin Users \cup Handling \cup Book!Order \cup Book!Execution \cup Book!MdEntry
                  \cup Seq(Book!Execution)

main_vars == <<state, replayed, next_seq, handler, pending, subscribed>>
book_vars == <<book, next_exec, last_exec, taker, execs, dirty, published, published_l2,
               panicked, submitted, filled, cancelled_by>>
engine_vars == <<taken, book_vars>>
vars == <<log, main_vars, to_engine, to_main, engine_vars, crashes, drops, trades, told>>

NoneOf == [id \in Id |-> None]

Init ==
    /\ log = <<>>
    /\ state = "down" /\ replayed = 0 /\ next_seq = 0
    /\ handler = None
    /\ pending = [id \in Id |-> "none"]
    /\ subscribed = {}
    /\ to_engine = <<>> /\ to_main = <<>>
    /\ taken = 0 /\ Book!Init
    /\ crashes = 0 /\ drops = 0
    /\ trades = [n \in 1 .. MaxLog |-> None]
    /\ told = <<>>

\* The process ends: what is not in the log is lost.
Die ==
    /\ state' = "down" /\ replayed' = 0 /\ next_seq' = 0
    /\ handler' = None
    /\ pending' = [id \in Id |-> "none"]
    /\ subscribed' = {}
    /\ to_engine' = <<>> /\ to_main' = <<>>
    /\ taken' = 0
    /\ book' = NoneOf /\ next_exec' = 0 /\ last_exec' = None
    /\ taker' = None /\ execs' = <<>> /\ dirty' = FALSE
    /\ published' = [bid |-> None, ask |-> None, last |-> None]
    /\ published_l2' = Book!L2Data({}, {}, None)
    /\ panicked' = FALSE
    /\ submitted' = NoneOf /\ filled' = [id \in Id |-> 0] /\ cancelled_by' = NoneOf
    /\ UNCHANGED <<log, drops, trades, told>>

Crash == /\ state # "down" /\ crashes < MaxCrashes
         /\ Die
         /\ crashes' = crashes + 1

------------------------------------------------------------------------------
\* Starting

Start ==
    /\ state = "down"
    /\ state' = "replaying"
    /\ UNCHANGED <<log, replayed, next_seq, handler, pending, subscribed, to_engine,
                   to_main, engine_vars, crashes, drops, trades, told>>

\* Faults: replay leaves the router where it is; it drops cancels; it reads the
\* log from its end.
ReplayMessageAs(m, seq) ==
    /\ state = "replaying" /\ ~panicked
    /\ replayed < Len(log)
    /\ next_seq' = seq
    /\ to_engine' = to_engine \o m
    /\ replayed' = replayed + 1
    /\ UNCHANGED <<log, state, handler, pending, subscribed, to_main, engine_vars,
                   crashes, drops, trades, told>>
ReplayWithoutRouter == ReplayMessageAs(<<log[replayed + 1]>>, next_seq)
ReplayOrdersOnly == ReplayMessageAs(SelectSeq(<<log[replayed + 1]>>,
                                              LAMBDA m : m.type = "NewOrder"), MaxOrders)
ReplayBackwards == ReplayMessageAs(<<log[Len(log) - replayed]>>, MaxOrders)

\* init_wal's loop: replay_message moves the router behind the id and routes.
ReplayMessage ==
    /\ state = "replaying" /\ ~panicked
    /\ replayed < Len(log)
    /\ LET m == log[replayed + 1]
       IN  /\ next_seq' = IF m.type = "NewOrder" /\ m.id.seq >= next_seq
                          THEN m.id.seq + 1 ELSE next_seq
           /\ to_engine' = Append(to_engine, m)
    /\ replayed' = replayed + 1
    /\ UNCHANGED <<log, state, handler, pending, subscribed, to_main, engine_vars,
                   crashes, drops, trades, told>>

\* Fault: the server does not wait for the engine.
FinishReplayAtOnce ==
    /\ state = "replaying" /\ ~panicked
    /\ replayed = Len(log)
    /\ state' = "synced"
    /\ UNCHANGED <<log, replayed, next_seq, handler, pending, subscribed, to_engine,
                   to_main, engine_vars, crashes, drops, trades, told>>

\* serialization_point, then the event loop.
FinishReplay ==
    /\ state = "replaying" /\ ~panicked
    /\ replayed = Len(log)
    /\ to_engine' = Append(to_engine, SerializationMessage)
    /\ state' = "loading"
    /\ UNCHANGED <<log, replayed, next_seq, handler, pending, subscribed, to_main,
                   engine_vars, crashes, drops, trades, told>>

\* A send to an engine that has died: main unwraps the error.
ReplayFails ==
    /\ state = "replaying" /\ panicked
    /\ Die
    /\ UNCHANGED crashes

\* replay_sync is done: clients may connect from now on.
BecomeRunning ==
    /\ state = "synced"
    /\ state' = "running"
    /\ UNCHANGED <<log, replayed, next_seq, handler, pending, subscribed, to_engine,
                   to_main, engine_vars, crashes, drops, trades, told>>

------------------------------------------------------------------------------
\* The sessions

\* The main thread is in its event loop, with clients connected.
Ready == state = "running" /\ handler = None

\* Fault: the order is routed although it has not been logged.
LogNewOrderMaybe(user, side, price, quantity) ==
    LET m == [type |-> "NewOrder", id |-> [side |-> side, seq |-> next_seq],
              user |-> user, price |-> price, quantity |-> quantity]
    IN  /\ Ready
        /\ next_seq < MaxOrders
        /\ next_seq' = next_seq + 1
        /\ taken < MaxLog
        /\ log' \in {log} \cup (IF Len(log) < MaxLog THEN {Append(log, m)} ELSE {})
        /\ handler' = [msg |-> m, at |-> "logged"]
        /\ UNCHANGED <<state, replayed, pending, subscribed, to_engine, to_main,
                       engine_vars, crashes, drops, trades, told>>

\* create_order_id and write_entry.  When the log cannot be written the client
\* gets an error, and the id is used up.
LogNewOrder(user, side, price, quantity) ==
    LET m == [type |-> "NewOrder", id |-> [side |-> side, seq |-> next_seq],
              user |-> user, price |-> price, quantity |-> quantity]
    IN  /\ Ready
        /\ next_seq < MaxOrders
        /\ next_seq' = next_seq + 1
        /\ \/ /\ Len(log) < MaxLog
              /\ log' = Append(log, m)
              /\ handler' = [msg |-> m, at |-> "logged"]
           \/ UNCHANGED <<log, handler>>
        /\ UNCHANGED <<state, replayed, pending, subscribed, to_engine, to_main,
                       engine_vars, crashes, drops, trades, told>>

\* A client may name any order, known or not, its own or not.
LogCancelOrder(user, id) ==
    LET m == [type |-> "CancelOrder", id |-> id, user |-> user]
    IN  /\ Ready
        /\ Len(log) < MaxLog
        /\ log' = Append(log, m)
        /\ handler' = [msg |-> m, at |-> "logged"]
        /\ UNCHANGED <<state, replayed, next_seq, pending, subscribed, to_engine, to_main,
                       engine_vars, crashes, drops, trades, told>>

\* route_order; a cancel is answered at once.
Route ==
    /\ handler # None /\ handler.at = "logged"
    /\ IF panicked
       THEN /\ handler' = None       \* "internal error"
            /\ UNCHANGED to_engine
       ELSE /\ handler' = IF handler.msg.type = "NewOrder"
                          THEN [handler EXCEPT !.at = "routed"] ELSE None
            /\ to_engine' = Append(to_engine, handler.msg)
    /\ UNCHANGED <<log, state, replayed, next_seq, pending, subscribed, to_main,
                   engine_vars, crashes, drops, trades, told>>

\* new_order's insertion in pending_orders, after the order has been routed.
Register ==
    /\ handler # None /\ handler.at = "routed"
    /\ pending' = [pending EXCEPT ![handler.msg.id] = "waiting"]
    /\ handler' = None
    /\ UNCHANGED <<log, state, replayed, next_seq, subscribed, to_engine, to_main,
                   engine_vars, crashes, drops, trades, told>>

\* NewOrderSend is polled: the client has its answer.
Reply(id) ==
    /\ Ready
    /\ pending[id] = "acked"
    /\ pending' = [pending EXCEPT ![id] = "none"]
    /\ told' = Append(told, [type |-> "Ack", id |-> id])
    /\ UNCHANGED <<log, state, replayed, next_seq, handler, subscribed, to_engine, to_main,
                   engine_vars, crashes, drops, trades>>

\* The client's connection is gone: NewOrderSend is dropped.
HangUp(id) ==
    /\ Ready /\ drops < MaxDrops
    /\ drops' = drops + 1
    /\ pending[id] # "none"
    /\ pending' = [pending EXCEPT ![id] = "none"]
    /\ UNCHANGED <<log, state, replayed, next_seq, handler, subscribed, to_engine, to_main,
                   engine_vars, crashes, trades, told>>

\* execution_subscribe: one subscription per user.
Subscribe(user) ==
    /\ Ready
    /\ user \notin subscribed
    /\ subscribed' = subscribed \cup {user}
    /\ UNCHANGED <<log, state, replayed, next_seq, handler, pending, to_engine, to_main,
                   engine_vars, crashes, drops, trades, told>>

\* ExecutionSubscriptionMd is dropped, by its client or with the connection.
Unsubscribe(user) ==
    /\ Ready /\ drops < MaxDrops
    /\ drops' = drops + 1
    /\ user \in subscribed
    /\ subscribed' = subscribed \ {user}
    /\ UNCHANGED <<log, state, replayed, next_seq, handler, pending, to_engine, to_main,
                   engine_vars, crashes, trades, told>>

------------------------------------------------------------------------------
\* The engine thread: the steps of OrderBook, from and to the channels

ClockReads == IF Steady THEN {taken + 1} ELSE Times

EngineNewOrder ==
    /\ to_engine # <<>> /\ Head(to_engine).type = "NewOrder"
    /\ LET m == Head(to_engine)
       IN  \E t \in ClockReads :
              Book!NewOrder([id |-> m.id, user |-> m.user, price |-> m.price,
                             quantity |-> m.quantity, update |-> t])
    /\ to_engine' = Tail(to_engine)
    /\ taken' = taken + 1
    /\ UNCHANGED <<log, main_vars, to_main, crashes, drops, trades, told>>

\* Fault: it does not matter who sends the cancel.
EngineCancelAnybodys ==
    /\ to_engine # <<>> /\ Head(to_engine).type = "CancelOrder"
    /\ Book!Idle
    /\ LET m == Head(to_engine)
       IN  IF book[m.id] # None THEN Book!CancelUnchecked(m.id, m.user)
           ELSE UNCHANGED book_vars
    /\ to_engine' = Tail(to_engine)
    /\ taken' = taken + 1
    /\ UNCHANGED <<log, main_vars, to_main, crashes, drops, trades, told>>

EngineCancelOrder ==
    /\ to_engine # <<>> /\ Head(to_engine).type = "CancelOrder"
    /\ Book!Idle
    /\ LET m == Head(to_engine)
           theirs == book[m.id] # None /\ book[m.id].user = m.user
       IN  IF theirs THEN Book!CancelOrder(m.id, m.user) ELSE UNCHANGED book_vars
    /\ to_engine' = Tail(to_engine)
    /\ taken' = taken + 1
    /\ UNCHANGED <<log, main_vars, to_main, crashes, drops, trades, told>>

\* Fault: the engine does not answer.
EngineSerializationMute ==
    /\ to_engine # <<>> /\ Head(to_engine).type = "Serialization"
    /\ Book!Idle
    /\ to_engine' = Tail(to_engine)
    /\ UNCHANGED <<log, main_vars, to_main, engine_vars, crashes, drops, trades, told>>

EngineSerialization ==
    /\ to_engine # <<>> /\ Head(to_engine).type = "Serialization"
    /\ Book!Idle
    /\ to_engine' = Tail(to_engine)
    /\ to_main' = Append(to_main, [type |-> "Serialized"])
    /\ UNCHANGED <<log, main_vars, engine_vars, crashes, drops, trades, told>>

\* The thread's end drops the receiver and what is in it.
Receiver == IF panicked' THEN <<>> ELSE to_engine

EngineMatch ==
    /\ Book!Match
    /\ to_engine' = Receiver
    /\ UNCHANGED <<log, main_vars, to_main, taken, crashes, drops, trades, told>>

\* handle_match for each execution; they name the owners of the two orders.
Matches == [n \in DOMAIN execs |->
              [type |-> "Execution", exec |-> execs[n],
               users |-> [Buy  |-> submitted[execs[n].buy_order].user,
                          Sell |-> submitted[execs[n].sell_order].user]]]

\* Fault: the acknowledgement goes first.
EngineFinishAckFirst ==
    /\ Book!Finish
    /\ to_main' = to_main \o
          (IF panicked' THEN <<>> ELSE <<[type |-> "Ack", id |-> taker.id]>>) \o Matches
    /\ to_engine' = Receiver
    /\ trades' = [trades EXCEPT ![taken] = execs]
    /\ UNCHANGED <<log, main_vars, taken, crashes, drops, told>>

\* ... and then the acknowledgement, unless the remainder finds the heap full.
EngineFinish ==
    /\ Book!Finish
    /\ to_main' = to_main \o Matches \o
          (IF panicked' THEN <<>> ELSE <<[type |-> "Ack", id |-> taker.id]>>)
    /\ to_engine' = Receiver
    /\ trades' = [trades EXCEPT ![taken] = execs]
    /\ UNCHANGED <<log, main_vars, taken, crashes, drops, told>>

Engine == EngineNewOrder \/ EngineCancelOrder \/ EngineSerialization
              \/ EngineMatch \/ EngineFinish

------------------------------------------------------------------------------
\* The publisher (ExecutionPublisher::handle_executions), on the main thread

\* handle_execution_side
Notice(m, side) == IF m.users[side] \in subscribed
                   THEN <<[type |-> "Execution", side |-> side, exec |-> m.exec]>>
                   ELSE <<>>

\* Fault: both notices go to the buyer.
FeedBuyerTwice(m) == Notice(m, "Buy") \o Notice(m, "Buy")

\* The buyer's notice and then the seller's.
Feed(m) == Notice(m, "Buy") \o Notice(m, "Sell")

PublishExecution ==
    /\ state \in {"loading", "synced", "running"} /\ handler = None
    /\ to_main # <<>> /\ Head(to_main).type = "Execution"
    /\ to_main' = Tail(to_main)
    /\ told' = IF state = "running" THEN told \o Feed(Head(to_main)) ELSE told
    /\ UNCHANGED <<log, main_vars, to_engine, engine_vars, crashes, drops, trades>>

\* Fault: the publisher runs beside the handlers.
PublishAckAnytime ==
    /\ state \in {"loading", "synced", "running"}
    /\ to_main # <<>> /\ Head(to_main).type = "Ack"
    /\ to_main' = Tail(to_main)
    /\ LET id == Head(to_main).id
       IN  pending' = IF state = "running" /\ pending[id] # "none"
                      THEN [pending EXCEPT ![id] = "acked"] ELSE pending
    /\ UNCHANGED <<log, state, replayed, next_seq, handler, subscribed, to_engine,
                   engine_vars, crashes, drops, trades, told>>

PublishAck ==
    /\ state \in {"loading", "synced", "running"} /\ handler = None
    /\ to_main # <<>> /\ Head(to_main).type = "Ack"
    /\ to_main' = Tail(to_main)
    /\ LET id == Head(to_main).id
       IN  pending' = IF state = "running" /\ pending[id] # "none"
                      THEN [pending EXCEPT ![id] = "acked"] ELSE pending
    /\ UNCHANGED <<log, state, replayed, next_seq, handler, subscribed, to_engine,
                   engine_vars, crashes, drops, trades, told>>

\* notify_serializations, of the one serialization point there is.
NotifySerialization ==
    /\ state \in {"loading", "synced", "running"} /\ handler = None
    /\ to_main # <<>> /\ Head(to_main).type = "Serialized"
    /\ to_main' = Tail(to_main)
    /\ state' = "synced"
    /\ UNCHANGED <<log, replayed, next_seq, handler, pending, subscribed, to_engine,
                   engine_vars, crashes, drops, trades, told>>

Publisher == PublishExecution \/ PublishAck \/ NotifySerialization

------------------------------------------------------------------------------
Starting == Start \/ ReplayMessage \/ FinishReplay \/ ReplayFails \/ BecomeRunning

Client ==
    \/ \E user \in Users, side \in Sides, price \in Prices, quantity \in Quantities :
          LogNewOrder(user, side, price, quantity)
    \/ \E user \in Users, id \in Id : LogCancelOrder(user, id)
    \/ \E id \in Id : HangUp(id)
    \/ \E user \in Users : Subscribe(user) \/ Unsubscribe(user)

Handler == Route \/ Register

Next == Starting \/ Client \/ Handler \/ (\E id \in Id : Reply(id))
            \/ Engine \/ Publisher \/ Crash

\* Both threads run what is ready to run; the reactor polls every future that
\* has been unparked.  Clients need do nothing, and somebody restarts the server.
Spec == /\ Init /\ [][Next]_vars
        /\ WF_vars(Starting) /\ WF_vars(Handler) /\ WF_vars(Engine) /\ SF_vars(Publisher)
        /\ \A id \in Id : SF_vars(Reply(id))

------------------------------------------------------------------------------
\* Correctness

Told == [type : {"Ack"}, id : Id]
            \cup [type : {"Execution"}, side : Sides, exec : Book!Execution]

TypeOK ==
    /\ log \in Seq(Logged) /\ Len(log) <= MaxLog
    /\ state \in {"down", "replaying", "loading", "synced", "running"}
    /\ replayed \in 0 .. Len(log) /\ taken \in 0 .. Len(log)
    /\ next_seq \in 0 .. MaxOrders
    /\ handler \in Handling \cup {None}
    /\ pending \in [Id -> {"none", "waiting", "acked"}]
    /\ subscribed \subseteq Users
    /\ to_engine \in Seq(Logged \cup {SerializationMessage})
    /\ to_main \in Seq(SessionMessage)
    /\ Book!TypeOK
    /\ crashes \in 0 .. MaxCrashes /\ drops \in 0 .. MaxDrops
    /\ trades \in [1 .. MaxLog -> Seq(Book!Execution) \cup {None}]
    /\ told \in Seq(Told)

\* Where the order with this id is in the log.
Position(id) ==
    LET found == {n \in DOMAIN log : log[n].type = "NewOrder" /\ log[n].id = id}
    IN  IF found = {} THEN 0 ELSE CHOOSE n \in found : TRUE

\* The order a client is told of: of the two that trade, the one that came in.
Incoming(t) == IF t.type = "Ack" THEN Position(t.id)
               ELSE LET b == Position(t.exec.buy_order)
                        s == Position(t.exec.sell_order)
                    IN  IF b > s THEN b ELSE s

\* The engine works through the log: what it has taken, what is on the way to
\* it and what the handler has yet to route are the log, in its order, while it
\* is replayed and while sessions append to it; the serialization point comes
\* behind all of the log.
EngineFollowsLog ==
    LET routed  == IF state = "replaying" THEN replayed
                   ELSE IF handler # None /\ handler.at = "logged" THEN Len(log) - 1
                   ELSE Len(log)
        between == SubSeq(log, taken + 1, routed)
    IN  state # "down" /\ ~panicked =>
           \/ to_engine = between
           \/ state = "loading" /\ to_engine = Append(between, SerializationMessage)

\* The router issues an id once, over all restarts and failures to log: the log
\* never holds two orders of one id.
IdsIssuedOnce ==
    \A m, n \in DOMAIN log :
        log[m].type = "NewOrder" /\ log[n].type = "NewOrder" /\ m # n =>
            log[m].id.seq # log[n].id.seq

\* No session is served before the engine has taken all that was replayed.
CaughtUp == state = "running" => taken >= replayed

\* Clients are told only of orders that came in since the server is running,
\* never again of those that are replayed.
NewsOnly ==
    [][\A n \in Len(told) + 1 .. Len(told') : Incoming(told'[n]) > replayed]_vars

\* A client that gets the answer to its order has been told before of every
\* execution the order had when it came in.
ExecutionsBeforeAck ==
    \A i, j \in DOMAIN told :
        i < j /\ told[i].type = "Ack" /\ told[j].type = "Execution" =>
            Incoming(told[i]) # Incoming(told[j])

\* Each user learns of each of his executions at most once, and no two
\* executions have the same id, over all restarts.
ToldOnce ==
    \A i, j \in DOMAIN told : i # j =>
        /\ told[i] # told[j]
        /\ told[i].type = "Execution" /\ told[j].type = "Execution"
              /\ told[i].exec.id = told[j].exec.id => told[i].exec = told[j].exec

\* What clients have been told is in the log and stays true of the books that
\* are rebuilt from it.
ToldStaysTrue ==
    \A i \in DOMAIN told :
        LET n == Incoming(told[i])
        IN  /\ n \in DOMAIN log /\ trades[n] # None
            /\ told[i].type = "Execution" => told[i].exec \in ToSet(trades[n])

\* A cancel sticks: when the engine has taken an order and a cancel that its owner
\* entered after it, the order is not in the book, and no restart brings it back.
CancelSticks ==
    \A m, n \in 1 .. taken :
        /\ m < n /\ log[m].type = "NewOrder" /\ log[n].type = "CancelOrder"
        /\ log[n].id = log[m].id /\ log[n].user = log[m].user
        => book[log[m].id] = None

\* An order stays: of what the engine has taken of an order whose owner has not
\* entered a cancel behind it, all is executed, in the books or in the matcher's
\* hand.  Nobody else's cancel, no trade of others and no restart takes any of it.
OrdersStay ==
    \A n \in 1 .. taken :
        /\ log[n].type = "NewOrder"
        /\ \A c \in n + 1 .. taken : log[c] # [type |-> "CancelOrder", id   |-> log[n].id,
                                               user |-> log[n].user]
        => filled[log[n].id] + Book!Remaining(log[n].id) = log[n].quantity

\* Replay makes the trades again that were made before ("catch books up").
ReplayRepeats ==
    [][\A n \in DOMAIN trades : trades[n] # None => trades'[n] = trades[n]]_vars

\* A client that waits for an answer is sent it, unless it hangs up, the server
\* crashes or the engine dies: the publisher finds the order in pending_orders,
\* and unparks a session that then has its turn.
EveryOrderAnswered ==
    \A id \in Id : pending[id] = "waiting" ~> pending[id] = "none" \/ panicked

\* The server comes up, though it may crash on the way and be started again,
\* unless an entry of the log kills the engine.
StartsUp == state = "replaying" ~> state = "running" \/ panicked
==============================================================================

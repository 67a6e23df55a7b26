----------------------------- MODULE MarketFeed -----------------------------
(***************************************************************************)
(* The messages of an ITCH feed that concern orders, and the two optimized  *)
(* managers that follow them.  The exchange sends what its orders allow: a  *)
(* reference number is given once, an order that has ended is not named     *)
(* again, and nothing executes or cancels more than is left.  Each message  *)
(* goes to both managers, through the onMessage of their MyITCHHandler.     *)
(***************************************************************************)
EXTENDS Integers, Sums

CONSTANTS
    Books,          \* stock locate codes
    Prices,         \* prices of orders
    Shares,         \* sizes of orders
    MaxOrders,      \* bound on the orders of a day
    MaxCalls        \* bound on the calls that no message makes

ASSUME PricesArePositive == Prices \subseteq Nat \ {0}
ASSUME SharesArePositive == Shares \subseteq Nat \ {0}
ASSUME MaxOrdersIsANumber == MaxOrders \in Nat

Ids == 1 .. MaxOrders

Sides == {"BUY", "SELL"}

VARIABLES
    listed,         \* the stocks of the directory
    live,           \* the orders in the books of the exchange
    lastId,         \* the last reference number given
    calls,          \* the number of calls that no message made
    aggressive,     \* the manager of market_manager_optimized_aggressive.cpp
    optimized       \* the manager of market_manager_optimized.cpp

vars == <<listed, live, lastId, calls, aggressive, optimized>>

A == INSTANCE AggressiveManager
O == INSTANCE OptimizedManager

-----------------------------------------------------------------------------
(* The orders of the exchange. *)

New(b, side, price, shares) == [Book |-> b, Side |-> side, Price |-> price, Shares |-> shares]

Without(id) == [i \in DOMAIN live \ {id} |-> live[i]]

\* With what is left of an order, if something is.
Left(id, shares) ==
    IF shares = 0 THEN Without(id) ELSE [live EXCEPT ![id].Shares = shares]

With(orders, id, order) == [i \in DOMAIN orders \cup {id} |->
                               IF i = id THEN order ELSE orders[i]]

\* The shares of the orders of a book at a price.
Depth(b, side, price) ==
    Lots([i \in {j \in DOMAIN live : /\ live[j].Book = b
                                     /\ live[j].Side = side
                                     /\ live[j].Price = price} |-> live[i].Shares])

Sent(side, price) == IF side = "BUY" THEN price ELSE -price

-----------------------------------------------------------------------------
(* One action per message. *)

StockDirectory(b) ==
    /\ b \notin listed
    /\ listed' = listed \cup {b}
    /\ aggressive' = A!AddOrderBook(aggressive, b)
    /\ optimized' = O!AddOrderBook(O!AddSymbol(optimized, b), b)
    /\ UNCHANGED <<live, lastId, calls>>

\* AddOrderMessage and AddOrderMPIDMessage.
AddOrder(b, side, price, shares) ==
    /\ b \in listed
    /\ lastId < MaxOrders
    /\ lastId' = lastId + 1
    /\ live' = With(live, lastId', New(b, side, price, shares))
    /\ aggressive' = A!AddOrder(aggressive, lastId', b, Sent(side, price), shares)
    /\ optimized' = O!AddOrder(optimized, lastId', b, side, price, shares)
    /\ UNCHANGED <<listed, calls>>

\* OrderExecutedMessage and OrderExecutedWithPriceMessage.
OrderExecuted(id, shares) ==
    /\ live' = Left(id, live[id].Shares - shares)
    /\ aggressive' = A!ExecuteOrder(aggressive, id, shares)
    /\ optimized' = O!ExecuteOrder(optimized, id, shares)
    /\ UNCHANGED <<listed, lastId, calls>>

OrderCancel(id, shares) ==
    /\ live' = Left(id, live[id].Shares - shares)
    /\ aggressive' = A!ReduceOrder(aggressive, id, shares)
    /\ optimized' = O!ReduceOrder(optimized, id, shares)
    /\ UNCHANGED <<listed, lastId, calls>>

OrderDelete(id) ==
    /\ live' = Without(id)
    /\ aggressive' = A!DeleteOrder(aggressive, id)
    /\ optimized' = O!DeleteOrder(optimized, id)
    /\ UNCHANGED <<listed, lastId, calls>>

\* The replacement keeps the book and the side.
OrderReplace(id, price, shares) ==
    /\ lastId < MaxOrders
    /\ lastId' = lastId + 1
    /\ live' = IF shares = 0 THEN Without(id)
               ELSE With(Without(id), lastId',
                         [live[id] EXCEPT !.Price = price, !.Shares = shares])
    /\ aggressive' = A!ReplaceOrder(aggressive, id, lastId', price, shares)
    /\ optimized' = O!ReplaceOrder(optimized, id, lastId', price, shares)
    /\ UNCHANGED <<listed, calls>>

-----------------------------------------------------------------------------
(* Two calls that the managers offer and no message makes. *)

ModifyOrder(id, price, shares) ==
    /\ calls < MaxCalls
    /\ calls' = calls + 1
    /\ live' = IF shares = 0 THEN Without(id)
               ELSE [live EXCEPT ![id] = [@ EXCEPT !.Price = price, !.Shares = shares]]
    /\ aggressive' = A!ModifyOrder(aggressive, id, price, shares)
    /\ optimized' = O!ModifyOrder(optimized, id, price, shares)
    /\ UNCHANGED <<listed, lastId>>

ReplaceOrderInto(id, b, price, shares) ==
    /\ calls < MaxCalls
    /\ calls' = calls + 1
    /\ b \in listed
    /\ lastId < MaxOrders
    /\ lastId' = lastId + 1
    /\ live' = IF shares = 0 THEN Without(id)
               ELSE With(Without(id), lastId', New(b, live[id].Side, price, shares))
    /\ aggressive' = A!ReplaceOrderInto(aggressive, id, lastId', b, price, shares)
    /\ optimized' = O!ReplaceOrderInto(optimized, id, lastId', b, live[id].Side, price, shares)
    /\ UNCHANGED listed

-----------------------------------------------------------------------------
Init ==
    /\ listed = {}
    /\ live = [i \in {} |-> 0]
    /\ lastId = 0
    /\ calls = 0
    /\ aggressive = A!NewManager
    /\ optimized = O!NewManager

Message ==
    \/ \E b \in Books : StockDirectory(b)
    \/ \E b \in Books, side \in Sides, price \in Prices, shares \in Shares :
          AddOrder(b, side, price, shares)
    \/ \E id \in DOMAIN live :
          \/ \E shares \in 1 .. live[id].Shares : OrderExecuted(id, shares)
          \/ \E shares \in 1 .. live[id].Shares : OrderCancel(id, shares)
          \/ OrderDelete(id)
          \/ \E price \in Prices, shares \in Shares \cup {0} : OrderReplace(id, price, shares)

Call ==
    \E id \in DOMAIN live, price \in Prices, shares \in Shares \cup {0} :
       \/ ModifyOrder(id, price, shares)
       \/ \E b \in Books : ReplaceOrderInto(id, b, price, shares)

Next == Message \/ Call

Spec == Init /\ [][Next]_vars

-----------------------------------------------------------------------------
(* Properties. *)

\* The two books of the aggressive manager are the depth of the market: their vectors
\* are sorted, worst price first, with the prices the exchange has orders at, and the
\* volume of each level, found through its slot, is what these orders have left.
DepthIsExact ==
    \A b \in Books, side \in Sides :
       LET levels == aggressive.books[b][IF side = "BUY" THEN "bids" ELSE "asks"]
           prices == {live[i].Price : i \in {j \in DOMAIN live : /\ live[j].Book = b
                                                                 /\ live[j].Side = side}}
       IN  /\ \A i, j \in DOMAIN levels : i < j => levels[i].Price < levels[j].Price
           /\ {levels[i].Price : i \in DOMAIN levels} = {Sent(side, p) : p \in prices}
           /\ \A i \in DOMAIN levels :
                 LET level == aggressive.pool.allocated[levels[i].Level]
                 IN  /\ level.Price = levels[i].Price
                     /\ level.Volume = Depth(b, side, IF side = "BUY" THEN level.Price
                                                      ELSE -level.Price)

\* Through all the levels that come and go in the pools that the books share, a slot is
\* either free or used by one level of one book, and none is lost.
NoSlotIsShared ==
    /\ A!SlotsArePartitioned(aggressive.pool, aggressive.books)
    /\ O!SlotsArePartitioned(optimized.pool, optimized.books)

\* The handler of the optimized manager hears of every order once when it comes and
\* once when it ends, whichever way it ends, and the levels count the orders they hold.
OrdersAreCounted ==
    /\ optimized.handler.orders = Cardinality(DOMAIN live)
    /\ optimized.handler.add_orders - optimized.handler.delete_orders = optimized.handler.orders
    /\ optimized.handler.max_orders \in optimized.handler.orders .. lastId
    /\ \A b \in Books, side \in {"bids", "asks"} :
          \A i \in DOMAIN optimized.books[b][side] :
             LET entry == optimized.books[b][side][i]
             IN  optimized.pool.allocated[entry.Level].Orders =
                    Cardinality({id \in DOMAIN live :
                                    optimized.orders[id].Level = entry.Level})
=============================================================================

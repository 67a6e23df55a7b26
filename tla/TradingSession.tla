--------------------------- MODULE TradingSession ---------------------------
(***************************************************************************)
(* The matching engine as a program: symbols are added, then users, then    *)
(* limit and market orders are sent to a market manager that matches them,  *)
(* and at the end what is still in memory is written.  Of the manager this  *)
(* module has the calls it makes to its handler, in their order; how it     *)
(* matches is MatchingEngine's.  Orders name accounts that may not be users.*)
(***************************************************************************)
EXTENDS MyMarketHandler, Registry, Sums

CONSTANTS
    Symbols, Users, Accounts,   \* Ids of symbols, of users, of the accounts that trade
    Prices, Quantities,         \* of the orders that are sent
    MaxOrders,                  \* bound on the orders that are sent
    Garbage,                    \* what a counter may hold before it is set
    NoOrder

ASSUME UsersTrade == Users \subseteq Accounts

\* The program numbers symbols and accounts, and its prices and quantities are not zero.
ASSUME IdsAreNumbers ==
    /\ Symbols \in SUBSET Nat /\ IsFiniteSet(Symbols)
    /\ Accounts \in SUBSET Nat /\ IsFiniteSet(Accounts)
    /\ MaxOrders \in Nat

ASSUME OrdersAreReal ==
    /\ Prices \in SUBSET (Nat \ {0})
    /\ Quantities \in SUBSET (Nat \ {0})

ASSUME GarbageIsCount == Garbage \in SUBSET Int

VARIABLES
    market,         \* symbols and order books of the manager
    resting,        \* its orders, by Id
    incoming,       \* the order that AddOrder is matching, or NoOrder
    lastId,         \* the Id of the last order that was sent
    handler,        \* MyMarketHandler
    log,            \* the calls on orders that the handler has got
    executions,     \* those of onExecuteOrder among them
    flushed         \* flush_db has returned

vars == <<market, resting, incoming, lastId, handler, log, executions, flushed>>

Opposite(side) == IF side = "BUY" THEN "SELL" ELSE "BUY"

-----------------------------------------------------------------------------
(* The book. *)

OrdersOn(orders, symbol, side) ==
    {id \in DOMAIN orders : orders[id].SymbolId = symbol /\ orders[id].Side = side}

IsBetter(a, b) ==
    \/ IF a.Side = "BUY" THEN a.Price > b.Price ELSE a.Price < b.Price
    \/ a.Price = b.Price /\ a.Id < b.Id

\* The first order of the best level; NoOrder if the side is empty.
Best(orders, symbol, side) ==
    LET ids == OrdersOn(orders, symbol, side)
    IN  IF ids = {} THEN NoOrder
        ELSE orders[CHOOSE id \in ids : \A other \in ids \ {id} :
                       IsBetter(orders[id], orders[other])]

BestPrice(orders, symbol, side) ==
    LET best == Best(orders, symbol, side) IN IF best = NoOrder THEN 0 ELSE best.Price

Book(orders, symbol) ==
    [symbol |-> symbol, best_bid |-> BestPrice(orders, symbol, "BUY"),
     best_ask |-> BestPrice(orders, symbol, "SELL")]

\* A market order to buy takes the best price, one to sell is given a limit that no bid
\* reaches.
Accepts(order, price) ==
    IF order.Type = "MARKET" THEN order.Side = "BUY"
    ELSE IF order.Side = "BUY" THEN price <= order.Price ELSE price >= order.Price

\* The order that the incoming order trades with next.
Counterpart == Best(resting, incoming.SymbolId, Opposite(incoming.Side))

IsMatched ==
    /\ incoming # NoOrder
    /\ incoming.LeavesQuantity > 0
    /\ Counterpart # NoOrder
    /\ Accepts(incoming, Counterpart.Price)

Reduce(order, quantity) == [order EXCEPT !.LeavesQuantity = @ - quantity]

Entry(call, order, price, quantity) ==
    [call |-> call, order |-> order, price |-> price, quantity |-> quantity]

-----------------------------------------------------------------------------
(* The program. *)

\* addSymbol: a symbol and its book.
AddSymbolAndBook(symbol) ==
    LET added == AddSymbol(market, symbol)
    IN  /\ handler.users = {}
        /\ market' = AddOrderBook(added.market, symbol).market
        /\ handler' = IF added.code = "OK" THEN onAddSymbol(handler, symbol) ELSE handler
        /\ UNCHANGED <<resting, incoming, lastId, log, executions, flushed>>

AddUser(accountId) ==
    /\ handler.symbols = Symbols
    /\ lastId = 0
    /\ accountId \notin handler.users
    /\ \A other \in Users \ handler.users : accountId <= other
    /\ handler' = addUser(handler, accountId)
    /\ UNCHANGED <<market, resting, incoming, lastId, log, executions, flushed>>

\* The call of AddOrder; without a book it returns ORDER_BOOK_NOT_FOUND.
AddOrder(symbol, accountId, type, side, price, quantity) ==
    LET order == [Id |-> lastId + 1, SymbolId |-> symbol, AccountId |-> accountId,
                  Type |-> type, Side |-> side, Price |-> price,
                  LeavesQuantity |-> quantity, Status |-> "PENDING"]
    IN  /\ handler.users = Users
        /\ incoming = NoOrder
        /\ lastId < MaxOrders
        /\ ~ flushed
        /\ lastId' = lastId + 1
        /\ IF symbol \in market.order_books
           THEN /\ incoming' = order
                /\ handler' = onAddOrder(handler, order)
                /\ log' = Append(log, Entry("add", order, 0, 0))
           ELSE UNCHANGED <<incoming, handler, log>>
        /\ UNCHANGED <<market, resting, executions, flushed>>

\* One trade of MatchOrder.  Whether the level is said to be the top of the book is open.
Trade(top) ==
    LET order    == Counterpart
        price    == order.Price
        quantity == IF order.LeavesQuantity < incoming.LeavesQuantity
                    THEN order.LeavesQuantity ELSE incoming.LeavesQuantity
        left     == Reduce(order, quantity)
        executed == onExecuteOrder(handler, order, price, quantity)
        changed  == IF left.LeavesQuantity > 0 THEN onUpdateOrder(executed, left)
                    ELSE onDeleteOrder(executed, left)
    IN  /\ IsMatched
        /\ resting' = IF left.LeavesQuantity > 0
                      THEN [resting EXCEPT ![order.Id] = left]
                      ELSE [id \in DOMAIN resting \ {order.Id} |-> resting[id]]
        /\ incoming' = Reduce(incoming, quantity)
        /\ handler' = onExecuteOrder(
                         onUpdateLevelAndOrderBook(changed, Book(resting', order.SymbolId), top),
                         incoming, price, quantity)
        /\ log' = log \o <<Entry("execute", order, price, quantity),
                           Entry(IF left.LeavesQuantity > 0 THEN "update" ELSE "delete",
                                 left, 0, 0),
                           Entry("execute", incoming, price, quantity)>>
        /\ executions' = executions \o <<Entry("execute", order, price, quantity),
                                         Entry("execute", incoming, price, quantity)>>
        /\ UNCHANGED <<market, lastId, flushed>>

\* What is left of a limit order is added to the book.
Rest(top) ==
    /\ incoming # NoOrder
    /\ ~ IsMatched
    /\ incoming.Type = "LIMIT" /\ incoming.LeavesQuantity > 0
    /\ resting' = Put(resting, incoming.Id, incoming)
    /\ handler' = onUpdateLevelAndOrderBook(handler, Book(resting', incoming.SymbolId), top)
    /\ incoming' = NoOrder
    /\ UNCHANGED <<market, lastId, log, executions, flushed>>

\* An order that is filled, and what is left of a market order, is deleted.
Drop ==
    /\ incoming # NoOrder
    /\ ~ IsMatched
    /\ incoming.Type = "LIMIT" => incoming.LeavesQuantity = 0
    /\ handler' = onDeleteOrder(handler, incoming)
    /\ log' = Append(log, Entry("delete", incoming, 0, 0))
    /\ incoming' = NoOrder
    /\ UNCHANGED <<market, resting, lastId, executions, flushed>>

Flush ==
    /\ handler.users = Users
    /\ incoming = NoOrder
    /\ ~ flushed
    /\ flushed' = TRUE
    /\ handler' = flush_db(handler)
    /\ UNCHANGED <<market, resting, incoming, lastId, log, executions>>

\* A client may close a market; the program leaves that to the destructor, which calls
\* no handler.
CloseBook(symbol) ==
    /\ incoming = NoOrder
    /\ lastId > 0
    /\ market' = DeleteOrderBook(market, symbol).market
    /\ UNCHANGED <<resting, incoming, lastId, handler, log, executions, flushed>>

CloseSymbol(symbol) ==
    LET deleted == DeleteSymbol(market, symbol)
    IN  /\ incoming = NoOrder
        /\ lastId > 0
        /\ market' = deleted.market
        /\ handler' = IF deleted.code = "OK" THEN onDeleteSymbol(handler, symbol) ELSE handler
        /\ UNCHANGED <<resting, incoming, lastId, log, executions, flushed>>

-----------------------------------------------------------------------------
Init ==
    /\ market = NewRegistry
    /\ resting = [id \in {} |-> NoOrder]
    /\ incoming = NoOrder
    /\ lastId = 0
    /\ \E garbage \in Garbage : handler = NewHandler(garbage)
    /\ log = << >>
    /\ executions = << >>
    /\ flushed = FALSE

Next ==
    \/ \E symbol \in Symbols :
          \/ AddSymbolAndBook(symbol)
          \/ CloseBook(symbol)
          \/ CloseSymbol(symbol)
          \/ \E accountId \in Accounts, side \in {"BUY", "SELL"}, quantity \in Quantities :
                \/ \E price \in Prices :
                      AddOrder(symbol, accountId, "LIMIT", side, price, quantity)
                \/ AddOrder(symbol, accountId, "MARKET", side, 0, quantity)
    \/ \E accountId \in Users : AddUser(accountId)
    \/ \E top \in BOOLEAN : Trade(top) \/ Rest(top)
    \/ Drop
    \/ Flush

Spec == Init /\ [][Next]_vars

-----------------------------------------------------------------------------
(* Properties. *)

\* The order of an entry and what was traded, as far as all rows of orders tell.
IdsAndLeaves(copies) ==
    [i \in DOMAIN copies |-> <<copies[i].Id, copies[i].LeavesQuantity>>]

OrdersOf(rows) == [i \in DOMAIN rows |-> rows[i].order]

\* Whatever is sent in chunks and whatever is still in a chunk, together it is one row
\* for each call on an order, in the order of the calls; and one transaction for each
\* execution, each with the quantity of its own execution.
RowsAreComplete ==
    LET quantities == [i \in DOMAIN handler.kdb.transactions |->
                          handler.kdb.transactions[i].CurrentExecutedQuantity]
    IN  /\ IdsAndLeaves(OrdersOf(handler.kdb.orders) \o handler.orders_chunk)
              = IdsAndLeaves(OrdersOf(log))
        /\ IdsAndLeaves(OrdersOf(handler.kdb.transactions) \o handler.transactions_chunk)
              = IdsAndLeaves(OrdersOf(executions))
        /\ quantities \o handler.executedQuantity
              = [i \in DOMAIN executions |-> executions[i].quantity]

\* What an account has bought or sold of a symbol.
Traded(key, side) ==
    Lots([i \in DOMAIN executions |->
             LET order == executions[i].order
             IN  IF <<order.SymbolId, order.AccountId>> = key /\ order.Side = side
                 THEN executions[i].quantity ELSE 0])

\* What it holds long or short.
Held(key, side) ==
    LET position == At(handler.usersStats, key)
    IN  IF position.Side = side THEN position.Quantity ELSE 0

\* The position of an account, through its sign changes and whether or not the account is
\* a user, is what its executions add up to, and the positions of all accounts cancel
\* out: as much is held long as short.
PositionsAreNet ==
    LET keys == Symbols \X Accounts
    IN  /\ DOMAIN handler.usersStats \subseteq keys
        /\ \A key \in keys :
              Held(key, "LONG") - Held(key, "SHORT") = Traded(key, "BUY") - Traded(key, "SELL")
        /\ Lots([key \in keys |-> Held(key, "LONG")]) = Lots([key \in keys |-> Held(key, "SHORT")])

LastRow(id) ==
    handler.kdb.positions[SelectLastInSeq(handler.kdb.positions,
                                          LAMBDA position : position.Id = id)]

\* After flush_db nothing is left in a chunk, and the table of positions has the position
\* of every account whose Id is not also that of another one.
AllIsWritten ==
    flushed =>
       /\ handler.orders_chunk = << >>
       /\ handler.transactions_chunk = << >>
       /\ \A key \in DOMAIN handler.usersStats :
             LET position == handler.usersStats[key]
             IN  (\A other \in DOMAIN handler.usersStats \ {key} :
                     handler.usersStats[other].Id # position.Id)
                    => LastRow(position.Id) = position

\* "CurrentExecutedPrice" of the table of transactions: the price of the execution that
\* the row is about.
PricesAreTheirs ==
    \A i \in DOMAIN handler.kdb.transactions :
       handler.kdb.transactions[i].CurrentExecutedPrice = executions[i].price
=============================================================================

-------------------------- MODULE MyMarketHandler --------------------------
(***************************************************************************)
(* The market handler of the matching engine.  It turns the calls of the    *)
(* market manager into rows and positions, gathers them in chunks and sends *)
(* these to the tables of a kdb+ server.  Nothing looks at the result of    *)
(* what is sent, so a table is what was sent to it, in that order.  The     *)
(* operators take the state of the handler, h, and return the next one.     *)
(*                                                                          *)
(* Of an order a row has what tells rows apart; times and the floating      *)
(* point members of prices and positions are left out.                      *)
(***************************************************************************)
EXTENDS Integers, SequencesExt

CONSTANTS
    CHUNK_SIZE,
    CHUNK_SIZE_POSITIONS,
    CLOCK_INTERVAL

NoPosition ==
    [Id |-> 0, SymbolId |-> 0, AccountId |-> 0, Side |-> "LONG", Quantity |-> 0, MarkPrice |-> 0]

Tables == [symbols |-> << >>, prices |-> << >>, orders |-> << >>, transactions |-> << >>,
           positions |-> << >>]

\* The constructor leaves the counters as they are found.
NewHandler(garbage) ==
    [count_time               |-> garbage,
     count_orders_chunk       |-> garbage,
     count_transactions_chunk |-> garbage,
     count_positions_chunk    |-> garbage,
     symbols                  |-> {},
     users                    |-> {},
     usersStats               |-> [key \in {} |-> NoPosition],
     positions_chunk          |-> [key \in {} |-> NoPosition],
     orders_chunk             |-> << >>,
     transactions_chunk       |-> << >>,
     executedPrice            |-> << >>,
     executedQuantity         |-> << >>,
     kdb                      |-> Tables]

\* A map with one key more; operator[] of a map inserts what is missing.
Put(map, key, value) ==
    [k \in DOMAIN map \cup {key} |-> IF k = key THEN value ELSE map[k]]

At(map, key) == IF key \in DOMAIN map THEN map[key] ELSE NoPosition

-----------------------------------------------------------------------------
(* Rows. *)

Copy(order, status) ==
    [Id |-> order.Id, AccountId |-> order.AccountId, LeavesQuantity |-> order.LeavesQuantity,
     Status |-> status]

\* The rows of a chunk.  Prices and quantities may be more than the orders; the i-th
\* order gets the i-th of each.
order_prep(orders, currentExecutedPrice, currentExecutedQuantity) ==
    [i \in DOMAIN orders |->
        [order |-> orders[i], CurrentExecutedPrice |-> currentExecutedPrice[i],
         CurrentExecutedQuantity |-> currentExecutedQuantity[i]]]

insertMultRow(h, table, rows) == [h EXCEPT !.kdb[table] = @ \o rows]

updatePosition(h, position) == insertMultRow(h, "positions", <<position>>)

\* The positions of a map, in the order of its buckets.
PositionsOf(map) == SetToSeq({map[key] : key \in DOMAIN map})

Zeros(orders) == [i \in DOMAIN orders |-> 0]

-----------------------------------------------------------------------------
(* Chunks. *)

SendOrders(h) ==
    [insertMultRow(h, "orders",
                   order_prep(h.orders_chunk, Zeros(h.orders_chunk), Zeros(h.orders_chunk)))
        EXCEPT !.orders_chunk = << >>, !.count_orders_chunk = 0]

\* Mutant of SendTransactions: the quantities are kept like the prices.
SendTransactionsKeepAll(h) ==
    [insertMultRow(h, "transactions",
                   order_prep(h.transactions_chunk, h.executedPrice, h.executedQuantity))
        EXCEPT !.transactions_chunk = << >>, !.count_transactions_chunk = 0]

\* The quantities are cleared twice and the prices never.
SendTransactions(h) ==
    [insertMultRow(h, "transactions",
                   order_prep(h.transactions_chunk, h.executedPrice, h.executedQuantity))
        EXCEPT !.transactions_chunk = << >>, !.executedQuantity = << >>,
               !.count_transactions_chunk = 0]

appendOrdersChunk(h, order) ==
    LET appended == [h EXCEPT !.orders_chunk = Append(@, order), !.count_orders_chunk = @ + 1]
    IN  IF appended.count_orders_chunk < CHUNK_SIZE THEN appended ELSE SendOrders(appended)

appendTransactionsChunk(h, order, price, quantity) ==
    LET appended == [h EXCEPT !.transactions_chunk = Append(@, order),
                              !.executedPrice = Append(@, price),
                              !.executedQuantity = Append(@, quantity),
                              !.count_transactions_chunk = @ + 1]
    IN  IF appended.count_transactions_chunk < CHUNK_SIZE
        THEN appended ELSE SendTransactions(appended)

appendUserStatsChunk(h, key) ==
    LET appended == [h EXCEPT !.positions_chunk = Put(@, key, h.usersStats[key]),
                              !.count_positions_chunk = @ + 1]
    IN  IF appended.count_positions_chunk < CHUNK_SIZE_POSITIONS
        THEN appended
        ELSE [insertMultRow(appended, "positions", PositionsOf(appended.positions_chunk))
                 EXCEPT !.positions_chunk = [k \in {} |-> NoPosition],
                        !.count_positions_chunk = 0]

\* Mutant of flush_db: what is not yet in a chunk of positions is forgotten.
flush_chunks(h) ==
    LET positions == insertMultRow(h, "positions", PositionsOf(h.positions_chunk))
        orders == IF positions.orders_chunk = << >> THEN positions ELSE SendOrders(positions)
    IN  IF orders.transactions_chunk = << >> THEN orders ELSE SendTransactions(orders)

flush_db(h) ==
    LET positions == insertMultRow(h, "positions", PositionsOf(h.usersStats))
        orders == IF positions.orders_chunk = << >> THEN positions ELSE SendOrders(positions)
    IN  IF orders.transactions_chunk = << >> THEN orders ELSE SendTransactions(orders)

-----------------------------------------------------------------------------
(* Users and symbols. *)

\* The number of positions sent under different ids.  All counters start again, whatever
\* the chunks hold.
last_index(h) ==
    [handler |-> [h EXCEPT !.count_time = 0, !.count_orders_chunk = 0,
                           !.count_transactions_chunk = 0, !.count_positions_chunk = 0],
     count   |-> Cardinality({position.Id : position \in ToSet(h.kdb.positions)})]

addPosition(h, accountId, symbol) ==
    LET last     == last_index(h)
        position == [NoPosition EXCEPT !.Id = last.count, !.AccountId = accountId,
                                       !.SymbolId = symbol]
    IN  updatePosition([last.handler EXCEPT
                           !.usersStats = Put(@, <<symbol, accountId>>, position)], position)

\* A user gets a position for each symbol there is by then.
addUser(h, accountId) ==
    FoldSet(LAMBDA symbol, next : addPosition(next, accountId, symbol),
            [h EXCEPT !.users = @ \cup {accountId}], h.symbols)

onAddSymbol(h, symbol) ==
    [insertMultRow(h, "symbols", <<symbol>>) EXCEPT !.symbols = @ \cup {symbol}]

onDeleteSymbol(h, symbol) == [h EXCEPT !.symbols = @ \ {symbol}]

-----------------------------------------------------------------------------
(* Orders. *)

\* The copy with the new status is dropped and the order itself is recorded.
onAddOrder(h, order) == appendOrdersChunk(h, Copy(order, order.Status))

onUpdateOrder(h, order) == appendOrdersChunk(h, Copy(order, "REPLACED"))

\* The status is the one the manager has, which no handler changes.
onDeleteOrder(h, order) ==
    IF order.Status \in {"PENDING", "PARTIALLY_FILLED"}
    THEN appendOrdersChunk(h, Copy(order, "CANCELLED"))
    ELSE h

Signed(side, plus, quantity) == IF side = plus THEN quantity ELSE -quantity

Distance(n) == IF n < 0 THEN -n ELSE n

\* Mutant of OrderExecuted: a sale from a short position reduces it.
OrderExecutedAbs(position, order, price, quantity) ==
    LET all == Signed(order.Side, "BUY", quantity) + position.Quantity
    IN  [position EXCEPT !.SymbolId = order.SymbolId, !.AccountId = order.AccountId,
                         !.Quantity = Distance(all),
                         !.Side = IF all >= 0 THEN "LONG" ELSE "SHORT"]

\* Position::OrderExecuted: a position is a side and a quantity, and LONG if it is flat.
OrderExecuted(position, order, price, quantity) ==
    LET all == Signed(order.Side, "BUY", quantity)
                  + Signed(position.Side, "LONG", position.Quantity)
    IN  IF quantity = 0 \/ price = 0
        THEN position
        ELSE [position EXCEPT !.SymbolId = order.SymbolId, !.AccountId = order.AccountId,
                              !.Quantity = Distance(all),
                              !.Side = IF all >= 0 THEN "LONG" ELSE "SHORT"]

\* The manager calls before it takes the quantity from the order.  symbols[...] brings
\* back a symbol that was deleted.
onExecuteOrder(h, order, price, quantity) ==
    LET copy     == Copy(order, IF order.LeavesQuantity > 0 THEN "PARTIALLY_FILLED"
                                ELSE "FILLED")
        recorded == appendTransactionsChunk(appendOrdersChunk(h, copy), copy, price, quantity)
        key      == <<order.SymbolId, order.AccountId>>
        position == OrderExecuted(At(h.usersStats, key), order, price, quantity)
    IN  appendUserStatsChunk([recorded EXCEPT !.usersStats = Put(@, key, position),
                                              !.symbols = @ \cup {order.SymbolId}], key)

-----------------------------------------------------------------------------
(* Prices.  A book is its symbol and its best prices, 0 if a side is empty. *)

calc_mark_price(book) ==
    IF book.best_bid > 0 /\ book.best_ask > 0
    THEN (book.best_ask + book.best_bid + 1) \div 2
    ELSE 0

\* A position that had a mark price has a funding time, and funding looks up symbols[...].
updatePositions_db(h, key, markPrice) ==
    LET last     == At(h.usersStats, key)
        position == [last EXCEPT !.MarkPrice = markPrice]
    IN  updatePosition([h EXCEPT !.usersStats = Put(@, key, position),
                                 !.symbols = IF last.MarkPrice = 0 THEN @ ELSE @ \cup {key[1]}],
                       position)

mark_price_db(h, book) ==
    LET counted   == [h EXCEPT !.count_time = @ + 1]
        restarted == [h EXCEPT !.count_time = 0]
        mark      == calc_mark_price(book)
    IN  IF counted.count_time < CLOCK_INTERVAL THEN counted
        ELSE IF mark = 0 THEN restarted
        ELSE FoldSet(LAMBDA user, next :
                        updatePositions_db(next, <<book.symbol, user>>, mark),
                     insertMultRow(restarted, "prices", <<[book |-> book, MarkPrice |-> mark]>>),
                     restarted.users)

\* A change of a level is told twice, first with its level.  The first counts if the top
\* of the book is said to have changed.
onUpdateLevelAndOrderBook(h, book, top) ==
    mark_price_db(IF top THEN mark_price_db(h, book) ELSE h, book)
=============================================================================

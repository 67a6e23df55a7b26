-------------------------- MODULE OptimizedManager --------------------------
(***************************************************************************)
(* The manager of the optimized benchmark.  An order also knows its side    *)
(* and its price, a level counts its orders, and a handler counts the       *)
(* calls it gets, of which those on symbols, books and orders are kept here.*)
(* AddOrder fills in every member of an order but its price.  Quantities    *)
(* that are too large are cut down to what is left.                         *)
(***************************************************************************)
EXTENDS LevelPool

CONSTANTS Ids, Books      \* order reference numbers, stock locate codes

NewMarketHandler ==
    [symbols |-> 0, order_books |-> 0, orders |-> 0, max_orders |-> 0,
     add_orders |-> 0, delete_orders |-> 0]

NewManager ==
    [orders  |-> [id \in Ids |->
                    [Symbol |-> 0, Side |-> "BUY", Price |-> 0, Quantity |-> 0, Level |-> 0]],
     books   |-> [b \in Books |-> EmptyBook],
     pool    |-> EmptyPool,
     handler |-> NewMarketHandler]

Lesser(a, b) == IF a < b THEN a ELSE b

-----------------------------------------------------------------------------
(* class MarketHandler *)

onAddOrder(m) ==
    [m EXCEPT !.handler.orders = @ + 1,
              !.handler.max_orders = IF @ > m.handler.orders THEN @ ELSE m.handler.orders + 1,
              !.handler.add_orders = @ + 1]

onDeleteOrder(m) == [m EXCEPT !.handler.orders = @ - 1, !.handler.delete_orders = @ + 1]

-----------------------------------------------------------------------------
(* class OrderBook *)

LevelOf(m, id) == m.pool.allocated[m.orders[id].Level]

SideOf(order) == IF order.Side = "BUY" THEN "bids" ELSE "asks"

LevelsOf(m, id) == m.books[m.orders[id].Symbol][SideOf(m.orders[id])]

\* The place that the scan from the best price for the price of an order ends at: the last
\* entry with that price or a worse one, 0 if there is none.
ScanFor(m, id) ==
    LET order == m.orders[id]
    IN  SelectLastInSeq(LevelsOf(m, id),
                        LAMBDA entry : IF order.Side = "BUY" THEN entry.Price <= order.Price
                                       ELSE entry.Price >= order.Price)

\* The place of the entry with the price of an order, 0 if the scan does not find it.
PlaceOf(m, id) ==
    LET i == ScanFor(m, id)
    IN  IF i > 0 /\ LevelsOf(m, id)[i].Price = m.orders[id].Price THEN i ELSE 0

\* The manager with a level for the price of an order, and its slot.
FindLevel(m, id) ==
    LET order == m.orders[id]
        slot  == NextSlot(m.pool)
    IN  IF PlaceOf(m, id) > 0
        THEN [manager |-> m, slot |-> LevelsOf(m, id)[PlaceOf(m, id)].Level]
        ELSE [manager |->
                 [m EXCEPT !.pool = Allocate(@, [Type   |-> IF order.Side = "BUY" THEN "BID"
                                                            ELSE "ASK",
                                                 Price  |-> order.Price,
                                                 Volume |-> 0,
                                                 Orders |-> 0]),
                           !.books[order.Symbol][SideOf(order)] =
                              InsertAt(@, ScanFor(m, id) + 1,
                                       [Price |-> order.Price, Level |-> slot])],
              slot |-> slot]

\* Frees the slot also when the scan does not find the price of the order.
DeleteLevel(m, id) ==
    LET order == m.orders[id]
    IN  [m EXCEPT !.books[order.Symbol][SideOf(order)] =
                     IF PlaceOf(m, id) = 0 THEN @ ELSE RemoveAt(@, PlaceOf(m, id)),
                  !.pool = Free(@, order.Level)]

\* A level with more volume and orders, or less.
Changed(level, volume, orders) == [level EXCEPT !.Volume = @ + volume, !.Orders = @ + orders]

BookAddOrder(m, id) ==
    LET found == FindLevel(m, id)
    IN  [found.manager EXCEPT !.pool.allocated[found.slot] =
                                 Changed(@, m.orders[id].Quantity, 1),
                              !.orders[id].Level = found.slot]

DeleteIfEmpty(m, id) == IF LevelOf(m, id).Volume = 0 THEN DeleteLevel(m, id) ELSE m

\* Mutant of BookReduceOrder: an order that has been filled is still counted.
BookReduceVolume(m, id, quantity) ==
    DeleteIfEmpty([m EXCEPT !.pool.allocated[m.orders[id].Level].Volume = @ - quantity], id)

\* An order that has been filled is no longer counted.
BookReduceOrder(m, id, quantity) ==
    LET slot == m.orders[id].Level
        ended == IF m.orders[id].Quantity = 0 THEN 1 ELSE 0
    IN  DeleteIfEmpty([m EXCEPT !.pool.allocated[slot] =
                                   Changed(@, -quantity, -ended)], id)

BookDeleteOrder(m, id) ==
    LET slot == m.orders[id].Level
    IN  DeleteIfEmpty([m EXCEPT !.pool.allocated[slot] =
                                   Changed(@, -m.orders[id].Quantity, -1)], id)

-----------------------------------------------------------------------------
(* class MarketManagerOptimized *)

AddSymbol(m, b) == [m EXCEPT !.handler.symbols = @ + 1]

AddOrderBook(m, b) == [m EXCEPT !.books[b] = EmptyBook, !.handler.order_books = @ + 1]

AddOrder(m, id, b, side, price, quantity) ==
    BookAddOrder(onAddOrder([m EXCEPT !.orders[id] = [@ EXCEPT !.Symbol = b, !.Side = side,
                                                               !.Quantity = quantity]]), id)

\* What is taken from an order is taken from it before the book deletes the order, and
\* then the book has nothing left to take from the volume of the level.
ReduceOrder(m, id, quantity) ==
    LET taken   == Lesser(quantity, m.orders[id].Quantity)
        reduced == [m EXCEPT !.orders[id].Quantity = @ - taken]
    IN  IF reduced.orders[id].Quantity > 0
        THEN BookReduceOrder(reduced, id, taken)
        ELSE BookDeleteOrder(onDeleteOrder(reduced), id)

ExecuteOrder(m, id, quantity) ==
    LET taken   == Lesser(quantity, m.orders[id].Quantity)
        reduced == BookReduceOrder([m EXCEPT !.orders[id].Quantity = @ - taken], id, taken)
    IN  IF reduced.orders[id].Quantity > 0 THEN reduced ELSE onDeleteOrder(reduced)

ModifyOrder(m, id, price, quantity) ==
    LET modified == [BookDeleteOrder(m, id) EXCEPT
                        !.orders[id] = [@ EXCEPT !.Price = price, !.Quantity = quantity]]
    IN  IF quantity > 0 THEN BookAddOrder(modified, id) ELSE onDeleteOrder(modified)

ReplaceOrderInto(m, id, newId, b, side, price, quantity) ==
    LET deleted == onDeleteOrder(BookDeleteOrder(m, id))
        new     == [m.orders[newId] EXCEPT !.Symbol = b, !.Side = side, !.Price = price,
                                           !.Quantity = quantity]
    IN  IF quantity > 0
        THEN BookAddOrder(onAddOrder([deleted EXCEPT !.orders[newId] = new]), newId)
        ELSE deleted

ReplaceOrder(m, id, newId, price, quantity) ==
    ReplaceOrderInto(m, id, newId, m.orders[id].Symbol, m.orders[id].Side, price, quantity)

DeleteOrder(m, id) == onDeleteOrder(BookDeleteOrder(m, id))

=============================================================================

------------------------- MODULE AggressiveManager -------------------------
(***************************************************************************)
(* The manager of the aggressively optimized benchmark.  It keeps the depth *)
(* of the books and no orders in them: an order is its book, its quantity   *)
(* and the slot of its level.  The price of a sell order is negative, so    *)
(* that a better price is a greater one on both sides.  The operators take  *)
(* the state of the manager, m, and return the next one; no call tests that *)
(* the order it names exists.                                               *)
(***************************************************************************)
EXTENDS LevelPool

CONSTANTS Ids, Books      \* order reference numbers, stock locate codes

NewManager ==
    [orders |-> [id \in Ids |-> [Symbol |-> 0, Quantity |-> 0, Level |-> 0]],
     books  |-> [b \in Books |-> EmptyBook],
     pool   |-> EmptyPool]

SideOf(price) == IF price > 0 THEN "bids" ELSE "asks"

-----------------------------------------------------------------------------
(* class OrderBook *)

LevelOf(m, id) == m.pool.allocated[m.orders[id].Level]

\* The place that the scan from the best price for one price ends at: the last entry
\* whose price is that price or worse, 0 if there is none.
Scan(levels, price) == SelectLastInSeq(levels, LAMBDA entry : entry.Price <= price)

\* The place of a price, 0 if the scan does not find it.
Find(levels, price) ==
    LET i == Scan(levels, price) IN IF i > 0 /\ levels[i].Price = price THEN i ELSE 0

\* The manager with a level for a price, and its slot.
FindLevel(m, b, price) ==
    LET side   == SideOf(price)
        levels == m.books[b][side]
        slot   == NextSlot(m.pool)
    IN  IF Find(levels, price) > 0
        THEN [manager |-> m, slot |-> levels[Find(levels, price)].Level]
        ELSE [manager |->
                 [m EXCEPT !.pool = Allocate(@, [Price |-> price, Volume |-> 0]),
                           !.books[b][side] =
                              InsertAt(@, Scan(levels, price) + 1,
                                       [Price |-> price, Level |-> slot])],
              slot |-> slot]

\* Mutant of DeleteLevel: the slot is not freed.
DeleteLevelKeepSlot(m, id) ==
    LET side == SideOf(LevelOf(m, id).Price)
    IN  [m EXCEPT !.books[m.orders[id].Symbol][side] =
                     SelectSeq(@, LAMBDA entry : entry.Price # LevelOf(m, id).Price)]

\* The place of a price wherever it is, 0 if there is none.
PlaceOf(levels, price) == SelectLastInSeq(levels, LAMBDA entry : entry.Price = price)

\* Erases the entry with the price of the order's level, wherever it is, and frees
\* the slot, whether or not there is an entry.
DeleteLevel(m, id) ==
    LET b    == m.orders[id].Symbol
        side == SideOf(LevelOf(m, id).Price)
        i    == PlaceOf(m.books[b][side], LevelOf(m, id).Price)
    IN  [m EXCEPT !.books[b][side] = IF i = 0 THEN @ ELSE RemoveAt(@, i),
                  !.pool = Free(@, m.orders[id].Level)]

BookAddOrder(m, id, price) ==
    LET found == FindLevel(m, m.orders[id].Symbol, price)
    IN  [found.manager EXCEPT !.pool.allocated[found.slot].Volume = @ + m.orders[id].Quantity,
                              !.orders[id].Level = found.slot]

BookReduceOrder(m, id, quantity) ==
    LET reduced == [m EXCEPT !.pool.allocated[m.orders[id].Level].Volume = @ - quantity]
    IN  IF LevelOf(reduced, id).Volume = 0 THEN DeleteLevel(reduced, id) ELSE reduced

BookDeleteOrder(m, id) == BookReduceOrder(m, id, m.orders[id].Quantity)

-----------------------------------------------------------------------------
(* class MarketManagerOptimized *)

\* A book that was there is dropped with its vectors; its slots are not freed.
AddOrderBook(m, b) == [m EXCEPT !.books[b] = EmptyBook]

AddOrder(m, id, b, price, quantity) ==
    BookAddOrder([m EXCEPT !.orders[id] = [@ EXCEPT !.Symbol = b, !.Quantity = quantity]],
                 id, price)

ReduceOrder(m, id, quantity) ==
    BookReduceOrder([m EXCEPT !.orders[id].Quantity = @ - quantity], id, quantity)

ExecuteOrder(m, id, quantity) == ReduceOrder(m, id, quantity)

\* Mutant of SignedPrice: the sign forgotten.
PriceUnsigned(m, id, price) == price

\* A new price has the sign of the side, which only the level tells.
SignedPrice(m, id, price) == IF LevelOf(m, id).Price < 0 THEN -price ELSE price

ModifyOrder(m, id, price, quantity) ==
    LET deleted == [BookDeleteOrder(m, id) EXCEPT !.orders[id].Quantity = quantity]
    IN  IF quantity > 0 THEN BookAddOrder(deleted, id, SignedPrice(m, id, price)) ELSE deleted

ReplaceOrderInto(m, id, newId, b, price, quantity) ==
    LET deleted == BookDeleteOrder(m, id)
    IN  IF quantity > 0
        THEN AddOrder(deleted, newId, b, SignedPrice(m, id, price), quantity)
        ELSE deleted

ReplaceOrder(m, id, newId, price, quantity) ==
    ReplaceOrderInto(m, id, newId, m.orders[id].Symbol, price, quantity)

DeleteOrder(m, id) == BookDeleteOrder(m, id)

=============================================================================

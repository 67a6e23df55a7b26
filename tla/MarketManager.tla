---------------------------- MODULE MarketManager ----------------------------
(***************************************************************************)
(* The market manager as an order-book processor: automatic matching        *)
(* disabled, which is how it is constructed (market_manager.inl) and how    *)
(* the feed-replay programs use it.  Every public operation on orders of    *)
(* source/trader/matching/market_manager.cpp is one atomic action; calls    *)
(* come from one thread.  One order book, of one symbol, always present.    *)
(*                                                                         *)
(* With matching disabled no handler calls Match, and every handler that    *)
(* touches the matching prices resets them before it returns, so they are   *)
(* not part of this state; MatchingEngine has them.                         *)
(***************************************************************************)
EXTENDS BookQueues

CONSTANTS
    NewOrders,     \* the orders the caller may enter, but for their id
    Prices,        \* prices of modify, replace and execute calls
    Quantities,    \* quantities of calls, 0 (invalid) included
    Mitigations,   \* the caller uses ModifyOrder (FALSE), MitigateOrder (TRUE), or both
    MaxExecuted    \* bound of the model: no order executes more in its life

ASSUME CallAssumption ==
    /\ NewOrders \subseteq Template
    /\ Prices \subseteq UInt64
    /\ Quantities \subseteq UInt64
    /\ MaxExecuted \in Nat
    /\ Mitigations \subseteq BOOLEAN
    /\ \A q \in Quantities : q <= MaxQuantity
    /\ \A t \in NewOrders : t.Quantity <= MaxQuantity

VARIABLES
    last,     \* _last_bid_price, _last_ask_price
    result,   \* the ErrorCode that the last call returned
    feed      \* what a market handler knows: the levels it was told of, and the
              \* best prices it read at its last top-of-the-book notification

vars == <<book, last, result, feed>>

ErrorCode == {"OK", "ORDER_DUPLICATE", "ORDER_NOT_FOUND", "ORDER_ID_INVALID",
              "ORDER_TYPE_INVALID", "ORDER_PARAMETER_INVALID", "ORDER_QUANTITY_INVALID"}

-----------------------------------------------------------------------------
(* The market handler *)

QuotedBest(b) == [c \in {"bids", "asks"} |-> b.best[c]]

\* UpdateLevel: onAddLevel, onUpdateLevel or onDeleteLevel, then onUpdateOrderBook.
\* The handler keeps the levels it is sent and, on Top, reads the best prices.
UpdateLevel(f, b, update) ==
    [levels |-> IF update.Type = "DELETE" THEN Drop(f.levels, update.Key)
                ELSE Put(f.levels, update.Key, update.Update),
     best   |-> IF update.Top THEN QuotedBest(b) ELSE f.best]

\* The feed after the book went from b to b2 at level k: only bid and ask levels
\* are reported.
Report(f, b, b2, k) ==
    IF IsQuoted(k) THEN UpdateLevel(f, b2, LevelUpdate(b, b2, k)) ELSE f

Return(code, b, f) == result' = code /\ book' = b /\ feed' = f

Reject(code) == Return(code, book, feed) /\ UNCHANGED last

-----------------------------------------------------------------------------
(* Adding orders *)

\* Mutant: the duplicate replaces the order that rests.
PlaceAnyway(b, f, o) ==
    IF o.Id \in DOMAIN b.orders
    THEN Return("ORDER_DUPLICATE", AddOrder(DeleteOrder(b, o.Id), o), f)
    ELSE LET b2 == AddOrder(b, o) IN Return("OK", b2, Report(f, b, b2, KeyOf(o)))

\* Insert the order into _orders and link it, or fail on a duplicate id.
Place(b, f, o) ==
    IF o.Id \in DOMAIN b.orders
    THEN Return("ORDER_DUPLICATE", b, f)
    ELSE LET b2 == AddOrder(b, o) IN Return("OK", b2, Report(f, b, b2, KeyOf(o)))

\* AddOrder, AddMarketOrder, AddLimitOrder, AddStopOrder, AddStopLimitOrder on a
\* book b: market, IOC and FOK orders that find no matching are reported as
\* deleted at once and leave no trace.
Enter(b, f, o) ==
    /\ UNCHANGED last
    /\ IF Validate(o) # "OK" THEN Return(Validate(o), b, f)
       ELSE IF ~Resting(o) THEN Return("OK", b, f)
       ELSE Place(b, f, WithTrailingStop(b, last, o))

AddNewOrder(t, id) == Enter(book, feed, MakeOrder(t, id))

-----------------------------------------------------------------------------
(* Operations on an order by id *)

\* The checks that precede every operation on an existing order.
Check(id, quantity) ==
    IF id = 0 THEN "ORDER_ID_INVALID"
    ELSE IF quantity = 0 THEN "ORDER_QUANTITY_INVALID"
    ELSE IF id \notin DOMAIN book.orders THEN "ORDER_NOT_FOUND"
    ELSE "OK"

\* Store the order after its leaves quantity was reduced.
Shrink(o) ==
    LET b2 == ReduceOrder(book, o) IN Return("OK", b2, Report(feed, book, b2, o.Level))

\* Delete the order from its level and from _orders.
Erase(id, code) ==
    LET b1 == DeleteOrder(book, id)
    IN Return(code, b1, Report(feed, book, b1, book.orders[id].Level))

\* Delete the order from its level, then link the order that takes its place.
Relink(id, o) ==
    LET k == book.orders[id].Level
        b1 == DeleteOrder(book, id)
        f1 == Report(feed, book, b1, k)
        b2 == AddOrder(b1, o)
    IN Return("OK", b2, Report(f1, b1, b2, KeyOf(o)))

ReduceOrderBy(id, quantity) ==
    IF Check(id, quantity) # "OK" THEN Reject(Check(id, quantity))
    ELSE /\ Shrink(Reduced(book.orders[id], quantity))
         /\ UNCHANGED last

\* ModifyOrder (mitigate is FALSE) and MitigateOrder (TRUE).
ModifyOrder(id, price, quantity, mitigate) ==
    IF Check(id, quantity) # "OK" THEN Reject(Check(id, quantity))
    ELSE LET new == Modified(book.orders[id], price, quantity, mitigate)
         IN /\ IF new.LeavesQuantity > 0 THEN Relink(id, new) ELSE Erase(id, "OK")
            /\ UNCHANGED last

\* ReplaceOrder(id, new_id, ...): the old order is deleted before the new id is
\* checked, so a duplicate loses it.
ReplaceOrder(id, newId, price, quantity) ==
    IF newId = 0 THEN Reject("ORDER_ID_INVALID")
    ELSE IF Check(id, quantity) # "OK" THEN Reject(Check(id, quantity))
    ELSE IF ~IsLimit(book.orders[id]) THEN Reject("ORDER_TYPE_INVALID")
    ELSE /\ IF newId \in DOMAIN book.orders \ {id}
            THEN Erase(id, "ORDER_DUPLICATE")
            ELSE Relink(id, Replaced(book.orders[id], newId, price, quantity))
         /\ UNCHANGED last

CancelOrder(id) ==
    IF Check(id, 1) # "OK" THEN Reject(Check(id, 1))
    ELSE Erase(id, "OK") /\ UNCHANGED last

\* ReplaceOrder(id, new_order): DeleteOrder, then AddOrder whatever comes of it.
ReplaceOrderWith(id, t, newId) ==
    IF Check(id, 1) # "OK" THEN Reject(Check(id, 1))
    ELSE LET b1 == DeleteOrder(book, id)
         IN Enter(b1, Report(feed, book, b1, book.orders[id].Level), MakeOrder(t, newId))

\* Both ExecuteOrder operations; the first executes at the price of the order.
ExecuteOrderAt(id, price, quantity) ==
    IF Check(id, quantity) # "OK" THEN Reject(Check(id, quantity))
    ELSE LET o == book.orders[id]
             done == Lesser(quantity, o.LeavesQuantity)
         IN /\ o.ExecutedQuantity + done <= MaxExecuted
            /\ last' = [last EXCEPT ![IF IsBuy(o) THEN "bid" ELSE "ask"] = price]
            /\ Shrink(Executed(o, done))

ExecuteOrder(id, quantity) ==
    ExecuteOrderAt(id, IF id \in DOMAIN book.orders THEN book.orders[id].Price ELSE 0, quantity)

-----------------------------------------------------------------------------
(* Initial state and steps *)

Init == /\ book = EmptyBook
        /\ last = [bid |-> 0, ask |-> OrderIntMax]
        /\ result = "OK"
        /\ feed = [levels |-> [k \in {} |-> Snapshot(EmptyLevel)],
                   best   |-> QuotedBest(EmptyBook)]

Next == \E id \in Ids :
    \/ \E t \in NewOrders : AddNewOrder(t, id)
    \/ \E q \in Quantities : ReduceOrderBy(id, q)
    \/ \E p \in Prices, q \in Quantities, m \in Mitigations : ModifyOrder(id, p, q, m)
    \/ \E newId \in Ids, p \in Prices, q \in Quantities : ReplaceOrder(id, newId, p, q)
    \/ \E t \in NewOrders, newId \in Ids : ReplaceOrderWith(id, t, newId)
    \/ CancelOrder(id)
    \/ \E q \in Quantities : ExecuteOrder(id, q)
    \/ \E p \in Prices, q \in Quantities : ExecuteOrderAt(id, p, q)

Spec == Init /\ [][Next]_vars

-----------------------------------------------------------------------------
(* Properties *)

LevelSnapshot == [TotalVolume : UInt64, HiddenVolume : UInt64,
                  VisibleVolume : UInt64, Orders : Nat]

\* The values the variables range over: no order without a quantity rests, and
\* none larger than the caller ever asked for.
TypeOK ==
    /\ IsBook(book, Ids \ {0}, MaxQuantity)
    /\ last \in [bid : UInt64, ask : UInt64]
    /\ result \in ErrorCode
    /\ feed = [levels |-> feed.levels, best |-> feed.best]
    /\ IsMap(feed.levels, LevelKey, LevelSnapshot)
    /\ feed.best \in [{"bids", "asks"} -> UInt64 \cup {NoPrice}]

\* The index of orders and the lists of the levels agree whatever sequence of
\* calls led here: every order that _orders finds by its id hangs in exactly one
\* list, the one its cached Level points to, and no list holds a released order.
LinksAgree == OrdersAreLinked(book) /\ ListsAreSound(book)

\* The volumes each handler adjusts by differences (total, hidden, visible) stay
\* the sums over the linked orders, iceberg and hidden orders included, so a
\* level disappears exactly when its last order does.
VolumesAgree == VolumesAreSums(book)

\* The best bid, ask and stop levels cached by AddLevel and DeleteLevel are the
\* best of their collections.
BestAgrees == BestIsBest(book)

\* The market data is complete: a handler that applies every onAddLevel,
\* onUpdateLevel and onDeleteLevel has the bid and ask levels of the book.
FeedIsComplete ==
    feed.levels = [k \in {l \in DOMAIN book.levels : IsQuoted(l)} |->
                      Snapshot(book.levels[k])]

\* A handler that reads the best prices whenever the top-of-the-book flag is set
\* never misses an improvement: what it has is at least as good as the market.
\* (It may miss the loss of the best level: the flag is not set when that goes.)
NoMissedImprovement ==
    \A c \in {"bids", "asks"} :
        book.best[c] # NoPrice =>
            /\ feed.best[c] # NoPrice
            /\ ~Better(c, book.best[c], feed.best[c])

\* In-flight mitigation: when every modification of a client goes through
\* MitigateOrder, no order is ever open for more than was asked for, however
\* executions, reductions and modifications interleave.
NotOverfilled ==
    \A id \in DOMAIN book.orders :
        LET o == book.orders[id] IN o.ExecutedQuantity + o.LeavesQuantity <= o.Quantity

\* A trailing stop order that is moved by the market starts on the far side of it, at a
\* distance that may be absolute or a share of the price, and larger than the market has
\* room for: to buy at the trailing price or above, to sell at it or below.
TrailingStopsAreBehind ==
    [][\A id \in DOMAIN book'.orders :
          LET o == book'.orders[id]
              asked == {t.StopPrice : t \in {u \in NewOrders : IsTrailing(u)}}
          IN /\ IsTrailing(o) /\ o.StopPrice \notin asked
             /\ id \in DOMAIN book.orders => book.orders[id].StopPrice # o.StopPrice
             => IF IsBuy(o) THEN o.StopPrice >= MarketTrailingStopPriceAsk(book', last')
                ELSE o.StopPrice <= MarketTrailingStopPriceBid(book', last')]_vars

\* A failed call alters no order: of what rests after it, all was there before
\* and is as it was (the order that was to be replaced may be gone).
FailureAltersNoOrder ==
    [][result' # "OK" =>
          \A id \in DOMAIN book'.orders :
              id \in DOMAIN book.orders /\ book'.orders[id] = book.orders[id]]_vars
=============================================================================

------------------------------ MODULE OrderBook ------------------------------
(***************************************************************************)
(* The order book of one symbol: include/trader/matching/order_book.h,     *)
(* order_book.inl, level.h and source/trader/matching/order_book.cpp.      *)
(*                                                                         *)
(* A book is a value: the six collections of price levels, the best level  *)
(* of each and the orders linked into them.  The operations return the     *)
(* book after the call, so the manager composes them as the C++ does.      *)
(* A level is named by its key <<collection, price>>; the orders' cached   *)
(* Level pointers are such keys.  Collections are AVL trees in the code,    *)
(* functions here.                                                         *)
(***************************************************************************)
EXTENDS Orders, Sums, SequencesExt

CONSTANTS
    NoPrice    \* no best level: the null pointer in _best_bid, _best_ask, ...

ASSUME NullAssumption == NoPrice \notin Nat

BidCollections == {"bids", "sell_stop", "trailing_sell_stop"}
AskCollections == {"asks", "buy_stop", "trailing_buy_stop"}
Collections == BidCollections \cup AskCollections
LevelKey == Collections \X UInt64

\* A null Level pointer points to no level.
ASSUME LevelAssumption == NoLevel \notin LevelKey

\* The levels whose changes the market handler is told about.
IsQuoted(k) == k[1] \in {"bids", "asks"}

CollectionOf(o) ==
    CASE IsLimit(o) -> IF IsBuy(o) THEN "bids" ELSE "asks"
      [] o.Type \in StopTypes -> IF IsBuy(o) THEN "buy_stop" ELSE "sell_stop"
      [] IsTrailing(o) -> IF IsBuy(o) THEN "trailing_buy_stop" ELSE "trailing_sell_stop"

KeyOf(o) == <<CollectionOf(o), IF IsLimit(o) THEN o.Price ELSE o.StopPrice>>

\* LevelType::BID levels are best when highest, LevelType::ASK ones when lowest.
Better(c, p, q) == IF c \in BidCollections THEN p > q ELSE p < q

-----------------------------------------------------------------------------
(* Functions with a finite domain *)

Put(f, x, v) == [y \in DOMAIN f \cup {x} |-> IF y = x THEN v ELSE f[y]]
Drop(f, x) == [y \in DOMAIN f \ {x} |-> f[y]]

\* List::pop_current: unlink one entry, the others keep their order.
Unlink(queue, id) == RemoveAt(queue, CHOOSE i \in 1 .. Len(queue) : queue[i] = id)

-----------------------------------------------------------------------------
(* Levels *)

EmptyLevel == [TotalVolume |-> 0, HiddenVolume |-> 0, VisibleVolume |-> 0,
               Orders |-> 0, OrderList |-> << >>]

\* What the handlers see of a level: struct Level, without the list of orders.
Snapshot(level) == [TotalVolume |-> level.TotalVolume, HiddenVolume |-> level.HiddenVolume,
                    VisibleVolume |-> level.VisibleVolume, Orders |-> level.Orders]

\* Mutant: the order is linked at the front of the list.
LevelPlusInFront(level, o) ==
    [TotalVolume   |-> Wrap(level.TotalVolume + o.LeavesQuantity),
     HiddenVolume  |-> Wrap(level.HiddenVolume + HiddenQuantity(o)),
     VisibleVolume |-> Wrap(level.VisibleVolume + VisibleQuantity(o)),
     Orders        |-> level.Orders + 1,
     OrderList     |-> <<o.Id>> \o level.OrderList]

LevelPlus(level, o) ==
    [TotalVolume   |-> Wrap(level.TotalVolume + o.LeavesQuantity),
     HiddenVolume  |-> Wrap(level.HiddenVolume + HiddenQuantity(o)),
     VisibleVolume |-> Wrap(level.VisibleVolume + VisibleQuantity(o)),
     Orders        |-> level.Orders + 1,
     OrderList     |-> Append(level.OrderList, o.Id)]

\* Mutant: the visible volume shrinks with the total volume.
LevelMinusAllVisible(level, total, hidden, visible) ==
    [level EXCEPT !.TotalVolume = Wrap(@ - total),
                  !.HiddenVolume = Wrap(@ - hidden),
                  !.VisibleVolume = Wrap(@ - total)]

LevelMinus(level, total, hidden, visible) ==
    [level EXCEPT !.TotalVolume = Wrap(@ - total),
                  !.HiddenVolume = Wrap(@ - hidden),
                  !.VisibleVolume = Wrap(@ - visible)]

\* Mutant: the order stays in the list.
LevelWithoutUnlinking(level, id) == [level EXCEPT !.Orders = @ - 1]

LevelWithout(level, id) ==
    [level EXCEPT !.OrderList = Unlink(@, id), !.Orders = @ - 1]

EmptyBook == [orders |-> [id \in {} |-> 0],
              levels |-> [k \in {} |-> EmptyLevel],
              best   |-> [c \in Collections |-> NoPrice]]

PricesIn(b, c) == {k[2] : k \in {l \in DOMAIN b.levels : l[1] = c}}

\* GetNextLevel, GetNextStopLevel, GetNextTrailingStopLevel: the neighbour of a
\* level on the worse side, NoPrice at the end of the collection.
NextPrice(b, k) ==
    LET worse == {p \in PricesIn(b, k[1]) : Better(k[1], k[2], p)}
    IN IF worse = {} THEN NoPrice
       ELSE CHOOSE p \in worse : \A q \in worse \ {p} : Better(k[1], p, q)

\* Mutant: only the first level of a collection becomes the best.
BestAfterFirstAdd(b, k) ==
    [b.best EXCEPT ![k[1]] = IF @ = NoPrice THEN k[2] ELSE @]

\* AddLevel, AddStopLevel, AddTrailingStopLevel: a new best level if it improves.
BestAfterAdd(b, k) ==
    LET old == b.best[k[1]]
    IN [b.best EXCEPT ![k[1]] = IF old = NoPrice THEN k[2]
                                ELSE IF Better(k[1], k[2], old) THEN k[2] ELSE old]

\* Mutant: the deleted level leaves no best level behind.
DeleteLevelAndBest(b, k) ==
    [orders |-> b.orders,
     levels |-> Drop(b.levels, k),
     best   |-> [b.best EXCEPT ![k[1]] = IF @ = k[2] THEN NoPrice ELSE @]]

\* DeleteLevel, DeleteStopLevel, DeleteTrailingStopLevel.
DeleteLevel(b, k) ==
    [orders |-> b.orders,
     levels |-> Drop(b.levels, k),
     best   |-> [b.best EXCEPT ![k[1]] = IF @ = k[2] THEN NextPrice(b, k) ELSE @]]

\* Store a changed level; the code deletes it as soon as its volume is zero.
SetLevel(b, k, level) ==
    IF level.TotalVolume = 0 THEN DeleteLevel(b, k)
    ELSE [b EXCEPT !.levels = Put(@, k, level)]

-----------------------------------------------------------------------------
(* Orders *)

\* AddOrder, AddStopOrder, AddTrailingStopOrder: find or create the level.
AddOrder(b, o) ==
    LET k == KeyOf(o)
        isNew == k \notin DOMAIN b.levels
        level == IF isNew THEN EmptyLevel ELSE b.levels[k]
    IN [orders |-> Put(b.orders, o.Id, [o EXCEPT !.Level = k]),
        levels |-> Put(b.levels, k, LevelPlus(level, o)),
        best   |-> IF isNew THEN BestAfterAdd(b, k) ELSE b.best]

\* ReduceOrder, ReduceStopOrder, ReduceTrailingStopOrder with the manager's
\* computation of the hidden and visible parts: o is the order after its leaves
\* quantity was reduced; an empty order is unlinked.
ReduceOrder(b, o) ==
    LET old == b.orders[o.Id]
        k == old.Level
        less == LevelMinus(b.levels[k],
                           old.LeavesQuantity - o.LeavesQuantity,
                           Wrap(HiddenQuantity(old) - HiddenQuantity(o)),
                           Wrap(VisibleQuantity(old) - VisibleQuantity(o)))
    IN IF o.LeavesQuantity = 0
       THEN SetLevel([b EXCEPT !.orders = Drop(@, o.Id)], k, LevelWithout(less, o.Id))
       ELSE SetLevel([b EXCEPT !.orders = Put(@, o.Id, o)], k, less)

\* DeleteOrder, DeleteStopOrder, DeleteTrailingStopOrder.
DeleteOrder(b, id) ==
    LET o == b.orders[id]
        k == o.Level
        less == LevelMinus(b.levels[k], o.LeavesQuantity, HiddenQuantity(o), VisibleQuantity(o))
    IN SetLevel([b EXCEPT !.orders = Drop(@, id)], k, LevelWithout(less, id))

-----------------------------------------------------------------------------
(* Level updates *)

\* Mutant: the deletion of a level is reported as an update.
LevelUpdateWithoutDelete(b, b2, k) ==
    LET gone == k \notin DOMAIN b2.levels
    IN [Type |-> IF k \notin DOMAIN b.levels THEN "ADD" ELSE "UPDATE",
        Key  |-> k,
        Update |-> IF gone THEN Snapshot(EmptyLevel) ELSE Snapshot(b2.levels[k]),
        Top  |-> b2.best[k[1]] = (IF gone THEN NoPrice ELSE k[2])]

\* Mutant: Top is evaluated before the change.
LevelUpdateTopBefore(b, b2, k) ==
    LET gone == k \notin DOMAIN b2.levels
    IN [Type |-> IF k \notin DOMAIN b.levels THEN "ADD"
                 ELSE IF gone THEN "DELETE" ELSE "UPDATE",
        Key  |-> k,
        Update |-> IF gone THEN Snapshot(EmptyLevel) ELSE Snapshot(b2.levels[k]),
        Top  |-> b.best[k[1]] = k[2]]

\* The LevelUpdate that the operation taking b to b2 at level k returns: Top is
\* evaluated after the change, against the order's Level, which is null once the
\* level is gone.
LevelUpdate(b, b2, k) ==
    LET gone == k \notin DOMAIN b2.levels
    IN [Type |-> IF k \notin DOMAIN b.levels THEN "ADD"
                 ELSE IF gone THEN "DELETE" ELSE "UPDATE",
        Key  |-> k,
        Update |-> IF gone THEN Snapshot(EmptyLevel) ELSE Snapshot(b2.levels[k]),
        Top  |-> b2.best[k[1]] = (IF gone THEN NoPrice ELSE k[2])]

-----------------------------------------------------------------------------
(* Market prices *)

BestPrice(b, c, null) == IF b.best[c] = NoPrice THEN null ELSE b.best[c]

\* GetMarketTrailingStopPriceBid and ...Ask; last is the pair of last prices.
MarketTrailingStopPriceBid(b, last) ==
    LET best == BestPrice(b, "bids", 0)
    IN IF last.bid < best THEN last.bid ELSE best

MarketTrailingStopPriceAsk(b, last) ==
    LET best == BestPrice(b, "asks", OrderIntMax)
    IN IF last.ask > best THEN last.ask ELSE best

\* Mutant: the distance may take the stop price below zero.
CalculateTrailingStopPriceBelowZero(b, last, o) ==
    LET market == IF IsBuy(o) THEN MarketTrailingStopPriceAsk(b, last)
                  ELSE MarketTrailingStopPriceBid(b, last)
    IN IF IsBuy(o) THEN Lesser(o.StopPrice, market) ELSE market - o.TrailingDistance

\* Mutant: the same in uint64_t.
CalculateTrailingStopPriceWrapping(b, last, o) ==
    LET stop == CalculateTrailingStopPriceBelowZero(b, last, o)
    IN IF IsBuy(o) THEN stop ELSE Greater(o.StopPrice, Wrap(stop))

\* CalculateTrailingStopPrice: the stop price follows the market only when that
\* improves it, and only by at least the step.
CalculateTrailingStopPrice(b, last, o) ==
    LET market == IF IsBuy(o) THEN MarketTrailingStopPriceAsk(b, last)
                  ELSE MarketTrailingStopPriceBid(b, last)
        Absolute(n) == IF o.TrailingDistance < 0
                       THEN ((-n * market) % UInt64Size) \div 10000 ELSE n
        distance == Absolute(o.TrailingDistance)
        step == Absolute(o.TrailingStep)
        old == o.StopPrice
    IN IF IsBuy(o)
       THEN LET new == IF market < Wrap(OrderIntMax - distance) THEN Wrap(market + distance)
                       ELSE OrderIntMax
            IN IF new < old /\ old - new >= step THEN new ELSE old
       ELSE LET new == IF market > distance THEN market - distance ELSE 0
            IN IF new > old /\ new - old >= step THEN new ELSE old

\* The stop price of a new trailing order starts from the market; the limit price
\* of a trailing stop-limit order keeps its distance to it.
WithTrailingStop(b, last, o) ==
    LET stop == CalculateTrailingStopPrice(b, last, o)
    IN CASE o.Type = "TRAILING_STOP" -> [o EXCEPT !.StopPrice = stop]
         [] o.Type = "TRAILING_STOP_LIMIT" ->
              [o EXCEPT !.StopPrice = stop, !.Price = Wrap(stop + Wrap(@ - o.StopPrice))]
         [] OTHER -> o

-----------------------------------------------------------------------------
(* Type and consistency of a book *)

IsMap(f, D, R) == DOMAIN f \subseteq D /\ f \in [DOMAIN f -> R]

\* An order that rests: linked, with something left to execute.
OrderNode(ids, max) ==
    [Id : ids, Type : OrderType \ {"MARKET"}, Side : OrderSide,
     Price : UInt64, StopPrice : UInt64,
     Quantity : 1 .. max, ExecutedQuantity : Nat, LeavesQuantity : 1 .. max,
     TimeInForce : OrderTimeInForce, MaxVisibleQuantity : UInt64, Slippage : UInt64,
     TrailingDistance : Int, TrailingStep : Int, Level : LevelKey]

LevelNode(ids) ==
    [TotalVolume : UInt64, HiddenVolume : UInt64, VisibleVolume : UInt64,
     Orders : Nat, OrderList : Seq(ids)]

\* A book of orders with these ids, none larger than max.
IsBook(b, ids, max) ==
    /\ b = [orders |-> b.orders, levels |-> b.levels, best |-> b.best]
    /\ IsMap(b.orders, ids, OrderNode(ids, max))
    /\ IsMap(b.levels, LevelKey, LevelNode(ids))
    /\ b.best \in [Collections -> UInt64 \cup {NoPrice}]

OrdersOf(level) == {level.OrderList[i] : i \in 1 .. Len(level.OrderList)}

\* Every order is linked into the level that its Level pointer names, which is
\* the level its type, side and price call for.
OrdersAreLinked(b) ==
    \A id \in DOMAIN b.orders :
        LET o == b.orders[id]
        IN /\ o.Id = id
           /\ o.Level = KeyOf(o)
           /\ o.Level \in DOMAIN b.levels
           /\ id \in OrdersOf(b.levels[o.Level])

\* The list of a level holds orders of this level, each once, and Orders counts it.
ListsAreSound(b) ==
    \A k \in DOMAIN b.levels :
        LET level == b.levels[k]
        IN /\ \A id \in OrdersOf(level) : id \in DOMAIN b.orders /\ b.orders[id].Level = k
           /\ \A i, j \in 1 .. Len(level.OrderList) :
                 level.OrderList[i] = level.OrderList[j] => i = j
           /\ level.Orders = Len(level.OrderList)

\* The incrementally maintained volumes are the sums over the linked orders, and
\* no level is left without volume.
VolumesAreSums(b) ==
    \A k \in DOMAIN b.levels :
        LET level == b.levels[k]
            ids == OrdersOf(level)
        IN /\ level.TotalVolume > 0
           /\ level.TotalVolume = Lots([id \in ids |-> b.orders[id].LeavesQuantity])
           /\ level.HiddenVolume = Lots([id \in ids |-> HiddenQuantity(b.orders[id])])
           /\ level.VisibleVolume = Lots([id \in ids |-> VisibleQuantity(b.orders[id])])

\* The cached best pointers name the best level of each collection.
BestIsBest(b) ==
    \A c \in Collections :
        IF PricesIn(b, c) = {} THEN b.best[c] = NoPrice
        ELSE /\ b.best[c] \in PricesIn(b, c)
             /\ \A p \in PricesIn(b, c) : ~Better(c, p, b.best[c])

\* The structure of a book is sound.
IsConsistent(b) ==
    OrdersAreLinked(b) /\ ListsAreSound(b) /\ VolumesAreSums(b) /\ BestIsBest(b)
=============================================================================

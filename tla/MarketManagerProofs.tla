------------------------- MODULE MarketManagerProofs -------------------------
(***************************************************************************)
(* The invariant of the market manager with matching disabled, proved for   *)
(* any ids, orders and quantities whose total volume fits uint64_t: the     *)
(* book stays consistent, the feed of level updates complete, the quotes of *)
(* a handler no worse than the market, and, when every modification is a    *)
(* mitigation, no order is open for more than was asked for.                *)
(***************************************************************************)
EXTENDS MarketManager, OrderBookProofs

FeedOK(f) ==
    /\ f = [levels |-> f.levels, best |-> f.best]
    /\ IsMap(f.levels, LevelKey, LevelSnapshot)
    /\ f.best \in [{"bids", "asks"} -> UInt64 \cup {NoPrice}]

FeedFollows(f, b) ==
    f.levels = [k \in {l \in DOMAIN b.levels : IsQuoted(l)} |-> Snapshot(b.levels[k])]

\* The best prices that the handler has are at least as good as those of the book.
QuotesFollow(f, b) ==
    \A c \in {"bids", "asks"} :
        b.best[c] # NoPrice => f.best[c] # NoPrice /\ ~Better(c, b.best[c], f.best[c])

\* When the caller modifies orders with MitigateOrder only, what an order executed
\* and what it has open is within its quantity.
WithinQuantity(o) ==
    Mitigations \subseteq {TRUE} => o.ExecutedQuantity + o.LeavesQuantity <= o.Quantity

\* A book and what the handler knows of it.
Sound(b, f) == /\ Valid(b)
               /\ FeedOK(f) /\ FeedFollows(f, b) /\ QuotesFollow(f, b)
               /\ \A id \in DOMAIN b.orders : WithinQuantity(b.orders[id])

\* The inductive invariant.
IInv == /\ Sound(book, feed)
        /\ last \in [bid : UInt64, ask : UInt64]
        /\ result \in ErrorCode

-----------------------------------------------------------------------------
(* The feed *)

\* The snapshot of a level.
LEMMA SnapshotType ==
    ASSUME NEW ids, NEW level \in LevelNode(ids)
    PROVE  Snapshot(level) \in LevelSnapshot
BY DEF Snapshot, LevelNode, LevelSnapshot

\* A report of the level that changed keeps the feed complete.
LEMMA ReportKeepsFeed ==
    ASSUME NEW ids, NEW max, NEW b, NEW b2, NEW k \in LevelKey, NEW f,
           BookInv(b2, ids, max), FeedOK(f), FeedFollows(f, b), OnlyLevelChanged(b, b2, k)
    PROVE  LET f2 == Report(f, b, b2, k) IN FeedOK(f2) /\ FeedFollows(f2, b2)
<1> DEFINE f2 == Report(f, b, b2, k)
           u == LevelUpdate(b, b2, k)
<1>1. /\ BookShape(b2, ids)
      /\ b2.best \in Bests
      /\ \A l \in DOMAIN b2.levels : LevelOK(b2, l, ids)
  BY BookInvParts
<1>2. CASE ~IsQuoted(k)
  <2>1. f2 = f
    BY <1>2 DEF Report
  <2>2. {l \in DOMAIN b2.levels : IsQuoted(l)} = {l \in DOMAIN b.levels : IsQuoted(l)}
    BY <1>2 DEF OnlyLevelChanged
  <2>3. \A l \in {m \in DOMAIN b.levels : IsQuoted(m)} : b2.levels[l] = b.levels[l]
    BY <1>2 DEF OnlyLevelChanged
  <2> QED
    BY <2>1, <2>2, <2>3 DEF FeedFollows
<1>3. CASE IsQuoted(k)
  <2>1. /\ f2 = UpdateLevel(f, b2, u)
        /\ f2.levels = IF u.Type = "DELETE" THEN Drop(f.levels, u.Key)
                       ELSE Put(f.levels, u.Key, u.Update)
        /\ f2.best \in {QuotedBest(b2), f.best}
        /\ f2 = [levels |-> f2.levels, best |-> f2.best]
    BY <1>3 DEF Report, UpdateLevel
  <2>2. /\ u.Key = k
        /\ u.Type = "DELETE" <=> k \notin DOMAIN b2.levels
        /\ k \in DOMAIN b2.levels => u.Update = Snapshot(b2.levels[k])
    BY DEF LevelUpdate, OnlyLevelChanged
  <2>3. /\ k \notin DOMAIN b2.levels => f2.levels = Drop(f.levels, k)
        /\ k \in DOMAIN b2.levels => f2.levels = Put(f.levels, k, Snapshot(b2.levels[k]))
    BY <2>1, <2>2
  <2> HIDE DEF f2, u
  <2>4. /\ DOMAIN f.levels = {l \in DOMAIN b.levels : IsQuoted(l)}
        /\ \A l \in DOMAIN f.levels : f.levels[l] = Snapshot(b.levels[l])
    BY DEF FeedFollows
  <2>5. FeedFollows(f2, b2)
    <3>1. CASE k \notin DOMAIN b2.levels
      <4>1. {l \in DOMAIN b2.levels : IsQuoted(l)} = DOMAIN f.levels \ {k}
        BY <2>4, <3>1 DEF OnlyLevelChanged
      <4>2. \A l \in DOMAIN f.levels \ {k} : f.levels[l] = Snapshot(b2.levels[l])
        BY <2>4 DEF OnlyLevelChanged
      <4> QED
        BY <2>3, <3>1, <4>1, <4>2 DEF FeedFollows, Drop
    <3>2. CASE k \in DOMAIN b2.levels
      <4>1. {l \in DOMAIN b2.levels : IsQuoted(l)} = DOMAIN f.levels \cup {k}
        BY <1>3, <2>4, <3>2 DEF OnlyLevelChanged
      <4>2. \A l \in DOMAIN f.levels \ {k} : f.levels[l] = Snapshot(b2.levels[l])
        BY <2>4 DEF OnlyLevelChanged
      <4> QED
        BY <2>3, <3>2, <4>1, <4>2 DEF FeedFollows, Put
    <3> QED
      BY <3>1, <3>2
  <2>6. IsMap(f2.levels, LevelKey, LevelSnapshot)
    <3>1. \A l \in DOMAIN b2.levels : Snapshot(b2.levels[l]) \in LevelSnapshot
      BY <1>1, SnapshotType DEF LevelOK
    <3> QED
      BY <1>1, <2>5, <3>1 DEF FeedFollows, IsMap, BookShape
  <2>7. QuotedBest(b2) \in [{"bids", "asks"} -> UInt64 \cup {NoPrice}]
    BY <1>1 DEF QuotedBest, Bests, Collections, BidCollections, AskCollections
  <2> QED
    BY <2>1, <2>5, <2>6, <2>7 DEF FeedOK, f2
<1> QED
  BY <1>2, <1>3

\* A report of the level that changed lets no improvement pass: the best price of
\* the book either is that level's, and is read, or was there before.
LEMMA ReportKeepsQuotes ==
    ASSUME NEW ids, NEW max, NEW b, NEW b2, NEW k \in LevelKey, NEW f,
           BookInv(b, ids, max), BookInv(b2, ids, max), FeedOK(f), QuotesFollow(f, b),
           OnlyLevelChanged(b, b2, k)
    PROVE  QuotesFollow(Report(f, b, b2, k), b2)
<1> DEFINE f2 == Report(f, b, b2, k)
           u == LevelUpdate(b, b2, k)
<1> SUFFICES ASSUME NEW c \in {"bids", "asks"}, b2.best[c] # NoPrice
             PROVE  f2.best[c] # NoPrice /\ ~Better(c, b2.best[c], f2.best[c])
  BY DEF QuotesFollow
<1> DEFINE p == b2.best[c]
<1>1. /\ c \in Collections
      /\ b.best[c] \in UInt64 \cup {NoPrice} /\ p \in UInt64
      /\ f.best[c] \in UInt64 \cup {NoPrice}
      /\ BestIsBest(b) /\ BestIsBest(b2)
  BY BookInvParts DEF Bests, Collections, BidCollections, AskCollections, FeedOK
<1>2. UInt64 \subseteq Int /\ NoPrice \notin UInt64
  BY WidthAssumption, NoPriceIsNone DEF UInt64
<1>3. <<c, p>> \in DOMAIN b2.levels
  <2>1. p \in PricesIn(b2, c)
    BY <1>1 DEF BestIsBest
  <2>2. DOMAIN b2.levels \subseteq LevelKey
    BY BookInvParts DEF BookShape
  <2> QED
    BY <2>1, <2>2, PricesInMember
<1>4. CASE IsQuoted(k) /\ u.Top
  <2>1. f2.best = QuotedBest(b2)
    BY <1>4 DEF Report, UpdateLevel
  <2>2. f2.best[c] = p
    BY <2>1 DEF QuotedBest
  <2>3. p \in Int
    BY <1>1, <1>2
  <2> HIDE DEF f2, p
  <2>4. ~Better(c, p, p) /\ p # NoPrice
    BY <1>1, <1>2, <2>3 DEF Better
  <2> QED
    BY <2>2, <2>4 DEF p
<1>5. CASE ~(IsQuoted(k) /\ u.Top)
  <2>1. f2.best = f.best
    BY <1>5 DEF Report, UpdateLevel
  <2>2. <<c, p>> # k
    <3>1. ASSUME <<c, p>> = k PROVE FALSE
      <4>1. IsQuoted(k) /\ k[1] = c /\ k[2] = p
        BY <3>1 DEF IsQuoted
      <4>2. u.Top
        BY <1>3, <3>1, <4>1 DEF LevelUpdate
      <4> QED
        BY <1>5, <4>1, <4>2
    <3> QED
      BY <3>1
  <2>3. <<c, p>> \in DOMAIN b.levels
    BY <1>3, <2>2 DEF OnlyLevelChanged
  <2>4. p \in PricesIn(b, c) /\ PricesIn(b, c) \subseteq UInt64
    <3>1. DOMAIN b.levels \subseteq LevelKey
      BY BookInvParts DEF BookShape
    <3> QED
      BY <2>3, <3>1, PricesInMember
  <2>5. b.best[c] # NoPrice /\ b.best[c] \in UInt64 /\ ~Better(c, p, b.best[c])
    <3>1. b.best[c] \in PricesIn(b, c) /\ ~Better(c, p, b.best[c])
      BY <1>1, <2>4 DEF BestIsBest
    <3> QED
      BY <1>2, <2>4, <3>1
  <2>6. f.best[c] # NoPrice /\ f.best[c] \in UInt64 /\ ~Better(c, b.best[c], f.best[c])
    BY <1>1, <2>5 DEF QuotesFollow
  <2> HIDE DEF f2, p
  <2>7. p \in Int /\ b.best[c] \in Int /\ f.best[c] \in Int
    BY <1>1, <1>2, <2>5, <2>6
  <2>8. ~Better(c, p, f.best[c])
    BY <2>5, <2>6, <2>7 DEF Better
  <2> QED
    BY <2>1, <2>6, <2>8 DEF p
<1> QED
  BY <1>4, <1>5

-----------------------------------------------------------------------------
(* The three operations on a book, with their reports *)

LEMMA AddKeepsSound ==
    ASSUME VolumeFits, NEW b, NEW f, Sound(b, f),
           NEW o \in Entrant(OrderIds, MaxQuantity), o.Id \notin DOMAIN b.orders,
           WithinQuantity(o)
    PROVE  LET b2 == AddOrder(b, o) IN Sound(b2, Report(f, b, b2, KeyOf(o)))
<1> DEFINE k == KeyOf(o)
           b2 == AddOrder(b, o)
<1>1. /\ BookInv(b, OrderIds, MaxQuantity)
      /\ FeedOK(f) /\ FeedFollows(f, b) /\ QuotesFollow(f, b)
      /\ \A i \in DOMAIN b.orders : WithinQuantity(b.orders[i])
  BY DEF Sound, Valid
<1>2. BookInv(b2, OrderIds, MaxQuantity)
  BY <1>1, AddOrderKeepsBook DEF VolumeFits
<1>3. k \in LevelKey
  BY LinkedOrder
<1>4. OnlyLevelChanged(b, b2, k)
  BY AddChangesOneLevel
<1>5. \A i \in DOMAIN b2.orders : WithinQuantity(b2.orders[i])
  <2> DEFINE linked == [o EXCEPT !.Level = k]
  <2>1. b2.orders = Put(b.orders, o.Id, linked)
    BY DEF AddOrder
  <2>2. WithinQuantity(linked)
    BY DEF WithinQuantity, Entrant
  <2> HIDE DEF b2, linked
  <2> QED
    BY <1>1, <2>1, <2>2 DEF Put
<1> HIDE DEF b2, k
<1>6. /\ FeedOK(Report(f, b, b2, k)) /\ FeedFollows(Report(f, b, b2, k), b2)
      /\ QuotesFollow(Report(f, b, b2, k), b2)
  BY <1>1, <1>2, <1>3, <1>4, ReportKeepsFeed, ReportKeepsQuotes
<1> QED
  BY <1>2, <1>5, <1>6 DEF Sound, Valid, b2, k

\* What is known of an order in a sound book.
LEMMA OrderInBook ==
    ASSUME NEW b, NEW f, Sound(b, f), NEW id \in DOMAIN b.orders
    PROVE  /\ b.orders[id] \in OrderNode(OrderIds, MaxQuantity)
           /\ b.orders[id].Id = id
           /\ WithinQuantity(b.orders[id])
           /\ id \in OrderIds
           /\ b.orders[id].Level = KeyOf(b.orders[id])
           /\ b.orders[id].Level \in DOMAIN b.levels
           /\ b.orders[id].Level \in LevelKey
           /\ BookShape(b, OrderIds)
<1>1. /\ BookShape(b, OrderIds) /\ OrderOK(b, id, OrderIds, MaxQuantity)
      /\ WithinQuantity(b.orders[id])
  BY BookInvParts DEF Sound, Valid
<1> QED
  BY <1>1 DEF OrderOK, BookShape

LEMMA DeleteKeepsSound ==
    ASSUME VolumeFits, NEW b, NEW f, Sound(b, f), NEW id \in DOMAIN b.orders
    PROVE  LET b2 == DeleteOrder(b, id)
           IN /\ Sound(b2, Report(f, b, b2, b.orders[id].Level))
              /\ b2.orders = Drop(b.orders, id)
              /\ DOMAIN b2.orders = DOMAIN b.orders \ {id}
<1> DEFINE k == b.orders[id].Level
           b2 == DeleteOrder(b, id)
<1>1. /\ BookInv(b, OrderIds, MaxQuantity)
      /\ FeedOK(f) /\ FeedFollows(f, b) /\ QuotesFollow(f, b)
      /\ \A i \in DOMAIN b.orders : WithinQuantity(b.orders[i])
  BY DEF Sound, Valid
<1>2. BookInv(b2, OrderIds, MaxQuantity) /\ b2.orders = Drop(b.orders, id)
  BY <1>1, DeleteOrderKeepsBook DEF VolumeFits
<1>3. k \in LevelKey
  BY OrderInBook
<1>4. OnlyLevelChanged(b, b2, k)
  BY <1>1, DeleteChangesOneLevel
<1> HIDE DEF b2, k
<1>5. /\ FeedOK(Report(f, b, b2, k)) /\ FeedFollows(Report(f, b, b2, k), b2)
      /\ QuotesFollow(Report(f, b, b2, k), b2)
  BY <1>1, <1>2, <1>3, <1>4, ReportKeepsFeed, ReportKeepsQuotes
<1>6. /\ DOMAIN b2.orders = DOMAIN b.orders \ {id}
      /\ \A i \in DOMAIN b2.orders : WithinQuantity(b2.orders[i])
  BY <1>1, <1>2 DEF Drop
<1> QED
  BY <1>2, <1>5, <1>6 DEF Sound, Valid, b2, k

LEMMA ReduceKeepsSound ==
    ASSUME VolumeFits, NEW b, NEW f, Sound(b, f), NEW id \in DOMAIN b.orders,
           NEW o, IsReduced(o, b.orders[id], OrderIds, MaxQuantity), WithinQuantity(o)
    PROVE  LET b2 == ReduceOrder(b, o) IN Sound(b2, Report(f, b, b2, o.Level))
<1> DEFINE k == b.orders[id].Level
           b2 == ReduceOrder(b, o)
<1>1. /\ BookInv(b, OrderIds, MaxQuantity)
      /\ FeedOK(f) /\ FeedFollows(f, b) /\ QuotesFollow(f, b)
      /\ \A i \in DOMAIN b.orders : WithinQuantity(b.orders[i])
  BY DEF Sound, Valid
<1>2. /\ BookInv(b2, OrderIds, MaxQuantity)
      /\ b2.orders = IF o.LeavesQuantity = 0 THEN Drop(b.orders, id) ELSE Put(b.orders, id, o)
  BY <1>1, ReduceOrderKeepsBook DEF VolumeFits
<1>3. k \in LevelKey
  BY OrderInBook
<1>4. o.Level = k /\ o.Id = id
  BY OrderInBook DEF IsReduced
<1>5. OnlyLevelChanged(b, b2, k)
  BY <1>1, <1>4, ReduceChangesOneLevel
<1>6. \A i \in DOMAIN b2.orders : WithinQuantity(b2.orders[i])
  <2>1. b2.orders \in {Drop(b.orders, id), Put(b.orders, id, o)}
    BY <1>2
  <2> HIDE DEF b2
  <2> QED
    BY <1>1, <2>1 DEF Put, Drop
<1> HIDE DEF b2, k
<1>7. /\ FeedOK(Report(f, b, b2, k)) /\ FeedFollows(Report(f, b, b2, k), b2)
      /\ QuotesFollow(Report(f, b, b2, k), b2)
  BY <1>1, <1>2, <1>3, <1>5, ReportKeepsFeed, ReportKeepsQuotes
<1> QED
  BY <1>2, <1>4, <1>6, <1>7 DEF Sound, Valid, b2

-----------------------------------------------------------------------------
(* The orders that the calls enter *)

\* A new order that rests, with its trailing stop price, can be linked.
LEMMA NewOrderIsEntrant ==
    ASSUME VolumeFits, NEW b, b.best \in Bests, NEW l \in [bid : UInt64, ask : UInt64],
           NEW t \in NewOrders, NEW id \in Ids,
           Validate(MakeOrder(t, id)) = "OK", Resting(MakeOrder(t, id))
    PROVE  LET o == WithTrailingStop(b, l, MakeOrder(t, id))
           IN o \in Entrant(OrderIds, MaxQuantity) /\ o.Id = id /\ WithinQuantity(o)
<1> DEFINE new == MakeOrder(t, id)
           stop == CalculateTrailingStopPrice(b, l, new)
           o == WithTrailingStop(b, l, new)
<1>1. /\ t \in Template
      /\ id # 0
      /\ t.Quantity # 0
      /\ t.Quantity <= MaxQuantity
      /\ t.Type # "MARKET"
  <2>1. t \in Template /\ t.Quantity <= MaxQuantity
    BY CallAssumption, QueueAssumption
  <2>2. new.Id # 0 /\ new.LeavesQuantity # 0
    BY DEF Validate
  <2>3. new.Type # "MARKET"
    BY DEF Resting, IsLimit, StopTypes, TrailingTypes
  <2> QED
    BY <2>1, <2>2, <2>3 DEF MakeOrder
<1>2. UInt64 \subseteq Nat /\ MaxQuantity \in Nat /\ UInt64Size \in Nat
  BY CallAssumption, QueueAssumption, WidthAssumption DEF UInt64
<1>3. t.Quantity \in 1 .. MaxQuantity
  <2>1. t.Quantity \in Nat
    BY <1>1, <1>2 DEF Template
  <2> QED
    BY <1>1, <1>2, <2>1
<1>4. id \in OrderIds
  BY <1>1 DEF OrderIds
<1>5. /\ new \in Entrant(OrderIds, MaxQuantity) /\ new.Id = id
      /\ new.StopPrice \in UInt64 /\ new.Price \in UInt64
      /\ new.TrailingDistance \in Int /\ new.TrailingStep \in Int
      /\ new.ExecutedQuantity + new.LeavesQuantity <= new.Quantity
  BY <1>1, <1>2, <1>3, <1>4 DEF Template, MakeOrder, Entrant
<1>6. stop \in UInt64
  <2> HIDE DEF new
  <2> QED
    BY <1>5, TrailingStopPriceType
<1>7. Wrap(stop + Wrap(new.Price - new.StopPrice)) \in UInt64
  <2> DEFINE distance == Wrap(new.Price - new.StopPrice)
  <2> HIDE DEF new, stop
  <2>1. distance \in UInt64
    BY <1>2, <1>5 DEF Wrap, UInt64
  <2> HIDE DEF distance
  <2>2. Wrap(stop + distance) \in UInt64
    BY <1>2, <1>6, <2>1 DEF Wrap, UInt64
  <2> QED
    BY <2>2 DEF distance
<1>8. o \in {[new EXCEPT !.StopPrice = stop],
             [new EXCEPT !.StopPrice = stop,
                         !.Price = Wrap(stop + Wrap(new.Price - new.StopPrice))],
             new}
  BY DEF WithTrailingStop
<1> DEFINE price == Wrap(stop + Wrap(new.Price - new.StopPrice))
<1> HIDE DEF new, stop, price, o
<1>9. /\ [new EXCEPT !.StopPrice = stop] \in Entrant(OrderIds, MaxQuantity)
      /\ [new EXCEPT !.StopPrice = stop].Id = id
      /\ WithinQuantity([new EXCEPT !.StopPrice = stop])
  BY <1>5, <1>6 DEF Entrant, WithinQuantity
<1>10. /\ [new EXCEPT !.StopPrice = stop, !.Price = price] \in Entrant(OrderIds, MaxQuantity)
       /\ [new EXCEPT !.StopPrice = stop, !.Price = price].Id = id
       /\ WithinQuantity([new EXCEPT !.StopPrice = stop, !.Price = price])
  BY <1>5, <1>6, <1>7 DEF Entrant, price, WithinQuantity
<1>11. WithinQuantity(new)
  BY <1>5 DEF WithinQuantity
<1> QED
  BY <1>5, <1>8, <1>9, <1>10, <1>11 DEF o, new, price

\* The order that takes the place of a modified or a replaced one can be linked.
LEMMA ModifiedIsEntrant ==
    ASSUME VolumeFits, NEW old \in OrderNode(OrderIds, MaxQuantity),
           NEW price \in Prices, NEW quantity \in Quantities, quantity # 0,
           NEW mitigate \in Mitigations,
           Modified(old, price, quantity, mitigate).LeavesQuantity > 0
    PROVE  LET o == Modified(old, price, quantity, mitigate)
           IN o \in Entrant(OrderIds, MaxQuantity) /\ o.Id = old.Id /\ WithinQuantity(o)
<1> DEFINE leaves == IF ~mitigate THEN quantity
                     ELSE IF quantity > old.ExecutedQuantity
                          THEN quantity - old.ExecutedQuantity ELSE 0
<1>1. /\ price \in UInt64 /\ quantity \in Nat /\ quantity <= MaxQuantity /\ MaxQuantity \in Nat
  BY CallAssumption, QueueAssumption, WidthAssumption DEF UInt64
<1>2. quantity \in 1 .. MaxQuantity
  BY <1>1
<1>3. old.ExecutedQuantity \in Nat
  BY DEF OrderNode
<1>4. leaves \in 0 .. MaxQuantity
  BY <1>1, <1>2, <1>3
<1>5. Modified(old, price, quantity, mitigate) =
         [old EXCEPT !.Price = price, !.Quantity = quantity, !.LeavesQuantity = leaves]
  BY DEF Modified
<1> HIDE DEF leaves
<1>6. leaves > 0
  BY <1>5 DEF OrderNode
<1>7. leaves \in 1 .. MaxQuantity
  BY <1>1, <1>4, <1>6
<1>8. Mitigations \subseteq {TRUE} => old.ExecutedQuantity + leaves <= quantity
  <2>1. SUFFICES ASSUME Mitigations \subseteq {TRUE}
                 PROVE  old.ExecutedQuantity + leaves <= quantity
    OBVIOUS
  <2>2. mitigate
    BY <2>1
  <2>3. leaves = IF quantity > old.ExecutedQuantity
                 THEN quantity - old.ExecutedQuantity ELSE 0
    BY <2>2 DEF leaves
  <2> QED
    BY <1>1, <1>3, <1>6, <2>3
<1> DEFINE new == Modified(old, price, quantity, mitigate)
<1>9. /\ new.ExecutedQuantity = old.ExecutedQuantity
      /\ new.LeavesQuantity = leaves /\ new.Quantity = quantity
  BY <1>5 DEF OrderNode
<1>10. new \in Entrant(OrderIds, MaxQuantity) /\ new.Id = old.Id
  BY <1>1, <1>2, <1>5, <1>7 DEF OrderNode, Entrant
<1> HIDE DEF new
<1>11. WithinQuantity(new)
  BY <1>8, <1>9 DEF WithinQuantity
<1> QED
  BY <1>10, <1>11 DEF new

LEMMA ReplacedIsEntrant ==
    ASSUME VolumeFits, NEW old \in OrderNode(OrderIds, MaxQuantity),
           NEW newId \in OrderIds, NEW price \in Prices,
           NEW quantity \in Quantities, quantity # 0
    PROVE  LET o == Replaced(old, newId, price, quantity)
           IN o \in Entrant(OrderIds, MaxQuantity) /\ o.Id = newId /\ WithinQuantity(o)
<1>1. /\ price \in UInt64 /\ quantity \in Nat /\ quantity <= MaxQuantity /\ MaxQuantity \in Nat
  BY CallAssumption, QueueAssumption, WidthAssumption DEF UInt64
<1>2. quantity \in 1 .. MaxQuantity
  BY <1>1
<1> DEFINE new == Replaced(old, newId, price, quantity)
<1>3. new.ExecutedQuantity = 0 /\ new.LeavesQuantity = quantity /\ new.Quantity = quantity
  BY DEF OrderNode, Replaced
<1>4. new \in Entrant(OrderIds, MaxQuantity) /\ new.Id = newId
  BY <1>1, <1>2 DEF OrderNode, Entrant, Replaced
<1> HIDE DEF new
<1>5. WithinQuantity(new)
  BY <1>1, <1>3 DEF WithinQuantity
<1> QED
  BY <1>4, <1>5 DEF new

\* A reduction or an execution leaves the same order with less.
LEMMA ReducedIsReduced ==
    ASSUME NEW ids, NEW max, max \in Nat, NEW old \in OrderNode(ids, max),
           WithinQuantity(old), NEW quantity \in Nat
    PROVE  /\ IsReduced(Reduced(old, quantity), old, ids, max)
           /\ WithinQuantity(Reduced(old, quantity))
           /\ quantity <= old.LeavesQuantity =>
                 /\ IsReduced(Executed(old, quantity), old, ids, max)
                 /\ WithinQuantity(Executed(old, quantity))
<1> DEFINE leaves == old.LeavesQuantity - Lesser(quantity, old.LeavesQuantity)
           executed == old.ExecutedQuantity + quantity
<1>1. old.LeavesQuantity \in 1 .. max /\ old.ExecutedQuantity \in Nat
  BY DEF OrderNode
<1>2. leaves \in 0 .. old.LeavesQuantity /\ executed \in Nat
  BY <1>1 DEF Lesser
<1>3. leaves > 0 => leaves \in 1 .. max
  BY <1>1, <1>2
<1>4. /\ Reduced(old, quantity) = [old EXCEPT !.LeavesQuantity = leaves]
      /\ Executed(old, quantity) =
            [old EXCEPT !.ExecutedQuantity = executed, !.LeavesQuantity = leaves]
  BY DEF Reduced, Executed
<1>5. /\ leaves <= old.LeavesQuantity
      /\ quantity <= old.LeavesQuantity =>
            executed + leaves = old.ExecutedQuantity + old.LeavesQuantity
  BY <1>1, <1>2 DEF Lesser
<1> DEFINE less == Reduced(old, quantity)
           done == Executed(old, quantity)
<1>6. /\ less.Quantity = old.Quantity /\ done.Quantity = old.Quantity
      /\ less.ExecutedQuantity = old.ExecutedQuantity /\ done.ExecutedQuantity = executed
      /\ less.LeavesQuantity = leaves /\ done.LeavesQuantity = leaves
      /\ old.Quantity \in Int
  BY <1>4 DEF OrderNode
<1> HIDE DEF leaves, executed, less, done
<1>7. WithinQuantity(less) /\ (quantity <= old.LeavesQuantity => WithinQuantity(done))
  <2>1. old.ExecutedQuantity + old.LeavesQuantity <= old.Quantity =>
           /\ less.ExecutedQuantity + less.LeavesQuantity <= less.Quantity
           /\ quantity <= old.LeavesQuantity =>
                 done.ExecutedQuantity + done.LeavesQuantity <= done.Quantity
    BY <1>1, <1>2, <1>5, <1>6
  <2> QED
    BY <2>1, Zenon DEF WithinQuantity
<1>8. IsReduced([old EXCEPT !.LeavesQuantity = leaves], old, ids, max)
  BY <1>2, <1>3 DEF OrderNode, IsReduced
<1>9. IsReduced([old EXCEPT !.ExecutedQuantity = executed, !.LeavesQuantity = leaves],
                old, ids, max)
  BY <1>2, <1>3 DEF OrderNode, IsReduced
<1> QED
  BY <1>4, <1>7, <1>8, <1>9 DEF less, done

-----------------------------------------------------------------------------
(* The steps *)

LastOK == last \in [bid : UInt64, ask : UInt64]

\* What every step gives: the invariant, a step of the queues or none, and orders
\* unaltered if the call failed.
Unaltered ==
    \A id \in DOMAIN book'.orders : id \in DOMAIN book.orders /\ book'.orders[id] = book.orders[id]

Kept == /\ Sound(book', feed') /\ LastOK' /\ result' \in ErrorCode
        /\ QueueStep(book, book')
        /\ result' # "OK" => Unaltered

\* Place on a book b, with the feed f, of an order that can be linked.
LEMMA PlaceKeeps ==
    ASSUME VolumeFits, NEW b, NEW f, Sound(b, f),
           NEW o \in Entrant(OrderIds, MaxQuantity), WithinQuantity(o), Place(b, f, o)
    PROVE  /\ Sound(book', feed') /\ result' \in ErrorCode
           /\ result' # "OK" => book' = b
           /\ AllKeys => book' = b \/ Enters(b, book')
<1>1. CASE o.Id \in DOMAIN b.orders
  BY <1>1 DEF Place, Return, ErrorCode
<1>2. CASE o.Id \notin DOMAIN b.orders
  <2> DEFINE b2 == AddOrder(b, o)
  <2>1. book' = b2 /\ feed' = Report(f, b, b2, KeyOf(o)) /\ result' = "OK"
    BY <1>2 DEF Place, Return
  <2>2. Sound(b2, Report(f, b, b2, KeyOf(o)))
    BY <1>2, AddKeepsSound
  <2>3. AllKeys => Enters(b, b2)
    BY <1>2, AddEnters DEF Sound, Enters
  <2> QED
    BY <2>1, <2>2, <2>3 DEF ErrorCode
<1> QED
  BY <1>1, <1>2

\* Enter, for a new order.
LEMMA EnterKeeps ==
    ASSUME VolumeFits, LastOK, NEW b, NEW f, Sound(b, f),
           NEW t \in NewOrders, NEW id \in Ids, Enter(b, f, MakeOrder(t, id))
    PROVE  /\ Sound(book', feed') /\ LastOK' /\ result' \in ErrorCode
           /\ result' # "OK" => book' = b
           /\ AllKeys => book' = b \/ Enters(b, book')
<1> DEFINE new == MakeOrder(t, id)
           o == WithTrailingStop(b, last, new)
<1>1. LastOK'
  BY DEF LastOK, Enter
<1>2. CASE Validate(new) # "OK"
  <2>1. Return(Validate(new), b, f)
    BY <1>2 DEF Enter
  <2>2. Validate(new) \in ErrorCode
    BY DEF Validate, ErrorCode
  <2> QED
    BY <1>1, <2>1, <2>2 DEF Return
<1>3. CASE Validate(new) = "OK" /\ ~Resting(new)
  BY <1>1, <1>3 DEF Enter, Return, ErrorCode
<1>4. CASE Validate(new) = "OK" /\ Resting(new)
  <2>1. Place(b, f, o)
    BY <1>4 DEF Enter
  <2>2. b.best \in Bests
    BY BookInvParts DEF Sound, Valid
  <2>3. o \in Entrant(OrderIds, MaxQuantity) /\ WithinQuantity(o)
    BY <1>4, <2>2, NewOrderIsEntrant DEF LastOK
  <2> QED
    BY <1>1, <2>1, <2>3, PlaceKeeps
<1> QED
  BY <1>2, <1>3, <1>4

\* A rejected call changes nothing but the result.
LEMMA RejectKeeps ==
    ASSUME IInv, NEW code \in ErrorCode, Reject(code)
    PROVE  Kept
BY DEF IInv, Reject, Return, Kept, LastOK, Unaltered, QueueStep

LEMMA CheckType ==
    ASSUME NEW id, NEW quantity
    PROVE  /\ Check(id, quantity) \in ErrorCode
           /\ Check(id, quantity) = "OK" => id \in DOMAIN book.orders /\ quantity # 0
BY DEF Check, ErrorCode

\* Shrink, for an order with less left.
LEMMA ShrinkKeeps ==
    ASSUME VolumeFits, IInv, LastOK', NEW id \in DOMAIN book.orders,
           NEW o, IsReduced(o, book.orders[id], OrderIds, MaxQuantity),
           WithinQuantity(o), Shrink(o)
    PROVE  Kept
<1> DEFINE b2 == ReduceOrder(book, o)
<1>1. book' = b2 /\ feed' = Report(feed, book, b2, o.Level) /\ result' = "OK"
  BY DEF Shrink, Return
<1>2. Sound(b2, Report(feed, book, b2, o.Level))
  BY ReduceKeepsSound DEF IInv
<1>3. QueueStep(book, b2)
  BY ReduceIsStep DEF IInv, Sound
<1> QED
  BY <1>1, <1>2, <1>3 DEF Kept, ErrorCode

LEMMA EraseKeeps ==
    ASSUME VolumeFits, IInv, LastOK', NEW id \in DOMAIN book.orders,
           NEW code \in ErrorCode, Erase(id, code)
    PROVE  Kept
<1> DEFINE b2 == DeleteOrder(book, id)
<1>1. /\ book' = b2 /\ result' = code
      /\ feed' = Report(feed, book, b2, book.orders[id].Level)
  BY DEF Erase, Return
<1>2. /\ Sound(b2, Report(feed, book, b2, book.orders[id].Level))
      /\ b2.orders = Drop(book.orders, id)
  BY DeleteKeepsSound DEF IInv
<1>3. Unaltered
  BY <1>1, <1>2 DEF Unaltered, Drop
<1>4. QueueStep(book, b2)
  BY DeleteIsStep DEF IInv, Sound
<1> QED
  BY <1>1, <1>2, <1>3, <1>4 DEF Kept

LEMMA RelinkKeeps ==
    ASSUME VolumeFits, IInv, LastOK', NEW id \in DOMAIN book.orders,
           NEW o \in Entrant(OrderIds, MaxQuantity),
           o.Id \notin DOMAIN book.orders \ {id}, WithinQuantity(o), Relink(id, o)
    PROVE  Kept
<1> DEFINE b1 == DeleteOrder(book, id)
           f1 == Report(feed, book, b1, book.orders[id].Level)
           b2 == AddOrder(b1, o)
<1>1. book' = b2 /\ feed' = Report(f1, b1, b2, KeyOf(o)) /\ result' = "OK"
  BY DEF Relink, Return
<1>2. Sound(b1, f1) /\ DOMAIN b1.orders = DOMAIN book.orders \ {id}
  BY DeleteKeepsSound DEF IInv
<1> HIDE DEF b1, f1
<1>3. Sound(b2, Report(f1, b1, b2, KeyOf(o)))
  BY <1>2, AddKeepsSound
<1>4. AllKeys => Enters(b1, b2)
  BY <1>2, AddEnters DEF Sound, Enters
<1>5. QueueStep(book, b2)
  BY <1>4, DeleteThenEnterIsStep DEF IInv, Sound, b1
<1> QED
  BY <1>1, <1>3, <1>5 DEF Kept, ErrorCode

-----------------------------------------------------------------------------
(* One lemma per operation *)

LEMMA AddNewOrderKeeps ==
    ASSUME VolumeFits, IInv, NEW t \in NewOrders, NEW id \in Ids, AddNewOrder(t, id)
    PROVE  Kept
<1>1. Enter(book, feed, MakeOrder(t, id)) /\ Sound(book, feed) /\ LastOK
  BY DEF AddNewOrder, IInv, LastOK
<1>2. /\ Sound(book', feed') /\ LastOK' /\ result' \in ErrorCode
      /\ result' # "OK" => book' = book
      /\ QueueStep(book, book')
  BY <1>1, EnterKeeps, EnterIsStep
<1> QED
  BY <1>2 DEF Kept, Unaltered

LEMMA ReduceOrderKeeps ==
    ASSUME VolumeFits, IInv, NEW id \in Ids, NEW q \in Quantities, ReduceOrderBy(id, q)
    PROVE  Kept
<1>1. CASE Check(id, q) # "OK"
  BY <1>1, CheckType, RejectKeeps DEF ReduceOrderBy
<1>2. CASE Check(id, q) = "OK"
  <2> DEFINE o == Reduced(book.orders[id], q)
  <2>1. id \in DOMAIN book.orders /\ Shrink(o) /\ UNCHANGED last
    BY <1>2, CheckType DEF ReduceOrderBy
  <2>2. q \in Nat /\ MaxQuantity \in Nat
    BY CallAssumption, QueueAssumption DEF UInt64
  <2>3. IsReduced(o, book.orders[id], OrderIds, MaxQuantity) /\ WithinQuantity(o)
    BY <2>1, <2>2, OrderInBook, ReducedIsReduced DEF IInv
  <2>4. LastOK'
    BY <2>1 DEF IInv, LastOK
  <2> QED
    BY <2>1, <2>3, <2>4, ShrinkKeeps
<1> QED
  BY <1>1, <1>2

LEMMA ModifyOrderKeeps ==
    ASSUME VolumeFits, IInv, NEW id \in Ids, NEW p \in Prices, NEW q \in Quantities,
           NEW m \in Mitigations, ModifyOrder(id, p, q, m)
    PROVE  Kept
<1>1. CASE Check(id, q) # "OK"
  BY <1>1, CheckType, RejectKeeps DEF ModifyOrder
<1>2. CASE Check(id, q) = "OK"
  <2> DEFINE new == Modified(book.orders[id], p, q, m)
  <2>1. /\ id \in DOMAIN book.orders /\ q # 0
        /\ IF new.LeavesQuantity > 0 THEN Relink(id, new) ELSE Erase(id, "OK")
    BY <1>2, CheckType DEF ModifyOrder
  <2>2. LastOK'
    BY <1>2 DEF ModifyOrder, IInv, LastOK
  <2>3. CASE new.LeavesQuantity > 0
    <3>1. book.orders[id] \in OrderNode(OrderIds, MaxQuantity) /\ book.orders[id].Id = id
      BY <2>1, OrderInBook DEF IInv
    <3>2. new \in Entrant(OrderIds, MaxQuantity) /\ new.Id = id /\ WithinQuantity(new)
      BY <2>1, <2>3, <3>1, ModifiedIsEntrant
    <3>3. Relink(id, new)
      BY <2>1, <2>3
    <3> HIDE DEF new
    <3> QED
      BY <2>1, <2>2, <3>2, <3>3, RelinkKeeps
  <2>4. CASE ~(new.LeavesQuantity > 0)
    BY <2>1, <2>2, <2>4, EraseKeeps DEF ErrorCode
  <2> QED
    BY <2>3, <2>4
<1> QED
  BY <1>1, <1>2

LEMMA ReplaceOrderKeeps ==
    ASSUME VolumeFits, IInv, NEW id \in Ids, NEW newId \in Ids, NEW p \in Prices,
           NEW q \in Quantities, ReplaceOrder(id, newId, p, q)
    PROVE  Kept
<1>1. CASE newId = 0
  BY <1>1, RejectKeeps DEF ReplaceOrder, ErrorCode
<1>2. CASE newId # 0 /\ Check(id, q) # "OK"
  BY <1>2, CheckType, RejectKeeps DEF ReplaceOrder
<1>3. CASE newId # 0 /\ Check(id, q) = "OK" /\ ~IsLimit(book.orders[id])
  BY <1>3, RejectKeeps DEF ReplaceOrder, ErrorCode
<1>4. CASE newId # 0 /\ Check(id, q) = "OK" /\ IsLimit(book.orders[id])
  <2> DEFINE new == Replaced(book.orders[id], newId, p, q)
  <2>1. /\ id \in DOMAIN book.orders /\ q # 0 /\ newId \in OrderIds
        /\ IF newId \in DOMAIN book.orders \ {id}
           THEN Erase(id, "ORDER_DUPLICATE") ELSE Relink(id, new)
    BY <1>4, CheckType DEF ReplaceOrder, OrderIds
  <2>2. LastOK'
    BY <1>4 DEF ReplaceOrder, IInv, LastOK
  <2>3. CASE newId \in DOMAIN book.orders \ {id}
    BY <2>1, <2>2, <2>3, EraseKeeps DEF ErrorCode
  <2>4. CASE newId \notin DOMAIN book.orders \ {id}
    <3>1. book.orders[id] \in OrderNode(OrderIds, MaxQuantity)
      BY <2>1, OrderInBook DEF IInv
    <3>2. new \in Entrant(OrderIds, MaxQuantity) /\ new.Id = newId /\ WithinQuantity(new)
      BY <2>1, <3>1, ReplacedIsEntrant
    <3>3. Relink(id, new)
      BY <2>1, <2>4
    <3> HIDE DEF new
    <3> QED
      BY <2>1, <2>2, <2>4, <3>2, <3>3, RelinkKeeps
  <2> QED
    BY <2>3, <2>4
<1> QED
  BY <1>1, <1>2, <1>3, <1>4

LEMMA CancelOrderKeeps ==
    ASSUME VolumeFits, IInv, NEW id \in Ids, CancelOrder(id)
    PROVE  Kept
<1>1. CASE Check(id, 1) # "OK"
  BY <1>1, CheckType, RejectKeeps DEF CancelOrder
<1>2. CASE Check(id, 1) = "OK"
  <2>1. id \in DOMAIN book.orders /\ Erase(id, "OK")
    BY <1>2, CheckType DEF CancelOrder
  <2>2. LastOK'
    BY <1>2 DEF CancelOrder, IInv, LastOK
  <2> QED
    BY <2>1, <2>2, EraseKeeps DEF ErrorCode
<1> QED
  BY <1>1, <1>2

LEMMA ReplaceOrderWithKeeps ==
    ASSUME VolumeFits, IInv, NEW id \in Ids, NEW t \in NewOrders, NEW newId \in Ids,
           ReplaceOrderWith(id, t, newId)
    PROVE  Kept
<1>1. CASE Check(id, 1) # "OK"
  BY <1>1, CheckType, RejectKeeps DEF ReplaceOrderWith
<1>2. CASE Check(id, 1) = "OK"
  <2> DEFINE b1 == DeleteOrder(book, id)
             f1 == Report(feed, book, b1, book.orders[id].Level)
  <2>1. id \in DOMAIN book.orders /\ Enter(b1, f1, MakeOrder(t, newId)) /\ LastOK
    BY <1>2, CheckType DEF ReplaceOrderWith, IInv, LastOK
  <2>2. Sound(b1, f1) /\ b1.orders = Drop(book.orders, id)
    BY <2>1, DeleteKeepsSound DEF IInv
  <2> HIDE DEF b1, f1
  <2>3. /\ Sound(book', feed') /\ LastOK' /\ result' \in ErrorCode
        /\ result' # "OK" => book' = b1
        /\ AllKeys => book' = b1 \/ Enters(b1, book')
    BY <2>1, <2>2, EnterKeeps
  <2>4. QueueStep(book, book')
    BY <2>1, <2>3, DeleteThenEnterIsStep DEF IInv, Sound, b1
  <2> QED
    BY <2>2, <2>3, <2>4 DEF Kept, Unaltered, Drop
<1> QED
  BY <1>1, <1>2

LEMMA ExecuteOrderAtKeeps ==
    ASSUME VolumeFits, IInv, NEW id \in Ids, NEW p \in UInt64, NEW q \in Quantities,
           ExecuteOrderAt(id, p, q)
    PROVE  Kept
<1>1. CASE Check(id, q) # "OK"
  BY <1>1, CheckType, RejectKeeps DEF ExecuteOrderAt
<1>2. CASE Check(id, q) = "OK"
  <2> DEFINE old == book.orders[id]
             done == Lesser(q, old.LeavesQuantity)
             o == Executed(old, done)
  <2>1. id \in DOMAIN book.orders
    BY <1>2, CheckType
  <2>2. /\ last' = [last EXCEPT ![IF IsBuy(old) THEN "bid" ELSE "ask"] = p]
        /\ Shrink(o)
    BY <1>2 DEF ExecuteOrderAt
  <2>3. LastOK'
    BY <2>2 DEF IInv, LastOK
  <2>4. q \in Nat /\ MaxQuantity \in Nat
    BY CallAssumption, QueueAssumption DEF UInt64
  <2>5. old \in OrderNode(OrderIds, MaxQuantity) /\ WithinQuantity(old)
    BY <2>1, OrderInBook DEF IInv
  <2>6. done \in Nat /\ done <= old.LeavesQuantity
    BY <2>4, <2>5 DEF OrderNode, Lesser
  <2>7. IsReduced(o, old, OrderIds, MaxQuantity) /\ WithinQuantity(o)
    BY <2>4, <2>5, <2>6, ReducedIsReduced
  <2> QED
    BY <2>1, <2>2, <2>3, <2>7, ShrinkKeeps
<1> QED
  BY <1>1, <1>2

LEMMA ExecuteOrderKeeps ==
    ASSUME VolumeFits, IInv, NEW id \in Ids, NEW q \in Quantities, ExecuteOrder(id, q)
    PROVE  Kept
<1> DEFINE p == IF id \in DOMAIN book.orders THEN book.orders[id].Price ELSE 0
<1>1. p \in UInt64
  <2>1. 0 \in UInt64
    BY WidthAssumption DEF UInt64
  <2>2. id \in DOMAIN book.orders => book.orders[id] \in OrderNode(OrderIds, MaxQuantity)
    BY OrderInBook DEF IInv
  <2> QED
    BY <2>1, <2>2 DEF OrderNode
<1>2. ExecuteOrderAt(id, p, q)
  BY DEF ExecuteOrder
<1> HIDE DEF p
<1> QED
  BY <1>1, <1>2, ExecuteOrderAtKeeps

-----------------------------------------------------------------------------
(* The invariant *)

\* The empty book is sound, and so is what a new handler knows of it.
LEMMA InitIsSound ==
    ASSUME Init
    PROVE  IInv
<1>1. EmptyBook.levels = [k \in {} |-> EmptyLevel] /\ EmptyBook.best = [c \in Collections |-> NoPrice]
  BY DEF EmptyBook
<1>2. Valid(EmptyBook) /\ DOMAIN EmptyBook.orders = {}
  BY EmptyBookIsValid
<1>3. FeedOK(feed)
  <2>1. /\ feed.levels = [k \in {} |-> Snapshot(EmptyLevel)]
        /\ feed.best = QuotedBest(EmptyBook)
        /\ feed = [levels |-> feed.levels, best |-> feed.best]
    BY DEF Init
  <2>2. QuotedBest(EmptyBook) \in [{"bids", "asks"} -> UInt64 \cup {NoPrice}]
    BY <1>1 DEF QuotedBest, Collections, BidCollections, AskCollections
  <2> QED
    BY <2>1, <2>2 DEF FeedOK, IsMap
<1>4. FeedFollows(feed, EmptyBook)
  <2>1. feed.levels = [k \in {} |-> Snapshot(EmptyLevel)]
    BY DEF Init
  <2>2. {l \in DOMAIN EmptyBook.levels : IsQuoted(l)} = {}
    BY <1>1
  <2> QED
    BY <2>1, <2>2 DEF FeedFollows
<1>5. QuotesFollow(feed, EmptyBook)
  BY <1>1 DEF QuotesFollow, Collections, BidCollections, AskCollections
<1>6. last \in [bid : UInt64, ask : UInt64] /\ result \in ErrorCode
  BY WidthAssumption DEF Init, UInt64, ErrorCode
<1> QED
  BY <1>2, <1>3, <1>4, <1>5, <1>6 DEF IInv, Sound, Init

\* Every call keeps the invariant.
LEMMA NextKeeps ==
    ASSUME VolumeFits, IInv, Next
    PROVE  Kept
<1>1. PICK id \in Ids :
         \/ \E t \in NewOrders : AddNewOrder(t, id)
         \/ \E q \in Quantities : ReduceOrderBy(id, q)
         \/ \E p \in Prices, q \in Quantities, m \in Mitigations : ModifyOrder(id, p, q, m)
         \/ \E newId \in Ids, p \in Prices, q \in Quantities : ReplaceOrder(id, newId, p, q)
         \/ \E t \in NewOrders, newId \in Ids : ReplaceOrderWith(id, t, newId)
         \/ CancelOrder(id)
         \/ \E q \in Quantities : ExecuteOrder(id, q)
         \/ \E p \in Prices, q \in Quantities : ExecuteOrderAt(id, p, q)
  BY DEF Next
<1>2. CASE \E t \in NewOrders : AddNewOrder(t, id)
  BY <1>2, AddNewOrderKeeps
<1>3. CASE \E q \in Quantities : ReduceOrderBy(id, q)
  BY <1>3, ReduceOrderKeeps
<1>4. CASE \E p \in Prices, q \in Quantities, m \in Mitigations : ModifyOrder(id, p, q, m)
  BY <1>4, ModifyOrderKeeps
<1>5. CASE \E newId \in Ids, p \in Prices, q \in Quantities : ReplaceOrder(id, newId, p, q)
  BY <1>5, ReplaceOrderKeeps
<1>6. CASE \E t \in NewOrders, newId \in Ids : ReplaceOrderWith(id, t, newId)
  BY <1>6, ReplaceOrderWithKeeps
<1>7. CASE CancelOrder(id)
  BY <1>7, CancelOrderKeeps
<1>8. CASE \E q \in Quantities : ExecuteOrder(id, q)
  BY <1>8, ExecuteOrderKeeps
<1>9. CASE \E p \in Prices, q \in Quantities : ExecuteOrderAt(id, p, q)
  <2>1. Prices \subseteq UInt64
    BY CallAssumption, QueueAssumption
  <2> QED
    BY <1>9, <2>1, ExecuteOrderAtKeeps
<1> QED
  BY <1>1, <1>2, <1>3, <1>4, <1>5, <1>6, <1>7, <1>8, <1>9

\* What the invariant says, in the words of the properties that TLC checks.
LEMMA InvariantMeans ==
    ASSUME IInv
    PROVE  /\ TypeOK
           /\ LinksAgree /\ VolumesAgree /\ BestAgrees
           /\ FeedIsComplete /\ NoMissedImprovement
           /\ Mitigations \subseteq {TRUE} => NotOverfilled
<1>1. IsBook(book, OrderIds, MaxQuantity) /\ IsConsistent(book) /\ FeedOK(feed)
  BY DEF IInv, Sound, Valid, BookInv
<1>2. TypeOK
  BY <1>1 DEF IInv, TypeOK, FeedOK, OrderIds
<1>3. LinksAgree /\ VolumesAgree /\ BestAgrees
  BY <1>1 DEF IsConsistent, LinksAgree, VolumesAgree, BestAgrees
<1>4. FeedIsComplete
  BY DEF IInv, Sound, FeedFollows, FeedIsComplete
<1>5. NoMissedImprovement
  BY DEF IInv, Sound, QuotesFollow, NoMissedImprovement
<1>6. Mitigations \subseteq {TRUE} => NotOverfilled
  BY DEF IInv, Sound, WithinQuantity, NotOverfilled
<1> QED
  BY <1>2, <1>3, <1>4, <1>5, <1>6

\* The invariant is inductive.
THEOREM InvariantHolds ==
    ASSUME VolumeFits
    PROVE  Spec => []IInv
<1>1. Init => IInv
  BY InitIsSound
<1>2. IInv /\ [Next]_vars => IInv'
  <2>1. ASSUME IInv, Next PROVE IInv'
    BY <2>1, NextKeeps DEF Kept, LastOK, IInv
  <2>2. ASSUME IInv, UNCHANGED vars PROVE IInv'
    BY <2>2 DEF vars, IInv, Sound, Valid, BookInv, FeedOK, FeedFollows, QuotesFollow
  <2> QED
    BY <2>1, <2>2
<1> QED
  BY <1>1, <1>2, PTL DEF Spec

-----------------------------------------------------------------------------
(* The theorems *)

\* Types: every resting order has a positive quantity, no larger than any that the
\* caller asked for, and every volume and price stays in its width.
THEOREM TypesHold ==
    ASSUME VolumeFits
    PROVE  Spec => []TypeOK
<1>1. IInv => TypeOK
  BY InvariantMeans
<1> QED
  BY <1>1, InvariantHolds, PTL

\* The index of orders and the lists of the levels agree.
THEOREM LinksHold ==
    ASSUME VolumeFits
    PROVE  Spec => []LinksAgree
<1>1. IInv => LinksAgree
  BY InvariantMeans
<1> QED
  BY <1>1, InvariantHolds, PTL

\* The volumes kept by differences are the sums over the linked orders.
THEOREM VolumesHold ==
    ASSUME VolumeFits
    PROVE  Spec => []VolumesAgree
<1>1. IInv => VolumesAgree
  BY InvariantMeans
<1> QED
  BY <1>1, InvariantHolds, PTL

\* The cached best levels are the best of their collections.
THEOREM BestHolds ==
    ASSUME VolumeFits
    PROVE  Spec => []BestAgrees
<1>1. IInv => BestAgrees
  BY InvariantMeans
<1> QED
  BY <1>1, InvariantHolds, PTL

\* A handler that applies every level update has the levels of the book.
THEOREM FeedHolds ==
    ASSUME VolumeFits
    PROVE  Spec => []FeedIsComplete
<1>1. IInv => FeedIsComplete
  BY InvariantMeans
<1> QED
  BY <1>1, InvariantHolds, PTL

\* A handler that reads the best prices whenever the top-of-the-book flag is set
\* never takes the market for worse than it is.
THEOREM QuotesHold ==
    ASSUME VolumeFits
    PROVE  Spec => []NoMissedImprovement
<1>1. IInv => NoMissedImprovement
  BY InvariantMeans
<1> QED
  BY <1>1, InvariantHolds, PTL

\* In-flight mitigation: if every modification goes through MitigateOrder, no order
\* is ever open for more than was asked for, less what it executed.
THEOREM FillsHold ==
    ASSUME VolumeFits, Mitigations \subseteq {TRUE}
    PROVE  Spec => []NotOverfilled
<1>1. IInv => NotOverfilled
  BY InvariantMeans
<1> QED
  BY <1>1, InvariantHolds, PTL

\* A failed call alters no order that rests after it.
THEOREM FailuresHold ==
    ASSUME VolumeFits
    PROVE  Spec => FailureAltersNoOrder
<1> DEFINE Harmless == result' # "OK" => Unaltered
<1>1. IInv /\ [Next]_vars => [Harmless]_vars
  <2>1. ASSUME IInv, Next PROVE Harmless
    BY <2>1, NextKeeps DEF Kept
  <2> QED
    BY <2>1
<1>2. Spec => [][Harmless]_vars
  BY <1>1, InvariantHolds, PTL DEF Spec
<1> QED
  BY <1>2 DEF FailureAltersNoOrder, Unaltered

\* Orders keep price-time priority: whatever the caller does, the book implements
\* the queues, one for every collection and price.
THEOREM PriorityHolds ==
    ASSUME VolumeFits, QueueKeys = LevelKey
    PROVE  Spec => KeepsPriceTimePriority
<1> DEFINE q == QueuesOf(book)
<1>1. Init => Queues!Init
  BY DEF Init, EmptyBook, QueuesOf, QueueAt, Queues!Init
<1>2. IInv /\ [Next]_vars => [Queues!Next]_q
  <2>1. ASSUME IInv, Next PROVE [Queues!Next]_q
    <3>1. QueueStep(book, book')
      BY <2>1, NextKeeps DEF Kept
    <3>2. q' = q \/ Queues!Step(q, q')
      BY <3>1 DEF QueueStep, AllKeys
    <3> QED
      BY <3>2 DEF Queues!Next
  <2>2. ASSUME UNCHANGED vars PROVE q' = q
    BY <2>2 DEF vars
  <2> QED
    BY <2>1, <2>2
<1> QED
  BY <1>1, <1>2, InvariantHolds, PTL DEF Spec, KeepsPriceTimePriority, Queues!Spec
=============================================================================

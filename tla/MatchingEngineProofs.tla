------------------------- MODULE MatchingEngineProofs -------------------------
(***************************************************************************)
(* The invariant of automatic matching, proved for any ids, orders and      *)
(* operations whose total volume fits uint64_t: between any two steps of a  *)
(* call, however deep matching has re-entered itself, the book is           *)
(* consistent, the call stack well formed, and the orders keep their        *)
(* price-time priority.  Trailing orders follow the market, and Match ends  *)
(* on a book that is not crossed.                                           *)
(***************************************************************************)
EXTENDS MatchingEngine, OrderBookProofs

\* An order in the hands of the manager: being entered, matched or moved.
Pending ==
    [Id : OrderIds, Type : OrderType, Side : OrderSide,
     Price : UInt64, StopPrice : UInt64,
     Quantity : 1 .. MaxQuantity, ExecutedQuantity : Nat, LeavesQuantity : 0 .. MaxQuantity,
     TimeInForce : OrderTimeInForce, MaxVisibleQuantity : UInt64, Slippage : UInt64,
     TrailingDistance : Int, TrailingStep : Int, Level : LevelKey \cup {NoLevel}]

Unlinked(o) == o \in Pending /\ o.Level = NoLevel

\* Calls that enter orders are outermost; then the end of one of them, the matching of
\* its taker, and the executions and internal calls of that.
Rank(f) ==
    IF f.at \in {"match_order", "take", "filled"} THEN 2
    ELSE IF f.at = "finish" THEN 1
    ELSE IF f.at \in {"chain", "pair", "reducing", "ask_chain"} THEN 3
    ELSE IF f.at = "match" /\ f.internal THEN 3 ELSE 0

\* One taker at a time is matched.
Under(f, g) == Rank(f) <= Rank(g) /\ (Rank(f) \in {1, 2} => Rank(f) # Rank(g))

Ordered(s) == \A i, j \in 1 .. Len(s) : i < j => Under(s[i], s[j])

\* What a frame knows of the taker.
Serves(f, t) ==
    /\ Rank(f) \in {1, 2} => Unlinked(t)
    /\ f.at = "match_order" => t.LeavesQuantity > 0
    /\ f.at = "take" => f.quantity <= t.LeavesQuantity

StackOK(s, t) == /\ s \in Seq(Frame)
                 /\ Ordered(s)
                 /\ \A i \in 1 .. Len(s) : Serves(s[i], t)

MarketPrices == [bid : UInt64, ask : UInt64]

\* The inductive invariant.
IInv == /\ Valid(book)
        /\ matching \in MarketPrices /\ last \in MarketPrices /\ trailing \in MarketPrices
        /\ enabled \in BOOLEAN /\ fault \in BOOLEAN /\ net \in Int
        /\ taker = NoTaker \/ Unlinked(taker)
        /\ StackOK(calls, taker)

\* What every step gives.
Kept == IInv' /\ QueueStep(book, book')

-----------------------------------------------------------------------------
(* Numbers *)

LEMMA Numbers ==
    /\ UInt64 \subseteq Nat /\ 0 \in UInt64 /\ OrderIntMax \in UInt64 /\ UInt64Size \in Nat
    /\ MaxQuantity \in Nat /\ 0 .. MaxQuantity \subseteq UInt64
    /\ OrderIds = Ids
    /\ NoMatchingPrice \in MarketPrices
<1>1. UInt64 \subseteq Nat /\ 0 \in UInt64 /\ OrderIntMax \in UInt64 /\ UInt64Size \in Nat
  BY WidthAssumption DEF UInt64
<1>2. MaxQuantity \in Nat /\ 0 .. MaxQuantity \subseteq UInt64
  BY WidthAssumption, QueueAssumption DEF UInt64
<1>3. OrderIds = Ids
  BY CallAssumption DEF OrderIds
<1>4. NoMatchingPrice \in MarketPrices
  BY <1>1 DEF NoMatchingPrice, MarketPrices
<1> QED
  BY <1>1, <1>2, <1>3, <1>4

\* Sums and differences of two prices stay prices.
LEMMA WrapType ==
    ASSUME NEW m \in UInt64, NEW n \in UInt64
    PROVE  Wrap(m + n) \in UInt64 /\ Wrap(m - n) \in UInt64
BY WidthAssumption DEF Wrap, UInt64

LEMMA LesserType ==
    ASSUME NEW m \in 1 .. MaxQuantity, NEW n \in 1 .. MaxQuantity
    PROVE  Lesser(m, n) \in 1 .. MaxQuantity /\ Lesser(m, n) <= m /\ Lesser(m, n) <= n
           /\ Lesser(m, n) \in Nat
BY Numbers DEF Lesser

LEMMA PositiveType ==
    ASSUME NEW n \in 0 .. MaxQuantity, n > 0
    PROVE  n \in 1 .. MaxQuantity
BY Numbers

LEMMA PriceUpdated ==
    ASSUME NEW pair \in MarketPrices, NEW o, NEW price \in UInt64
    PROVE  WithPrice(pair, o, price) \in MarketPrices
<1>1. PriceSide(o) \in {"bid", "ask"}
  BY DEF PriceSide
<1> QED
  BY <1>1 DEF WithPrice, MarketPrices

-----------------------------------------------------------------------------
(* Orders in the hands of the manager *)

\* A new order.
LEMMA NewOrderIsUnlinked ==
    ASSUME NEW t \in NewOrders, NEW id \in Ids
    PROVE  Unlinked(MakeOrder(t, id)) /\ MakeOrder(t, id).LeavesQuantity > 0
<1>1. t \in Template /\ t.Quantity \in 1 .. MaxQuantity /\ id \in OrderIds
  BY CallAssumption, Numbers
<1> QED
  BY <1>1, Numbers DEF Template, MakeOrder, Unlinked, Pending

\* An order of the book, taken in hand.
LEMMA LinkedIsPending ==
    ASSUME NEW b, Valid(b), NEW id \in DOMAIN b.orders
    PROVE  /\ b.orders[id] \in Pending /\ b.orders[id] \in OrderNode(OrderIds, MaxQuantity)
           /\ b.orders[id].Id = id /\ id \in OrderIds
           /\ b.orders[id].LeavesQuantity \in 1 .. MaxQuantity
           /\ b.orders[id].Level = KeyOf(b.orders[id])
           /\ b.orders[id].Level \in DOMAIN b.levels /\ b.orders[id].Level \in LevelKey
<1>1. OrderOK(b, id, OrderIds, MaxQuantity) /\ BookShape(b, OrderIds)
  BY BookInvParts DEF Valid
<1>2. b.orders[id] \in Pending
  BY <1>1, Numbers DEF OrderOK, OrderNode, Pending
<1> QED
  BY <1>1, <1>2 DEF OrderOK, OrderNode, BookShape

\* An order with something left that may rest can be linked.
LEMMA PendingIsEntrant ==
    ASSUME NEW o \in Pending, o.LeavesQuantity > 0, o.Type # "MARKET"
    PROVE  o \in Entrant(OrderIds, MaxQuantity)
BY Numbers DEF Pending, Entrant

LEMMA RestingIsNoMarket ==
    ASSUME NEW o, Resting(o)
    PROVE  o.Type # "MARKET"
BY DEF Resting, IsLimit, StopTypes, TrailingTypes

LEMMA TakenInHand ==
    ASSUME NEW o \in Pending
    PROVE  /\ Unlinked([o EXCEPT !.Level = NoLevel])
           /\ [o EXCEPT !.Level = NoLevel].LeavesQuantity = o.LeavesQuantity
BY DEF Pending, Unlinked

\* What is executed of a taker.
LEMMA TakerExecuted ==
    ASSUME NEW o, Unlinked(o), NEW quantity \in Nat
    PROVE  /\ Unlinked(Executed(o, quantity))
           /\ quantity < o.LeavesQuantity => Executed(o, quantity).LeavesQuantity > 0
<1> DEFINE leaves == o.LeavesQuantity - Lesser(quantity, o.LeavesQuantity)
           executed == o.ExecutedQuantity + quantity
<1>1. o.LeavesQuantity \in 0 .. MaxQuantity /\ o.ExecutedQuantity \in Nat /\ MaxQuantity \in Nat
  BY Numbers DEF Unlinked, Pending
<1>2. /\ leaves \in 0 .. MaxQuantity /\ executed \in Nat
      /\ quantity < o.LeavesQuantity => leaves > 0
  BY <1>1 DEF Lesser
<1>3. Executed(o, quantity) =
         [o EXCEPT !.ExecutedQuantity = executed, !.LeavesQuantity = leaves]
  BY DEF Executed
<1> HIDE DEF leaves, executed
<1> QED
  BY <1>2, <1>3 DEF Unlinked, Pending

\* What is executed of, or taken off, an order of the book.
LEMMA LessIsReduced ==
    ASSUME NEW old \in OrderNode(OrderIds, MaxQuantity), NEW quantity \in Nat
    PROVE  /\ IsReduced(Reduced(old, quantity), old, OrderIds, MaxQuantity)
           /\ IsReduced(Executed(old, quantity), old, OrderIds, MaxQuantity)
<1> DEFINE leaves == old.LeavesQuantity - Lesser(quantity, old.LeavesQuantity)
           executed == old.ExecutedQuantity + quantity
<1>1. old.LeavesQuantity \in 1 .. MaxQuantity /\ old.ExecutedQuantity \in Nat
  BY DEF OrderNode
<1>2. leaves \in 0 .. old.LeavesQuantity /\ executed \in Nat
  BY <1>1 DEF Lesser
<1>3. leaves > 0 => leaves \in 1 .. MaxQuantity
  BY <1>1, <1>2, Numbers
<1>4. /\ Reduced(old, quantity) = [old EXCEPT !.LeavesQuantity = leaves]
      /\ Executed(old, quantity) =
            [old EXCEPT !.ExecutedQuantity = executed, !.LeavesQuantity = leaves]
  BY DEF Reduced, Executed
<1> HIDE DEF leaves, executed
<1>5. IsReduced([old EXCEPT !.LeavesQuantity = leaves], old, OrderIds, MaxQuantity)
  BY <1>2, <1>3 DEF OrderNode, IsReduced
<1>6. IsReduced([old EXCEPT !.ExecutedQuantity = executed, !.LeavesQuantity = leaves],
                old, OrderIds, MaxQuantity)
  BY <1>2, <1>3 DEF OrderNode, IsReduced
<1> QED
  BY <1>4, <1>5, <1>6

\* An order that is modified or replaced.
LEMMA ModifiedIsPending ==
    ASSUME NEW o \in Pending, NEW price \in Prices, NEW quantity \in Quantities,
           NEW mitigate \in BOOLEAN
    PROVE  Modified(o, price, quantity, mitigate) \in Pending
<1> DEFINE leaves == IF ~mitigate THEN quantity
                     ELSE IF quantity > o.ExecutedQuantity
                          THEN quantity - o.ExecutedQuantity ELSE 0
<1>1. price \in UInt64 /\ quantity \in 1 .. MaxQuantity /\ o.ExecutedQuantity \in Nat
  BY CallAssumption DEF Pending
<1>2. leaves \in 0 .. MaxQuantity
  BY <1>1, Numbers
<1>3. Modified(o, price, quantity, mitigate) =
         [o EXCEPT !.Price = price, !.Quantity = quantity, !.LeavesQuantity = leaves]
  BY DEF Modified
<1> HIDE DEF leaves
<1> QED
  BY <1>1, <1>2, <1>3 DEF Pending

LEMMA ReplacedIsPending ==
    ASSUME NEW o \in Pending, NEW newId \in Ids, NEW price \in Prices,
           NEW quantity \in Quantities
    PROVE  /\ Replaced(o, newId, price, quantity) \in Pending
           /\ Replaced(o, newId, price, quantity).LeavesQuantity > 0
<1>1. /\ price \in UInt64 /\ quantity \in 1 .. MaxQuantity /\ newId \in OrderIds
      /\ quantity \in 0 .. MaxQuantity /\ quantity > 0
  BY CallAssumption, Numbers
<1> QED
  BY <1>1 DEF Replaced, Pending

LEMMA ActivatedIsPending ==
    ASSUME NEW o \in Pending
    PROVE  Activated(o) \in Pending /\ Activated(o).LeavesQuantity = o.LeavesQuantity
<1> DEFINE tif == IF IsFOK(o) THEN "FOK" ELSE "IOC"
<1>1. tif \in OrderTimeInForce /\ {"MARKET", "LIMIT"} \subseteq OrderType /\ 0 \in UInt64
  BY Numbers DEF OrderTimeInForce, OrderType
<1>2. Activated(o) \in {[o EXCEPT !.Type = "MARKET", !.Price = 0, !.StopPrice = 0,
                                  !.TimeInForce = tif],
                        [o EXCEPT !.Type = "LIMIT", !.StopPrice = 0]}
  BY DEF Activated
<1> HIDE DEF tif
<1> QED
  BY <1>1, <1>2 DEF Pending

\* A market order as MatchMarket prices it.
LEMMA PricedIsPending ==
    ASSUME NEW b, Valid(b), NEW o \in Pending
    PROVE  Priced(b, o) \in Pending /\ Priced(b, o).LeavesQuantity = o.LeavesQuantity
<1>1. CASE IsMarket(o) /\ HasBest(b, Opposite(o))
  <2> DEFINE best == b.best[Opposite(o)]
             price == AcceptablePrice(b, o)
  <2>1. best \in UInt64 /\ o.Slippage \in UInt64
    <3>1. b.best \in Bests /\ Opposite(o) \in Collections
      BY BookInvParts DEF Valid, Opposite, Collections, BidCollections, AskCollections
    <3> QED
      BY <1>1, <3>1 DEF Bests, HasBest, Pending
  <2>2. price \in UInt64
    <3>1. price \in {OrderIntMax, Wrap(best + o.Slippage), Wrap(best - o.Slippage)}
      BY DEF AcceptablePrice
    <3> HIDE DEF price, best
    <3> QED
      BY <2>1, <3>1, WrapType, Numbers
  <2>3. Priced(b, o) = [o EXCEPT !.Price = price]
    BY <1>1 DEF Priced
  <2> HIDE DEF price
  <2> QED
    BY <2>2, <2>3 DEF Pending
<1>2. CASE ~(IsMarket(o) /\ HasBest(b, Opposite(o)))
  BY <1>2 DEF Priced
<1> QED
  BY <1>1, <1>2

\* An order with the stop price that follows the market.
LEMMA FollowingIsPending ==
    ASSUME NEW b, Valid(b), NEW l \in MarketPrices, NEW o \in Pending
    PROVE  LET p == WithTrailingStop(b, l, o)
           IN p \in Pending /\ p.Id = o.Id /\ p.LeavesQuantity = o.LeavesQuantity
                            /\ p.Type = o.Type /\ p.Level = o.Level
<1> DEFINE stop == CalculateTrailingStopPrice(b, l, o)
           distance == Wrap(o.Price - o.StopPrice)
           price == Wrap(stop + distance)
<1>1. stop \in UInt64
  <2>1. b.best \in Bests
    BY BookInvParts DEF Valid
  <2> QED
    BY <2>1, TrailingStopPriceType DEF Pending, MarketPrices
<1> HIDE DEF stop
<1>2. distance \in UInt64
  BY WrapType DEF Pending
<1> HIDE DEF distance
<1>3. price \in UInt64
  BY <1>1, <1>2, WrapType
<1>4. WithTrailingStop(b, l, o) \in {[o EXCEPT !.StopPrice = stop],
                                     [o EXCEPT !.StopPrice = stop, !.Price = price], o}
  BY DEF WithTrailingStop, stop, price, distance
<1> HIDE DEF price
<1> QED
  BY <1>1, <1>3, <1>4 DEF Pending

-----------------------------------------------------------------------------
(* Frames *)

LEMMA RankType ==
    ASSUME NEW f
    PROVE  Rank(f) \in 0 .. 3
BY DEF Rank

LEMMA RankOrder ==
    ASSUME NEW f, NEW g
    PROVE  /\ Rank(f) = 0 => Rank(f) <= Rank(g) /\ Under(f, g)
           /\ Rank(f) = 2 /\ Rank(g) = 2 => Rank(f) <= Rank(g)
           /\ Rank(g) = 3 => Rank(f) <= Rank(g) /\ Under(f, g)
           /\ Rank(f) = 1 /\ Rank(g) = 2 => Under(f, g)
BY RankType DEF Under

\* The fields of a frame, by its label.
LEMMA FrameParts ==
    ASSUME NEW f \in Frame
    PROVE  /\ f.at \in MatchLabels => f \in MatchFrames
           /\ f.at = "match_order" => f \in MatchOrderFrames
           /\ f.at = "take" => f \in TakeFrames
           /\ f.at = "chain" => f \in ChainFrames
           /\ f.at = "pair" => f \in PairFrames
           /\ f.at = "reducing" => f \in ReducingFrames
           /\ f.at = "ask_chain" => f \in AskChainFrames
           /\ f.at = "activate" => f \in ActivateFrames
           /\ f.at = "recalculate" => f \in RecalculateFrames
           /\ f.at = "walk" => f \in WalkFrames
           /\ f.at = "add" => f \in AddFrames
<1>1. /\ \A g \in MatchFrames : g.at \in MatchLabels
      /\ \A g \in MatchOrderFrames : g.at = "match_order"
      /\ \A g \in TakeFrames : g.at = "take"
      /\ \A g \in ChainFrames : g.at = "chain"
      /\ \A g \in PairFrames : g.at = "pair"
      /\ \A g \in ReducingFrames : g.at = "reducing"
      /\ \A g \in AskChainFrames : g.at = "ask_chain"
  BY DEF MatchFrames, MatchOrderFrames, TakeFrames, ChainFrames, PairFrames, ReducingFrames,
         AskChainFrames
<1>2. /\ \A g \in ActivateFrames : g.at = "activate"
      /\ \A g \in RecalculateFrames : g.at = "recalculate"
      /\ \A g \in WalkFrames : g.at = "walk"
      /\ \A g \in AddFrames : g.at = "add"
      /\ \A g \in {FilledFrame, FinishFrame, ResetFrame} : g.at \in {"filled", "finish", "reset"}
  BY DEF ActivateFrames, RecalculateFrames, WalkFrames, AddFrames, AddFrame, FilledFrame,
         FinishFrame, ResetFrame
<1>3. f \in MatchFrames \cup MatchOrderFrames \cup TakeFrames \cup ChainFrames
         \cup PairFrames \cup ReducingFrames \cup AskChainFrames
         \cup ActivateFrames \cup RecalculateFrames \cup WalkFrames \cup AddFrames
         \cup {FilledFrame, FinishFrame, ResetFrame}
  BY DEF Frame
<1>4. f.at \in MatchLabels => f \in MatchFrames
  BY <1>1, <1>2, <1>3 DEF MatchLabels
<1>5. /\ f.at = "match_order" => f \in MatchOrderFrames
      /\ f.at = "take" => f \in TakeFrames
      /\ f.at = "chain" => f \in ChainFrames
      /\ f.at = "pair" => f \in PairFrames
  BY <1>1, <1>2, <1>3 DEF MatchLabels
<1>6. /\ f.at = "reducing" => f \in ReducingFrames
      /\ f.at = "ask_chain" => f \in AskChainFrames
      /\ f.at = "activate" => f \in ActivateFrames
      /\ f.at = "recalculate" => f \in RecalculateFrames
  BY <1>1, <1>2, <1>3 DEF MatchLabels
<1>7. /\ f.at = "walk" => f \in WalkFrames
      /\ f.at = "add" => f \in AddFrames
  BY <1>1, <1>2, <1>3 DEF MatchLabels
<1> QED
  BY <1>4, <1>5, <1>6, <1>7

\* The rank of a frame, by its label.
LEMMA RankOfLabel ==
    ASSUME NEW f
    PROVE  /\ f.at \in {"match_order", "take", "filled"} => Rank(f) = 2
           /\ f.at = "finish" => Rank(f) = 1
           /\ f.at \notin {"match_order", "take", "filled", "finish"} =>
                 Rank(f) # 1 /\ Rank(f) # 2
<1>1. CASE f.at \in {"match_order", "take", "filled"}
  <2>1. Rank(f) = 2 /\ f.at # "finish"
    BY <1>1 DEF Rank
  <2> QED
    BY <1>1, <2>1, Zenon
<1>2. CASE f.at = "finish"
  <2>1. Rank(f) = 1
    BY <1>2 DEF Rank
  <2>2. f.at \notin {"match_order", "take", "filled"}
    BY <1>2
  <2> QED
    BY <1>2, <2>1, <2>2, Zenon
<1>3. CASE f.at \notin {"match_order", "take", "filled", "finish"}
  <2>1. Rank(f) \in {0, 3}
    BY <1>3 DEF Rank
  <2>2. Rank(f) # 1 /\ Rank(f) # 2
    BY <2>1
  <2> QED
    BY <1>3, <2>2, Zenon
<1> QED
  BY <1>1, <1>2, <1>3, Zenon

\* The frames that serve no taker.
LEMMA FrameOfRank ==
    ASSUME NEW f, Rank(f) \in {0, 3}
    PROVE  \A t : Serves(f, t)
<1>1. Rank(f) # 1 /\ Rank(f) # 2 /\ Rank(f) \notin {1, 2}
  OBVIOUS
<1>2. f.at \notin {"match_order", "take"}
  BY <1>1, RankOfLabel, Zenon
<1> QED
  BY <1>1, <1>2, Zenon DEF Serves

LEMMA MatchFrameType ==
    ASSUME NEW internal \in BOOLEAN, NEW resets \in BOOLEAN
    PROVE  LET f == MatchFrame(internal, resets)
           IN f \in Frame /\ Rank(f) = IF internal THEN 3 ELSE 0
BY DEF MatchFrame, Frame, MatchFrames, MatchLabels, Rank

LEMMA MatchOrderFrameType ==
    ASSUME NEW next \in AnyOrder, NEW t, Unlinked(t), t.LeavesQuantity > 0
    PROVE  LET f == MatchOrderFrame(next) IN f \in Frame /\ Rank(f) = 2 /\ Serves(f, t)
BY DEF MatchOrderFrame, Frame, MatchOrderFrames, Rank, Serves

LEMMA TakeFrameType ==
    ASSUME NEW price \in UInt64, NEW quantity \in 1 .. MaxQuantity, NEW next \in AnyOrder,
           NEW t, Unlinked(t), quantity <= t.LeavesQuantity
    PROVE  LET f == TakeFrame(price, quantity, next)
           IN f \in Frame /\ Rank(f) = 2 /\ Serves(f, t)
BY DEF TakeFrame, Frame, TakeFrames, Rank, Serves

LEMMA FilledFrameType ==
    ASSUME NEW t, Unlinked(t)
    PROVE  FilledFrame \in Frame /\ Rank(FilledFrame) = 2 /\ Serves(FilledFrame, t)
BY DEF FilledFrame, Frame, Rank, Serves

LEMMA FinishFrameType ==
    ASSUME NEW t, Unlinked(t)
    PROVE  FinishFrame \in Frame /\ Rank(FinishFrame) = 1 /\ Serves(FinishFrame, t)
BY DEF FinishFrame, Frame, Rank, Serves

LEMMA ChainFrameType ==
    ASSUME NEW level \in AnyLevel, NEW order \in AnyOrder, NEW price \in UInt64,
           NEW volume \in UInt64
    PROVE  LET f == ChainFrame(level, order, price, volume) IN f \in Frame /\ Rank(f) = 3
BY DEF ChainFrame, Frame, ChainFrames, Rank

LEMMA PairFrameType ==
    ASSUME NEW bid \in AnyOrder, NEW ask \in AnyOrder
    PROVE  LET f == PairFrame(bid, ask) IN f \in Frame /\ Rank(f) = 3
BY DEF PairFrame, Frame, PairFrames, Rank

LEMMA ReducingFrameType ==
    ASSUME NEW order \in Ids, NEW price \in UInt64, NEW quantity \in 1 .. MaxQuantity,
           NEW bid \in AnyOrder, NEW ask \in AnyOrder
    PROVE  LET f == ReducingFrame(order, price, quantity, bid, ask)
           IN f \in Frame /\ Rank(f) = 3
BY DEF ReducingFrame, Frame, ReducingFrames, Rank

LEMMA AskChainFrameType ==
    ASSUME NEW level \in LevelKey, NEW order \in Ids, NEW volume \in UInt64
    PROVE  LET f == AskChainFrame(level, order, volume) IN f \in Frame /\ Rank(f) = 3
BY DEF AskChainFrame, Frame, AskChainFrames, Rank

LEMMA ActivateFrameType ==
    ASSUME NEW order \in AnyOrder
    PROVE  LET f == ActivateFrame(order) IN f \in Frame /\ Rank(f) = 0
BY DEF ActivateFrame, Frame, ActivateFrames, Rank

LEMMA RecalculateFrameType ==
    ASSUME NEW side \in {"bid", "ask"}
    PROVE  LET f == RecalculateFrame(side) IN f \in Frame /\ Rank(f) = 0
BY DEF RecalculateFrame, Frame, RecalculateFrames, Rank

LEMMA WalkFrameType ==
    ASSUME NEW c \in Collections, NEW previous \in AnyLevel, NEW current \in AnyLevel,
           NEW order \in AnyOrder
    PROVE  LET f == WalkFrame(c, previous, current, order) IN f \in Frame /\ Rank(f) = 0
BY DEF WalkFrame, Frame, WalkFrames, Rank

LEMMA AddFrameType ==
    ASSUME NEW t \in NewOrders, NEW id \in Ids
    PROVE  LET f == AddFrame(MakeOrder(t, id)) IN f \in Frame /\ Rank(f) = 0
<1>1. AddFrame(MakeOrder(t, id)) \in AddFrames
  BY DEF AddFrames
<1> QED
  BY <1>1 DEF AddFrame, Frame, Rank

LEMMA ResetFrameType ==
    ResetFrame \in Frame /\ Rank(ResetFrame) = 0
BY DEF ResetFrame, Frame, Rank

LEMMA EndOfCallType ==
    EndOfCall \in Frame /\ Rank(EndOfCall) = 0
<1>1. EndOfCall \in {MatchFrame(FALSE, TRUE), ResetFrame}
  BY DEF EndOfCall
<1> QED
  BY <1>1, MatchFrameType, ResetFrameType

-----------------------------------------------------------------------------
(* Stacks *)

LEMMA Indices ==
    ASSUME NEW s
    PROVE  /\ Len(s) = 1 => \A i \in 1 .. Len(s) : i = 1
           /\ Len(s) = 2 => \A i \in 1 .. Len(s) : i = 1 \/ i = 2
<1>1. (\A i \in 1 .. 1 : i = 1) /\ (\A i \in 1 .. 2 : i = 1 \/ i = 2)
  OBVIOUS
<1> QED
  BY <1>1, Zenon

LEMMA EmptyStack ==
    ASSUME NEW t
    PROVE  StackOK(<< >>, t)
<1>1. << >> \in Seq(Frame) /\ 1 .. Len(<< >>) = {}
  BY EmptySeq
<1> QED
  BY <1>1 DEF StackOK, Ordered

LEMMA OneFrame ==
    ASSUME NEW t, NEW f \in Frame, Serves(f, t)
    PROVE  StackOK(<<f>>, t) /\ Len(<<f>>) = 1 /\ <<f>>[1] = f
<1>1. <<f>> \in Seq(Frame) /\ Len(<<f>>) = 1 /\ <<f>>[1] = f
  OBVIOUS
<1> QED
  BY <1>1 DEF StackOK, Ordered

LEMMA TwoFrames ==
    ASSUME NEW t, NEW f \in Frame, NEW g \in Frame, Serves(f, t), Serves(g, t), Under(f, g)
    PROVE  StackOK(<<f, g>>, t) /\ Len(<<f, g>>) = 2
           /\ <<f, g>>[1] = f /\ <<f, g>>[2] = g
<1> DEFINE s == <<f, g>>
<1>1. s \in Seq(Frame) /\ Len(s) = 2 /\ s[1] = f /\ s[2] = g
  OBVIOUS
<1> HIDE DEF s
<1>2. 1 .. Len(s) = {1, 2}
  BY <1>1
<1> QED
  BY <1>1, <1>2 DEF StackOK, Ordered, s

\* One stack on another.
LEMMA JoinedStacks ==
    ASSUME NEW t, NEW s, NEW r, StackOK(s, t), StackOK(r, t),
           \A i \in 1 .. Len(s), j \in 1 .. Len(r) : Under(s[i], r[j])
    PROVE  StackOK(s \o r, t)
<1> DEFINE u == s \o r
<1>1. s \in Seq(Frame) /\ r \in Seq(Frame)
  BY DEF StackOK
<1>2. /\ u \in Seq(Frame) /\ Len(u) = Len(s) + Len(r)
      /\ Len(s) \in Nat /\ Len(r) \in Nat
      /\ \A i \in 1 .. Len(s) + Len(r) : u[i] = IF i <= Len(s) THEN s[i] ELSE r[i - Len(s)]
  BY <1>1, ConcatProperties, LenProperties
<1> HIDE DEF u
<1>3. ASSUME NEW i \in 1 .. Len(u)
      PROVE  \/ i \in 1 .. Len(s) /\ u[i] = s[i]
             \/ i - Len(s) \in 1 .. Len(r) /\ u[i] = r[i - Len(s)] /\ i > Len(s)
  BY <1>2
<1>4. ASSUME NEW i \in 1 .. Len(u) PROVE Serves(u[i], t)
  BY <1>3 DEF StackOK
<1>5. ASSUME NEW i \in 1 .. Len(u), NEW j \in 1 .. Len(u), i < j PROVE Under(u[i], u[j])
  <2>1. CASE j \in 1 .. Len(s) /\ u[j] = s[j]
    <3>1. i \in 1 .. Len(s) /\ u[i] = s[i]
      BY <1>2, <1>3, <1>5, <2>1
    <3> QED
      BY <1>5, <2>1, <3>1 DEF StackOK, Ordered
  <2>2. CASE j - Len(s) \in 1 .. Len(r) /\ u[j] = r[j - Len(s)] /\ j > Len(s)
    <3>1. CASE i \in 1 .. Len(s) /\ u[i] = s[i]
      BY <2>2, <3>1
    <3>2. CASE i - Len(s) \in 1 .. Len(r) /\ u[i] = r[i - Len(s)]
      <4>1. i - Len(s) < j - Len(s)
        BY <1>2, <1>5
      <4> QED
        BY <2>2, <3>2, <4>1 DEF StackOK, Ordered
    <3> QED
      BY <1>3, <3>1, <3>2
  <2> QED
    BY <1>3, <2>1, <2>2
<1> QED
  BY <1>2, <1>4, <1>5 DEF StackOK, Ordered, u

\* The outer calls of a stack.
LEMMA OuterStack ==
    ASSUME NEW t, NEW s, StackOK(s, t), NEW n \in Int, n <= Len(s)
    PROVE  /\ StackOK(SubSeq(s, 1, n), t)
           /\ \A i \in 1 .. Len(SubSeq(s, 1, n)) :
                 i \in 1 .. Len(s) /\ i <= n /\ SubSeq(s, 1, n)[i] = s[i]
<1> DEFINE u == SubSeq(s, 1, n)
<1>1. s \in Seq(Frame) /\ Len(s) \in Nat
  BY LenProperties DEF StackOK
<1>2. \A i \in 1 .. n : s[i] \in Frame
  BY <1>1, ElementOfSeq
<1>3. /\ u \in Seq(Frame)
      /\ Len(u) = IF 1 <= n THEN n - 1 + 1 ELSE 0
      /\ \A i \in 1 .. n - 1 + 1 : u[i] = s[1 + i - 1]
  BY <1>2, SubSeqProperties
<1> HIDE DEF u
<1>4. \A i \in 1 .. Len(u) : i \in 1 .. Len(s) /\ i <= n /\ u[i] = s[i]
  BY <1>1, <1>3
<1> QED
  BY <1>3, <1>4 DEF StackOK, Ordered, u

\* The innermost call of a stack.
LEMMA CallOf ==
    ASSUME StackOK(calls, taker), calls # << >>
    PROVE  /\ Call \in Frame /\ Serves(Call, taker)
           /\ Len(calls) \in Nat \ {0}
           /\ StackOK(Callers, taker)
           /\ \A i \in 1 .. Len(Callers) : Under(Callers[i], Call)
<1>1. calls \in Seq(Frame) /\ Len(calls) \in Nat \ {0}
  BY EmptySeq DEF StackOK
<1>2. Len(calls) \in 1 .. Len(calls) /\ Len(calls) - 1 \in Int /\ Len(calls) - 1 <= Len(calls)
  BY <1>1
<1>3. Call \in Frame /\ Serves(Call, taker)
  BY <1>1, <1>2, ElementOfSeq DEF StackOK, Call
<1>4. /\ StackOK(Callers, taker)
      /\ \A i \in 1 .. Len(Callers) :
            i \in 1 .. Len(calls) /\ i <= Len(calls) - 1 /\ Callers[i] = calls[i]
  BY <1>2, OuterStack DEF Callers
<1>5. \A i \in 1 .. Len(Callers) : Under(Callers[i], Call)
  <2> SUFFICES ASSUME NEW i \in 1 .. Len(Callers) PROVE Under(Callers[i], Call)
    OBVIOUS
  <2>1. i \in 1 .. Len(calls) /\ i < Len(calls) /\ Callers[i] = calls[i]
    BY <1>1, <1>4
  <2> QED
    BY <1>2, <2>1 DEF StackOK, Ordered, Call
<1> QED
  BY <1>1, <1>3, <1>4, <1>5

\* The innermost call goes on as frames of its rank or above; the taker may change if
\* none of the outer calls but its end knows of it.
LEMMA ContinueStack ==
    ASSUME StackOK(calls, taker), calls # << >>, NEW t, NEW frames, StackOK(frames, t),
           \A j \in 1 .. Len(frames) : Rank(Call) <= Rank(frames[j]),
           t = taker \/ Rank(Call) \in {0, 1} \/ (Rank(Call) = 2 /\ Unlinked(t))
    PROVE  StackOK(Callers \o frames, t)
<1>1. /\ StackOK(Callers, taker)
      /\ \A i \in 1 .. Len(Callers) : Under(Callers[i], Call)
  BY CallOf
<1>2. \A i \in 1 .. Len(Callers) : Rank(Callers[i]) \in 0 .. 3
  BY RankType
<1>3. \A i \in 1 .. Len(Callers) : Serves(Callers[i], t)
  <2>1. CASE t = taker
    BY <1>1, <2>1 DEF StackOK
  <2>2. CASE Rank(Call) \in {0, 1}
    <3>1. \A i \in 1 .. Len(Callers) : Rank(Callers[i]) = 0
      BY <1>1, <1>2, <2>2 DEF Under
    <3> QED
      BY <3>1, FrameOfRank
  <2>3. CASE Rank(Call) = 2 /\ Unlinked(t)
    <3>1. \A i \in 1 .. Len(Callers) : Rank(Callers[i]) \in {0, 1}
      BY <1>1, <1>2, <2>3 DEF Under
    <3>2. \A i \in 1 .. Len(Callers) : Rank(Callers[i]) # 2
      BY <3>1
    <3>3. \A i \in 1 .. Len(Callers) :
             Callers[i].at # "match_order" /\ Callers[i].at # "take"
      BY <3>2, RankOfLabel, Zenon
    <3> QED
      BY <2>3, <3>3, Zenon DEF Serves
  <2> QED
    BY <2>1, <2>2, <2>3
<1>4. StackOK(Callers, t)
  BY <1>1, <1>3 DEF StackOK
<1>5. \A i \in 1 .. Len(Callers), j \in 1 .. Len(frames) : Under(Callers[i], frames[j])
  <2> SUFFICES ASSUME NEW i \in 1 .. Len(Callers), NEW j \in 1 .. Len(frames)
               PROVE  Under(Callers[i], frames[j])
    OBVIOUS
  <2>1. Rank(Callers[i]) \in 0 .. 3 /\ Rank(Call) \in 0 .. 3 /\ Rank(frames[j]) \in 0 .. 3
    BY RankType
  <2> QED
    BY <1>1, <2>1 DEF Under
<1> QED
  BY <1>4, <1>5, JoinedStacks

-----------------------------------------------------------------------------
(* What the calls read from a valid book *)

\* A level has a first order.
LEMMA FirstOrderType ==
    ASSUME NEW b, Valid(b), NEW k \in DOMAIN b.levels
    PROVE  /\ FirstOrder(b, k) \in DOMAIN b.orders /\ FirstOrder(b, k) \in Ids
           /\ b.orders[FirstOrder(b, k)].Level = k
<1> DEFINE list == b.levels[k].OrderList
           D == Elements(list)
<1>1. /\ list \in Seq(OrderIds) /\ Len(list) \in Nat
      /\ \A i \in 1 .. Len(list) : list[i] \in DOMAIN b.orders /\ b.orders[list[i]].Level = k
  BY QueueOfLevel
<1>2. b.levels[k].TotalVolume > 0 /\ b.levels[k].TotalVolume = Lots(LeavesIn(b, D))
  BY BookInvParts DEF Valid, LevelOK
<1>3. DOMAIN b.orders \subseteq Ids
  BY BookInvParts, Numbers DEF Valid, BookShape
<1> HIDE DEF list
<1>4. Len(list) # 0
  <2> SUFFICES ASSUME Len(list) = 0 PROVE FALSE
    OBVIOUS
  <2>1. D = {}
    BY DEF Elements
  <2> HIDE DEF D
  <2>2. UNION {{x} \X (1 .. LeavesIn(b, D)[x]) : x \in DOMAIN LeavesIn(b, D)} = {}
    BY <2>1 DEF LeavesIn
  <2>3. Lots(LeavesIn(b, D)) = 0
    BY <2>2, FS_EmptySet DEF Lots
  <2> QED
    BY <1>2, <2>3
<1>5. 1 \in 1 .. Len(list)
  BY <1>1, <1>4
<1> QED
  BY <1>1, <1>3, <1>5 DEF FirstOrder, list

LEMMA NextOrderType ==
    ASSUME NEW b, Valid(b), NEW id \in DOMAIN b.orders
    PROVE  NextOrder(b, id) \in DOMAIN b.orders \cup {NoOrder} /\ NextOrder(b, id) \in AnyOrder
<1> DEFINE k == b.orders[id].Level
           list == b.levels[k].OrderList
           i == CHOOSE n \in 1 .. Len(list) : list[n] = id
<1>1. k \in DOMAIN b.levels /\ i \in 1 .. Len(list)
  BY PlaceOfOrder
<1>2. NextOrder(b, id) = IF i = Len(list) THEN NoOrder ELSE list[i + 1]
  BY DEF NextOrder
<1> HIDE DEF k, i
<1>3. Len(list) \in Nat /\ \A n \in 1 .. Len(list) : list[n] \in DOMAIN b.orders
  BY <1>1, QueueOfLevel
<1>4. DOMAIN b.orders \subseteq Ids
  BY BookInvParts, Numbers DEF Valid, BookShape
<1> HIDE DEF list
<1>5. i # Len(list) => i + 1 \in 1 .. Len(list)
  BY <1>1, <1>3
<1> QED
  BY <1>2, <1>3, <1>4, <1>5 DEF AnyOrder

LEMMA LevelAfterType ==
    ASSUME NEW b, Valid(b), NEW k \in LevelKey
    PROVE  /\ LevelAfter(b, k) \in DOMAIN b.levels \cup {NoLevel}
           /\ LevelAfter(b, k) \in AnyLevel
<1> DEFINE worse == {p \in PricesIn(b, k[1]) : Better(k[1], k[2], p)}
           next == NextPrice(b, k)
<1>1. DOMAIN b.levels \subseteq LevelKey /\ k[1] \in Collections
  BY BookInvParts DEF Valid, BookShape, LevelKey
<1>2. worse \subseteq UInt64
  BY <1>1, PricesInMember
<1>3. worse # {} => next \in worse
  <2> SUFFICES ASSUME worse # {} PROVE next \in worse
    OBVIOUS
  <2>1. \E p \in worse : \A q \in worse \ {p} : Better(k[1], p, q)
    <3> HIDE DEF worse
    <3> QED
      BY <1>1, <1>2, BestExists
  <2>2. next = CHOOSE p \in worse : \A q \in worse \ {p} : Better(k[1], p, q)
    BY DEF NextPrice
  <2> HIDE DEF worse, next
  <2> QED
    BY <2>1, <2>2
<1>4. worse = {} => next = NoPrice
  BY DEF NextPrice
<1>5. \A p \in PricesIn(b, k[1]) : <<k[1], p>> \in DOMAIN b.levels
  BY <1>1 DEF PricesIn, LevelKey
<1>6. LevelAfter(b, k) = IF next = NoPrice THEN NoLevel ELSE <<k[1], next>>
  BY DEF LevelAfter
<1> HIDE DEF next
<1>7. next # NoPrice => next \in PricesIn(b, k[1])
  BY <1>3, <1>4
<1> QED
  BY <1>1, <1>5, <1>6, <1>7 DEF AnyLevel

LEMMA BestKeyType ==
    ASSUME NEW b, Valid(b), NEW c \in Collections, HasBest(b, c)
    PROVE  BestKey(b, c) \in DOMAIN b.levels /\ b.best[c] \in PricesIn(b, c)
           /\ b.best[c] \in UInt64
<1>1. /\ DOMAIN b.levels \subseteq LevelKey
      /\ IF PricesIn(b, c) = {} THEN b.best[c] = NoPrice ELSE b.best[c] \in PricesIn(b, c)
  BY BookInvParts DEF Valid, BookShape, BestIsBest
<1>2. b.best[c] \in PricesIn(b, c)
  BY <1>1 DEF HasBest
<1>3. \A p \in PricesIn(b, c) : <<c, p>> \in DOMAIN b.levels /\ p \in UInt64
  BY <1>1 DEF PricesIn, LevelKey
<1> QED
  BY <1>2, <1>3 DEF BestKey

LEMMA FirstLevelType ==
    ASSUME NEW b, Valid(b), NEW c \in Collections
    PROVE  FirstLevel(b, c) \in DOMAIN b.levels \cup {NoLevel}
BY BestKeyType DEF FirstLevel

LEMMA FirstOfType ==
    ASSUME NEW b, Valid(b), NEW k \in DOMAIN b.levels \cup {NoLevel}
    PROVE  FirstOf(b, k) \in AnyOrder
BY FirstOrderType DEF FirstOf, AnyOrder

LEMMA OppositeType ==
    ASSUME NEW o
    PROVE  Opposite(o) \in Collections
BY DEF Opposite, Collections, BidCollections, AskCollections

\* A matching chain is a quantity.
LEMMA ChainForOrderType ==
    ASSUME NEW b, NEW o, NEW k, Unlinked(o)
    PROVE  ChainForOrder(b, o, k) \in UInt64
<1>1. ChainForOrder(b, o, k) \in {o.LeavesQuantity, 0}
  BY Zenon DEF ChainForOrder
<1> QED
  BY <1>1, Numbers DEF Unlinked, Pending

LEMMA ChainForPairType ==
    ASSUME NEW b, NEW k, NEW l
    PROVE  ChainForPair(b, k, l) \in UInt64
BY Numbers, Zenon DEF ChainForPair

-----------------------------------------------------------------------------
(* Frames above the callers *)

\* Frames that the innermost call can go on as, for taker t.
Above(frames, t) == /\ StackOK(frames, t)
                    /\ \A j \in 1 .. Len(frames) : Rank(Call) <= Rank(frames[j])

\* A frame that serves no taker, above the others or of the calls that enter orders.
LEMMA HighFrame ==
    ASSUME NEW f, Rank(f) = 3
    PROVE  /\ \A t : Serves(f, t)
           /\ Rank(Call) <= Rank(f)
<1>1. Rank(f) \in {0, 3} /\ Rank(Call) <= 3
  BY RankType
<1> QED
  BY <1>1, FrameOfRank

LEMMA LowFrame ==
    ASSUME NEW f, Rank(f) = 0
    PROVE  \A t : Serves(f, t)
<1>1. Rank(f) \in {0, 3}
  OBVIOUS
<1> QED
  BY <1>1, FrameOfRank

LEMMA NoneAbove ==
    ASSUME NEW t
    PROVE  Above(<< >>, t)
<1>1. 1 .. Len(<< >>) = {}
  BY EmptySeq
<1> QED
  BY <1>1, EmptyStack DEF Above

LEMMA OneAbove ==
    ASSUME NEW t, NEW f \in Frame, Serves(f, t), Rank(Call) <= Rank(f)
    PROVE  Above(<<f>>, t)
<1> DEFINE s == <<f>>
<1>1. StackOK(s, t) /\ Len(s) = 1 /\ s[1] = f
  BY OneFrame
<1> HIDE DEF s
<1> QED
  BY <1>1 DEF Above, s

LEMMA TwoAbove ==
    ASSUME NEW t, NEW f \in Frame, NEW g \in Frame, Serves(f, t), Serves(g, t), Under(f, g),
           Rank(Call) <= Rank(f), Rank(Call) <= Rank(g)
    PROVE  Above(<<f, g>>, t)
<1> DEFINE s == <<f, g>>
<1>1. StackOK(s, t) /\ Len(s) = 2 /\ s[1] = f /\ s[2] = g
  BY TwoFrames
<1> HIDE DEF s
<1>2. 1 .. Len(s) = {1, 2}
  BY <1>1
<1> QED
  BY <1>1, <1>2 DEF Above, s

\* More frames above those.
LEMMA MoreAbove ==
    ASSUME NEW t, NEW s, NEW r, Above(s, t), Above(r, t),
           \A i \in 1 .. Len(s), j \in 1 .. Len(r) : Under(s[i], r[j])
    PROVE  Above(s \o r, t)
<1> DEFINE u == s \o r
<1>1. StackOK(u, t)
  BY JoinedStacks DEF Above
<1>2. s \in Seq(Frame) /\ r \in Seq(Frame)
  BY DEF Above, StackOK
<1>3. /\ Len(u) = Len(s) + Len(r) /\ Len(s) \in Nat /\ Len(r) \in Nat
      /\ \A i \in 1 .. Len(s) + Len(r) : u[i] = IF i <= Len(s) THEN s[i] ELSE r[i - Len(s)]
  BY <1>2, ConcatProperties, LenProperties
<1> HIDE DEF u
<1>4. ASSUME NEW i \in 1 .. Len(u)
      PROVE  \/ i \in 1 .. Len(s) /\ u[i] = s[i]
             \/ i - Len(s) \in 1 .. Len(r) /\ u[i] = r[i - Len(s)]
  BY <1>3
<1>5. \A i \in 1 .. Len(u) : Rank(Call) <= Rank(u[i])
  BY <1>4 DEF Above
<1> QED
  BY <1>1, <1>5 DEF Above, u

\* A nested call of Match is above everything.
LEMMA NestedAbove ==
    ASSUME NEW t, NEW frames, Above(frames, t), NEW nested \in BOOLEAN
    PROVE  Above(frames \o (IF nested THEN <<MatchFrame(TRUE, TRUE)>> ELSE << >>), t)
<1>1. CASE nested
  <2> DEFINE f == MatchFrame(TRUE, TRUE)
             s == <<f>>
  <2>1. f \in Frame /\ Rank(f) = 3
    BY MatchFrameType
  <2> HIDE DEF f
  <2>2. Serves(f, t) /\ Rank(Call) <= Rank(f)
    BY <2>1, HighFrame
  <2>3. Above(s, t) /\ Len(s) = 1 /\ s[1] = f
    BY <2>1, <2>2, OneAbove, OneFrame
  <2> HIDE DEF s
  <2>4. ASSUME NEW i \in 1 .. Len(frames), NEW j \in 1 .. Len(s) PROVE Under(frames[i], s[j])
    <3>1. s[j] = f /\ Rank(frames[i]) \in 0 .. 3
      BY <2>3, RankType
    <3> QED
      BY <2>1, <3>1 DEF Under
  <2>5. Above(frames \o s, t)
    BY <2>3, <2>4, MoreAbove
  <2> QED
    BY <1>1, <2>5 DEF s, f
<1>2. CASE ~nested
  <2>1. 1 .. Len(<< >>) = {}
    BY EmptySeq
  <2>2. Above(frames \o << >>, t)
    BY <2>1, NoneAbove, MoreAbove
  <2> QED
    BY <1>2, <2>2
<1> QED
  BY <1>1, <1>2

-----------------------------------------------------------------------------
(* The steps, by what they change *)

LEMMA KeptBy ==
    ASSUME Valid(book'), QueueStep(book, book'),
           matching' \in MarketPrices, last' \in MarketPrices, trailing' \in MarketPrices,
           enabled' \in BOOLEAN, fault' \in BOOLEAN, net' \in Int,
           taker' = NoTaker \/ Unlinked(taker'), StackOK(calls', taker')
    PROVE  Kept
BY DEF Kept, IInv

LEMMA SilentKeeps ==
    ASSUME IInv, Silent
    PROVE  /\ last' \in MarketPrices /\ trailing' \in MarketPrices
           /\ net' \in Int /\ fault' \in BOOLEAN
BY DEF IInv, Silent

LEMMA ReportKeeps ==
    ASSUME IInv, NEW o, NEW price \in UInt64, NEW quantity \in Nat, Report(o, price, quantity)
    PROVE  /\ last' \in MarketPrices /\ trailing' \in MarketPrices
           /\ net' \in Int /\ fault' \in BOOLEAN
<1>1. last' \in MarketPrices
  BY PriceUpdated DEF IInv, Report
<1>2. net' \in Int
  BY DEF IInv, Report
<1> QED
  BY <1>1, <1>2 DEF IInv, Report

LEMMA SameBookIsStep ==
    ASSUME NEW b, NEW b2, b2 = b
    PROVE  QueueStep(b, b2)
BY DEF QueueStep

LEMMA ContinueKeeps ==
    ASSUME IInv, calls # << >>, NEW frames, NEW t, Above(frames, t), Continue(frames),
           t = taker \/ Rank(Call) \in {0, 1} \/ (Rank(Call) = 2 /\ Unlinked(t)), taker' = t
    PROVE  StackOK(calls', taker')
<1>1. StackOK(Callers \o frames, t)
  BY ContinueStack DEF IInv, Above
<1> QED
  BY <1>1 DEF Continue

LEMMA ContinueKeepsTaker ==
    ASSUME IInv, calls # << >>, NEW frames, Above(frames, taker), Continue(frames),
           taker' = taker
    PROVE  StackOK(calls', taker')
<1>1. /\ StackOK(calls, taker) /\ StackOK(frames, taker)
      /\ \A j \in 1 .. Len(frames) : Rank(Call) <= Rank(frames[j])
  BY DEF IInv, Above
<1>2. StackOK(Callers \o frames, taker)
  BY <1>1, ContinueStack, Zenon
<1> QED
  BY <1>2 DEF Continue

LEMMA GotoKeeps ==
    ASSUME IInv, calls # << >>, NEW frames, Above(frames, taker), Goto(frames)
    PROVE  Kept
<1>1. /\ book' = book /\ matching' = matching /\ enabled' = enabled /\ taker' = taker
      /\ Continue(frames) /\ Silent
  BY DEF Goto
<1>2. StackOK(calls', taker')
  BY <1>1, ContinueKeepsTaker
<1>3. Valid(book') /\ QueueStep(book, book')
  BY <1>1, SameBookIsStep DEF IInv
<1> QED
  BY <1>1, <1>2, <1>3, SilentKeeps, KeptBy DEF IInv

LEMMA ReturnKeeps ==
    ASSUME IInv, calls # << >>, Goto(<< >>)
    PROVE  Kept
BY NoneAbove, GotoKeeps

LEMMA ReturnFromMatchOrderKeeps ==
    ASSUME IInv, calls # << >>, ReturnFromMatchOrder
    PROVE  Kept
BY ReturnKeeps DEF ReturnFromMatchOrder, Goto

LEMMA UseAfterReleaseKeeps ==
    ASSUME IInv, UseAfterRelease
    PROVE  Kept
<1>1. /\ book' = book /\ matching' = matching /\ last' = last /\ trailing' = trailing
      /\ enabled' = enabled /\ taker' = taker /\ calls' = calls /\ net' = net /\ fault' = TRUE
  BY DEF UseAfterRelease
<1>2. Valid(book') /\ QueueStep(book, book')
  BY <1>1, SameBookIsStep DEF IInv
<1> QED
  BY <1>1, <1>2, KeptBy DEF IInv

LEMMA ReturnInternalKeeps ==
    ASSUME IInv, calls # << >>, NEW b, NEW o, NEW price \in UInt64, NEW frames,
           Above(frames, taker), ReturnInternal(b, o, price, frames),
           UNCHANGED <<enabled, taker>>
    PROVE  /\ book' = b /\ matching' \in MarketPrices /\ enabled' \in BOOLEAN
           /\ taker' = NoTaker \/ Unlinked(taker')
           /\ StackOK(calls', taker')
<1> DEFINE nested == enabled /\ Crossed(b)
           all == frames \o (IF nested THEN <<MatchFrame(TRUE, TRUE)>> ELSE << >>)
<1>1. nested \in BOOLEAN
  BY DEF IInv, Crossed
<1>2. /\ book' = b /\ Continue(all)
      /\ matching' = IF nested THEN WithPrice(matching, o, price) ELSE NoMatchingPrice
  BY DEF ReturnInternal
<1> HIDE DEF nested
<1>3. Above(all, taker)
  BY <1>1, NestedAbove
<1> HIDE DEF all
<1>4. StackOK(calls', taker')
  BY <1>2, <1>3, ContinueKeepsTaker
<1>5. matching' \in MarketPrices
  BY <1>2, PriceUpdated, Numbers DEF IInv
<1> QED
  BY <1>2, <1>4, <1>5 DEF IInv

LEMMA ExecuteRestingKeeps ==
    ASSUME VolumeFits, IInv, calls # << >>, NEW id \in DOMAIN book.orders, NEW price \in UInt64,
           NEW quantity \in Nat, NEW frames, Above(frames, taker),
           ExecuteResting(id, price, quantity, frames)
    PROVE  Kept
<1> DEFINE o == book.orders[id]
           b == ReduceOrder(book, Executed(o, quantity))
<1>1. /\ Report(o, price, quantity)
      /\ ReturnInternal(b, o, price, frames)
      /\ UNCHANGED <<enabled, taker>>
  BY DEF ExecuteResting
<1>2. Valid(book) /\ o \in OrderNode(OrderIds, MaxQuantity)
  BY LinkedIsPending DEF IInv
<1>3. IsReduced(Executed(o, quantity), o, OrderIds, MaxQuantity)
  BY <1>2, LessIsReduced
<1>4. Valid(b) /\ QueueStep(book, b)
  BY <1>2, <1>3, ReduceOrderKeepsBook, ReduceIsStep DEF Valid, VolumeFits
<1> HIDE DEF o, b
<1> QED
  BY <1>1, <1>4, ReportKeeps, ReturnInternalKeeps, KeptBy

LEMMA ExecuteWholeKeeps ==
    ASSUME VolumeFits, IInv, calls # << >>, NEW id \in DOMAIN book.orders, NEW price \in UInt64,
           NEW frames, Above(frames, taker), ExecuteWhole(id, price, frames)
    PROVE  Kept
<1> DEFINE o == book.orders[id]
           b == DeleteOrder(book, id)
<1>1. /\ Report(o, price, o.LeavesQuantity)
      /\ ReturnInternal(b, o, price, frames)
      /\ UNCHANGED <<enabled, taker>>
  BY DEF ExecuteWhole
<1>2. Valid(book) /\ o.LeavesQuantity \in Nat
  BY LinkedIsPending DEF IInv
<1>3. Valid(b) /\ QueueStep(book, b)
  BY <1>2, DeleteOrderKeepsBook, DeleteIsStep DEF Valid, VolumeFits
<1> HIDE DEF o, b
<1> QED
  BY <1>1, <1>2, <1>3, ReportKeeps, ReturnInternalKeeps, KeptBy

LEMMA ExecuteTakerKeeps ==
    ASSUME IInv, calls # << >>, Rank(Call) = 2, Unlinked(taker), NEW price \in UInt64,
           NEW quantity \in Nat, NEW frames, Above(frames, Executed(taker, quantity)),
           ExecuteTaker(price, quantity, frames)
    PROVE  Kept
<1>1. /\ Report(taker, price, quantity)
      /\ taker' = Executed(taker, quantity)
      /\ matching' = WithPrice(matching, taker, price)
      /\ Continue(frames) /\ book' = book /\ enabled' = enabled
  BY DEF ExecuteTaker
<1>2. Unlinked(taker')
  BY <1>1, TakerExecuted
<1>3. StackOK(calls', taker')
  BY <1>1, <1>2, ContinueKeeps
<1>4. matching' \in MarketPrices
  BY <1>1, PriceUpdated DEF IInv
<1>5. Valid(book') /\ QueueStep(book, book') /\ enabled' \in BOOLEAN
  BY <1>1, SameBookIsStep DEF IInv
<1> QED
  BY <1>1, <1>2, <1>3, <1>4, <1>5, ReportKeeps, KeptBy

-----------------------------------------------------------------------------
(* MatchOrder *)

LEMMA CallParts ==
    ASSUME IInv, calls # << >>
    PROVE  Call \in Frame /\ Serves(Call, taker) /\ Valid(book) /\ StackOK(Callers, taker)
BY CallOf DEF IInv

\* A call that matches, links or deletes a taker has one.
LEMMA TakerOfCall ==
    ASSUME IInv, calls # << >>, Call.at \in {"match_order", "take", "filled", "finish"}
    PROVE  /\ Unlinked(taker) /\ taker.LeavesQuantity \in 0 .. MaxQuantity
           /\ Call.at # "finish" => Rank(Call) = 2
           /\ Call.at = "finish" => Rank(Call) = 1
<1>1. /\ Call.at # "finish" => Rank(Call) = 2
      /\ Call.at = "finish" => Rank(Call) = 1
  BY RankOfLabel, Zenon
<1>2. Unlinked(taker)
  BY <1>1, CallParts DEF Serves
<1>3. taker.LeavesQuantity \in 0 .. MaxQuantity
  BY <1>2 DEF Unlinked, Pending
<1> QED
  BY <1>1, <1>2, <1>3

LEMMA MatchAgainstKeeps ==
    ASSUME VolumeFits, IInv, At("match_order"), NEW id \in DOMAIN book.orders, MatchAgainst(id)
    PROVE  Kept
<1> DEFINE o == book.orders[id]
           quantity == Lesser(o.LeavesQuantity, taker.LeavesQuantity)
           f == TakeFrame(o.Price, quantity, NextOrder(book, id))
<1>1. calls # << >> /\ Call.at = "match_order"
  BY DEF At
<1>2. /\ Rank(Call) = 2 /\ Unlinked(taker) /\ taker.LeavesQuantity \in 1 .. MaxQuantity
  <2>1. Rank(Call) = 2 /\ Unlinked(taker) /\ taker.LeavesQuantity \in 0 .. MaxQuantity
    BY <1>1, TakerOfCall
  <2>2. taker.LeavesQuantity > 0
    BY <1>1, CallParts, Zenon DEF Serves
  <2>3. taker.LeavesQuantity \in 1 .. MaxQuantity
    BY <2>1, <2>2, PositiveType, Zenon
  <2> QED
    BY <2>1, <2>3, Zenon
<1>3. Valid(book) /\ o.LeavesQuantity \in 1 .. MaxQuantity /\ o.Price \in UInt64
  BY LinkedIsPending DEF IInv, Pending
<1>4. quantity \in 1 .. MaxQuantity /\ quantity <= taker.LeavesQuantity /\ quantity \in Nat
  BY <1>2, <1>3, LesserType
<1>5. NextOrder(book, id) \in AnyOrder
  BY <1>3, NextOrderType
<1>6. \/ ReturnFromMatchOrder
      \/ ExecuteResting(id, o.Price, quantity, <<f>>)
  BY DEF MatchAgainst
<1> HIDE DEF o, quantity
<1>7. f \in Frame /\ Rank(f) = 2 /\ Serves(f, taker)
  BY <1>2, <1>3, <1>4, <1>5, TakeFrameType
<1> HIDE DEF f
<1>8. Rank(Call) <= Rank(f)
  BY <1>2, <1>7, RankOrder, Zenon
<1>9. Above(<<f>>, taker)
  BY <1>7, <1>8, OneAbove
<1> QED
  BY <1>1, <1>3, <1>4, <1>6, <1>9, ReturnFromMatchOrderKeeps, ExecuteRestingKeeps DEF o

LEMMA MatchWholeKeeps ==
    ASSUME IInv, At("match_order"), NEW level \in DOMAIN book.levels, MatchWhole(level)
    PROVE  Kept
<1> DEFINE chain == ChainForOrder(book, taker, level)
           f == ChainFrame(level, NoOrder, taker.Price, chain)
           frames == <<FilledFrame, f>>
<1>1. calls # << >> /\ Call.at = "match_order"
  BY DEF At
<1>2. Rank(Call) = 2 /\ Unlinked(taker) /\ taker.Price \in UInt64
  BY <1>1, TakerOfCall DEF Unlinked, Pending
<1>3. chain \in UInt64
  BY <1>2, ChainForOrderType
<1>4. level \in AnyLevel /\ NoOrder \in AnyOrder
  BY BookInvParts DEF IInv, Valid, BookShape, AnyLevel, AnyOrder
<1>5. \/ ReturnFromMatchOrder
      \/ Goto(frames)
  BY DEF MatchWhole, Goto
<1> HIDE DEF chain
<1>6. f \in Frame /\ Rank(f) = 3
  BY <1>2, <1>3, <1>4, ChainFrameType
<1> HIDE DEF f
<1>7. FilledFrame \in Frame /\ Rank(FilledFrame) = 2 /\ Serves(FilledFrame, taker)
  BY <1>2, FilledFrameType
<1>8. Serves(f, taker) /\ Rank(Call) <= Rank(f)
  BY <1>6, HighFrame
<1>9. Under(FilledFrame, f) /\ Rank(Call) <= Rank(FilledFrame)
  BY <1>2, <1>6, <1>7, RankOrder, Zenon
<1>10. Above(frames, taker)
  BY <1>6, <1>7, <1>8, <1>9, TwoAbove
<1> HIDE DEF frames
<1> QED
  BY <1>1, <1>5, <1>10, ReturnFromMatchOrderKeeps, GotoKeeps

LEMMA MatchOrderKeeps ==
    ASSUME VolumeFits, IInv, MatchOrder
    PROVE  Kept
<1> DEFINE c == Opposite(taker)
<1>1. At("match_order") /\ calls # << >> /\ Valid(book)
  BY DEF MatchOrder, At, IInv
<1>2. \/ UseAfterRelease
      \/ ~Released(Call.next) /\ MatchAgainst(Call.next)
      \/ ReturnFromMatchOrder
      \/ HasBest(book, c) /\ MatchWhole(BestKey(book, c))
      \/ HasBest(book, c) /\ MatchAgainst(FirstOrder(book, BestKey(book, c)))
  BY Zenon DEF MatchOrder
<1>3. HasBest(book, c) => BestKey(book, c) \in DOMAIN book.levels
  BY <1>1, OppositeType, BestKeyType
<1>4. HasBest(book, c) => FirstOrder(book, BestKey(book, c)) \in DOMAIN book.orders
  BY <1>1, <1>3, FirstOrderType
<1> HIDE DEF c
<1>5. ~Released(Call.next) => Call.next \in DOMAIN book.orders
  BY DEF Released
<1> QED
  BY <1>1, <1>2, <1>3, <1>4, <1>5, UseAfterReleaseKeeps, MatchAgainstKeeps, MatchWholeKeeps,
     ReturnFromMatchOrderKeeps

LEMMA TakeKeeps ==
    ASSUME IInv, Take
    PROVE  Kept
<1> DEFINE frames == IF taker.LeavesQuantity = Call.quantity THEN << >>
                     ELSE <<MatchOrderFrame(Call.next)>>
           t == Executed(taker, Call.quantity)
<1>1. calls # << >> /\ Call.at = "take" /\ ExecuteTaker(Call.price, Call.quantity, frames)
  BY DEF Take, At
<1>2. Rank(Call) = 2 /\ Unlinked(taker) /\ taker.LeavesQuantity \in 0 .. MaxQuantity
  BY <1>1, TakerOfCall
<1>3. Call \in TakeFrames /\ Call.quantity <= taker.LeavesQuantity
  BY <1>1, CallParts, FrameParts DEF Serves
<1>4. /\ Call.price \in UInt64 /\ Call.quantity \in 1 .. MaxQuantity /\ Call.quantity \in Nat
      /\ Call.next \in AnyOrder
  BY <1>3 DEF TakeFrames
<1>5. Unlinked(t) /\ (Call.quantity < taker.LeavesQuantity => t.LeavesQuantity > 0)
  BY <1>2, <1>4, TakerExecuted
<1> HIDE DEF t
<1>6. Above(frames, t)
  <2>1. CASE taker.LeavesQuantity = Call.quantity
    BY <2>1, NoneAbove
  <2>2. CASE taker.LeavesQuantity # Call.quantity
    <3> DEFINE f == MatchOrderFrame(Call.next)
    <3>1. Call.quantity < taker.LeavesQuantity
      BY <1>2, <1>3, <1>4, <2>2
    <3>2. f \in Frame /\ Rank(f) = 2 /\ Serves(f, t)
      BY <1>4, <1>5, <3>1, MatchOrderFrameType
    <3> HIDE DEF f
    <3>3. Above(<<f>>, t)
      BY <1>2, <3>2, OneAbove
    <3> QED
      BY <2>2, <3>3 DEF f
  <2> QED
    BY <2>1, <2>2
<1> HIDE DEF frames
<1> QED
  BY <1>1, <1>2, <1>4, <1>6, ExecuteTakerKeeps DEF t

LEMMA FilledKeeps ==
    ASSUME IInv, Filled
    PROVE  Kept
<1>1. /\ calls # << >> /\ Call.at = "filled"
      /\ ExecuteTaker(taker.Price, taker.LeavesQuantity, << >>)
  BY DEF Filled, At
<1>2. Rank(Call) = 2 /\ Unlinked(taker) /\ taker.LeavesQuantity \in Nat
  BY <1>1, TakerOfCall
<1>3. taker.Price \in UInt64
  BY <1>2 DEF Unlinked, Pending
<1> QED
  BY <1>1, <1>2, <1>3, NoneAbove, ExecuteTakerKeeps

\* An order that is linked enters at the back of its queue.
LEMMA FinishKeeps ==
    ASSUME VolumeFits, IInv, Finish
    PROVE  Kept
<1> DEFINE rests == taker.LeavesQuantity > 0 /\ Resting(taker)
           duplicate == rests /\ taker.Id \in DOMAIN book.orders
<1>1. /\ calls # << >> /\ Call.at = "finish"
      /\ book' = IF rests /\ ~duplicate THEN AddOrder(book, taker) ELSE book
      /\ calls' = IF duplicate THEN << >> ELSE Callers
      /\ taker' = NoTaker /\ Silent /\ UNCHANGED <<matching, enabled>>
  BY DEF Finish, At
<1>2. Rank(Call) = 1 /\ Unlinked(taker) /\ Valid(book)
  BY <1>1, TakerOfCall DEF IInv
<1>3. Valid(book') /\ QueueStep(book, book')
  <2>1. CASE rests /\ ~duplicate
    <3>1. taker \in Entrant(OrderIds, MaxQuantity) /\ taker.Id \notin DOMAIN book.orders
      BY <1>2, <2>1, PendingIsEntrant, RestingIsNoMarket DEF Unlinked
    <3>2. book' = AddOrder(book, taker)
      BY <1>1, <2>1
    <3>3. Valid(book')
      BY <1>2, <3>1, <3>2, AddOrderKeepsBook DEF Valid, VolumeFits
    <3>4. AllKeys => Enters(book, book')
      BY <1>2, <3>1, <3>2, AddEnters DEF Enters
    <3> QED
      BY <3>3, <3>4, EnterIsStep
  <2>2. CASE ~(rests /\ ~duplicate)
    <3>1. book' = book
      BY <1>1, <2>2
    <3> QED
      BY <1>2, <3>1, SameBookIsStep
  <2> QED
    BY <2>1, <2>2
<1>4. StackOK(calls', taker')
  <2> HIDE DEF duplicate
  <2>1. CASE duplicate
    BY <1>1, <2>1, EmptyStack
  <2>2. CASE ~duplicate
    <3>1. StackOK(Callers \o << >>, NoTaker)
      <4>1. 1 .. Len(<< >>) = {}
        BY EmptySeq
      <4> QED
        BY <1>1, <1>2, <4>1, EmptyStack, ContinueStack DEF IInv
    <3>2. Callers \o << >> = Callers
      BY <1>1, CallParts, ConcatEmptySeq DEF StackOK
    <3> QED
      BY <1>1, <2>2, <3>1, <3>2
  <2> QED
    BY <2>1, <2>2
<1> QED
  BY <1>1, <1>3, <1>4, SilentKeeps, KeptBy DEF IInv

-----------------------------------------------------------------------------
(* ExecuteMatchingChain *)

\* A single frame that serves no taker.
LEMMA HighAbove ==
    ASSUME NEW t, NEW f \in Frame, Rank(f) = 3
    PROVE  Above(<<f>>, t)
BY HighFrame, OneAbove

LEMMA ChainStepKeeps ==
    ASSUME VolumeFits, IInv, At("chain"), NEW nextLevel \in AnyLevel,
           NEW id \in DOMAIN book.orders, ChainStep(nextLevel, id)
    PROVE  Kept
<1> DEFINE o == book.orders[id]
           quantity == IF IsAON(o) THEN o.LeavesQuantity
                       ELSE Lesser(o.LeavesQuantity, Call.volume)
           volume == Wrap(Call.volume - quantity)
           next == IF volume > 0 THEN NextOrder(book, id) ELSE NoOrder
           f == ChainFrame(nextLevel, next, Call.price, volume)
<1>1. calls # << >> /\ Call \in ChainFrames /\ Valid(book)
  BY CallParts, FrameParts DEF At
<1>2. Call.price \in UInt64 /\ Call.volume \in UInt64
  BY <1>1 DEF ChainFrames
<1>3. o.LeavesQuantity \in UInt64
  BY <1>1, LinkedIsPending, Numbers
<1>4. quantity \in UInt64
  <2> HIDE DEF o
  <2> QED
    BY <1>2, <1>3 DEF Lesser
<1>5. IF IsAON(o) THEN ExecuteWhole(id, Call.price, <<f>>)
      ELSE ExecuteResting(id, Call.price, quantity, <<f>>)
  BY DEF ChainStep
<1> HIDE DEF quantity, o
<1>6. volume \in UInt64 /\ quantity \in Nat
  BY <1>2, <1>4, WrapType, Numbers
<1>7. next \in AnyOrder
  BY <1>1, NextOrderType DEF AnyOrder
<1> HIDE DEF volume, next
<1>8. f \in Frame /\ Rank(f) = 3
  BY <1>2, <1>6, <1>7, ChainFrameType
<1> HIDE DEF f
<1>9. Above(<<f>>, taker)
  BY <1>8, HighAbove
<1> QED
  BY <1>1, <1>2, <1>5, <1>6, <1>9, ExecuteWholeKeeps, ExecuteRestingKeeps

LEMMA ChainKeeps ==
    ASSUME VolumeFits, IInv, ExecuteMatchingChain
    PROVE  Kept
<1>1. At("chain") /\ calls # << >> /\ Call \in ChainFrames /\ Valid(book)
  BY CallParts, FrameParts DEF ExecuteMatchingChain, At
<1>2. \/ UseAfterRelease
      \/ ~Released(Call.order) /\ ChainStep(Call.level, Call.order)
      \/ ReturnFromMatchOrder
      \/ /\ Call.level \in DOMAIN book.levels
         /\ ChainStep(LevelAfter(book, Call.level), FirstOrder(book, Call.level))
  BY Zenon DEF ExecuteMatchingChain
<1>3. CASE ~Released(Call.order) /\ ChainStep(Call.level, Call.order)
  BY <1>1, <1>3, ChainStepKeeps DEF Released, ChainFrames
<1>4. CASE /\ Call.level \in DOMAIN book.levels
           /\ ChainStep(LevelAfter(book, Call.level), FirstOrder(book, Call.level))
  <2>1. Call.level \in LevelKey
    BY <1>1, <1>4, BookInvParts DEF Valid, BookShape
  <2>2. LevelAfter(book, Call.level) \in AnyLevel
    BY <1>1, <2>1, LevelAfterType
  <2>3. FirstOrder(book, Call.level) \in DOMAIN book.orders
    BY <1>1, <1>4, FirstOrderType
  <2> QED
    BY <1>1, <1>4, <2>2, <2>3, ChainStepKeeps
<1> QED
  BY <1>1, <1>2, <1>3, <1>4, UseAfterReleaseKeeps, ReturnFromMatchOrderKeeps

-----------------------------------------------------------------------------
(* Match *)

\* Match and the calls that return from it with its frame.
LEMMA ReturnFromMatchKeeps ==
    ASSUME IInv, NEW frame, NEW callers, StackOK(callers, taker), ReturnFromMatch(frame, callers)
    PROVE  Kept
<1>1. /\ calls' = callers /\ book' = book /\ enabled' = enabled /\ taker' = taker
      /\ matching' = IF frame.resets THEN NoMatchingPrice ELSE matching
      /\ Silent
  BY DEF ReturnFromMatch
<1>2. Valid(book') /\ QueueStep(book, book')
  BY <1>1, SameBookIsStep DEF IInv
<1>3. matching' \in MarketPrices
  BY <1>1, Numbers DEF IInv
<1> QED
  BY <1>1, <1>2, <1>3, SilentKeeps, KeptBy DEF IInv

\* A frame of Match in its next stage.
LEMMA StageType ==
    ASSUME NEW f \in MatchFrames, NEW label \in MatchLabels, f.internal => label = "match",
           NEW activated \in BOOLEAN, NEW again \in BOOLEAN
    PROVE  LET g == [f EXCEPT !.at = label, !.activated = activated, !.again = again]
           IN g \in MatchFrames /\ g \in Frame /\ Rank(g) = IF g.internal THEN 3 ELSE 0
BY DEF MatchFrames, MatchLabels, Frame, Rank

\* The same, with only some of the fields assigned.
LEMMA StageFields ==
    ASSUME NEW f \in MatchFrames, NEW label, NEW value
    PROVE  /\ [f EXCEPT !.at = label] =
              [f EXCEPT !.at = label, !.activated = f.activated, !.again = f.again]
           /\ [f EXCEPT !.at = label, !.again = value] =
              [f EXCEPT !.at = label, !.activated = f.activated, !.again = value]
BY DEF MatchFrames

LEMMA MatchStageRank ==
    ASSUME NEW f \in MatchFrames
    PROVE  Rank(f) = IF f.internal THEN 3 ELSE 0
BY DEF MatchFrames, MatchLabels, Rank

\* The frame of Match under way, in its next stage.
LEMMA StageOfCall ==
    ASSUME IInv, calls # << >>, Call.at \in MatchLabels,
           NEW label \in MatchLabels, Call.internal => label = "match",
           NEW activated \in BOOLEAN, NEW again \in BOOLEAN,
           NEW g, g = [Call EXCEPT !.at = label, !.activated = activated, !.again = again]
    PROVE  g \in Frame /\ Rank(g) = Rank(Call) /\ Rank(g) <= Rank(g) /\ \A t : Serves(g, t)
<1>1. Call \in MatchFrames
  BY CallParts, FrameParts
<1>2. /\ g \in MatchFrames /\ g \in Frame
      /\ Rank(g) = IF g.internal THEN 3 ELSE 0
  <2>1. PICK f \in MatchFrames : f = Call
    BY <1>1
  <2>2. g = [f EXCEPT !.at = label, !.activated = activated, !.again = again]
    BY <2>1
  <2>3. f.internal => label = "match"
    BY <2>1
  <2> QED
    BY ONLY <2>2, <2>3, StageType, label \in MatchLabels, activated \in BOOLEAN, again \in BOOLEAN
<1>3. g.internal = Call.internal
  BY <1>1 DEF MatchFrames
<1>4. Rank(g) = Rank(Call) /\ Rank(g) \in {0, 3} /\ Rank(g) <= Rank(g)
  BY <1>1, <1>2, <1>3, MatchStageRank
<1>5. \A t : Serves(g, t)
  BY <1>4, FrameOfRank
<1> QED
  BY <1>2, <1>4, <1>5, Zenon

\* The fields of that frame.
LEMMA MatchFields ==
    ASSUME IInv, calls # << >>, Call.at \in MatchLabels
    PROVE  /\ Call \in MatchFrames
           /\ Call.activated \in BOOLEAN /\ Call.again \in BOOLEAN
           /\ Call.at # "match" => ~Call.internal /\ Rank(Call) = 0
           /\ ~Call.internal => Rank(Call) = 0
<1>1. Call \in MatchFrames
  BY CallParts, FrameParts
<1>2. Call.activated \in BOOLEAN /\ Call.again \in BOOLEAN
  BY <1>1 DEF MatchFrames
<1>3. ~Call.internal => Rank(Call) = 0
  BY <1>1, MatchStageRank
<1>4. Call.at # "match" => ~Call.internal
  BY <1>1 DEF MatchFrames
<1> QED
  BY <1>1, <1>2, <1>3, <1>4, Zenon

LEMMA MatchKeeps ==
    ASSUME IInv, Match
    PROVE  Kept
<1>1. calls # << >> /\ Call.at = "match" /\ Call.at \in MatchLabels /\ Valid(book)
  BY DEF Match, At, MatchLabels, IInv
<1>2. CASE Crossed(book)
  <2> DEFINE label == IF Call.internal THEN "match" ELSE "pair_buy_stops"
             g == [Call EXCEPT !.at = label]
             bid == FirstOrder(book, BestKey(book, "bids"))
             ask == FirstOrder(book, BestKey(book, "asks"))
             f == PairFrame(bid, ask)
             frames == <<g, f>>
  <2>1. label \in MatchLabels /\ (Call.internal => label = "match")
    BY DEF MatchLabels
  <2>2. g = [Call EXCEPT !.at = label, !.activated = Call.activated, !.again = Call.again]
    BY <1>1, MatchFields, StageFields
  <2>3. bid \in AnyOrder /\ ask \in AnyOrder
    <3>1. HasBest(book, "bids") /\ HasBest(book, "asks")
      BY <1>2 DEF Crossed
    <3>2. {"bids", "asks"} \subseteq Collections
      BY DEF Collections, BidCollections, AskCollections
    <3> QED
      BY <1>1, <3>1, <3>2, BestKeyType, FirstOrderType DEF AnyOrder
  <2>4. Goto(frames)
    BY <1>2 DEF Match
  <2> HIDE DEF label, bid, ask
  <2>5. f \in Frame /\ Rank(f) = 3
    BY <2>3, PairFrameType
  <2> HIDE DEF g, f
  <2>6. /\ g \in Frame /\ Rank(g) = Rank(Call) /\ Rank(g) <= Rank(g)
        /\ \A t : Serves(g, t)
    BY <1>1, <2>1, <2>2, MatchFields, StageOfCall
  <2>7. Serves(f, taker) /\ Rank(Call) <= Rank(f) /\ Under(g, f)
    BY <2>5, HighFrame, RankOrder, Zenon
  <2>8. Above(frames, taker)
    BY <2>5, <2>6, <2>7, TwoAbove
  <2> HIDE DEF frames
  <2> QED
    BY <1>1, <2>4, <2>8, GotoKeeps
<1>3. CASE ~Crossed(book) /\ Call.internal
  <2>1. ReturnFromMatch(Call, Callers) /\ StackOK(Callers, taker)
    BY <1>1, <1>3, CallParts DEF Match
  <2> QED
    BY <2>1, ReturnFromMatchKeeps
<1>4. CASE ~Crossed(book) /\ ~Call.internal
  <2> DEFINE g == [Call EXCEPT !.at = "buy_stops", !.activated = FALSE, !.again = FALSE]
  <2>1. Goto(<<g>>)
    BY <1>4 DEF Match
  <2>2. "buy_stops" \in MatchLabels
    BY DEF MatchLabels
  <2>3. /\ g \in Frame /\ Rank(g) = Rank(Call) /\ Rank(g) <= Rank(g)
        /\ \A t : Serves(g, t)
    <3> HIDE DEF g
    <3> QED
      BY <1>1, <1>4, <2>2, StageOfCall DEF g
  <2> HIDE DEF g
  <2>4. Above(<<g>>, taker)
    BY <2>3, OneAbove
  <2> QED
    BY <1>1, <2>1, <2>4, GotoKeeps
<1> QED
  BY <1>2, <1>3, <1>4

LEMMA PairWholeKeeps ==
    ASSUME IInv, At("pair"), NEW i \in DOMAIN book.orders, NEW j \in DOMAIN book.orders,
           PairWhole(book.orders[i], book.orders[j])
    PROVE  Kept
<1> DEFINE bid == book.orders[i]
           ask == book.orders[j]
           chain == ChainForPair(book, bid.Level, ask.Level)
           f == AskChainFrame(ask.Level, ask.Id, chain)
           g == ChainFrame(bid.Level, NoOrder, bid.Price, chain)
           frames == <<f, g>>
           outer == SubSeq(calls, 1, Len(calls) - 2)
<1>1. calls # << >> /\ Valid(book)
  BY DEF At, IInv
<1>2. /\ bid.Level \in LevelKey /\ ask.Level \in LevelKey /\ bid.Price \in UInt64
      /\ ask.Id \in Ids /\ bid.Level \in AnyLevel /\ NoOrder \in AnyOrder
  BY <1>1, LinkedIsPending, Numbers DEF Pending, AnyLevel, AnyOrder
<1>3. chain \in UInt64
  BY ChainForPairType
<1>4. \/ ReturnFromMatch(calls[Len(calls) - 1], outer)
      \/ Goto(frames)
  BY DEF PairWhole
<1> HIDE DEF chain, bid, ask
<1>5. f \in Frame /\ Rank(f) = 3
  BY <1>2, <1>3, AskChainFrameType
<1>6. g \in Frame /\ Rank(g) = 3
  BY <1>2, <1>3, ChainFrameType
<1> HIDE DEF f, g
<1>7. Above(frames, taker)
  <2>1. Serves(f, taker) /\ Rank(Call) <= Rank(f) /\ Serves(g, taker) /\ Rank(Call) <= Rank(g)
    BY <1>5, <1>6, HighFrame
  <2>2. Under(f, g)
    BY <1>6, RankOrder, Zenon
  <2> QED
    BY <1>5, <1>6, <2>1, <2>2, TwoAbove
<1>8. StackOK(outer, taker)
  <2>1. StackOK(calls, taker) /\ Len(calls) - 2 \in Int /\ Len(calls) - 2 <= Len(calls)
    BY LenProperties DEF IInv, StackOK
  <2> QED
    BY <2>1, OuterStack
<1> HIDE DEF frames, outer
<1> QED
  BY <1>1, <1>4, <1>7, <1>8, GotoKeeps, ReturnFromMatchKeeps

LEMMA PairStepKeeps ==
    ASSUME VolumeFits, IInv, At("pair"), NEW i \in DOMAIN book.orders,
           NEW j \in DOMAIN book.orders, PairStep(book.orders[i], book.orders[j])
    PROVE  Kept
<1> DEFINE bid == book.orders[i]
           ask == book.orders[j]
           executing == IF bid.LeavesQuantity > ask.LeavesQuantity THEN ask ELSE bid
           reducing == IF bid.LeavesQuantity > ask.LeavesQuantity THEN bid ELSE ask
           f == ReducingFrame(reducing.Id, executing.Price, executing.LeavesQuantity,
                              NextOrder(book, bid.Id), NextOrder(book, ask.Id))
<1>1. calls # << >> /\ Valid(book)
  BY DEF At, IInv
<1>2. \A o \in {bid, ask} :
         /\ o.Id \in DOMAIN book.orders /\ o.Id \in Ids /\ o.Price \in UInt64
         /\ o.LeavesQuantity \in 1 .. MaxQuantity
  BY <1>1, LinkedIsPending, Numbers DEF Pending
<1>3. NextOrder(book, bid.Id) \in AnyOrder /\ NextOrder(book, ask.Id) \in AnyOrder
  BY <1>1, <1>2, NextOrderType
<1>4. ExecuteWhole(executing.Id, executing.Price, <<f>>)
  BY DEF PairStep
<1>5. executing \in {bid, ask} /\ reducing \in {bid, ask}
  <2> HIDE DEF bid, ask, f
  <2> QED
    OBVIOUS
<1> HIDE DEF bid, ask, executing, reducing
<1>6. f \in Frame /\ Rank(f) = 3
  BY <1>2, <1>3, <1>5, ReducingFrameType
<1> HIDE DEF f
<1>7. Above(<<f>>, taker)
  BY <1>6, HighAbove
<1> QED
  BY <1>1, <1>2, <1>4, <1>5, <1>7, ExecuteWholeKeeps

LEMMA PairKeeps ==
    ASSUME VolumeFits, IInv, Pair
    PROVE  Kept
<1>1. At("pair") /\ calls # << >>
  BY DEF Pair, At
<1>2. \/ Goto(<< >>)
      \/ UseAfterRelease
      \/ /\ ~Released(Call.bid) /\ ~Released(Call.ask)
         /\ \/ PairWhole(book.orders[Call.bid], book.orders[Call.ask])
            \/ PairStep(book.orders[Call.bid], book.orders[Call.ask])
  BY Zenon DEF Pair
<1> QED
  BY <1>1, <1>2, ReturnKeeps, UseAfterReleaseKeeps, PairWholeKeeps, PairStepKeeps DEF Released

LEMMA ReducingKeeps ==
    ASSUME VolumeFits, IInv, Reducing
    PROVE  Kept
<1> DEFINE f == PairFrame(Call.bid, Call.ask)
<1>1. calls # << >> /\ Call \in ReducingFrames
  BY CallParts, FrameParts DEF Reducing, At
<1>2. /\ Call.price \in UInt64 /\ Call.quantity \in Nat
      /\ Call.bid \in AnyOrder /\ Call.ask \in AnyOrder
  BY <1>1, Numbers DEF ReducingFrames
<1>3. \/ UseAfterRelease
      \/ /\ Call.order \in DOMAIN book.orders
         /\ ExecuteResting(Call.order, Call.price, Call.quantity, <<f>>)
  BY DEF Reducing, Released
<1>4. f \in Frame /\ Rank(f) = 3
  BY <1>2, PairFrameType
<1> HIDE DEF f
<1>5. Above(<<f>>, taker)
  BY <1>4, HighAbove
<1> QED
  BY <1>1, <1>2, <1>3, <1>5, UseAfterReleaseKeeps, ExecuteRestingKeeps

LEMMA AskChainKeeps ==
    ASSUME IInv, AskChain
    PROVE  Kept
<1> DEFINE f == ChainFrame(Call.level, NoOrder, book.orders[Call.order].Price, Call.volume)
<1>1. calls # << >> /\ Call \in AskChainFrames /\ Valid(book)
  BY CallParts, FrameParts DEF AskChain, At
<1>2. \/ UseAfterRelease
      \/ Call.order \in DOMAIN book.orders /\ Goto(<<f>>)
  BY DEF AskChain, Released
<1>3. CASE Call.order \in DOMAIN book.orders /\ Goto(<<f>>)
  <2>1. /\ Call.level \in AnyLevel /\ NoOrder \in AnyOrder /\ Call.volume \in UInt64
    BY <1>1 DEF AskChainFrames, AnyLevel, AnyOrder
  <2>2. book.orders[Call.order].Price \in UInt64
    BY <1>1, <1>3, LinkedIsPending DEF Pending
  <2>3. f \in Frame /\ Rank(f) = 3
    BY <2>1, <2>2, ChainFrameType
  <2> HIDE DEF f
  <2>4. Above(<<f>>, taker)
    BY <2>3, HighAbove
  <2> QED
    BY <1>1, <1>3, <2>4, GotoKeeps
<1> QED
  BY <1>2, <1>3, UseAfterReleaseKeeps

-----------------------------------------------------------------------------
(* Stop orders *)

\* An activation is a call for an order of the book, or none.
LEMMA ActivationType ==
    ASSUME Valid(book), NEW c \in Collections
    PROVE  \/ Activation(c) = << >>
           \/ \E order \in AnyOrder : Activation(c) = <<ActivateFrame(order)>>
<1>1. CASE HasBest(book, c) /\ Triggered(book, matching, c, book.best[c])
  <2>1. BestKey(book, c) \in DOMAIN book.levels
    BY <1>1, BestKeyType
  <2>2. FirstOrder(book, BestKey(book, c)) \in AnyOrder
    BY <2>1, FirstOrderType DEF AnyOrder
  <2> QED
    BY <1>1, <2>2 DEF Activation
<1>2. CASE ~(HasBest(book, c) /\ Triggered(book, matching, c, book.best[c]))
  BY <1>2 DEF Activation
<1> QED
  BY <1>1, <1>2

StopCollections == {"buy_stop", "sell_stop", "trailing_buy_stop", "trailing_sell_stop"}

LEMMA StopCollectionsType ==
    StopCollections \subseteq Collections
BY DEF StopCollections, Collections, BidCollections, AskCollections

LEMMA ActivationOfType ==
    ASSUME Valid(book), NEW c \in StopCollections, NEW d \in StopCollections
    PROVE  \/ ActivationOf(c, d) = << >>
           \/ \E order \in AnyOrder : ActivationOf(c, d) = <<ActivateFrame(order)>>
<1>1. c \in Collections /\ d \in Collections
  BY StopCollectionsType
<1>2. ActivationOf(c, d) \in {Activation(c), Activation(d)}
  BY DEF ActivationOf
<1> QED
  BY <1>1, <1>2, ActivationType

\* Above the frame of Match, and the recalculation that follows.
LEMMA ActivationAbove ==
    ASSUME NEW t, NEW s, Above(s, t), Rank(Call) = 0,
           \A i \in 1 .. Len(s) : Rank(s[i]) = 0, NEW activation,
           \/ activation = << >>
           \/ \E order \in AnyOrder : activation = <<ActivateFrame(order)>>
    PROVE  Above(s \o activation, t)
<1>1. Above(activation, t)
  <2>1. CASE activation = << >>
    BY <2>1, NoneAbove
  <2>2. CASE \E order \in AnyOrder : activation = <<ActivateFrame(order)>>
    <3>1. PICK order \in AnyOrder : activation = <<ActivateFrame(order)>>
      BY <2>2
    <3> DEFINE f == ActivateFrame(order)
    <3>2. f \in Frame /\ Rank(f) = 0
      BY ActivateFrameType
    <3> HIDE DEF f
    <3>3. Serves(f, t) /\ Rank(Call) <= Rank(f)
      BY <3>2, LowFrame, RankOrder, Zenon
    <3> QED
      BY <3>1, <3>2, <3>3, OneAbove DEF f
  <2> QED
    BY <2>1, <2>2
<1>2. ASSUME NEW i \in 1 .. Len(s), NEW j \in 1 .. Len(activation)
      PROVE  Under(s[i], activation[j])
  BY RankOrder, Zenon
<1> QED
  BY <1>1, <1>2, MoreAbove

LEMMA PairStopsKeeps ==
    ASSUME IInv, PairStops
    PROVE  Kept
<1>1. ASSUME NEW label \in {"pair_sell_stops", "match"}, NEW c \in StopCollections,
             calls # << >>, Call.at \in {"pair_buy_stops", "pair_sell_stops"},
             Goto(<<[Call EXCEPT !.at = label]>> \o Activation(c))
      PROVE  Kept
  <2> DEFINE g == [Call EXCEPT !.at = label]
             s == <<g>>
  <2>1. Call.at \in MatchLabels /\ label \in MatchLabels /\ Call.at # "match" /\ Valid(book)
    BY <1>1 DEF MatchLabels, IInv
  <2>2. Rank(Call) = 0 /\ ~Call.internal
    BY <1>1, <2>1, MatchFields
  <2>3. g = [Call EXCEPT !.at = label, !.activated = Call.activated, !.again = Call.again]
    BY <1>1, <2>1, MatchFields, StageFields
  <2> HIDE DEF g
  <2>4. /\ g \in Frame /\ Rank(g) = Rank(Call) /\ Rank(Call) <= Rank(g)
        /\ \A t : Serves(g, t)
    BY <1>1, <2>1, <2>2, <2>3, MatchFields, StageOfCall
  <2>5. Above(s, taker) /\ Len(s) = 1 /\ s[1] = g
    BY <2>4, OneAbove, OneFrame
  <2> HIDE DEF s
  <2>6. \A i \in 1 .. Len(s) : Rank(s[i]) = 0
    <3>1. \A i \in 1 .. Len(s) : s[i] = g
      BY <2>5, Indices, Zenon
    <3> QED
      BY <2>2, <2>4, <3>1, Zenon
  <2>7. Above(s \o Activation(c), taker)
    BY <2>1, <2>2, <2>5, <2>6, StopCollectionsType, ActivationType, ActivationAbove
  <2> QED
    BY <1>1, <2>7, GotoKeeps DEF s, g
<1>2. \/ /\ calls # << >> /\ Call.at = "pair_buy_stops"
         /\ Goto(<<[Call EXCEPT !.at = "pair_sell_stops"]>> \o Activation("buy_stop"))
      \/ /\ calls # << >> /\ Call.at = "pair_sell_stops"
         /\ Goto(<<[Call EXCEPT !.at = "match"]>> \o Activation("sell_stop"))
  BY DEF PairStops, At
<1>3. "buy_stop" \in StopCollections /\ "sell_stop" \in StopCollections
  BY DEF StopCollections
<1> QED
  BY <1>1, <1>2, <1>3

LEMMA StopsKeeps ==
    ASSUME IInv, Stops
    PROVE  Kept
<1>1. ASSUME NEW label \in {"sell_stops", "round"}, NEW side \in {"bid", "ask"}, NEW again \in BOOLEAN,
             NEW c \in StopCollections, NEW d \in StopCollections,
             calls # << >>, Call.at \in {"buy_stops", "sell_stops"},
             Goto(<<[Call EXCEPT !.at = label, !.again = again], RecalculateFrame(side)>>
                  \o ActivationOf(c, d))
      PROVE  Kept
  <2> DEFINE g == [Call EXCEPT !.at = label, !.again = again]
             f == RecalculateFrame(side)
             s == <<g, f>>
  <2>1. Call.at \in MatchLabels /\ label \in MatchLabels /\ Call.at # "match" /\ Valid(book)
    BY <1>1 DEF MatchLabels, IInv
  <2>2. Rank(Call) = 0 /\ ~Call.internal
    BY <1>1, <2>1, MatchFields
  <2>3. g = [Call EXCEPT !.at = label, !.activated = Call.activated, !.again = again]
    BY <1>1, <2>1, MatchFields, StageFields
  <2>4. f \in Frame /\ Rank(f) = 0
    BY RecalculateFrameType
  <2> HIDE DEF g, f
  <2>5. /\ g \in Frame /\ Rank(g) = 0 /\ Rank(Call) <= Rank(g)
        /\ \A t : Serves(g, t)
    BY <1>1, <2>1, <2>2, <2>3, MatchFields, StageOfCall
  <2>6. Serves(f, taker) /\ Under(g, f) /\ Rank(Call) <= Rank(f)
    BY <2>2, <2>4, <2>5, LowFrame, RankOrder, Zenon
  <2>7. Above(s, taker) /\ Len(s) = 2 /\ s[1] = g /\ s[2] = f
    BY <2>4, <2>5, <2>6, TwoAbove, TwoFrames
  <2> HIDE DEF s
  <2>8. \A i \in 1 .. Len(s) : Rank(s[i]) = 0
    <3>1. \A i \in 1 .. Len(s) : s[i] = g \/ s[i] = f
      BY <2>7, Indices, Zenon
    <3> QED
      BY <2>4, <2>5, <3>1, Zenon
  <2>9. Above(s \o ActivationOf(c, d), taker)
    BY <2>1, <2>2, <2>7, <2>8, ActivationOfType, ActivationAbove
  <2> QED
    BY <1>1, <2>9, GotoKeeps DEF s, g, f
<1> DEFINE buy == ActivationOf("buy_stop", "trailing_buy_stop")
           sell == ActivationOf("sell_stop", "trailing_sell_stop")
<1>2. \/ /\ calls # << >> /\ Call.at = "buy_stops"
         /\ Goto(<<[Call EXCEPT !.at = "sell_stops", !.again = buy # << >>],
                   RecalculateFrame("ask")>> \o buy)
      \/ /\ calls # << >> /\ Call.at = "sell_stops"
         /\ Goto(<<[Call EXCEPT !.at = "round", !.again = Call.again \/ sell # << >>],
                   RecalculateFrame("bid")>> \o sell)
  BY DEF Stops, At
<1>3. StopCollections = {"buy_stop", "sell_stop", "trailing_buy_stop", "trailing_sell_stop"}
  BY DEF StopCollections
<1>4. (buy # << >>) \in BOOLEAN /\ (Call.again \/ sell # << >>) \in BOOLEAN
  OBVIOUS
<1> QED
  BY <1>1, <1>2, <1>3, <1>4

LEMMA RoundKeeps ==
    ASSUME IInv, Round
    PROVE  Kept
<1>1. calls # << >> /\ Call.at = "round" /\ Call.at \in MatchLabels /\ Call.at # "match"
  BY DEF Round, At, MatchLabels
<1>2. Rank(Call) = 0 /\ ~Call.internal /\ Call \in MatchFrames
      /\ Call.activated \in BOOLEAN /\ Call.again \in BOOLEAN
  BY <1>1, MatchFields
<1>3. ASSUME NEW label \in MatchLabels, NEW activated \in BOOLEAN, NEW again \in BOOLEAN,
             Goto(<<[Call EXCEPT !.at = label, !.activated = activated, !.again = again]>>)
      PROVE  Kept
  <2> DEFINE g == [Call EXCEPT !.at = label, !.activated = activated, !.again = again]
  <2> HIDE DEF g
  <2>1. /\ g \in Frame /\ Rank(Call) <= Rank(g)
        /\ \A t : Serves(g, t)
    BY <1>1, <1>2, <1>3, StageOfCall DEF g
  <2>2. Above(<<g>>, taker)
    BY <2>1, OneAbove
  <2> QED
    BY <1>1, <1>3, <2>2, GotoKeeps DEF g
<1>4. \/ Goto(<<[Call EXCEPT !.at = "buy_stops", !.activated = TRUE, !.again = FALSE]>>)
      \/ Goto(<<[Call EXCEPT !.at = "match"]>>)
      \/ ReturnFromMatch(Call, Callers)
  BY Zenon DEF Round
<1>5. CASE Goto(<<[Call EXCEPT !.at = "buy_stops", !.activated = TRUE, !.again = FALSE]>>)
  <2>1. "buy_stops" \in MatchLabels
    BY DEF MatchLabels
  <2> QED
    BY <1>3, <1>5, <2>1
<1>6. CASE Goto(<<[Call EXCEPT !.at = "match"]>>)
  <2>1. "match" \in MatchLabels
    BY DEF MatchLabels
  <2>2. [Call EXCEPT !.at = "match"] =
           [Call EXCEPT !.at = "match", !.activated = Call.activated, !.again = Call.again]
    BY <1>2, StageFields
  <2> QED
    BY <1>2, <1>3, <1>6, <2>1, <2>2
<1>7. CASE ReturnFromMatch(Call, Callers)
  BY <1>1, <1>7, CallParts, ReturnFromMatchKeeps
<1> QED
  BY <1>4, <1>5, <1>6, <1>7

\* A call that enters an order, with the matching and the end of that.
LEMMA EntryStack ==
    ASSUME NEW t, Unlinked(t), NEW f \in Frame, Rank(f) = 0, NEW b, NEW o
    PROVE  /\ StackOK(<<f, FinishFrame>>, t)
           /\ t.LeavesQuantity > 0 => StackOK(<<f, FinishFrame>> \o Matching(b, o), t)
<1> DEFINE s == <<f, FinishFrame>>
<1>1. FinishFrame \in Frame /\ Rank(FinishFrame) = 1 /\ Serves(FinishFrame, t)
  BY FinishFrameType
<1>2. Serves(f, t) /\ Under(f, FinishFrame)
  BY LowFrame, RankOrder, Zenon
<1>3. StackOK(s, t) /\ Len(s) = 2 /\ s[1] = f /\ s[2] = FinishFrame
  BY <1>1, <1>2, TwoFrames
<1> HIDE DEF s
<1>4. ASSUME t.LeavesQuantity > 0 PROVE StackOK(s \o Matching(b, o), t)
  <2> DEFINE g == MatchOrderFrame(NoOrder)
             r == <<g>>
  <2>1. CASE Matching(b, o) = << >>
    <3>1. 1 .. Len(<< >>) = {}
      BY EmptySeq
    <3> QED
      BY <1>3, <2>1, <3>1, EmptyStack, JoinedStacks
  <2>2. CASE Matching(b, o) = r
    <3>1. NoOrder \in AnyOrder
      BY DEF AnyOrder
    <3>2. g \in Frame /\ Rank(g) = 2 /\ Serves(g, t)
      BY <1>4, <3>1, MatchOrderFrameType
    <3> HIDE DEF g
    <3>3. StackOK(r, t) /\ Len(r) = 1 /\ r[1] = g
      BY <3>2, OneFrame
    <3> HIDE DEF r
    <3>4. Under(f, g) /\ Under(FinishFrame, g)
      BY <1>1, <3>2, RankOrder, Zenon
    <3>5. \A i \in 1 .. Len(s), j \in 1 .. Len(r) : Under(s[i], r[j])
      BY <1>3, <3>3, <3>4, Indices, Zenon
    <3> QED
      BY <1>3, <2>2, <3>3, <3>5, JoinedStacks
  <2> QED
    BY <2>1, <2>2 DEF Matching
<1> QED
  BY <1>3, <1>4 DEF s

\* Calls of rank 0 can go on as any stack.
LEMMA LowAbove ==
    ASSUME NEW t, NEW frames, StackOK(frames, t), Rank(Call) = 0
    PROVE  Above(frames, t)
BY RankOrder, Zenon DEF Above

LEMMA ActivateKeeps ==
    ASSUME VolumeFits, IInv, Activate
    PROVE  Kept
<1>1. calls # << >> /\ Call \in ActivateFrames /\ Call \in Frame /\ Valid(book)
  BY CallParts, FrameParts DEF Activate, At
<1>2. Rank(Call) = 0
  BY <1>1 DEF ActivateFrames, Rank
<1> DEFINE b == DeleteOrder(book, Call.order)
           o == Activated(book.orders[Call.order])
           t == [Priced(b, o) EXCEPT !.Level = NoLevel]
           f == ActivateFrame(NextOrder(book, Call.order))
           frames == <<f, FinishFrame>> \o Matching(b, o)
<1>3. \/ Goto(<< >>)
      \/ UseAfterRelease
      \/ /\ Call.order \in DOMAIN book.orders
         /\ book' = b /\ taker' = t /\ Continue(frames) /\ Silent
         /\ UNCHANGED <<matching, enabled>>
  BY Zenon DEF Activate, Released
<1>4. CASE /\ Call.order \in DOMAIN book.orders
           /\ book' = b /\ taker' = t /\ Continue(frames) /\ Silent
           /\ UNCHANGED <<matching, enabled>>
  <2>1. Valid(b) /\ QueueStep(book, b)
    BY <1>1, <1>4, DeleteOrderKeepsBook, DeleteIsStep DEF Valid, VolumeFits
  <2>2. book.orders[Call.order] \in Pending /\ book.orders[Call.order].LeavesQuantity > 0
    BY <1>1, <1>4, LinkedIsPending
  <2>3. o \in Pending /\ o.LeavesQuantity > 0
    BY <2>2, ActivatedIsPending
  <2> HIDE DEF b, o
  <2>4. Priced(b, o) \in Pending /\ Priced(b, o).LeavesQuantity > 0
    BY <2>1, <2>3, PricedIsPending
  <2>5. Unlinked(t) /\ t.LeavesQuantity > 0
    BY <2>4, TakenInHand
  <2>6. NextOrder(book, Call.order) \in AnyOrder
    BY <1>1, <1>4, NextOrderType
  <2>7. f \in Frame /\ Rank(f) = 0
    BY <2>6, ActivateFrameType
  <2> HIDE DEF t, f
  <2>8. Above(frames, t)
    BY <1>2, <2>5, <2>7, EntryStack, LowAbove
  <2> HIDE DEF frames
  <2>9. Rank(Call) \in {0, 1}
    BY <1>2
  <2>10. StackOK(calls', taker')
    BY <1>1, <1>4, <2>8, <2>9, ContinueKeeps
  <2> QED
    BY <1>4, <2>1, <2>5, <2>10, SilentKeeps, KeptBy DEF IInv
<1> QED
  BY <1>1, <1>3, <1>4, ReturnKeeps, UseAfterReleaseKeeps

-----------------------------------------------------------------------------
(* Trailing stop orders *)

LEMMA WalkFromType ==
    ASSUME Valid(book), NEW c \in Collections, NEW previous \in AnyLevel,
           NEW level \in DOMAIN book.levels \cup {NoLevel}
    PROVE  WalkFrom(c, previous, level) \in Frame /\ Rank(WalkFrom(c, previous, level)) = 0
<1>1. level \in AnyLevel
  BY BookInvParts DEF Valid, BookShape, AnyLevel
<1>2. FirstOf(book, level) \in AnyOrder
  BY FirstOfType
<1> QED
  BY <1>1, <1>2, WalkFrameType DEF WalkFrom

LEMMA LowestAbove ==
    ASSUME NEW t, NEW f \in Frame, Rank(f) = 0, Rank(Call) = 0
    PROVE  Above(<<f>>, t)
<1>1. Serves(f, t) /\ Rank(Call) <= Rank(f)
  BY LowFrame, RankOrder, Zenon
<1> QED
  BY <1>1, OneAbove

LEMMA RecalculateKeeps ==
    ASSUME IInv, Recalculate
    PROVE  Kept
<1>1. calls # << >> /\ Call \in RecalculateFrames /\ Valid(book)
  BY CallParts, FrameParts DEF Recalculate, At
<1>2. Rank(Call) = 0 /\ Call.side \in {"bid", "ask"}
  BY <1>1 DEF RecalculateFrames, Rank
<1> DEFINE price == IF Call.side = "ask" THEN MarketTrailingStopPriceAsk(book, last)
                    ELSE MarketTrailingStopPriceBid(book, last)
           c == IF Call.side = "ask" THEN "trailing_buy_stop" ELSE "trailing_sell_stop"
           f == WalkFrom(c, NoLevel, FirstLevel(book, c))
<1>3. \/ Goto(<< >>)
      \/ /\ trailing' = [trailing EXCEPT ![Call.side] = price]
         /\ Continue(<<f>>) \/ Continue(<< >>)
         /\ trade' = NoTrade
         /\ UNCHANGED <<book, matching, last, enabled, taker, net, fault>>
  BY DEF Recalculate
<1>4. CASE /\ trailing' = [trailing EXCEPT ![Call.side] = price]
           /\ Continue(<<f>>) \/ Continue(<< >>)
           /\ trade' = NoTrade
           /\ UNCHANGED <<book, matching, last, enabled, taker, net, fault>>
  <2>1. price \in UInt64
    <3>1. book.best \in Bests
      BY <1>1, BookInvParts DEF Valid
    <3>2. /\ book.best["bids"] \in UInt64 \cup {NoPrice}
          /\ book.best["asks"] \in UInt64 \cup {NoPrice}
      BY <3>1 DEF Bests, Collections, BidCollections, AskCollections
    <3>3. last.bid \in UInt64 /\ last.ask \in UInt64
      BY DEF IInv, MarketPrices
    <3> QED
      BY <3>2, <3>3, Numbers
         DEF MarketTrailingStopPriceAsk, MarketTrailingStopPriceBid, BestPrice
  <2> HIDE DEF price
  <2>2. trailing' \in MarketPrices
    BY <1>2, <1>4, <2>1 DEF IInv, MarketPrices
  <2>3. c \in Collections /\ NoLevel \in AnyLevel
    BY DEF Collections, BidCollections, AskCollections, AnyLevel
  <2> HIDE DEF c
  <2>4. f \in Frame /\ Rank(f) = 0
    BY <1>1, <2>3, FirstLevelType, WalkFromType
  <2> HIDE DEF f
  <2>5. Above(<<f>>, taker) /\ Above(<< >>, taker)
    BY <1>2, <2>4, LowestAbove, NoneAbove
  <2>6. taker' = taker /\ book' = book
    BY <1>4
  <2>7. StackOK(calls', taker')
    BY <1>1, <1>4, <2>5, <2>6, ContinueKeepsTaker
  <2>8. Valid(book') /\ QueueStep(book, book')
    BY <1>1, <2>6, SameBookIsStep
  <2> QED
    BY <1>4, <2>2, <2>7, <2>8, KeptBy DEF IInv
<1> QED
  BY <1>1, <1>3, <1>4, ReturnKeeps

\* A trailing order that moves leaves its level and enters another.
LEMMA FollowKeeps ==
    ASSUME VolumeFits, IInv, At("walk"), Call.order \in DOMAIN book.orders, Follow(Call.order)
    PROVE  Kept
<1> DEFINE id == Call.order
           old == book.orders[id]
           o == WithTrailingStop(book, last, old)
           moves == o.StopPrice # old.StopPrice
           b == DeleteOrder(book, id)
           f == [Call EXCEPT !.order = NextOrder(book, id),
                             !.recalculated = Call.recalculated \/ moves]
<1>1. calls # << >> /\ Call \in WalkFrames /\ Valid(book)
  BY CallParts, FrameParts DEF At
<1>2. /\ book' = IF moves THEN AddOrder(b, o) ELSE book
      /\ Continue(<<f>>) /\ Silent /\ UNCHANGED <<matching, enabled, taker>>
  BY DEF Follow
<1>3. NextOrder(book, id) \in AnyOrder
  BY <1>1, NextOrderType
<1>4. f \in Frame /\ Rank(f) = 0 /\ Rank(Call) = 0
  <2>1. moves \in BOOLEAN
    OBVIOUS
  <2>2. f \in WalkFrames
    <3> HIDE DEF moves, id
    <3> QED
      BY <1>1, <1>3, <2>1 DEF WalkFrames
  <2> HIDE DEF f
  <2> QED
    BY <1>1, <2>2 DEF Frame, WalkFrames, Rank
<1>5. StackOK(calls', taker')
  <2> HIDE DEF f
  <2>1. Above(<<f>>, taker)
    BY <1>4, LowestAbove
  <2> QED
    BY <1>1, <1>2, <2>1, ContinueKeepsTaker
<1>6. Valid(book') /\ QueueStep(book, book')
  <2>1. CASE ~moves
    <3>1. book' = book
      BY <1>2, <2>1
    <3> QED
      BY <1>1, <3>1, SameBookIsStep
  <2>2. CASE moves
    <3>1. /\ old \in Pending /\ old.LeavesQuantity > 0 /\ old.Type # "MARKET" /\ old.Id = id
      BY <1>1, LinkedIsPending DEF OrderNode
    <3>2. o \in Pending /\ o.Id = id /\ o.LeavesQuantity > 0 /\ o.Type # "MARKET"
      <4> HIDE DEF old, id
      <4> QED
        BY <1>1, <3>1, FollowingIsPending DEF IInv
    <3> HIDE DEF o
    <3>3. o \in Entrant(OrderIds, MaxQuantity)
      BY <3>2, PendingIsEntrant
    <3>4. Valid(b) /\ o.Id \notin DOMAIN b.orders
      <4>1. Valid(b) /\ b.orders = Drop(book.orders, id)
        BY <1>1, DeleteOrderKeepsBook DEF Valid, VolumeFits
      <4> QED
        BY <3>2, <4>1 DEF Drop
    <3>5. book' = AddOrder(b, o)
      BY <1>2, <2>2
    <3>6. Valid(book')
      BY <3>3, <3>4, <3>5, AddOrderKeepsBook DEF Valid, VolumeFits
    <3>7. AllKeys => Enters(b, book')
      BY <3>3, <3>4, <3>5, AddEnters DEF Enters
    <3> QED
      BY <1>1, <3>6, <3>7, DeleteThenEnterIsStep
  <2> QED
    BY <2>1, <2>2
<1> QED
  BY <1>2, <1>5, <1>6, SilentKeeps, KeptBy DEF IInv

LEMMA WalkKeeps ==
    ASSUME VolumeFits, IInv, Walk
    PROVE  Kept
<1>1. At("walk") /\ calls # << >> /\ Call \in WalkFrames /\ Valid(book)
  BY CallParts, FrameParts DEF Walk, At
<1>2. /\ Rank(Call) = 0 /\ Call.collection \in Collections
      /\ Call.previous \in AnyLevel /\ Call.current \in AnyLevel
  BY <1>1 DEF WalkFrames, Rank
<1>3. \/ Goto(<< >>)
      \/ UseAfterRelease
      \/ Call.order \in DOMAIN book.orders /\ Follow(Call.order)
      \/ /\ Call.current # NoLevel
         /\ Call.recalculated => Call.previous \in DOMAIN book.levels \cup {NoLevel}
         /\ Goto(<<NextLevel>>)
  BY DEF Walk, Released
<1>4. CASE /\ Call.current # NoLevel
           /\ Call.recalculated => Call.previous \in DOMAIN book.levels \cup {NoLevel}
           /\ Goto(<<NextLevel>>)
  <2> DEFINE back == IF Call.previous # NoLevel THEN Call.previous
                     ELSE FirstLevel(book, Call.collection)
             after == LevelAfter(book, Call.current)
  <2>1. CASE Call.recalculated
    <3>1. back \in DOMAIN book.levels \cup {NoLevel}
      BY <1>1, <1>2, <1>4, <2>1, FirstLevelType
    <3>2. NextLevel = WalkFrom(Call.collection, Call.previous, back)
      BY <2>1 DEF NextLevel
    <3> HIDE DEF back
    <3>3. NextLevel \in Frame /\ Rank(NextLevel) = 0
      BY <1>1, <1>2, <3>1, <3>2, WalkFromType
    <3> QED
      BY <1>1, <1>2, <1>4, <3>3, LowestAbove, GotoKeeps
  <2>2. CASE ~Call.recalculated
    <3>1. Call.current \in LevelKey
      BY <1>2, <1>4 DEF AnyLevel
    <3>2. after \in DOMAIN book.levels \cup {NoLevel}
      BY <1>1, <3>1, LevelAfterType
    <3>3. NextLevel = WalkFrom(Call.collection, Call.current, after)
      BY <2>2 DEF NextLevel
    <3> HIDE DEF after
    <3>4. NextLevel \in Frame /\ Rank(NextLevel) = 0
      BY <1>1, <1>2, <3>2, <3>3, WalkFromType
    <3> QED
      BY <1>1, <1>2, <1>4, <3>4, LowestAbove, GotoKeeps
  <2> QED
    BY <2>1, <2>2
<1> QED
  BY <1>1, <1>3, <1>4, ReturnKeeps, UseAfterReleaseKeeps, FollowKeeps

-----------------------------------------------------------------------------
(* Calls of the manager *)

LEMMA SubmitKeeps ==
    ASSUME IInv, NEW b, Valid(b), QueueStep(book, b), NEW o \in Pending,
           o.LeavesQuantity > 0, Submit(b, o)
    PROVE  Kept
<1> DEFINE priced == IF enabled THEN Priced(b, o) ELSE o
           t == [priced EXCEPT !.Level = NoLevel]
           s == <<EndOfCall, FinishFrame>>
<1>1. /\ book' = b /\ taker' = t /\ Silent /\ UNCHANGED <<matching, enabled>>
      /\ calls' = s \o (IF enabled THEN Matching(b, o) ELSE << >>)
  BY DEF Submit
<1>2. priced \in Pending /\ priced.LeavesQuantity > 0
  BY PricedIsPending
<1> HIDE DEF priced
<1>3. Unlinked(t) /\ t.LeavesQuantity > 0
  BY <1>2, TakenInHand
<1> HIDE DEF t
<1>4. EndOfCall \in Frame /\ Rank(EndOfCall) = 0
  BY EndOfCallType
<1>5. StackOK(s, t) /\ StackOK(s \o Matching(b, o), t)
  BY <1>3, <1>4, EntryStack
<1>6. s \o << >> = s
  BY <1>5, ConcatEmptySeq DEF StackOK
<1> HIDE DEF s
<1>7. StackOK(calls', taker')
  BY <1>1, <1>5, <1>6
<1> QED
  BY <1>1, <1>3, <1>7, SilentKeeps, KeptBy DEF IInv

LEMMA SettleKeeps ==
    ASSUME IInv, NEW b, Valid(b), QueueStep(book, b), Settle(b)
    PROVE  Kept
<1>1. /\ book' = b /\ calls' = <<EndOfCall>> /\ Silent
      /\ UNCHANGED <<matching, enabled, taker>>
  BY DEF Settle
<1>2. EndOfCall \in Frame /\ Serves(EndOfCall, taker)
  BY EndOfCallType, LowFrame
<1>3. StackOK(calls', taker')
  BY <1>1, <1>2, OneFrame
<1> QED
  BY <1>1, <1>3, SilentKeeps, KeptBy DEF IInv

LEMMA SubmitNewKeeps ==
    ASSUME IInv, NEW o, Unlinked(o), o.LeavesQuantity > 0, SubmitNew(o)
    PROVE  Kept
<1> DEFINE new == WithTrailingStop(book, last, o)
<1>1. Valid(book) /\ QueueStep(book, book) /\ o \in Pending /\ last \in MarketPrices
  BY SameBookIsStep DEF IInv, Unlinked
<1>2. new \in Pending /\ new.LeavesQuantity > 0 /\ new.Level = NoLevel
  BY <1>1, FollowingIsPending DEF Unlinked
<1>3. \/ Submit(book, o)
      \/ Submit(book, Activated(new))
      \/ /\ taker' = new
         /\ calls' = <<EndOfCall, FinishFrame>>
         /\ Silent
         /\ UNCHANGED <<book, matching, enabled>>
  BY Zenon DEF SubmitNew
<1> HIDE DEF new
<1>4. Activated(new) \in Pending /\ Activated(new).LeavesQuantity > 0
  BY <1>2, ActivatedIsPending
<1>5. CASE /\ taker' = new
           /\ calls' = <<EndOfCall, FinishFrame>>
           /\ Silent
           /\ UNCHANGED <<book, matching, enabled>>
  <2>1. Unlinked(new)
    BY <1>2 DEF Unlinked
  <2>2. StackOK(calls', taker')
    BY <1>5, <2>1, EndOfCallType, EntryStack
  <2>3. Valid(book') /\ QueueStep(book, book')
    BY <1>1, <1>5, SameBookIsStep
  <2> QED
    BY <1>5, <2>1, <2>2, <2>3, SilentKeeps, KeptBy DEF IInv
<1> QED
  BY <1>1, <1>3, <1>4, <1>5, SubmitKeeps

LEMMA AddAfterDeleteKeeps ==
    ASSUME IInv, AddAfterDelete
    PROVE  Kept
<1>1. calls # << >> /\ Call \in AddFrames
  BY CallParts, FrameParts DEF AddAfterDelete, At
<1>2. PICK t \in NewOrders, id \in Ids : Call = AddFrame(MakeOrder(t, id))
  BY <1>1 DEF AddFrames
<1>3. Call.new = MakeOrder(t, id)
  BY <1>2 DEF AddFrame
<1>4. Unlinked(Call.new) /\ Call.new.LeavesQuantity > 0
  BY <1>3, NewOrderIsUnlinked
<1>5. SubmitNew(Call.new) \/ Goto(<< >>)
  BY DEF AddAfterDelete
<1> QED
  BY <1>1, <1>4, <1>5, ReturnKeeps, SubmitNewKeeps

LEMMA ResetKeeps ==
    ASSUME IInv, ResetMatchingPrice
    PROVE  Kept
<1>1. /\ calls # << >> /\ calls' = Callers /\ matching' = NoMatchingPrice /\ Silent
      /\ UNCHANGED <<book, enabled, taker>>
  BY DEF ResetMatchingPrice, At
<1>2. StackOK(calls', taker')
  BY <1>1, CallParts
<1>3. Valid(book') /\ QueueStep(book, book') /\ matching' \in MarketPrices
  BY <1>1, SameBookIsStep, Numbers DEF IInv
<1> QED
  BY <1>1, <1>2, <1>3, SilentKeeps, KeptBy DEF IInv

LEMMA StepKeeps ==
    ASSUME VolumeFits, IInv, Step
    PROVE  Kept
BY MatchOrderKeeps, TakeKeeps, FilledKeeps, FinishKeeps, ChainKeeps, MatchKeeps, PairKeeps,
   ReducingKeeps, AskChainKeeps, PairStopsKeeps, StopsKeeps, RoundKeeps, ActivateKeeps,
   RecalculateKeeps, WalkKeeps, AddAfterDeleteKeeps, ResetKeeps
   DEF Step

\* The order of a call without its order in the book.
LEMMA WithoutOrder ==
    ASSUME VolumeFits, IInv, NEW id \in DOMAIN book.orders
    PROVE  /\ Valid(DeleteOrder(book, id)) /\ QueueStep(book, DeleteOrder(book, id))
           /\ book.orders[id] \in Pending
           /\ book.orders[id] \in OrderNode(OrderIds, MaxQuantity)
<1>1. Valid(book)
  BY DEF IInv
<1>2. Valid(DeleteOrder(book, id)) /\ QueueStep(book, DeleteOrder(book, id))
  BY <1>1, DeleteOrderKeepsBook, DeleteIsStep DEF Valid, VolumeFits
<1> QED
  BY <1>1, <1>2, LinkedIsPending

LEMMA ReduceOrderByKeeps ==
    ASSUME VolumeFits, IInv, NEW id \in DOMAIN book.orders, NEW quantity \in Quantities,
           ReduceOrderBy(id, quantity)
    PROVE  Kept
<1> DEFINE o == Reduced(book.orders[id], quantity)
           b == ReduceOrder(book, o)
<1>1. quantity \in Nat /\ Valid(book)
  BY CallAssumption, Numbers DEF IInv
<1>2. IsReduced(o, book.orders[id], OrderIds, MaxQuantity)
  BY <1>1, WithoutOrder, LessIsReduced
<1> HIDE DEF o
<1>3. Valid(b) /\ QueueStep(book, b)
  BY <1>1, <1>2, ReduceOrderKeepsBook, ReduceIsStep DEF Valid, VolumeFits
<1>4. Settle(b)
  BY DEF ReduceOrderBy, o
<1> HIDE DEF b
<1> QED
  BY <1>3, <1>4, SettleKeeps

LEMMA ModifyOrderKeeps ==
    ASSUME VolumeFits, IInv, NEW id \in DOMAIN book.orders, NEW price \in Prices,
           NEW quantity \in Quantities, NEW mitigate \in BOOLEAN,
           ModifyOrder(id, price, quantity, mitigate)
    PROVE  Kept
<1> DEFINE o == Modified(book.orders[id], price, quantity, mitigate)
           b == DeleteOrder(book, id)
<1>1. Valid(b) /\ QueueStep(book, b) /\ o \in Pending
  BY WithoutOrder, ModifiedIsPending
<1>2. (o.LeavesQuantity > 0 /\ Submit(b, o)) \/ Settle(b)
  BY DEF ModifyOrder
<1> HIDE DEF o, b
<1> QED
  BY <1>1, <1>2, SubmitKeeps, SettleKeeps

LEMMA ReplaceOrderKeeps ==
    ASSUME VolumeFits, IInv, NEW id \in DOMAIN book.orders, NEW newId \in Ids,
           NEW price \in Prices, NEW quantity \in Quantities,
           ReplaceOrder(id, newId, price, quantity)
    PROVE  Kept
<1> DEFINE o == Replaced(book.orders[id], newId, price, quantity)
           b == DeleteOrder(book, id)
<1>1. Valid(b) /\ QueueStep(book, b) /\ o \in Pending /\ o.LeavesQuantity > 0
  BY WithoutOrder, ReplacedIsPending
<1>2. Submit(b, o)
  BY DEF ReplaceOrder
<1> HIDE DEF o, b
<1> QED
  BY <1>1, <1>2, SubmitKeeps

LEMMA ReplaceOrderWithKeeps ==
    ASSUME VolumeFits, IInv, NEW id \in DOMAIN book.orders, NEW t \in NewOrders, NEW newId \in Ids,
           ReplaceOrderWith(id, t, newId)
    PROVE  Kept
<1> DEFINE f == AddFrame(MakeOrder(t, newId))
<1>1. /\ book' = DeleteOrder(book, id) /\ calls' = <<f, EndOfCall>> /\ Silent
      /\ UNCHANGED <<matching, enabled, taker>>
  BY DEF ReplaceOrderWith
<1>2. f \in Frame /\ Rank(f) = 0
  BY AddFrameType
<1> HIDE DEF f
<1>3. EndOfCall \in Frame /\ Rank(EndOfCall) = 0
  BY EndOfCallType
<1>4. Serves(f, taker) /\ Serves(EndOfCall, taker) /\ Under(f, EndOfCall)
  BY <1>2, <1>3, LowFrame, RankOrder, Zenon
<1>5. StackOK(<<f, EndOfCall>>, taker)
  BY <1>2, <1>3, <1>4, TwoFrames
<1>6. Valid(book') /\ QueueStep(book, book')
  BY <1>1, WithoutOrder
<1> QED
  BY <1>1, <1>5, <1>6, SilentKeeps, KeptBy DEF IInv

LEMMA ExecuteOrderKeeps ==
    ASSUME VolumeFits, IInv, NEW id \in DOMAIN book.orders,
           NEW price \in Prices \cup {book.orders[id].Price}, NEW quantity \in Quantities,
           ExecuteOrder(id, price, quantity)
    PROVE  Kept
<1> DEFINE o == book.orders[id]
           executed == Executed(o, Lesser(quantity, o.LeavesQuantity))
           b == ReduceOrder(book, executed)
<1>1. /\ book' = b
      /\ matching' = WithPrice(matching, o, price) /\ last' = WithPrice(last, o, price)
      /\ calls' = <<EndOfCall>>
      /\ UNCHANGED <<trailing, enabled, taker, net, fault>>
  BY DEF ExecuteOrder
<1>2. /\ Valid(book) /\ o \in OrderNode(OrderIds, MaxQuantity) /\ o \in Pending
      /\ o.LeavesQuantity \in 1 .. MaxQuantity
  BY LinkedIsPending DEF IInv
<1>3. price \in UInt64
  BY <1>2, CallAssumption DEF Pending
<1>4. Lesser(quantity, o.LeavesQuantity) \in Nat
  <2>1. quantity \in 1 .. MaxQuantity
    BY CallAssumption
  <2> QED
    BY <1>2, <2>1, LesserType
<1> HIDE DEF o
<1>5. IsReduced(executed, o, OrderIds, MaxQuantity)
  BY <1>2, <1>4, LessIsReduced
<1> HIDE DEF executed
<1>6. Valid(b) /\ QueueStep(book, b)
  BY <1>2, <1>5, ReduceOrderKeepsBook, ReduceIsStep DEF Valid, VolumeFits, o
<1> HIDE DEF b
<1>7. matching' \in MarketPrices /\ last' \in MarketPrices
  BY <1>1, <1>3, PriceUpdated DEF IInv
<1>8. StackOK(calls', taker')
  <2>1. EndOfCall \in Frame /\ Serves(EndOfCall, taker)
    BY EndOfCallType, LowFrame
  <2> QED
    BY <1>1, <2>1, OneFrame
<1> QED
  BY <1>1, <1>6, <1>7, <1>8, KeptBy DEF IInv

LEMMA OperationKeeps ==
    ASSUME VolumeFits, IInv, NEW id \in DOMAIN book.orders, Operation(id)
    PROVE  Kept
<1>1. CASE \E q \in Quantities : ReduceOrderBy(id, q)
  BY <1>1, ReduceOrderByKeeps
<1>2. CASE \E p \in Prices, q \in Quantities, mitigate \in BOOLEAN : ModifyOrder(id, p, q, mitigate)
  BY <1>2, ModifyOrderKeeps
<1>3. CASE \E newId \in Ids, p \in Prices, q \in Quantities : ReplaceOrder(id, newId, p, q)
  BY <1>3, ReplaceOrderKeeps
<1>4. CASE \E t \in NewOrders, newId \in Ids : ReplaceOrderWith(id, t, newId)
  BY <1>4, ReplaceOrderWithKeeps
<1>5. CASE CancelOrder(id)
  <2>1. Settle(DeleteOrder(book, id))
    BY <1>5 DEF CancelOrder
  <2> QED
    BY <2>1, WithoutOrder, SettleKeeps
<1>6. CASE \E p \in Prices \cup {book.orders[id].Price}, q \in Quantities : ExecuteOrder(id, p, q)
  BY <1>6, ExecuteOrderKeeps
<1> QED
  BY <1>1, <1>2, <1>3, <1>4, <1>5, <1>6 DEF Operation

LEMMA MatchAllKeeps ==
    ASSUME IInv, NEW enable \in BOOLEAN, MatchAll(enable)
    PROVE  Kept
<1> DEFINE f == MatchFrame(FALSE, FALSE)
<1>1. /\ enabled' = (enabled \/ enable) /\ calls' = <<f>> /\ Silent
      /\ UNCHANGED <<book, matching, taker>>
  BY DEF MatchAll
<1>2. f \in Frame /\ Rank(f) = 0
  BY MatchFrameType
<1> HIDE DEF f
<1>3. StackOK(calls', taker')
  BY <1>1, <1>2, LowFrame, OneFrame
<1>4. Valid(book') /\ QueueStep(book, book') /\ enabled' \in BOOLEAN
  BY <1>1, SameBookIsStep DEF IInv
<1> QED
  BY <1>1, <1>3, <1>4, SilentKeeps, KeptBy DEF IInv

LEMMA DisableMatchingKeeps ==
    ASSUME IInv, DisableMatching
    PROVE  Kept
<1>1. /\ enabled' = FALSE /\ Silent /\ UNCHANGED <<book, matching, taker, calls>>
  BY DEF DisableMatching
<1>2. Valid(book') /\ QueueStep(book, book') /\ StackOK(calls', taker')
  BY <1>1, SameBookIsStep DEF IInv
<1> QED
  BY <1>1, <1>2, SilentKeeps, KeptBy DEF IInv

LEMMA RequestKeeps ==
    ASSUME VolumeFits, IInv, Request
    PROVE  Kept
<1>1. CASE \E t \in NewOrders, id \in Ids : AddNewOrder(t, id)
  BY <1>1, NewOrderIsUnlinked, SubmitNewKeeps DEF AddNewOrder
<1>2. CASE \E id \in DOMAIN book.orders : Operation(id)
  BY <1>2, OperationKeeps
<1>3. CASE \E enable \in BOOLEAN : MatchAll(enable)
  BY <1>3, MatchAllKeeps
<1>4. CASE DisableMatching
  BY <1>4, DisableMatchingKeeps
<1> QED
  BY <1>1, <1>2, <1>3, <1>4 DEF Request

-----------------------------------------------------------------------------
(* The theorems *)

LEMMA InitHolds ==
    Init => IInv
<1> SUFFICES ASSUME Init PROVE IInv
  OBVIOUS
<1>1. Valid(book)
  BY EmptyBookIsValid DEF Init
<1>2. StackOK(calls, taker)
  BY EmptyStack DEF Init
<1>3. matching \in MarketPrices /\ last \in MarketPrices /\ trailing \in MarketPrices
  BY Numbers DEF Init
<1>4. enabled = (Operations \cap {"match", "enable"} = {})
  BY DEF Init
<1>5. enabled \in BOOLEAN
  BY ONLY <1>4, Zenon
<1>6. fault = FALSE /\ net = 0
  BY DEF Init
<1>7. net \in Int
  BY <1>6
<1>8. fault \in BOOLEAN
  BY ONLY <1>6, Zenon
<1>9. taker = NoTaker
  BY DEF Init
<1> QED
  BY <1>1, <1>2, <1>3, <1>5, <1>7, <1>8, <1>9, Zenon DEF IInv

LEMMA StutterHolds ==
    ASSUME IInv, UNCHANGED vars
    PROVE  IInv'
BY DEF vars, IInv, Valid, BookInv, StackOK

\* The invariant is inductive.
THEOREM InvariantHolds ==
    ASSUME VolumeFits
    PROVE  Spec => []IInv
<1>1. Init => IInv
  BY InitHolds
<1>2. IInv /\ [Next]_vars => IInv'
  BY RequestKeeps, StepKeeps, StutterHolds DEF Next, Kept
<1> QED
  BY <1>1, <1>2, PTL DEF Spec

\* What the invariant says, in the words of the properties that TLC checks.
LEMMA InvariantMeans ==
    ASSUME IInv
    PROVE  TypeOK /\ BookIsConsistent
<1>1. IsBook(book, Ids, MaxQuantity) /\ IsConsistent(book)
  BY Numbers DEF IInv, Valid, BookInv
<1>2. {matching, last, trailing} \subseteq [bid : UInt64, ask : UInt64]
  BY DEF IInv, MarketPrices
<1>3. taker = NoTaker \/ /\ taker.Id \in Ids
                         /\ taker.LeavesQuantity \in 0 .. MaxQuantity
                         /\ taker.Level = NoLevel
  BY Numbers DEF IInv, Unlinked, Pending
<1>4. calls \in Seq(Frame) /\ enabled \in BOOLEAN /\ fault \in BOOLEAN /\ net \in Int
  BY DEF IInv, StackOK
<1>5. TypeOK
  BY <1>1, <1>2, <1>3, <1>4 DEF TypeOK
<1>6. BookIsConsistent
  BY <1>1 DEF BookIsConsistent
<1> QED
  BY <1>5, <1>6

\* Types: the call stack holds frames of the calls there are, and while one runs its
\* taker is an order within its quantity that is not linked.
THEOREM TypesHold ==
    ASSUME VolumeFits
    PROVE  Spec => []TypeOK
<1>1. IInv => TypeOK
  BY InvariantMeans
<1> QED
  BY <1>1, InvariantHolds, PTL

\* The book is consistent between any two steps of a call, nested calls included.
THEOREM ConsistencyHolds ==
    ASSUME VolumeFits
    PROVE  Spec => []BookIsConsistent
<1>1. IInv => BookIsConsistent
  BY InvariantMeans
<1> QED
  BY <1>1, InvariantHolds, PTL

\* Orders keep price-time priority: however matching re-enters itself, the book
\* implements the queues, one for every collection and price, step by step.
THEOREM PriorityHolds ==
    ASSUME VolumeFits, QueueKeys = LevelKey
    PROVE  Spec => KeepsPriceTimePriority
<1> DEFINE q == QueuesOf(book)
<1>1. Init => Queues!Init
  BY DEF Init, EmptyBook, QueuesOf, QueueAt, Queues!Init
<1>2. IInv /\ [Next]_vars => [Queues!Next]_q
  <2>1. ASSUME IInv, Next PROVE [Queues!Next]_q
    <3>1. QueueStep(book, book')
      BY <2>1, RequestKeeps, StepKeeps DEF Next, Kept
    <3>2. q' = q \/ Queues!Step(q, q')
      BY <3>1 DEF QueueStep, AllKeys
    <3> QED
      BY <3>2 DEF Queues!Next
  <2>2. ASSUME UNCHANGED vars PROVE q' = q
    BY <2>2 DEF vars
  <2> QED
    BY <2>1, <2>2
<1> QED
  BY <1>1, <1>2, InvariantHolds, PTL DEF Spec, KeepsPriceTimePriority, Queues!Spec

-----------------------------------------------------------------------------
(***************************************************************************)
(* Trailing stop orders, on any book.  RecalculateTrailingStopPrice goes    *)
(* through the levels of a trailing collection while its orders move from   *)
(* level to level; what it has passed is where the market puts it.  Match   *)
(* waits for it after it has found the book uncrossed, which stays so.      *)
(***************************************************************************)

\* The best price of a collection with levels is none worse than another.
LEMMA BestOfLevels ==
    ASSUME NEW b, Valid(b), NEW c \in Collections
    PROVE  /\ PricesIn(b, c) \subseteq UInt64
           /\ HasBest(b, c) <=> PricesIn(b, c) # {}
           /\ HasBest(b, c) => b.best[c] \in PricesIn(b, c)
           /\ \A p \in PricesIn(b, c) : ~Better(c, p, b.best[c])
           /\ ~HasBest(b, c) => b.best[c] = NoPrice
<1>1. /\ DOMAIN b.levels \subseteq LevelKey
      /\ IF PricesIn(b, c) = {} THEN b.best[c] = NoPrice
         ELSE /\ b.best[c] \in PricesIn(b, c)
              /\ \A p \in PricesIn(b, c) : ~Better(c, p, b.best[c])
  BY BookInvParts DEF Valid, BookShape, BestIsBest
<1>2. PricesIn(b, c) \subseteq UInt64
  BY <1>1, PricesInMember
<1> QED
  BY <1>1, <1>2, NoPriceIsNone DEF HasBest

LEMMA SidesAreCollections ==
    /\ "bids" \in Collections /\ "asks" \in Collections
    /\ "bids" \in BidCollections /\ "asks" \notin BidCollections
BY DEF Collections, BidCollections, AskCollections

\* The stop price of an order follows from the market.
Settled(b, l, id) == CalculateTrailingStopPrice(b, l, b.orders[id]) = b.orders[id].StopPrice

\* The levels of a collection up to one, and those before it.
UpTo(c, k, j) == j[1] = c /\ ~Better(c, k[2], j[2])
Before(c, k, j) == j[1] = c /\ (k = NoLevel \/ Better(c, j[2], k[2]))

SettledUpTo(b, l, c, k) ==
    \A id \in DOMAIN b.orders : UpTo(c, k, b.orders[id].Level) => Settled(b, l, id)
SettledBefore(b, l, c, k) ==
    \A id \in DOMAIN b.orders : Before(c, k, b.orders[id].Level) => Settled(b, l, id)

\* The orders of a list before next, if it is one, or all of them.
SettledInList(b, l, list, next) ==
    \E n \in 1 .. Len(list) + 1 :
       /\ \A i \in 1 .. Len(list) : i < n => Settled(b, l, list[i])
       /\ next = IF n <= Len(list) THEN list[n] ELSE NoOrder

TrailingCollections == {"trailing_buy_stop", "trailing_sell_stop"}

\* What a walk has passed is settled, up to the level it goes back to and before the one
\* it is at; in that one too, unless an order was moved from it.
Tracks(b, l, f) ==
    /\ f.collection \in TrailingCollections
    /\ f.previous # NoLevel =>
          f.previous[1] = f.collection /\ SettledUpTo(b, l, f.collection, f.previous)
    /\ SettledBefore(b, l, f.collection, f.current)
    /\ f.current # NoLevel =>
          /\ f.current[1] = f.collection
          /\ f.order # NoOrder => f.order \in DOMAIN b.orders /\ b.orders[f.order].Level = f.current
          /\ ~f.recalculated =>
                /\ f.current \in DOMAIN b.levels
                /\ SettledInList(b, l, b.levels[f.current].OrderList, f.order)

\* A call of Match that has found the book uncrossed, and no stop order due since.
FoundUncrossed(f) ==
    /\ f.at \in {"buy_stops", "sell_stops", "round"}
    /\ ~f.activated
    /\ f.again => f.at = "buy_stops"

\* Only the innermost call walks.  A call of Match waits for nothing but that after it
\* has found the book uncrossed, and orders that follow the market do not cross it.
Tracked ==
    fault \/ \A i \in 1 .. Len(calls) :
                /\ calls[i].at = "walk" => i = Len(calls) /\ Tracks(book, last, calls[i])
                /\ FoundUncrossed(calls[i]) =>
                      /\ ~Crossed(book)
                      /\ \A j \in 1 .. Len(calls) : j > i => calls[j].at \in {"recalculate", "walk"}

-----------------------------------------------------------------------------
(* Calls that Tracked says nothing of *)

Aside(f) == f.at # "walk" /\ ~FoundUncrossed(f)

Still(s) == \A i \in 1 .. Len(s) : Aside(s[i])

\* The innermost call is not about trailing orders.
Elsewhere == Call.at \notin {"walk", "recalculate"}

LEMMA StillJoin ==
    ASSUME NEW U, NEW s \in Seq(U), NEW r \in Seq(U), Still(s), Still(r)
    PROVE  Still(s \o r)
<1>1. /\ Len(s \o r) = Len(s) + Len(r) /\ Len(s) \in Nat /\ Len(r) \in Nat
      /\ \A i \in 1 .. Len(s) + Len(r) :
            (s \o r)[i] = IF i <= Len(s) THEN s[i] ELSE r[i - Len(s)]
  BY ConcatProperties, LenProperties
<1>2. ASSUME NEW i \in 1 .. Len(s) + Len(r)
      PROVE  (i <= Len(s) => i \in 1 .. Len(s)) /\ (~(i <= Len(s)) => i - Len(s) \in 1 .. Len(r))
  BY <1>1
<1> QED
  BY <1>1, <1>2 DEF Still

LEMMA StillElements ==
    ASSUME NEW U, NEW s \in Seq(U), \A f \in U : Aside(f)
    PROVE  Still(s)
<1>1. \A i \in 1 .. Len(s) : s[i] \in U
  BY ElementOfSeq
<1> QED
  BY <1>1 DEF Still

\* Callers of a call that is not about trailing orders do not walk, and have not found
\* the book uncrossed.
LEMMA StillBefore ==
    ASSUME IInv, Tracked, calls # << >>, ~fault, Elsewhere
    PROVE  /\ calls \in Seq(Frame) /\ Len(calls) \in Nat \ {0}
           /\ \A n \in Int : n < Len(calls) =>
                 SubSeq(calls, 1, n) \in Seq(Frame) /\ Still(SubSeq(calls, 1, n))
<1>1. StackOK(calls, taker) /\ calls \in Seq(Frame) /\ Len(calls) \in Nat \ {0}
  BY CallOf DEF IInv, StackOK
<1>2. ASSUME NEW i \in 1 .. Len(calls), i < Len(calls)
      PROVE  Aside(calls[i])
  <2>1. calls[i].at # "walk"
    BY <1>1, <1>2 DEF Tracked
  <2>2. Len(calls) \in 1 .. Len(calls)
    BY <1>1
  <2>3. ~FoundUncrossed(calls[i])
    BY <1>2, <2>2 DEF Tracked, Elsewhere, Call
  <2> QED
    BY <2>1, <2>3 DEF Aside
<1>3. ASSUME NEW n \in Int, n < Len(calls)
      PROVE  SubSeq(calls, 1, n) \in Seq(Frame) /\ Still(SubSeq(calls, 1, n))
  <2>1. StackOK(SubSeq(calls, 1, n), taker)
        /\ \A i \in 1 .. Len(SubSeq(calls, 1, n)) :
              i \in 1 .. Len(calls) /\ i <= n /\ SubSeq(calls, 1, n)[i] = calls[i]
    BY <1>1, <1>3, OuterStack
  <2>2. \A i \in 1 .. Len(SubSeq(calls, 1, n)) : i \in 1 .. Len(calls) /\ i < Len(calls)
    BY <1>1, <1>3, <2>1
  <2> QED
    BY <1>2, <2>1, <2>2 DEF StackOK, Still
<1> QED
  BY <1>1, <1>3

LEMMA StillCallers ==
    ASSUME IInv, Tracked, calls # << >>, ~fault, Elsewhere
    PROVE  Callers \in Seq(Frame) /\ Still(Callers)
<1>1. Len(calls) - 1 \in Int /\ Len(calls) - 1 < Len(calls)
  BY StillBefore
<1> QED
  BY <1>1, StillBefore DEF Callers

LEMMA StillIsTracked ==
    ASSUME Still(calls')
    PROVE  Tracked'
BY DEF Still, Aside, Tracked

\* The innermost call goes on as frames of U.
LEMMA ContinueStill ==
    ASSUME IInv, Tracked, calls # << >>, ~fault, Elsewhere,
           NEW U, \A f \in U : Aside(f), NEW frames \in Seq(U), Continue(frames)
    PROVE  Tracked'
<1> DEFINE V == Frame \cup U
<1>1. Callers \in Seq(Frame) /\ Still(Callers)
  BY StillCallers
<1>2. Still(frames)
  BY StillElements
<1>3. Callers \in Seq(V) /\ frames \in Seq(V)
  <2>1. Frame \subseteq V /\ U \subseteq V
    OBVIOUS
  <2> HIDE DEF V
  <2> QED
    BY <1>1, <2>1, SeqMonotonic
<1> HIDE DEF V
<1>4. Still(Callers \o frames)
  BY <1>1, <1>2, <1>3, StillJoin
<1> QED
  BY <1>4, StillIsTracked DEF Continue

\* At most two frames, and then perhaps another one.
Pushes(f, g, h) ==
    \E s \in {<< >>, <<f>>, <<f, g>>}, r \in {<< >>, <<h>>} : Continue(s) \/ Continue(s \o r)

LEMMA PushesStill ==
    ASSUME IInv, Tracked, calls # << >>, ~fault, Elsewhere,
           NEW f, Aside(f), NEW g, Aside(g), NEW h, Aside(h), Pushes(f, g, h)
    PROVE  Tracked'
<1> DEFINE U == {f, g, h}
<1>1. PICK s \in {<< >>, <<f>>, <<f, g>>}, r \in {<< >>, <<h>>} : Continue(s) \/ Continue(s \o r)
  BY DEF Pushes
<1>2. s \in Seq(U) /\ r \in Seq(U)
  <2>1. f \in U /\ g \in U /\ h \in U
    OBVIOUS
  <2> HIDE DEF U
  <2>2. << >> \in Seq(U) /\ <<f>> \in Seq(U) /\ <<f, g>> \in Seq(U) /\ <<h>> \in Seq(U)
    BY <2>1
  <2>3. s = << >> \/ s = <<f>> \/ s = <<f, g>>
    BY <1>1, Zenon
  <2>4. r = << >> \/ r = <<h>>
    BY <1>1, Zenon
  <2> QED
    BY <2>2, <2>3, <2>4, Zenon
<1>3. \A x \in U : Aside(x)
  OBVIOUS
<1> HIDE DEF U
<1>4. s \o r \in Seq(U)
  BY <1>2, ConcatProperties
<1> QED
  BY <1>1, <1>2, <1>3, <1>4, ContinueStill

LEMMA OneStill ==
    ASSUME IInv, Tracked, calls # << >>, ~fault, Elsewhere,
           NEW f, Aside(f), Continue(<<f>>)
    PROVE  Tracked'
<1>1. Pushes(f, f, f)
  BY DEF Pushes
<1> QED
  BY <1>1, PushesStill

LEMMA TwoStill ==
    ASSUME IInv, Tracked, calls # << >>, ~fault, Elsewhere,
           NEW f, Aside(f), NEW g, Aside(g), Continue(<<f, g>>)
    PROVE  Tracked'
<1>1. Pushes(f, g, f)
  BY DEF Pushes
<1> QED
  BY <1>1, PushesStill

LEMMA ReturnStill ==
    ASSUME IInv, Tracked, calls # << >>, ~fault, Elsewhere,
           calls' = << >> \/ calls' = Callers \/ Continue(<< >>)
    PROVE  Tracked'
<1>1. Callers \in Seq(Frame) /\ Still(Callers)
  BY StillCallers
<1>2. Callers \o << >> = Callers
  BY <1>1, ConcatEmptySeq
<1>3. Still(<< >>)
  BY DEF Still
<1> QED
  BY <1>1, <1>2, <1>3, StillIsTracked DEF Continue

\* The innermost call goes on as a frame that found the book uncrossed, if it is, and
\* perhaps as one about trailing orders.
LEMMA FoundTracked ==
    ASSUME IInv, Tracked, calls # << >>, ~fault, Elsewhere,
           NEW f, f.at # "walk", FoundUncrossed(f) => ~Crossed(book'),
           NEW g, g.at = "recalculate", Aside(g), Continue(<<f>>) \/ Continue(<<f, g>>)
    PROVE  Tracked'
<1> DEFINE U == {f, g}
            V == Frame \cup U
<1>1. Callers \in Seq(Frame) /\ Still(Callers)
  BY StillCallers
<1>2. PICK r \in {<<f>>, <<f, g>>} : calls' = Callers \o r
  BY DEF Continue
<1>3. r[1] = f /\ Len(r) \in {1, 2} /\ (Len(r) = 2 => r[2] = g) /\ r \in Seq(U)
  <2>1. f \in U /\ g \in U
    OBVIOUS
  <2> HIDE DEF U
  <2>2. <<f>> \in Seq(U) /\ <<f, g>> \in Seq(U)
    BY <2>1
  <2>3. CASE r = <<f>>
    BY <2>2, <2>3
  <2>4. CASE r = <<f, g>>
    BY <2>2, <2>4
  <2> QED
    BY <1>2, <2>3, <2>4, Zenon
<1>4. Callers \in Seq(V) /\ r \in Seq(V)
  <2>1. Frame \subseteq V /\ U \subseteq V
    OBVIOUS
  <2> HIDE DEF V, U
  <2> QED
    BY <1>1, <1>3, <2>1, SeqMonotonic
<1> HIDE DEF V, U
<1>5. /\ Len(calls') = Len(Callers) + Len(r) /\ Len(Callers) \in Nat /\ Len(r) \in Nat
      /\ \A i \in 1 .. Len(Callers) + Len(r) :
            calls'[i] = IF i <= Len(Callers) THEN Callers[i] ELSE r[i - Len(Callers)]
  BY <1>2, <1>4, ConcatProperties, LenProperties
<1>6. ASSUME NEW i \in 1 .. Len(calls')
      PROVE  \/ i <= Len(Callers) /\ Aside(calls'[i])
             \/ i = Len(Callers) + 1 /\ calls'[i] = f
             \/ i = Len(Callers) + 2 /\ calls'[i] = g
  <2>1. CASE i <= Len(Callers)
    BY <1>1, <1>5, <2>1 DEF Still
  <2>2. CASE ~(i <= Len(Callers))
    <3>1. i = Len(Callers) + 1 \/ (i = Len(Callers) + 2 /\ Len(r) = 2)
      BY <1>3, <1>5, <2>2
    <3>2. calls'[i] = r[i - Len(Callers)]
      BY <1>5, <2>2
    <3>3. i - Len(Callers) = 1 \/ (i - Len(Callers) = 2 /\ Len(r) = 2)
      BY <1>5, <3>1
    <3> QED
      BY <1>3, <3>1, <3>2, <3>3
  <2> QED
    BY <2>1, <2>2
<1>7. ASSUME NEW i \in 1 .. Len(calls')
      PROVE  /\ calls'[i].at # "walk"
             /\ FoundUncrossed(calls'[i]) =>
                   /\ ~Crossed(book')
                   /\ \A j \in 1 .. Len(calls') : j > i => calls'[j].at \in {"recalculate", "walk"}
  <2>1. calls'[i].at # "walk" /\ (FoundUncrossed(calls'[i]) => calls'[i] = f)
    BY <1>6 DEF Aside
  <2>2. ASSUME FoundUncrossed(calls'[i])
        PROVE  i = Len(Callers) + 1
    BY <1>6, <2>2 DEF Aside
  <2>3. ASSUME FoundUncrossed(calls'[i]), NEW j \in 1 .. Len(calls'), j > i
        PROVE  calls'[j].at = "recalculate"
    <3>1. j = Len(Callers) + 2 /\ calls'[j] = g
      BY <1>5, <1>6, <2>2, <2>3
    <3> QED
      BY <3>1
  <2> QED
    BY <2>1, <2>3
<1> QED
  BY <1>7 DEF Tracked

\* Nothing is known after released memory was used.
LEMMA UseIsTracked ==
    ASSUME UseAfterRelease
    PROVE  Tracked'
BY DEF UseAfterRelease, Tracked

\* The frames of the other calls.
LEMMA Labels ==
    /\ \A x, y : Aside(MatchFrame(x, y))
    /\ \A x : Aside(MatchOrderFrame(x)) /\ Aside(ActivateFrame(x))
              /\ Aside(RecalculateFrame(x)) /\ Aside(AddFrame(x))
    /\ \A x, y, z : Aside(TakeFrame(x, y, z)) /\ Aside(AskChainFrame(x, y, z))
    /\ \A w, x, y, z : Aside(ChainFrame(w, x, y, z))
    /\ \A x, y : Aside(PairFrame(x, y))
    /\ \A v, w, x, y, z : Aside(ReducingFrame(v, w, x, y, z))
    /\ Aside(FilledFrame) /\ Aside(FinishFrame) /\ Aside(ResetFrame)
    /\ Aside(EndOfCall)
BY DEF MatchFrame, MatchOrderFrame, ActivateFrame, RecalculateFrame, AddFrame, TakeFrame,
       AskChainFrame, ChainFrame, PairFrame, ReducingFrame, FilledFrame, FinishFrame,
       ResetFrame, EndOfCall, Aside, FoundUncrossed

LEMMA ReturnInternalStill ==
    ASSUME IInv, Tracked, calls # << >>, ~fault, Elsewhere,
           NEW b, NEW o, NEW price, NEW f, Aside(f), ReturnInternal(b, o, price, <<f>>)
    PROVE  Tracked'
<1> DEFINE g == MatchFrame(TRUE, TRUE)
<1>1. Aside(g)
  BY Labels
<1>2. Pushes(f, f, g)
  BY DEF ReturnInternal, Pushes
<1> HIDE DEF g
<1> QED
  BY <1>1, <1>2, PushesStill

LEMMA ExecutionStill ==
    ASSUME IInv, Tracked, calls # << >>, ~fault, Elsewhere,
           NEW id, NEW price, NEW quantity, NEW f, Aside(f),
           ExecuteResting(id, price, quantity, <<f>>) \/ ExecuteWhole(id, price, <<f>>)
    PROVE  Tracked'
BY ReturnInternalStill DEF ExecuteResting, ExecuteWhole

-----------------------------------------------------------------------------
(* Steps that are no walk *)

LEMMA GotoStill ==
    ASSUME IInv, Tracked, calls # << >>, ~fault, Elsewhere,
           NEW f, Aside(f), Goto(<< >>) \/ Goto(<<f>>)
    PROVE  Tracked'
<1>1. Pushes(f, f, f)
  BY DEF Pushes, Goto
<1> QED
  BY <1>1, PushesStill

LEMMA GotoTwoStill ==
    ASSUME IInv, Tracked, calls # << >>, ~fault, Elsewhere,
           NEW f, Aside(f), NEW g, Aside(g), Goto(<<f, g>>)
    PROVE  Tracked'
BY TwoStill DEF Goto

LEMMA ReturnsStill ==
    ASSUME IInv, Tracked, calls # << >>, ~fault, Elsewhere,
           ReturnFromMatchOrder \/ Goto(<< >>) \/ ReturnFromMatch(Call, Callers)
    PROVE  Tracked'
BY ReturnStill DEF ReturnFromMatchOrder, Goto, ReturnFromMatch

LEMMA MatchAgainstStill ==
    ASSUME IInv, Tracked, calls # << >>, ~fault, Elsewhere,
           NEW id, MatchAgainst(id)
    PROVE  Tracked'
<1> DEFINE o == book.orders[id]
            quantity == Lesser(o.LeavesQuantity, taker.LeavesQuantity)
            f == TakeFrame(o.Price, quantity, NextOrder(book, id))
<1>1. ReturnFromMatchOrder \/ ExecuteResting(id, o.Price, quantity, <<f>>)
  BY DEF MatchAgainst
<1>2. Aside(f)
  BY Labels
<1> HIDE DEF o, quantity, f
<1> QED
  BY <1>1, <1>2, ReturnsStill, ExecutionStill

LEMMA MatchOrderStill ==
    ASSUME IInv, Tracked, MatchOrder
    PROVE  Tracked'
<1>1. calls # << >> /\ ~fault /\ Elsewhere
  BY DEF MatchOrder, At, Elsewhere
<1>2. \/ UseAfterRelease \/ ReturnFromMatchOrder
      \/ MatchAgainst(Call.next) \/ MatchAgainst(FirstOrder(book, BestKey(book, Opposite(taker))))
      \/ MatchWhole(BestKey(book, Opposite(taker)))
  BY DEF MatchOrder
<1>3. ASSUME NEW k, MatchWhole(k)
      PROVE  Tracked'
  <2> DEFINE chain == ChainForOrder(book, taker, k)
              g == ChainFrame(k, NoOrder, taker.Price, chain)
  <2>1. ReturnFromMatchOrder \/ Continue(<<FilledFrame, g>>)
    BY <1>3 DEF MatchWhole
  <2>2. Aside(g) /\ Aside(FilledFrame)
    BY Labels
  <2> HIDE DEF g
  <2> QED
    BY <1>1, <2>1, <2>2, ReturnsStill, TwoStill
<1> QED
  BY <1>1, <1>2, <1>3, UseIsTracked, ReturnsStill, MatchAgainstStill

LEMMA TakeStill ==
    ASSUME IInv, Tracked, Take \/ Filled
    PROVE  Tracked'
<1> DEFINE f == MatchOrderFrame(Call.next)
<1>1. calls # << >> /\ ~fault /\ Elsewhere
  BY DEF Take, Filled, At, Elsewhere
<1>2. Continue(<< >>) \/ Continue(<<f>>)
  BY DEF Take, Filled, ExecuteTaker
<1>3. Aside(f)
  BY Labels
<1> HIDE DEF f
<1> QED
  BY <1>1, <1>2, <1>3, ReturnStill, OneStill

LEMMA FinishStill ==
    ASSUME IInv, Tracked, Finish
    PROVE  Tracked'
<1>1. calls # << >> /\ ~fault /\ Elsewhere
  BY DEF Finish, At, Elsewhere
<1>2. calls' = << >> \/ calls' = Callers
  BY DEF Finish
<1> QED
  BY <1>1, <1>2, ReturnStill

LEMMA ChainStepStill ==
    ASSUME IInv, Tracked, calls # << >>, ~fault, Elsewhere,
           NEW k, NEW id, ChainStep(k, id)
    PROVE  Tracked'
<1>1. PICK next, quantity, volume :
         LET f == ChainFrame(k, next, Call.price, volume)
         IN ExecuteWhole(id, Call.price, <<f>>) \/ ExecuteResting(id, Call.price, quantity, <<f>>)
  BY DEF ChainStep
<1>2. Aside(ChainFrame(k, next, Call.price, volume))
  BY Labels
<1> QED
  BY <1>1, <1>2, ExecutionStill

LEMMA ExecuteMatchingChainStill ==
    ASSUME IInv, Tracked, ExecuteMatchingChain
    PROVE  Tracked'
<1>1. calls # << >> /\ ~fault /\ Elsewhere
  BY DEF ExecuteMatchingChain, At, Elsewhere
<1>2. \/ UseAfterRelease \/ ReturnFromMatchOrder
      \/ \E k, id : ChainStep(k, id)
  BY DEF ExecuteMatchingChain
<1> QED
  BY <1>1, <1>2, UseIsTracked, ReturnsStill, ChainStepStill

\* A call of Match under another label.
LEMMA Relabelled ==
    ASSUME NEW f \in MatchFrames, NEW label
    PROVE  /\ [f EXCEPT !.at = label].at = label
           /\ label \in {"match", "pair_buy_stops", "pair_sell_stops"} =>
                 Aside([f EXCEPT !.at = label])
BY DEF MatchFrames, Aside, FoundUncrossed

LEMMA RelabelledRound ==
    ASSUME NEW f \in MatchFrames, NEW label, NEW x \in BOOLEAN, NEW y \in BOOLEAN
    PROVE  LET g == [f EXCEPT !.at = label, !.activated = x, !.again = y]
           IN g.at = label /\ g.activated = x /\ (x /\ label # "walk" => Aside(g))
BY DEF MatchFrames, Aside, FoundUncrossed

LEMMA MatchCall ==
    ASSUME IInv, calls # << >>, Call.at \in MatchLabels
    PROVE  Call \in MatchFrames
BY CallParts, FrameParts

LEMMA MatchStill ==
    ASSUME IInv, Tracked, Match
    PROVE  Tracked'
<1>1. calls # << >> /\ ~fault /\ Elsewhere /\ Call \in MatchFrames
  BY MatchCall DEF Match, At, Elsewhere, MatchLabels
<1> DEFINE label == IF Call.internal THEN "match" ELSE "pair_buy_stops"
            f == [Call EXCEPT !.at = label]
            g == PairFrame(FirstOrder(book, BestKey(book, "bids")),
                           FirstOrder(book, BestKey(book, "asks")))
            h == [Call EXCEPT !.at = "buy_stops", !.activated = FALSE, !.again = FALSE]
<1>2. \/ Goto(<<f, g>>) \/ ReturnFromMatch(Call, Callers)
      \/ ~Crossed(book) /\ Goto(<<h>>)
  BY DEF Match
<1>3. Aside(f) /\ Aside(g)
  <2>1. label \in {"match", "pair_buy_stops", "pair_sell_stops"}
    OBVIOUS
  <2> HIDE DEF label
  <2> QED
    BY <1>1, <2>1, Relabelled, Labels
<1>4. h.at = "buy_stops"
  <2>1. PICK c \in MatchFrames : c = Call
    BY <1>1
  <2>2. h = [c EXCEPT !.at = "buy_stops", !.activated = FALSE, !.again = FALSE]
    BY <2>1
  <2> HIDE DEF h
  <2> QED
    BY <2>2 DEF MatchFrames
<1> HIDE DEF f, g, h
<1>5. CASE ~Crossed(book) /\ Goto(<<h>>)
  <2> DEFINE r == RecalculateFrame("bid")
  <2>1. r.at = "recalculate" /\ Aside(r) /\ h.at # "walk"
    BY <1>4, Labels DEF RecalculateFrame
  <2>2. ~Crossed(book') /\ Continue(<<h>>)
    BY <1>5 DEF Goto
  <2> HIDE DEF r
  <2> QED
    BY <1>1, <2>1, <2>2, FoundTracked
<1> QED
  BY <1>1, <1>2, <1>3, <1>5, GotoTwoStill, ReturnsStill

\* The execution of a pair ends with it or with the call of Match around it.
LEMMA PairStill ==
    ASSUME IInv, Tracked, Pair
    PROVE  Tracked'
<1>1. calls # << >> /\ ~fault /\ Elsewhere
  BY DEF Pair, At, Elsewhere
<1>2. \/ Goto(<< >>) \/ UseAfterRelease
      \/ \E bid, ask : PairWhole(bid, ask) \/ PairStep(bid, ask)
  BY DEF Pair
<1>3. ASSUME NEW bid, NEW ask, PairWhole(bid, ask)
      PROVE  Tracked'
  <2> DEFINE chain == ChainForPair(book, bid.Level, ask.Level)
              f == AskChainFrame(ask.Level, ask.Id, chain)
              g == ChainFrame(bid.Level, NoOrder, bid.Price, chain)
  <2>1. calls' = SubSeq(calls, 1, Len(calls) - 2) \/ Goto(<<f, g>>)
    BY <1>3 DEF PairWhole, ReturnFromMatch
  <2>2. Aside(f) /\ Aside(g)
    BY Labels
  <2> HIDE DEF f, g
  <2>3. CASE calls' = SubSeq(calls, 1, Len(calls) - 2)
    <3>1. Len(calls) \in Nat /\ Len(calls) - 2 \in Int /\ Len(calls) - 2 < Len(calls)
      BY <1>1, StillBefore
    <3>2. Still(SubSeq(calls, 1, Len(calls) - 2))
      BY <1>1, <3>1, StillBefore
    <3> QED
      BY <2>3, <3>2, StillIsTracked
  <2> QED
    BY <1>1, <2>1, <2>2, <2>3, GotoTwoStill
<1>4. ASSUME NEW bid, NEW ask, PairStep(bid, ask)
      PROVE  Tracked'
  <2>1. PICK id, price, rid, quantity, nextBid, nextAsk :
           ExecuteWhole(id, price, <<ReducingFrame(rid, price, quantity, nextBid, nextAsk)>>)
    BY <1>4 DEF PairStep
  <2>2. Aside(ReducingFrame(rid, price, quantity, nextBid, nextAsk))
    BY Labels
  <2> QED
    BY <1>1, <2>1, <2>2, ExecutionStill
<1> QED
  BY <1>1, <1>2, <1>3, <1>4, ReturnsStill, UseIsTracked

LEMMA ReducingStill ==
    ASSUME IInv, Tracked, Reducing
    PROVE  Tracked'
<1> DEFINE f == PairFrame(Call.bid, Call.ask)
<1>1. calls # << >> /\ ~fault /\ Elsewhere
  BY DEF Reducing, At, Elsewhere
<1>2. UseAfterRelease \/ ExecuteResting(Call.order, Call.price, Call.quantity, <<f>>)
  BY DEF Reducing
<1>3. Aside(f)
  BY Labels
<1> HIDE DEF f
<1> QED
  BY <1>1, <1>2, <1>3, UseIsTracked, ExecutionStill

LEMMA AskChainStill ==
    ASSUME IInv, Tracked, AskChain
    PROVE  Tracked'
<1> DEFINE f == ChainFrame(Call.level, NoOrder, book.orders[Call.order].Price, Call.volume)
<1>1. calls # << >> /\ ~fault /\ Elsewhere
  BY DEF AskChain, At, Elsewhere
<1>2. UseAfterRelease \/ Goto(<<f>>)
  BY DEF AskChain
<1>3. Aside(f)
  BY Labels
<1> HIDE DEF f
<1> QED
  BY <1>1, <1>2, <1>3, UseIsTracked, GotoStill

\* The orders of a triggered level are activated in a call of their own, or none is.
IsActivation(s) == s = << >> \/ \E id : s = <<ActivateFrame(id)>>

LEMMA ActivationsAre ==
    \A c, d : IsActivation(Activation(c)) /\ IsActivation(ActivationOf(c, d))
BY DEF Activation, ActivationOf, IsActivation

\* Two frames, and perhaps an activation.
LEMMA WithActivationStill ==
    ASSUME IInv, Tracked, calls # << >>, ~fault, Elsewhere,
           NEW f, Aside(f), NEW g, Aside(g), NEW s, IsActivation(s),
           Continue(<<f>> \o s) \/ Continue(<<f, g>> \o s)
    PROVE  Tracked'
<1>1. PICK id : s = << >> \/ s = <<ActivateFrame(id)>>
  BY DEF IsActivation
<1> DEFINE h == ActivateFrame(id)
<1>2. Aside(h)
  BY Labels
<1>3. s \in {<< >>, <<h>>}
  BY <1>1
<1> HIDE DEF h
<1>4. Pushes(f, g, h)
  BY <1>3 DEF Pushes
<1> QED
  BY <1>2, <1>4, PushesStill

LEMMA PairStopsStill ==
    ASSUME IInv, Tracked, PairStops
    PROVE  Tracked'
<1>1. calls # << >> /\ ~fault /\ Elsewhere /\ Call \in MatchFrames
  BY MatchCall DEF PairStops, At, Elsewhere, MatchLabels
<1> DEFINE f == [Call EXCEPT !.at = "pair_sell_stops"]
            g == [Call EXCEPT !.at = "match"]
<1>2. Continue(<<f>> \o Activation("buy_stop")) \/ Continue(<<g>> \o Activation("sell_stop"))
  BY DEF PairStops, Goto
<1>3. Aside(f) /\ Aside(g)
  BY <1>1, Relabelled
<1> HIDE DEF f, g
<1> QED
  BY <1>1, <1>2, <1>3, ActivationsAre, WithActivationStill

LEMMA CallAgain ==
    ASSUME Call \in MatchFrames, NEW label \in {"sell_stops", "round"}, NEW x \in BOOLEAN,
           NEW g, g = [Call EXCEPT !.at = label, !.again = x]
    PROVE  /\ g.at = label /\ g.again = x /\ g.activated = Call.activated
           /\ x => Aside(g)
<1>1. PICK f \in MatchFrames : f = Call
  OBVIOUS
<1>2. g = [f EXCEPT !.at = label, !.again = x]
  BY <1>1
<1>3. g.at = label /\ g.again = x /\ g.activated = f.activated
  BY <1>2 DEF MatchFrames
<1>4. x => Aside(g)
  BY <1>3 DEF Aside, FoundUncrossed
<1> QED
  BY <1>1, <1>3, <1>4

\* A half of a round.
LEMMA HalfStill ==
    ASSUME IInv, Tracked, calls # << >>, ~fault, Elsewhere, Call \in MatchFrames,
           NEW s, IsActivation(s), NEW label \in {"sell_stops", "round"}, NEW side,
           NEW x \in BOOLEAN, s # << >> => x,
           FoundUncrossed([Call EXCEPT !.at = label, !.again = x]) => FoundUncrossed(Call),
           Goto(<<[Call EXCEPT !.at = label, !.again = x], RecalculateFrame(side)>> \o s)
    PROVE  Tracked'
<1> DEFINE f == [Call EXCEPT !.at = label, !.again = x]
            g == RecalculateFrame(side)
<1>1. f.at # "walk" /\ (x => Aside(f)) /\ Aside(g) /\ g.at = "recalculate"
  <2>1. f.at = label /\ label # "walk" /\ (x => Aside(f))
    <3>1. f = [Call EXCEPT !.at = label, !.again = x]
      OBVIOUS
    <3> HIDE DEF f
    <3> QED
      BY <3>1, CallAgain
  <2>2. Aside(g) /\ g.at = "recalculate"
    BY Labels DEF RecalculateFrame
  <2> QED
    BY <2>1, <2>2
<1>2. FoundUncrossed(f) => ~Crossed(book)
  <2>1. Len(calls) \in 1 .. Len(calls)
    BY StillBefore
  <2> HIDE DEF f
  <2> QED
    BY <2>1 DEF Tracked, Call, f
<1>3. Continue(<<f, g>> \o s) /\ book' = book
  BY DEF Goto
<1> HIDE DEF f, g
<1>4. CASE s # << >>
  BY <1>1, <1>3, <1>4, WithActivationStill
<1>5. CASE s = << >>
  <2>1. <<f, g>> \o << >> = <<f, g>>
    OBVIOUS
  <2>2. Continue(<<f, g>>) /\ (FoundUncrossed(f) => ~Crossed(book'))
    BY <1>2, <1>3, <1>5, <2>1
  <2> QED
    BY <1>1, <2>2, FoundTracked
<1> QED
  BY <1>4, <1>5

LEMMA StopsStill ==
    ASSUME IInv, Tracked, Stops
    PROVE  Tracked'
<1>1. calls # << >> /\ ~fault /\ Elsewhere /\ Call \in MatchFrames
      /\ Call.at \in {"buy_stops", "sell_stops"}
  BY MatchCall DEF Stops, At, MatchLabels, Elsewhere
<1>2. CASE At("buy_stops")
  <2> DEFINE s == ActivationOf("buy_stop", "trailing_buy_stop")
  <2>1. Goto(<<[Call EXCEPT !.at = "sell_stops", !.again = s # << >>], RecalculateFrame("ask")>>
             \o s)
    BY <1>2 DEF Stops, At
  <2>2. IsActivation(s)
    BY ActivationsAre
  <2> HIDE DEF s
  <2>3. PICK x \in BOOLEAN : x = (s # << >>)
    OBVIOUS
  <2>4. Goto(<<[Call EXCEPT !.at = "sell_stops", !.again = x], RecalculateFrame("ask")>> \o s)
    BY <2>1, <2>3
  <2> DEFINE f == [Call EXCEPT !.at = "sell_stops", !.again = x]
  <2>5. f.at = "sell_stops" /\ f.again = x /\ f.activated = Call.activated
    <3>1. PICK label : label = "sell_stops"
      OBVIOUS
    <3>2. f = [Call EXCEPT !.at = label, !.again = x]
      BY <3>1
    <3> HIDE DEF f
    <3> QED
      BY <1>1, <3>1, <3>2, CallAgain
  <2>6. FoundUncrossed(f) => FoundUncrossed(Call)
    <3> HIDE DEF f
    <3> QED
      BY <1>2, <2>3, <2>5 DEF FoundUncrossed, At
  <2> QED
    BY <1>1, <2>2, <2>3, <2>4, <2>6, HalfStill
<1>3. CASE At("sell_stops")
  <2> DEFINE s == ActivationOf("sell_stop", "trailing_sell_stop")
  <2>1. Goto(<<[Call EXCEPT !.at = "round", !.again = @ \/ s # << >>], RecalculateFrame("bid")>>
             \o s)
    BY <1>3 DEF Stops, At
  <2>2. IsActivation(s)
    BY ActivationsAre
  <2> HIDE DEF s
  <2>3. PICK x \in BOOLEAN : x = (Call.again \/ s # << >>)
    OBVIOUS
  <2>4. Goto(<<[Call EXCEPT !.at = "round", !.again = x], RecalculateFrame("bid")>> \o s)
    BY <2>1, <2>3
  <2> DEFINE f == [Call EXCEPT !.at = "round", !.again = x]
  <2>5. f.at = "round" /\ f.again = x /\ f.activated = Call.activated
    <3>1. PICK label : label = "round"
      OBVIOUS
    <3>2. f = [Call EXCEPT !.at = label, !.again = x]
      BY <3>1
    <3> HIDE DEF f
    <3> QED
      BY <1>1, <3>1, <3>2, CallAgain
  <2>6. FoundUncrossed(f) => FoundUncrossed(Call)
    <3> HIDE DEF f
    <3> QED
      BY <1>3, <2>3, <2>5 DEF FoundUncrossed, At
  <2> QED
    BY <1>1, <2>2, <2>3, <2>4, <2>6, HalfStill
<1> QED
  BY <1>2, <1>3 DEF Stops

LEMMA RoundStill ==
    ASSUME IInv, Tracked, Round
    PROVE  Tracked'
<1>1. calls # << >> /\ ~fault /\ Elsewhere /\ Call \in MatchFrames
  BY MatchCall DEF Round, At, MatchLabels, Elsewhere
<1> DEFINE f == [Call EXCEPT !.at = "buy_stops", !.activated = TRUE, !.again = FALSE]
            g == [Call EXCEPT !.at = "match"]
<1>2. Goto(<<f>>) \/ Goto(<<g>>) \/ ReturnFromMatch(Call, Callers)
  BY DEF Round
<1>3. Aside(f) /\ Aside(g)
  BY <1>1, Relabelled, RelabelledRound
<1> HIDE DEF f, g
<1> QED
  BY <1>1, <1>2, <1>3, GotoStill, ReturnsStill

LEMMA ActivateStill ==
    ASSUME IInv, Tracked, Activate
    PROVE  Tracked'
<1> DEFINE b == DeleteOrder(book, Call.order)
            o == Activated(book.orders[Call.order])
            f == ActivateFrame(NextOrder(book, Call.order))
            h == MatchOrderFrame(NoOrder)
<1>1. calls # << >> /\ ~fault /\ Elsewhere
  BY DEF Activate, At, Elsewhere
<1>2. Goto(<< >>) \/ UseAfterRelease \/ Continue(<<f, FinishFrame>> \o Matching(b, o))
  BY DEF Activate
<1>3. Matching(b, o) \in {<< >>, <<h>>}
  BY DEF Matching
<1>4. Aside(f) /\ Aside(h) /\ Aside(FinishFrame)
  BY Labels
<1> HIDE DEF b, o, f, h
<1>5. Continue(<<f, FinishFrame>> \o Matching(b, o)) => Pushes(f, FinishFrame, h)
  BY <1>3 DEF Pushes
<1> QED
  BY <1>1, <1>2, <1>4, <1>5, ReturnsStill, UseIsTracked, PushesStill

\* A call of the caller enters two frames, and perhaps one more.
LEMMA EntryStill ==
    ASSUME NEW f, Aside(f), NEW g, Aside(g), NEW h, Aside(h),
           NEW s \in {<< >>, <<h>>},
           calls' = <<f>> \/ calls' = <<f, g>> \/ calls' = <<f, g>> \o s
    PROVE  Tracked'
<1> DEFINE U == {f, g, h}
<1>1. f \in U /\ g \in U /\ h \in U /\ \A x \in U : Aside(x)
  OBVIOUS
<1> HIDE DEF U
<1>2. <<f>> \in Seq(U) /\ <<f, g>> \in Seq(U)
  BY <1>1
<1>3. s = << >> \/ s = <<h>>
  BY Zenon
<1>4. s \in Seq(U)
  <2>1. << >> \in Seq(U) /\ <<h>> \in Seq(U)
    BY <1>1
  <2> QED
    BY <1>3, <2>1, Zenon
<1>5. <<f, g>> \o s \in Seq(U)
  BY <1>2, <1>4, ConcatProperties
<1>6. Still(<<f>>) /\ Still(<<f, g>>) /\ Still(<<f, g>> \o s)
  BY <1>1, <1>2, <1>5, StillElements
<1> QED
  BY <1>6, StillIsTracked

LEMMA SubmitStill ==
    ASSUME NEW b, NEW o, Submit(b, o)
    PROVE  Tracked'
<1> DEFINE h == MatchOrderFrame(NoOrder)
            s == IF enabled THEN Matching(b, o) ELSE << >>
<1>1. calls' = <<EndOfCall, FinishFrame>> \o s
  BY DEF Submit
<1>2. s \in {<< >>, <<h>>}
  BY DEF Matching
<1>3. Aside(h) /\ Aside(EndOfCall) /\ Aside(FinishFrame)
  BY Labels
<1> HIDE DEF h, s
<1> QED
  BY <1>1, <1>2, <1>3, EntryStill

LEMMA SubmitNewStill ==
    ASSUME NEW o, SubmitNew(o)
    PROVE  Tracked'
<1>1. \/ \E b, p : Submit(b, p)
      \/ calls' = <<EndOfCall, FinishFrame>>
  BY DEF SubmitNew
<1>2. Aside(EndOfCall) /\ Aside(FinishFrame)
  BY Labels
<1>3. << >> \in {<< >>, <<FinishFrame>>}
  OBVIOUS
<1> QED
  BY <1>1, <1>2, <1>3, SubmitStill, EntryStill

LEMMA AddAfterDeleteStill ==
    ASSUME IInv, Tracked, AddAfterDelete \/ ResetMatchingPrice
    PROVE  Tracked'
<1>1. calls # << >> /\ ~fault /\ Elsewhere
  BY DEF AddAfterDelete, ResetMatchingPrice, At, Elsewhere
<1>2. SubmitNew(Call.new) \/ Goto(<< >>) \/ calls' = Callers
  BY DEF AddAfterDelete, ResetMatchingPrice
<1> QED
  BY <1>1, <1>2, SubmitNewStill, ReturnsStill, ReturnStill

LEMMA SettleStill ==
    ASSUME NEW b, Settle(b)
    PROVE  Tracked'
<1>1. calls' = <<EndOfCall>> /\ Aside(EndOfCall) /\ << >> \in {<< >>, <<EndOfCall>>}
  BY Labels DEF Settle
<1> QED
  BY <1>1, EntryStill

LEMMA OperationStill ==
    ASSUME NEW id, Operation(id)
    PROVE  Tracked'
<1>1. \/ \E b : Settle(b)
      \/ \E b, o : Submit(b, o)
      \/ \E t \in NewOrders, newId \in Ids : ReplaceOrderWith(id, t, newId)
      \/ \E p, q : ExecuteOrder(id, p, q)
  BY DEF Operation, ReduceOrderBy, ModifyOrder, ReplaceOrder, CancelOrder
<1>2. ASSUME NEW t \in NewOrders, NEW newId \in Ids, ReplaceOrderWith(id, t, newId)
      PROVE  Tracked'
  <2> DEFINE f == AddFrame(MakeOrder(t, newId))
  <2>1. calls' = <<f, EndOfCall>>
    BY <1>2 DEF ReplaceOrderWith
  <2>2. Aside(f) /\ Aside(EndOfCall) /\ << >> \in {<< >>, <<EndOfCall>>}
    BY Labels
  <2> HIDE DEF f
  <2> QED
    BY <2>1, <2>2, EntryStill
<1>3. ASSUME NEW p, NEW q, ExecuteOrder(id, p, q)
      PROVE  Tracked'
  <2>1. calls' = <<EndOfCall>> /\ Aside(EndOfCall) /\ << >> \in {<< >>, <<EndOfCall>>}
    BY <1>3, Labels DEF ExecuteOrder
  <2> QED
    BY <2>1, EntryStill
<1> QED
  BY <1>1, <1>2, <1>3, SettleStill, SubmitStill

LEMMA RequestStill ==
    ASSUME Request
    PROVE  Tracked'
<1>1. CASE \E enable \in BOOLEAN : MatchAll(enable)
  <2> DEFINE f == MatchFrame(FALSE, FALSE)
  <2>1. calls' = <<f>> /\ Aside(f) /\ << >> \in {<< >>, <<f>>}
    BY <1>1, Labels DEF MatchAll
  <2> HIDE DEF f
  <2> QED
    BY <2>1, EntryStill
<1>2. CASE DisableMatching
  <2>1. calls' = << >>
    BY <1>2 DEF DisableMatching, Request, Idle
  <2> QED
    BY <2>1 DEF Tracked
<1>3. CASE \E t \in NewOrders, id \in Ids : AddNewOrder(t, id)
  BY <1>3, SubmitNewStill DEF AddNewOrder
<1>4. CASE \E id \in DOMAIN book.orders : Operation(id)
  BY <1>4, OperationStill
<1> QED
  BY <1>1, <1>2, <1>3, <1>4 DEF Request

-----------------------------------------------------------------------------
(* The trailing collections of a book *)

\* Prices are ordered from the best to the worst.
LEMMA BetterIsOrder ==
    ASSUME NEW c, NEW p \in Nat, NEW q \in Nat
    PROVE  /\ Better(c, p, q) => ~Better(c, q, p) /\ p # q
           /\ ~Better(c, p, q) /\ ~Better(c, q, p) => p = q
BY DEF Better

\* A level before another is up to it, and one up to it is before it or is it.
LEMMA BeforeIsUpTo ==
    ASSUME NEW c, NEW k \in LevelKey, NEW j \in LevelKey, k[1] = c
    PROVE  /\ Before(c, k, j) => UpTo(c, k, j)
           /\ UpTo(c, k, j) => Before(c, k, j) \/ j = k
<1>1. k = <<k[1], k[2]>> /\ j = <<j[1], j[2]>> /\ k[2] \in UInt64 /\ j[2] \in UInt64
  BY DEF LevelKey
<1>2. k[2] \in Nat /\ j[2] \in Nat /\ k # NoLevel
  BY <1>1, Numbers, LevelAssumption
<1>3. /\ Better(c, j[2], k[2]) => ~Better(c, k[2], j[2])
      /\ ~Better(c, k[2], j[2]) /\ ~Better(c, j[2], k[2]) => k[2] = j[2]
  BY <1>2, BetterIsOrder
<1> QED
  BY <1>1, <1>2, <1>3 DEF Before, UpTo

\* The orders of a trailing collection.
LEMMA TrailingOrder ==
    ASSUME NEW o \in OrderNode(OrderIds, MaxQuantity), CollectionOf(o) \in TrailingCollections
    PROVE  /\ o.Type \in TrailingTypes
           /\ CollectionOf(o) = IF IsBuy(o) THEN "trailing_buy_stop" ELSE "trailing_sell_stop"
           /\ KeyOf(o) = <<CollectionOf(o), o.StopPrice>>
<1>1. o.Type \in TrailingTypes
  <2>1. o.Type \in {"LIMIT"} \cup StopTypes \cup TrailingTypes
    BY DEF OrderNode, OrderType
  <2>2. o.Type = "LIMIT" => CollectionOf(o) \in {"bids", "asks"}
    BY DEF CollectionOf, IsLimit, IsTrailing, StopTypes, TrailingTypes
  <2>3. o.Type \in StopTypes => CollectionOf(o) \in {"buy_stop", "sell_stop"}
    BY DEF CollectionOf, IsLimit, IsTrailing, StopTypes, TrailingTypes
  <2> QED
    BY <2>1, <2>2, <2>3 DEF TrailingCollections
<1>2. o.Type \notin StopTypes /\ ~IsLimit(o) /\ IsTrailing(o)
  BY <1>1 DEF StopTypes, TrailingTypes, IsLimit, IsTrailing
<1> QED
  BY <1>1, <1>2 DEF CollectionOf, KeyOf

\* The market a trailing order follows depends on the best bid and the best ask only.
SameBestPrices(b, b2) == b2.best["bids"] = b.best["bids"] /\ b2.best["asks"] = b.best["asks"]

LEMMA SameStopPrice ==
    ASSUME NEW b, NEW b2, SameBestPrices(b, b2), NEW l, NEW o
    PROVE  CalculateTrailingStopPrice(b2, l, o) = CalculateTrailingStopPrice(b, l, o)
<1>1. /\ MarketTrailingStopPriceAsk(b2, l) = MarketTrailingStopPriceAsk(b, l)
      /\ MarketTrailingStopPriceBid(b2, l) = MarketTrailingStopPriceBid(b, l)
  BY DEF SameBestPrices, MarketTrailingStopPriceAsk, MarketTrailingStopPriceBid, BestPrice
<1> QED
  BY <1>1 DEF CalculateTrailingStopPrice

\* Following the market a second time changes nothing.
LEMMA StopPriceIsStable ==
    ASSUME NEW b, b.best \in Bests, NEW l \in MarketPrices,
           NEW o, o.StopPrice \in UInt64, o.TrailingDistance \in Int, o.TrailingStep \in Int,
           NEW p, p.Side = o.Side, p.TrailingDistance = o.TrailingDistance,
           p.TrailingStep = o.TrailingStep,
           p.StopPrice = CalculateTrailingStopPrice(b, l, o)
    PROVE  CalculateTrailingStopPrice(b, l, p) = p.StopPrice
<1> DEFINE market == IF IsBuy(o) THEN MarketTrailingStopPriceAsk(b, l)
                      ELSE MarketTrailingStopPriceBid(b, l)
            Absolute(n) == IF o.TrailingDistance < 0
                           THEN ((-n * market) % UInt64Size) \div 10000 ELSE n
            distance == Absolute(o.TrailingDistance)
            step == Absolute(o.TrailingStep)
            up == IF market < Wrap(OrderIntMax - distance) THEN Wrap(market + distance)
                  ELSE OrderIntMax
            down == IF market > distance THEN market - distance ELSE 0
            Follows(old) == IF IsBuy(o) THEN IF up < old /\ old - up >= step THEN up ELSE old
                            ELSE IF down > old /\ down - old >= step THEN down ELSE old
<1>1. CalculateTrailingStopPrice(b, l, o) = Follows(o.StopPrice)
  BY DEF CalculateTrailingStopPrice
<1>2. CalculateTrailingStopPrice(b, l, p) = Follows(p.StopPrice)
  BY DEF CalculateTrailingStopPrice, IsBuy
<1>3. o.StopPrice \in Int /\ Follows(o.StopPrice) \in Int
  <2>1. Follows(o.StopPrice) \in UInt64
    BY <1>1, TrailingStopPriceType DEF MarketPrices
  <2>2. \A x \in UInt64 : x \in Int
    BY Numbers
  <2> HIDE DEF Follows
  <2> QED
    BY <2>1, <2>2
<1>4. Follows(Follows(o.StopPrice)) = Follows(o.StopPrice)
  <2> HIDE DEF up, down, step
  <2>1. CASE IsBuy(o) /\ up < o.StopPrice /\ o.StopPrice - up >= step
    <3>1. Follows(o.StopPrice) = up
      BY <2>1
    <3> QED
      BY <1>3, <2>1, <3>1
  <2>2. CASE ~IsBuy(o) /\ down > o.StopPrice /\ down - o.StopPrice >= step
    <3>1. Follows(o.StopPrice) = down
      BY <2>2
    <3> QED
      BY <1>3, <2>2, <3>1
  <2>3. CASE ~(IsBuy(o) /\ up < o.StopPrice /\ o.StopPrice - up >= step)
             /\ ~(~IsBuy(o) /\ down > o.StopPrice /\ down - o.StopPrice >= step)
    <3>1. Follows(o.StopPrice) = o.StopPrice
      BY <2>3
    <3> QED
      BY <3>1
  <2> QED
    BY <2>1, <2>2, <2>3
<1> HIDE DEF Follows
<1> QED
  BY <1>1, <1>2, <1>4

\* Nothing in a trailing collection moves the market.
LEMMA DeleteKeepsMarket ==
    ASSUME NEW b, Valid(b), NEW id, b.orders[id].Level[1] \in TrailingCollections
    PROVE  SameBestPrices(b, DeleteOrder(b, id))
<1> DEFINE k == b.orders[id].Level
            b1 == [b EXCEPT !.orders = Drop(@, id)]
<1>1. k[1] # "bids" /\ k[1] # "asks" /\ {"bids", "asks"} \subseteq Collections
  BY DEF TrailingCollections, Collections, BidCollections, AskCollections
<1>2. PICK level : DeleteOrder(b, id) = SetLevel(b1, k, level)
  BY DEF DeleteOrder
<1>3. SetLevel(b1, k, level).best = b1.best
      \/ \E p : SetLevel(b1, k, level).best = [b1.best EXCEPT ![k[1]] = p]
  <2>1. b = [orders |-> b.orders, levels |-> b.levels, best |-> b.best]
    BY BookInvParts DEF Valid, BookShape
  <2>2. b1 = [orders |-> b1.orders, levels |-> b1.levels, best |-> b1.best]
    BY <2>1
  <2> DEFINE p == IF b1.best[k[1]] = k[2] THEN NextPrice(b1, k) ELSE b1.best[k[1]]
  <2>3. DeleteLevel(b1, k).best = [b1.best EXCEPT ![k[1]] = p]
    BY DEF DeleteLevel
  <2>4. [b1 EXCEPT !.levels = Put(@, k, level)].best = b1.best
    BY <2>2
  <2>5. SetLevel(b1, k, level) = DeleteLevel(b1, k)
        \/ SetLevel(b1, k, level) = [b1 EXCEPT !.levels = Put(@, k, level)]
    BY DEF SetLevel
  <2> HIDE DEF p, b1, k
  <2> QED
    BY <2>3, <2>4, <2>5
<1>4. b1.best = b.best
  OBVIOUS
<1> HIDE DEF k, b1
<1> QED
  BY <1>1, <1>2, <1>3, <1>4, BookInvParts DEF Valid, SameBestPrices, Bests

LEMMA AddKeepsMarket ==
    ASSUME NEW b, b.best \in Bests, NEW o, KeyOf(o)[1] \in TrailingCollections
    PROVE  SameBestPrices(b, AddOrder(b, o))
<1> DEFINE k == KeyOf(o)
<1>1. k[1] # "bids" /\ k[1] # "asks" /\ {"bids", "asks"} \subseteq Collections
  BY DEF TrailingCollections, Collections, BidCollections, AskCollections
<1>2. AddOrder(b, o).best = b.best \/ \E p : AddOrder(b, o).best = [b.best EXCEPT ![k[1]] = p]
  BY DEF AddOrder, BestAfterAdd
<1> HIDE DEF k
<1> QED
  BY <1>1, <1>2 DEF SameBestPrices, Bests

\* The order of a trailing collection that follows the market.
IsFollowing(b, l, id) ==
    LET o == b.orders[id]
        p == WithTrailingStop(b, l, o)
        linked == [p EXCEPT !.Level = KeyOf(p)]
    IN /\ p.Id = id
       /\ p.StopPrice = CalculateTrailingStopPrice(b, l, o)
       /\ KeyOf(p)[1] = o.Level[1]
       /\ CalculateTrailingStopPrice(b, l, linked) = linked.StopPrice

LEMMA FollowingOrder ==
    ASSUME NEW b, Valid(b), NEW l \in MarketPrices, NEW id \in DOMAIN b.orders,
           b.orders[id].Level[1] \in TrailingCollections
    PROVE  IsFollowing(b, l, id)
<1> DEFINE o == b.orders[id]
            p == WithTrailingStop(b, l, o)
            stop == CalculateTrailingStopPrice(b, l, o)
            distance == Wrap(o.Price - o.StopPrice)
            price == Wrap(stop + distance)
            linked == [p EXCEPT !.Level = KeyOf(p)]
<1>1. /\ o \in Pending /\ o \in OrderNode(OrderIds, MaxQuantity) /\ o.Id = id
      /\ o.LeavesQuantity > 0 /\ o.Level = KeyOf(o)
  BY LinkedIsPending
<1>2. /\ o.Type \in TrailingTypes
      /\ CollectionOf(o) = IF IsBuy(o) THEN "trailing_buy_stop" ELSE "trailing_sell_stop"
      /\ KeyOf(o) = <<CollectionOf(o), o.StopPrice>>
  <2>1. KeyOf(o)[1] = CollectionOf(o)
    BY DEF KeyOf
  <2> QED
    BY <1>1, <2>1, TrailingOrder
<1>3. p \in Pending /\ p.Id = id /\ p.LeavesQuantity > 0 /\ p.Type = o.Type
  <2> HIDE DEF o
  <2> QED
    BY <1>1, FollowingIsPending
<1>6. p = [o EXCEPT !.StopPrice = stop] \/ p = [o EXCEPT !.StopPrice = stop, !.Price = price]
  BY <1>2 DEF WithTrailingStop, TrailingTypes
<1>7. /\ p.StopPrice = stop /\ p.Side = o.Side
      /\ p.TrailingDistance = o.TrailingDistance /\ p.TrailingStep = o.TrailingStep
  <2> HIDE DEF p, o, stop, price
  <2> QED
    BY <1>1, <1>6 DEF Pending
<1>8. KeyOf(p)[1] = o.Level[1]
  <2>1. CollectionOf(p) = CollectionOf(o)
    <3> HIDE DEF p, o
    <3> QED
      BY <1>2, <1>3, <1>7 DEF CollectionOf, IsLimit, IsTrailing, IsBuy
  <2>2. KeyOf(p)[1] = CollectionOf(p) /\ KeyOf(o)[1] = CollectionOf(o)
    BY DEF KeyOf
  <2> QED
    BY <1>1, <2>1, <2>2
<1>9. /\ linked.StopPrice = stop /\ linked.Side = o.Side
      /\ linked.TrailingDistance = o.TrailingDistance /\ linked.TrailingStep = o.TrailingStep
  <2> DEFINE k == KeyOf(p)
  <2> HIDE DEF p, o, stop, k
  <2>1. /\ [p EXCEPT !.Level = k].StopPrice = p.StopPrice
        /\ [p EXCEPT !.Level = k].Side = p.Side
        /\ [p EXCEPT !.Level = k].TrailingDistance = p.TrailingDistance
        /\ [p EXCEPT !.Level = k].TrailingStep = p.TrailingStep
    BY <1>3 DEF Pending
  <2> QED
    BY <1>7, <2>1 DEF k
<1>10. CalculateTrailingStopPrice(b, l, linked) = linked.StopPrice
  <2>1. /\ o.StopPrice \in UInt64 /\ o.TrailingDistance \in Int /\ o.TrailingStep \in Int
        /\ b.best \in Bests
    BY <1>1, BookInvParts DEF Valid, Pending
  <2>2. stop = CalculateTrailingStopPrice(b, l, o)
    OBVIOUS
  <2> HIDE DEF linked, o, stop
  <2> QED
    BY <1>9, <2>1, <2>2, StopPriceIsStable
<1> QED
  BY <1>3, <1>7, <1>8, <1>10 DEF IsFollowing

\* An order that moves is settled where it goes, and all others are left alone.
Moved(b, b2, l, id) ==
    /\ SameBestPrices(b, b2)
    /\ DOMAIN b2.orders = DOMAIN b.orders
    /\ \A i \in DOMAIN b.orders : i # id => b2.orders[i] = b.orders[i]
    /\ Settled(b2, l, id)

LEMMA MoveSettles ==
    ASSUME VolumeFits, NEW b, Valid(b), NEW l \in MarketPrices, NEW id \in DOMAIN b.orders,
           b.orders[id].Level[1] \in TrailingCollections
    PROVE  Moved(b, AddOrder(DeleteOrder(b, id), WithTrailingStop(b, l, b.orders[id])), l, id)
<1> DEFINE o == b.orders[id]
            p == WithTrailingStop(b, l, o)
            linked == [p EXCEPT !.Level = KeyOf(p)]
            b1 == DeleteOrder(b, id)
            b2 == AddOrder(b1, p)
<1>1. /\ p.Id = id /\ KeyOf(p)[1] = o.Level[1]
      /\ CalculateTrailingStopPrice(b, l, linked) = linked.StopPrice
  <2>1. IsFollowing(b, l, id)
    BY FollowingOrder
  <2> QED
    BY <2>1 DEF IsFollowing
<1>2. Valid(b1) /\ b1.orders = Drop(b.orders, id)
  BY DeleteOrderKeepsBook DEF Valid, VolumeFits
<1>3. b.best \in Bests /\ b1.best \in Bests
  BY <1>2, BookInvParts DEF Valid
<1>4. SameBestPrices(b, b1)
  BY <1>3, DeleteKeepsMarket
<1>5. KeyOf(p)[1] \in TrailingCollections
  BY <1>1
<1> HIDE DEF p, b1
<1>6. SameBestPrices(b1, b2)
  BY <1>3, <1>5, AddKeepsMarket
<1>7. SameBestPrices(b, b2)
  BY <1>4, <1>6 DEF SameBestPrices
<1>8. b2.orders = Put(b1.orders, p.Id, linked)
  BY DEF AddOrder
<1> HIDE DEF b2, linked
<1>9. /\ DOMAIN b2.orders = DOMAIN b.orders
      /\ \A i \in DOMAIN b.orders : i # id => b2.orders[i] = b.orders[i]
      /\ b2.orders[id] = linked
  BY <1>1, <1>2, <1>8 DEF Put, Drop
<1>10. Settled(b2, l, id)
  BY <1>1, <1>7, <1>9, SameStopPrice DEF Settled
<1> QED
  BY <1>7, <1>9, <1>10 DEF Moved, b2, p, b1

-----------------------------------------------------------------------------
(* The walk *)

\* Calls that do not walk; those that have found the book uncrossed are right.
Awaits(s, b) ==
    \A i \in 1 .. Len(s) :
       /\ s[i].at # "walk"
       /\ FoundUncrossed(s[i]) =>
             /\ ~Crossed(b)
             /\ \A j \in 1 .. Len(s) : j > i => s[j].at \in {"recalculate", "walk"}

\* The callers of a walk do not walk.
LEMMA CallersAwait ==
    ASSUME IInv, Tracked, calls # << >>, ~fault
    PROVE  /\ Callers \in Seq(Frame) /\ Awaits(Callers, book)
           /\ Call.at = "walk" => Tracks(book, last, Call)
<1>1. StackOK(calls, taker) /\ calls \in Seq(Frame) /\ Len(calls) \in Nat \ {0}
  BY CallOf DEF IInv, StackOK
<1>2. Len(calls) - 1 \in Int /\ Len(calls) - 1 <= Len(calls)
  BY <1>1
<1>3. /\ StackOK(Callers, taker)
      /\ \A i \in 1 .. Len(Callers) :
            i \in 1 .. Len(calls) /\ i <= Len(calls) - 1 /\ Callers[i] = calls[i]
  BY <1>1, <1>2, OuterStack DEF Callers
<1>4. Awaits(Callers, book)
  <2>1. ASSUME NEW i \in 1 .. Len(Callers)
        PROVE  Callers[i].at # "walk"
    <3>1. i # Len(calls) /\ i \in 1 .. Len(calls) /\ Callers[i] = calls[i]
      BY <1>1, <1>3
    <3> QED
      BY <3>1 DEF Tracked
  <2>2. ASSUME NEW i \in 1 .. Len(Callers), FoundUncrossed(Callers[i])
        PROVE  /\ ~Crossed(book)
               /\ \A j \in 1 .. Len(Callers) : j > i => Callers[j].at \in {"recalculate", "walk"}
    <3>1. /\ ~Crossed(book)
          /\ \A j \in 1 .. Len(calls) : j > i => calls[j].at \in {"recalculate", "walk"}
      BY <1>3, <2>2 DEF Tracked
    <3> QED
      BY <1>3, <3>1
  <2> QED
    BY <2>1, <2>2 DEF Awaits
<1>5. Call.at = "walk" => Tracks(book, last, Call)
  <2>1. Len(calls) \in 1 .. Len(calls)
    BY <1>1
  <2> QED
    BY <2>1 DEF Tracked, Call
<1> QED
  BY <1>3, <1>4, <1>5 DEF StackOK

\* The innermost call goes on walking, over a book that is no more crossed than it was.
LEMMA GoesOnWalking ==
    ASSUME IInv, Tracked, calls # << >>, ~fault, NEW f \in Frame, f.at = "walk",
           Continue(<<f>>), Tracks(book', last', f), Crossed(book') => Crossed(book)
    PROVE  Tracked'
<1>1. Callers \in Seq(Frame) /\ Awaits(Callers, book)
  BY CallersAwait
<1>2. calls' = Append(Callers, f)
  <2>1. <<f>> \in Seq(Frame) /\ Len(<<f>>) = 1 /\ <<f>>[1] = f
    OBVIOUS
  <2> QED
    BY <1>1, <2>1 DEF Continue
<1>3. /\ Len(calls') = Len(Callers) + 1 /\ Len(Callers) \in Nat
      /\ calls'[Len(Callers) + 1] = f
      /\ \A i \in 1 .. Len(Callers) : calls'[i] = Callers[i]
  BY <1>1, <1>2
<1>4. ASSUME NEW i \in 1 .. Len(calls'), calls'[i].at = "walk"
      PROVE  i = Len(calls') /\ Tracks(book', last', calls'[i])
  <2>1. i \in 1 .. Len(Callers) \/ i = Len(Callers) + 1
    BY <1>3
  <2>2. i \notin 1 .. Len(Callers)
    BY <1>1, <1>3, <1>4 DEF Awaits
  <2> QED
    BY <1>3, <2>1, <2>2
<1>5. ASSUME NEW i \in 1 .. Len(calls'), FoundUncrossed(calls'[i])
      PROVE  /\ ~Crossed(book')
             /\ \A j \in 1 .. Len(calls') : j > i => calls'[j].at \in {"recalculate", "walk"}
  <2>1. i \in 1 .. Len(Callers)
    <3>1. i \in 1 .. Len(Callers) \/ i = Len(Callers) + 1
      BY <1>3
    <3>2. calls'[i] # f
      BY <1>5 DEF FoundUncrossed
    <3> QED
      BY <1>3, <3>1, <3>2
  <2>2. /\ ~Crossed(book)
        /\ \A j \in 1 .. Len(Callers) : j > i => Callers[j].at \in {"recalculate", "walk"}
    BY <1>1, <1>3, <1>5, <2>1 DEF Awaits
  <2>3. ASSUME NEW j \in 1 .. Len(calls'), j > i
        PROVE  calls'[j].at \in {"recalculate", "walk"}
    <3>1. j \in 1 .. Len(Callers) \/ j = Len(Callers) + 1
      BY <1>3
    <3> QED
      BY <1>3, <2>2, <2>3, <3>1
  <2> QED
    BY <2>2, <2>3
<1> QED
  BY <1>4, <1>5 DEF Tracked

LEMMA WalkEnds ==
    ASSUME IInv, Tracked, calls # << >>, ~fault, Continue(<< >>), book' = book
    PROVE  Tracked'
<1>1. Callers \in Seq(Frame) /\ Awaits(Callers, book)
  BY CallersAwait
<1>2. Callers \o << >> = Callers
  BY <1>1, ConcatEmptySeq
<1>3. calls' = Callers
  BY <1>2 DEF Continue
<1> QED
  BY <1>1, <1>3 DEF Awaits, Tracked

\* A walk enters a level from its first order.
LEMMA WalkStarts ==
    ASSUME NEW b, Valid(b), NEW l, NEW c \in TrailingCollections, NEW previous,
           previous # NoLevel => previous[1] = c /\ SettledUpTo(b, l, c, previous),
           NEW k \in DOMAIN b.levels \cup {NoLevel}, k # NoLevel => k[1] = c,
           SettledBefore(b, l, c, k),
           NEW f, f = WalkFrame(c, previous, k, FirstOf(b, k))
    PROVE  Tracks(b, l, f)
<1>1. /\ f.collection = c /\ f.previous = previous /\ f.current = k
      /\ f.order = FirstOf(b, k) /\ f.recalculated = FALSE
  BY DEF WalkFrame
<1>2. CASE k = NoLevel
  BY <1>1, <1>2 DEF Tracks
<1>3. CASE k # NoLevel
  <2>1. k \in DOMAIN b.levels
    BY <1>3
  <2>2. /\ FirstOf(b, k) = b.levels[k].OrderList[1]
        /\ FirstOf(b, k) \in DOMAIN b.orders /\ b.orders[FirstOf(b, k)].Level = k
    BY <1>3, <2>1, FirstOrderType DEF FirstOf, FirstOrder
  <2> DEFINE list == b.levels[k].OrderList
  <2>3. Len(list) \in Nat /\ Len(list) # 0
    <3>1. list \in Seq(OrderIds) /\ Len(list) \in Nat
      BY <2>1, QueueOfLevel
    <3>2. FirstOf(b, k) \in Elements(list)
      BY <2>2, BookInvParts DEF Valid, OrderOK
    <3> QED
      BY <3>1, <3>2 DEF Elements
  <2>4. SettledInList(b, l, list, FirstOf(b, k))
    <3>1. 1 \in 1 .. Len(list) + 1 /\ 1 <= Len(list) /\ \A i \in 1 .. Len(list) : ~(i < 1)
      BY <2>3
    <3> QED
      BY <2>2, <3>1 DEF SettledInList
  <2> HIDE DEF list
  <2> QED
    BY <1>1, <1>3, <2>1, <2>2, <2>4 DEF Tracks, list
<1> QED
  BY <1>2, <1>3

\* Nothing in a collection comes before its first level.
LEMMA NothingBeforeFirst ==
    ASSUME NEW b, Valid(b), NEW l, NEW c \in TrailingCollections
    PROVE  /\ FirstLevel(b, c) \in DOMAIN b.levels \cup {NoLevel}
           /\ FirstLevel(b, c) # NoLevel => FirstLevel(b, c)[1] = c
           /\ SettledBefore(b, l, c, FirstLevel(b, c))
<1>1. c \in Collections
  BY DEF TrailingCollections, Collections, BidCollections, AskCollections
<1>2. FirstLevel(b, c) \in DOMAIN b.levels \cup {NoLevel}
  BY <1>1, FirstLevelType
<1>3. FirstLevel(b, c) # NoLevel => FirstLevel(b, c)[1] = c
  BY DEF FirstLevel, BestKey
<1>4. ASSUME NEW id \in DOMAIN b.orders, Before(c, FirstLevel(b, c), b.orders[id].Level)
      PROVE  FALSE
  <2> DEFINE j == b.orders[id].Level
  <2>1. j \in DOMAIN b.levels /\ j \in LevelKey /\ j[1] = c
    BY <1>4, LinkedIsPending DEF Before
  <2> HIDE DEF j
  <2>2. j[2] \in PricesIn(b, c)
    BY <2>1 DEF PricesIn
  <2>3. b.best[c] \in PricesIn(b, c) /\ \A p \in PricesIn(b, c) : ~Better(c, p, b.best[c])
    BY <1>1, <2>2, BookInvParts DEF Valid, BestIsBest
  <2>4. b.best[c] # NoPrice /\ <<c, b.best[c]>> \in LevelKey
    <3>1. DOMAIN b.levels \subseteq LevelKey
      BY BookInvParts DEF Valid, BookShape
    <3>2. b.best[c] \in UInt64
      BY <2>3, <3>1, PricesInMember
    <3> QED
      BY <1>1, <3>2, NoPriceIsNone DEF LevelKey
  <2>5. FirstLevel(b, c) = <<c, b.best[c]>> /\ FirstLevel(b, c) # NoLevel
    BY <2>4, LevelAssumption DEF FirstLevel, HasBest, BestKey
  <2>6. Better(c, j[2], b.best[c])
    BY <1>4, <2>5 DEF Before, j
  <2> QED
    BY <2>2, <2>3, <2>6
<1>5. SettledBefore(b, l, c, FirstLevel(b, c))
  BY <1>4 DEF SettledBefore
<1> QED
  BY <1>2, <1>3, <1>5

\* Nothing in a collection is between a level and the one after it.
LEMMA NothingBetween ==
    ASSUME NEW b, Valid(b), NEW k \in DOMAIN b.levels
    PROVE  /\ LevelAfter(b, k) \in DOMAIN b.levels \cup {NoLevel}
           /\ LevelAfter(b, k) # NoLevel => LevelAfter(b, k)[1] = k[1]
           /\ \A j \in DOMAIN b.levels : Before(k[1], LevelAfter(b, k), j) => UpTo(k[1], k, j)
<1> DEFINE c == k[1]
            worse == {p \in PricesIn(b, c) : Better(c, k[2], p)}
            next == NextPrice(b, k)
<1>1. /\ DOMAIN b.levels \subseteq LevelKey /\ k \in LevelKey /\ c \in Collections
      /\ worse \subseteq UInt64
  <2>1. DOMAIN b.levels \subseteq LevelKey
    BY BookInvParts DEF Valid, BookShape
  <2>2. PricesIn(b, c) \subseteq UInt64
    BY <2>1, PricesInMember
  <2> QED
    BY <2>1, <2>2 DEF LevelKey
<1>2. LevelAfter(b, k) \in DOMAIN b.levels \cup {NoLevel}
  BY <1>1, LevelAfterType
<1>3. LevelAfter(b, k) = IF next = NoPrice THEN NoLevel ELSE <<c, next>>
  BY DEF LevelAfter
<1>4. ASSUME NEW j \in DOMAIN b.levels, Before(c, LevelAfter(b, k), j)
      PROVE  UpTo(c, k, j)
  <2> SUFFICES ASSUME ~UpTo(c, k, j) PROVE FALSE
    OBVIOUS
  <2>1. j[1] = c /\ j[2] \in PricesIn(b, c)
    BY <1>4 DEF Before, PricesIn
  <2>2. j[2] \in worse
    BY <2>1 DEF UpTo
  <2>3. next \in worse /\ \A q \in worse \ {next} : Better(c, next, q)
    <3>1. \E p \in worse : \A q \in worse \ {p} : Better(c, p, q)
      <4> HIDE DEF worse, c
      <4> QED
        BY <1>1, <2>2, BestExists
    <3>2. next = CHOOSE p \in worse : \A q \in worse \ {p} : Better(c, p, q)
      BY <2>2 DEF NextPrice
    <3> HIDE DEF worse, next, c
    <3> QED
      BY <3>1, <3>2
  <2>4. next \in UInt64 /\ j[2] \in UInt64 /\ next \in Nat /\ j[2] \in Nat
    BY <1>1, <2>2, <2>3, Numbers
  <2>5. LevelAfter(b, k) = <<c, next>> /\ LevelAfter(b, k) # NoLevel
    <3>1. next # NoPrice /\ <<c, next>> \in LevelKey
      BY <1>1, <2>4, NoPriceIsNone DEF LevelKey
    <3> QED
      BY <1>3, <3>1, LevelAssumption
  <2>6. Better(c, j[2], next)
    BY <1>4, <2>5 DEF Before
  <2>7. j[2] # next /\ ~Better(c, next, j[2])
    BY <2>4, <2>6, BetterIsOrder
  <2> QED
    BY <2>2, <2>3, <2>7
<1>5. LevelAfter(b, k) # NoLevel => LevelAfter(b, k)[1] = c
  BY <1>3
<1> QED
  BY <1>2, <1>4, <1>5

\* Recalculate starts a walk before which there is nothing.
LEMMA RecalculateTracks ==
    ASSUME IInv, Tracked, Recalculate
    PROVE  Tracked'
<1>1. calls # << >> /\ ~fault /\ Call \in RecalculateFrames /\ Valid(book)
  BY CallParts, FrameParts DEF Recalculate, At
<1> DEFINE c == IF Call.side = "ask" THEN "trailing_buy_stop" ELSE "trailing_sell_stop"
            f == WalkFrom(c, NoLevel, FirstLevel(book, c))
<1>2. UNCHANGED <<book, last>> /\ (Continue(<< >>) \/ Continue(<<f>>))
  BY DEF Recalculate, Goto, Silent
<1>3. c \in TrailingCollections /\ c \in Collections /\ NoLevel \in AnyLevel
  BY DEF TrailingCollections, Collections, BidCollections, AskCollections, AnyLevel
<1>4. Tracks(book, last, f)
  <2> DEFINE k == FirstLevel(book, c)
  <2> HIDE DEF c
  <2>1. /\ k \in DOMAIN book.levels \cup {NoLevel} /\ (k # NoLevel => k[1] = c)
        /\ SettledBefore(book, last, c, k)
    BY <1>1, <1>3, NothingBeforeFirst
  <2>2. f = WalkFrame(c, NoLevel, k, FirstOf(book, k))
    BY DEF WalkFrom
  <2> HIDE DEF k, f
  <2> QED
    BY <1>1, <1>3, <2>1, <2>2, WalkStarts
<1>5. f \in Frame /\ f.at = "walk"
  <2> HIDE DEF c
  <2> QED
    BY <1>1, <1>3, FirstLevelType, WalkFromType DEF WalkFrom, WalkFrame
<1> HIDE DEF f
<1> QED
  BY <1>1, <1>2, <1>4, <1>5, WalkEnds, GoesOnWalking

LEMMA NextLevelIsFrame ==
    ASSUME IInv, At("walk"), Call.current # NoLevel,
           Call.recalculated => Call.previous \in DOMAIN book.levels \cup {NoLevel}
    PROVE  NextLevel \in Frame
<1> DEFINE c == Call.collection
            back == IF Call.previous # NoLevel THEN Call.previous ELSE FirstLevel(book, c)
            after == LevelAfter(book, Call.current)
<1>1. calls # << >> /\ Call \in WalkFrames /\ Valid(book)
  BY CallParts, FrameParts DEF At
<1>2. /\ c \in Collections /\ Call.previous \in AnyLevel /\ Call.current \in AnyLevel
      /\ Call.current \in LevelKey
  BY <1>1 DEF WalkFrames, AnyLevel
<1>3. CASE Call.recalculated
  <2>1. back \in DOMAIN book.levels \cup {NoLevel}
    BY <1>1, <1>2, <1>3, FirstLevelType
  <2>2. NextLevel = WalkFrom(c, Call.previous, back)
    BY <1>3 DEF NextLevel
  <2> HIDE DEF back, c
  <2> QED
    BY <1>1, <1>2, <2>1, <2>2, WalkFromType
<1>4. CASE ~Call.recalculated
  <2>1. after \in DOMAIN book.levels \cup {NoLevel}
    BY <1>1, <1>2, LevelAfterType
  <2>2. NextLevel = WalkFrom(c, Call.current, after)
    BY <1>4 DEF NextLevel
  <2> HIDE DEF after, c
  <2> QED
    BY <1>1, <1>2, <2>1, <2>2, WalkFromType
<1> QED
  BY <1>3, <1>4

\* When a level has been gone through, the walk goes on after it, or goes back.
LEMMA NextLevelTracks ==
    ASSUME IInv, Tracked, At("walk"), Call.current # NoLevel, Call.order = NoOrder,
           Call.recalculated => Call.previous \in DOMAIN book.levels \cup {NoLevel}
    PROVE  Tracks(book, last, NextLevel)
<1> DEFINE c == Call.collection
            back == IF Call.previous # NoLevel THEN Call.previous ELSE FirstLevel(book, c)
            after == LevelAfter(book, Call.current)
<1>1. /\ calls # << >> /\ ~fault /\ Call \in WalkFrames /\ Valid(book)
      /\ Tracks(book, last, Call)
  BY CallParts, FrameParts, CallersAwait DEF At
<1>2. /\ c \in TrailingCollections /\ Call.current \in LevelKey /\ Call.current[1] = c
      /\ Call.previous # NoLevel => /\ Call.previous \in LevelKey /\ Call.previous[1] = c
                                    /\ SettledUpTo(book, last, c, Call.previous)
      /\ SettledBefore(book, last, c, Call.current)
  BY <1>1 DEF WalkFrames, AnyLevel, Tracks
<1>3. \A id \in DOMAIN book.orders : /\ book.orders[id].Level \in LevelKey
                                     /\ book.orders[id].Level \in DOMAIN book.levels
  BY <1>1, LinkedIsPending
<1>4. CASE Call.recalculated
  <2>1. NextLevel = WalkFrame(c, Call.previous, back, FirstOf(book, back))
    BY <1>4 DEF NextLevel, WalkFrom
  <2>2. /\ back \in DOMAIN book.levels \cup {NoLevel} /\ (back # NoLevel => back[1] = c)
        /\ SettledBefore(book, last, c, back)
    <3>1. CASE Call.previous = NoLevel
      <4> HIDE DEF c
      <4> QED
        BY <1>1, <1>2, <3>1, NothingBeforeFirst
    <3>2. CASE Call.previous # NoLevel
      <4>1. \A id \in DOMAIN book.orders : Before(c, Call.previous, book.orders[id].Level)
               => UpTo(c, Call.previous, book.orders[id].Level)
        BY <1>2, <1>3, <3>2, BeforeIsUpTo
      <4>2. SettledBefore(book, last, c, Call.previous)
        BY <1>2, <3>2, <4>1 DEF SettledBefore, SettledUpTo
      <4> QED
        BY <1>2, <1>4, <3>2, <4>2
    <3> QED
      BY <3>1, <3>2
  <2> HIDE DEF back, c
  <2> QED
    BY <1>1, <1>2, <2>1, <2>2, WalkStarts
<1>5. CASE ~Call.recalculated
  <2> DEFINE k == Call.current
              list == book.levels[k].OrderList
  <2>1. k \in DOMAIN book.levels /\ SettledInList(book, last, list, NoOrder)
    BY <1>1, <1>5 DEF Tracks
  <2>2. NextLevel = WalkFrame(c, k, after, FirstOf(book, after))
    BY <1>5 DEF NextLevel, WalkFrom
  <2>3. \A i \in 1 .. Len(list) : Settled(book, last, list[i])
    <3>1. PICK n \in 1 .. Len(list) + 1 :
             /\ \A i \in 1 .. Len(list) : i < n => Settled(book, last, list[i])
             /\ NoOrder = IF n <= Len(list) THEN list[n] ELSE NoOrder
      BY <2>1 DEF SettledInList
    <3>2. Len(list) \in Nat /\ \A i \in 1 .. Len(list) : list[i] \in Ids
      <4>1. list \in Seq(OrderIds) /\ Len(list) \in Nat
        BY <1>1, <2>1, QueueOfLevel
      <4> HIDE DEF list
      <4> QED
        BY <4>1, Numbers, ElementOfSeq
    <3>3. ~(n <= Len(list))
      <4>1. n <= Len(list) => n \in 1 .. Len(list)
        BY <3>2
      <4>2. n <= Len(list) => list[n] = NoOrder
        BY <3>1
      <4> QED
        BY <3>2, <4>1, <4>2, CallAssumption DEF NoOrder
    <3> HIDE DEF list
    <3> QED
      BY <3>1, <3>2, <3>3
  <2>4. ASSUME NEW id \in DOMAIN book.orders, UpTo(c, k, book.orders[id].Level)
        PROVE  Settled(book, last, id)
    <3>1. Before(c, k, book.orders[id].Level) \/ book.orders[id].Level = k
      BY <1>2, <1>3, <2>4, BeforeIsUpTo
    <3>2. CASE book.orders[id].Level = k
      <4>1. id \in Elements(list)
        BY <1>1, <3>2, BookInvParts DEF Valid, OrderOK
      <4> QED
        BY <2>3, <4>1 DEF Elements
    <3> QED
      BY <1>2, <3>1, <3>2 DEF SettledBefore
  <2>5. /\ after \in DOMAIN book.levels \cup {NoLevel} /\ (after # NoLevel => after[1] = c)
        /\ \A j \in DOMAIN book.levels : Before(c, after, j) => UpTo(c, k, j)
    BY <1>1, <1>2, <2>1, NothingBetween
  <2>6. SettledUpTo(book, last, c, k) /\ SettledBefore(book, last, c, after)
    BY <1>3, <2>4, <2>5 DEF SettledUpTo, SettledBefore
  <2> HIDE DEF after, c, k
  <2> QED
    BY <1>1, <1>2, <2>2, <2>5, <2>6, WalkStarts DEF k
<1> QED
  BY <1>4, <1>5

\* The order after one in the list of its level.
LEMMA NextInList ==
    ASSUME NEW b, Valid(b), NEW id \in DOMAIN b.orders
    PROVE  LET k == b.orders[id].Level
               list == b.levels[k].OrderList
           IN /\ Len(list) \in Nat /\ k \in DOMAIN b.levels
              /\ \A n \in 1 .. Len(list) : list[n] = id =>
                    NextOrder(b, id) = IF n + 1 <= Len(list) THEN list[n + 1] ELSE NoOrder
              /\ NextOrder(b, id) # NoOrder =>
                    /\ NextOrder(b, id) \in DOMAIN b.orders /\ NextOrder(b, id) # id
                    /\ b.orders[NextOrder(b, id)].Level = k
<1> DEFINE k == b.orders[id].Level
            list == b.levels[k].OrderList
            i == CHOOSE n \in 1 .. Len(list) : list[n] = id
<1>1. k \in DOMAIN b.levels /\ i \in 1 .. Len(list) /\ list[i] = id
  BY PlaceOfOrder
<1>2. NextOrder(b, id) = IF i = Len(list) THEN NoOrder ELSE list[i + 1]
  BY DEF NextOrder
<1> HIDE DEF k
<1>3. /\ Len(list) \in Nat /\ Distinct(list)
      /\ \A n \in 1 .. Len(list) : list[n] \in DOMAIN b.orders /\ b.orders[list[n]].Level = k
  BY <1>1, QueueOfLevel
<1> HIDE DEF list, i
<1>4. \A n \in 1 .. Len(list) : list[n] = id => n = i
  BY <1>1, <1>3 DEF Distinct
<1>5. i # Len(list) => i + 1 \in 1 .. Len(list) /\ i + 1 # i
  BY <1>1, <1>3
<1>6. i # Len(list) => list[i + 1] # id
  BY <1>4, <1>5
<1>7. i = Len(list) <=> ~(i + 1 <= Len(list))
  BY <1>1, <1>3
<1>8. \A n \in 1 .. Len(list) : list[n] = id =>
         NextOrder(b, id) = IF n + 1 <= Len(list) THEN list[n + 1] ELSE NoOrder
  BY <1>2, <1>4, <1>7
<1>9. NextOrder(b, id) # NoOrder =>
         /\ NextOrder(b, id) \in DOMAIN b.orders /\ NextOrder(b, id) # id
         /\ b.orders[NextOrder(b, id)].Level = k
  BY <1>2, <1>3, <1>5, <1>6
<1> QED
  BY <1>1, <1>3, <1>8, <1>9 DEF k, list

\* Once an order is settled, the walk goes on to the next one of the list.
LEMMA ListGoesOn ==
    ASSUME NEW b, Valid(b), NEW l, NEW id \in DOMAIN b.orders, id # NoOrder, Settled(b, l, id),
           SettledInList(b, l, b.levels[b.orders[id].Level].OrderList, id)
    PROVE  SettledInList(b, l, b.levels[b.orders[id].Level].OrderList, NextOrder(b, id))
<1> DEFINE list == b.levels[b.orders[id].Level].OrderList
<1>1. /\ Len(list) \in Nat
      /\ \A n \in 1 .. Len(list) : list[n] = id =>
            NextOrder(b, id) = IF n + 1 <= Len(list) THEN list[n + 1] ELSE NoOrder
  BY NextInList
<1>2. PICK n \in 1 .. Len(list) + 1 :
         /\ \A i \in 1 .. Len(list) : i < n => Settled(b, l, list[i])
         /\ id = IF n <= Len(list) THEN list[n] ELSE NoOrder
  BY DEF SettledInList
<1> HIDE DEF list
<1>3. n \in 1 .. Len(list) /\ list[n] = id /\ n + 1 \in 1 .. Len(list) + 1
  BY <1>1, <1>2
<1>4. ASSUME NEW i \in 1 .. Len(list), i < n + 1
      PROVE  Settled(b, l, list[i])
  <2>1. i < n \/ i = n
    BY <1>1, <1>3, <1>4
  <2> QED
    BY <1>2, <1>3, <2>1
<1>5. NextOrder(b, id) = IF n + 1 <= Len(list) THEN list[n + 1] ELSE NoOrder
  BY <1>1, <1>3
<1>6. SettledInList(b, l, list, NextOrder(b, id))
  BY <1>3, <1>4, <1>5 DEF SettledInList
<1> QED
  BY <1>6 DEF list

\* What is settled stays so when an order moves.
LEMMA MoveKeepsSettled ==
    ASSUME NEW b, NEW b2, NEW l, NEW id \in DOMAIN b.orders, Moved(b, b2, l, id), NEW c, NEW k
    PROVE  /\ SettledUpTo(b, l, c, k) => SettledUpTo(b2, l, c, k)
           /\ SettledBefore(b, l, c, k) => SettledBefore(b2, l, c, k)
<1>1. \A i \in DOMAIN b2.orders : i # id =>
         /\ i \in DOMAIN b.orders /\ b2.orders[i] = b.orders[i]
         /\ Settled(b, l, i) => Settled(b2, l, i)
  BY SameStopPrice DEF Moved, Settled
<1>2. Settled(b2, l, id)
  BY DEF Moved
<1> QED
  BY <1>1, <1>2 DEF SettledUpTo, SettledBefore

\* An order that follows the market is settled, whether it moves or not.
LEMMA FollowTracks ==
    ASSUME VolumeFits, IInv, Tracked, At("walk"), Call.current # NoLevel,
           Call.order # NoOrder, Call.order \in DOMAIN book.orders, Follow(Call.order)
    PROVE  Tracked'
<1> DEFINE id == Call.order
            old == book.orders[id]
            o == WithTrailingStop(book, last, old)
            moves == o.StopPrice # old.StopPrice
            next == NextOrder(book, id)
            f == [Call EXCEPT !.order = next, !.recalculated = Call.recalculated \/ moves]
<1>1. /\ calls # << >> /\ ~fault /\ Call \in WalkFrames /\ Valid(book)
      /\ Tracks(book, last, Call) /\ last \in MarketPrices
  BY CallParts, FrameParts, CallersAwait DEF At, IInv
<1>2. /\ book' = IF moves THEN AddOrder(DeleteOrder(book, id), o) ELSE book
      /\ Continue(<<f>>) /\ last' = last
  BY DEF Follow, Silent
<1>3. /\ Call.collection \in TrailingCollections /\ old.Level = Call.current
      /\ old.Level[1] \in TrailingCollections
  BY <1>1 DEF Tracks
<1>4. next \in AnyOrder
  BY <1>1, NextOrderType
<1>5. /\ f \in WalkFrames /\ f.collection = Call.collection /\ f.previous = Call.previous
      /\ f.current = Call.current /\ f.order = next
      /\ f.recalculated = (Call.recalculated \/ moves)
  <2>1. moves \in BOOLEAN
    OBVIOUS
  <2>2. (Call.recalculated \/ moves) \in BOOLEAN
    OBVIOUS
  <2>3. PICK r \in BOOLEAN : r = (Call.recalculated \/ moves)
    BY <2>2
  <2>4. f = [Call EXCEPT !.order = next, !.recalculated = r]
    BY <2>3
  <2> HIDE DEF moves, id, next, f
  <2> QED
    BY <1>1, <1>4, <2>3, <2>4 DEF WalkFrames
<1>6. next # NoOrder => /\ next \in DOMAIN book.orders /\ next # id
                        /\ book.orders[next].Level = Call.current
  BY <1>1, <1>3, NextInList
<1>7. CASE moves
  <2>1. book' = AddOrder(DeleteOrder(book, id), o)
    BY <1>2, <1>7
  <2>2. Moved(book, book', last, id)
    BY <1>1, <1>3, <2>1, MoveSettles
  <2>3. /\ Call.previous # NoLevel => SettledUpTo(book', last, Call.collection, Call.previous)
        /\ SettledBefore(book', last, Call.collection, Call.current)
    BY <1>1, <2>2, MoveKeepsSettled DEF Tracks
  <2>4. next # NoOrder => next \in DOMAIN book'.orders /\ book'.orders[next].Level = Call.current
    BY <1>6, <2>2 DEF Moved
  <2>5. f.recalculated = TRUE
    BY <1>5, <1>7
  <2> HIDE DEF f, next, id, o, old, moves
  <2>6. Tracks(book', last, f)
    BY <1>1, <1>5, <2>3, <2>4, <2>5 DEF Tracks
  <2>7. f.at = "walk"
    BY <1>5 DEF WalkFrames
  <2>8. Crossed(book') => Crossed(book)
    BY <2>2 DEF Moved, SameBestPrices, Crossed, HasBest
  <2> QED
    BY <1>1, <1>2, <1>5, <2>6, <2>7, <2>8, GoesOnWalking DEF Frame
<1>8. CASE ~moves
  <2>1. book' = book
    BY <1>2, <1>8
  <2>2. Settled(book, last, id)
    <3>1. o.StopPrice = CalculateTrailingStopPrice(book, last, old)
      <4>1. IsFollowing(book, last, id)
        BY <1>1, <1>3, FollowingOrder
      <4> QED
        BY <4>1 DEF IsFollowing
    <3> QED
      BY <1>8, <3>1 DEF Settled
  <2>3. f.recalculated = Call.recalculated
    <3>1. Call.recalculated \in BOOLEAN
      BY <1>1 DEF WalkFrames
    <3> QED
      BY <1>5, <1>8, <3>1
  <2>4. ~Call.recalculated =>
           SettledInList(book, last, book.levels[Call.current].OrderList, next)
    <3> SUFFICES ASSUME ~Call.recalculated
                  PROVE  SettledInList(book, last, book.levels[Call.current].OrderList, next)
      OBVIOUS
    <3>1. SettledInList(book, last, book.levels[old.Level].OrderList, id)
      BY <1>1, <1>3 DEF Tracks
    <3> QED
      BY <1>1, <1>3, <2>2, <3>1, ListGoesOn
  <2> HIDE DEF f, next, id, o, old, moves
  <2>5. Tracks(book, last, f)
    BY <1>1, <1>5, <1>6, <2>3, <2>4 DEF Tracks
  <2>6. f.at = "walk"
    BY <1>5 DEF WalkFrames
  <2> QED
    BY <1>1, <1>2, <1>5, <2>1, <2>5, <2>6, GoesOnWalking DEF Frame
<1> QED
  BY <1>7, <1>8

LEMMA WalkTracks ==
    ASSUME VolumeFits, IInv, Tracked, Walk
    PROVE  Tracked'
<1>1. /\ At("walk") /\ calls # << >> /\ ~fault /\ Call \in WalkFrames /\ Valid(book)
  BY CallParts, FrameParts DEF Walk, At
<1>2. \/ Goto(<< >>)
      \/ UseAfterRelease
      \/ /\ Call.current # NoLevel /\ Call.order # NoOrder
         /\ Call.order \in DOMAIN book.orders /\ Follow(Call.order)
      \/ /\ Call.current # NoLevel /\ Call.order = NoOrder
         /\ Call.recalculated => Call.previous \in DOMAIN book.levels \cup {NoLevel}
         /\ Goto(<<NextLevel>>)
  BY DEF Walk, Released
<1>3. CASE /\ Call.current # NoLevel /\ Call.order = NoOrder
           /\ Call.recalculated => Call.previous \in DOMAIN book.levels \cup {NoLevel}
           /\ Goto(<<NextLevel>>)
  <2>1. Tracks(book, last, NextLevel)
    BY <1>1, <1>3, NextLevelTracks
  <2>2. NextLevel \in Frame /\ NextLevel.at = "walk"
    BY <1>1, <1>3, NextLevelIsFrame DEF NextLevel, WalkFrom, WalkFrame
  <2>3. Continue(<<NextLevel>>) /\ book' = book /\ last' = last
    BY <1>3 DEF Goto, Silent
  <2> QED
    BY <1>1, <2>1, <2>2, <2>3, GoesOnWalking
<1>4. CASE Goto(<< >>)
  BY <1>1, <1>4, WalkEnds DEF Goto, Silent
<1> QED
  BY <1>1, <1>2, <1>3, <1>4, UseIsTracked, FollowTracks

-----------------------------------------------------------------------------
(* The invariant *)

LEMMA StepTracks ==
    ASSUME VolumeFits, IInv, Tracked, Step
    PROVE  Tracked'
<1>1. CASE MatchOrder \/ Take \/ Filled \/ Finish \/ ExecuteMatchingChain
  BY <1>1, MatchOrderStill, TakeStill, FinishStill, ExecuteMatchingChainStill
<1>2. CASE Match \/ Pair \/ Reducing \/ AskChain
  BY <1>2, MatchStill, PairStill, ReducingStill, AskChainStill
<1>3. CASE PairStops \/ Stops \/ Round \/ Activate
  BY <1>3, PairStopsStill, StopsStill, RoundStill, ActivateStill
<1>4. CASE Recalculate \/ Walk
  BY <1>4, RecalculateTracks, WalkTracks
<1>5. CASE AddAfterDelete \/ ResetMatchingPrice
  BY <1>5, AddAfterDeleteStill
<1> QED
  BY <1>1, <1>2, <1>3, <1>4, <1>5 DEF Step

LEMMA StutterTracks ==
    ASSUME Tracked, UNCHANGED vars
    PROVE  Tracked'
BY DEF Tracked, vars

\* What the walk has passed is settled, so at its end every order is.
LEMMA TrackedMeansNoneIsMissed ==
    ASSUME Tracked, IInv
    PROVE  NoTrailingOrderIsMissed
<1> SUFFICES ASSUME At("walk"), Call.current = NoLevel,
                     NEW id \in DOMAIN book.orders, book.orders[id].Level[1] = Call.collection
              PROVE  CalculateTrailingStopPrice(book, last, book.orders[id])
                        = book.orders[id].StopPrice
  BY DEF NoTrailingOrderIsMissed
<1>1. SettledBefore(book, last, Call.collection, Call.current)
  BY CallersAwait DEF At, Tracks
<1>2. Before(Call.collection, Call.current, book.orders[id].Level)
  BY DEF Before
<1> QED
  BY <1>1, <1>2 DEF SettledBefore, Settled

\* The inductive invariant holds at any time, and with it what is known of a walk over the
\* trailing orders and of a call of Match that has found the book uncrossed.
THEOREM TrackedHolds ==
    ASSUME VolumeFits
    PROVE  Spec => [](IInv /\ Tracked)
<1>1. Init => Tracked
  BY DEF Init, Tracked
<1>2. IInv /\ Tracked /\ [Next]_vars => Tracked'
  BY RequestStill, StepTracks, StutterTracks DEF Next
<1>3. Spec => []IInv
  BY InvariantHolds
<1> QED
  BY <1>1, <1>2, <1>3, PTL DEF Spec

\* RecalculateTrailingStopPrice misses no trailing stop order, although orders move from
\* level to level while it goes through them.
THEOREM NoTrailingOrderIsMissedHolds ==
    ASSUME VolumeFits
    PROVE  Spec => []NoTrailingOrderIsMissed
<1>1. IInv /\ Tracked => NoTrailingOrderIsMissed
  BY TrackedMeansNoneIsMissed
<1> QED
  BY <1>1, TrackedHolds, PTL

\* The bids of a book that is not crossed are below its asks.
LEMMA UncrossedIsLess ==
    ASSUME NEW b, Valid(b), ~Crossed(b)
    PROVE  BestBidIsLess(b)
<1>1. SUFFICES ASSUME NEW p \in PricesIn(b, "bids"), NEW q \in PricesIn(b, "asks")
               PROVE  p < q
  BY DEF BestBidIsLess
<1>2. /\ HasBest(b, "bids") /\ b.best["bids"] \in PricesIn(b, "bids")
      /\ ~Better("bids", p, b.best["bids"]) /\ PricesIn(b, "bids") \subseteq UInt64
  BY BestOfLevels, SidesAreCollections
<1>3. /\ HasBest(b, "asks") /\ b.best["asks"] \in PricesIn(b, "asks")
      /\ ~Better("asks", q, b.best["asks"]) /\ PricesIn(b, "asks") \subseteq UInt64
  BY BestOfLevels, SidesAreCollections
<1>4. /\ p \in Nat /\ q \in Nat /\ b.best["bids"] \in Nat /\ b.best["asks"] \in Nat
  BY <1>2, <1>3, Numbers
<1>5. p <= b.best["bids"] /\ b.best["asks"] <= q
  BY <1>2, <1>3, <1>4, SidesAreCollections DEF Better
<1>6. b.best["bids"] < b.best["asks"]
  BY <1>2, <1>3, <1>4 DEF Crossed
<1> QED
  BY <1>4, <1>5, <1>6

\* Only a round of Match ends there, and a call of Match ends only after a round that
\* activated nothing, on a book that it found uncrossed.
LEMMA RoundUncrosses ==
    ASSUME IInv, Tracked, Next, At("round"), calls' = << >>
    PROVE  BestBidIsLess(book)
<1>1. calls # << >> /\ ~fault /\ Call.at = "round" /\ Call \in MatchFrames /\ Valid(book)
  BY MatchCall DEF At, MatchLabels, IInv
<1>2. Round
  <2>1. ~Request
    BY <1>1 DEF Request, Idle
  <2>2. ~(MatchOrder \/ Take \/ Filled \/ Finish \/ ExecuteMatchingChain)
    BY <1>1 DEF MatchOrder, Take, Filled, Finish, ExecuteMatchingChain, At
  <2>3. ~(Match \/ Pair \/ Reducing \/ AskChain \/ PairStops \/ Stops)
    BY <1>1 DEF Match, Pair, Reducing, AskChain, PairStops, Stops, At
  <2>4. ~(Activate \/ Recalculate \/ Walk \/ AddAfterDelete \/ ResetMatchingPrice)
    BY <1>1 DEF Activate, Recalculate, Walk, AddAfterDelete, ResetMatchingPrice, At
  <2> QED
    BY <2>1, <2>2, <2>3, <2>4 DEF Next, Step
<1>3. ASSUME NEW f, Goto(<<f>>)
      PROVE  FALSE
  <2>1. Callers \in Seq(Frame)
    BY <1>1, CallersAwait
  <2>2. Callers \o <<f>> # << >>
    <3> DEFINE U == Frame \cup {f}
    <3>1. f \in U /\ Frame \subseteq U
      OBVIOUS
    <3> HIDE DEF U
    <3>2. Callers \in Seq(U) /\ <<f>> \in Seq(U)
      BY <2>1, <3>1, SeqMonotonic
    <3>3. Len(Callers \o <<f>>) = Len(Callers) + 1 /\ Len(Callers) \in Nat
      BY <3>2, ConcatProperties, LenProperties
    <3> QED
      BY <3>3
  <2> QED
    BY <1>3, <2>2 DEF Goto, Continue
<1>4. ~Call.again /\ ~Call.activated
  BY <1>2, <1>3 DEF Round
<1>5. ~Crossed(book)
  <2>1. FoundUncrossed(Call)
    BY <1>1, <1>4 DEF FoundUncrossed
  <2>2. Len(calls) \in 1 .. Len(calls)
    <3>1. Len(calls) \in Nat \ {0}
      BY <1>1, CallOf DEF IInv, StackOK
    <3> QED
      BY <3>1
  <2> QED
    BY <1>1, <2>1, <2>2 DEF Tracked, Call
<1> QED
  BY <1>1, <1>5, UncrossedIsLess

\* A call of Match that ends with its rounds of stop orders leaves no bid that reaches an
\* ask, whether automatic matching is on or off.  (It has another end, at an All-Or-None
\* order without a chain.)
THEOREM MatchUncrossesHolds ==
    ASSUME VolumeFits
    PROVE  Spec => MatchUncrosses
<1> DEFINE A == At("round") /\ calls' = << >> => BestBidIsLess(book)
<1>1. IInv /\ Tracked /\ Next => A
  BY RoundUncrosses
<1>2. IInv /\ Tracked /\ [Next]_vars => [A]_vars
  BY <1>1
<1>3. Spec => [][A]_vars
  BY <1>2, TrackedHolds, PTL DEF Spec
<1> QED
  BY <1>3 DEF MatchUncrosses

-----------------------------------------------------------------------------
(***************************************************************************)
(* Automatic matching that is never switched off and meets no All-Or-None   *)
(* order keeps the book uncrossed.  Matching then never re-enters itself,   *)
(* the calls on the stack are strictly nested, and what the frames remember *)
(* of the book is still true when they go on.                               *)
(***************************************************************************)

-----------------------------------------------------------------------------
(* Books from which orders leave *)

\* The same order, but for what was executed of it.
SameKind(o, p) ==
    /\ o.Id = p.Id /\ o.Type = p.Type /\ o.Side = p.Side
    /\ o.Price = p.Price /\ o.StopPrice = p.StopPrice
    /\ o.TimeInForce = p.TimeInForce /\ o.Level = p.Level

\* The orders of b2 are orders of b, and its levels too.
Shrinks(b, b2) ==
    /\ \A id \in DOMAIN b2.orders :
          id \in DOMAIN b.orders /\ SameKind(b2.orders[id], b.orders[id])
    /\ DOMAIN b2.levels \subseteq DOMAIN b.levels

LEMMA SetLevelShrinks ==
    ASSUME NEW b, Valid(b), NEW os, NEW b1, b1 = [b EXCEPT !.orders = os],
           NEW k \in DOMAIN b.levels, NEW level
    PROVE  DOMAIN SetLevel(b1, k, level).levels \subseteq DOMAIN b.levels
<1> DEFINE b2 == SetLevel(b1, k, level)
<1>1. b1.levels = b.levels /\ b1 = [orders |-> b1.orders, levels |-> b1.levels, best |-> b1.best]
  BY BookInvParts DEF Valid, BookShape
<1>2. b2.levels \in {Drop(b.levels, k), Put(b.levels, k, level)}
  BY <1>1 DEF SetLevel, DeleteLevel
<1> HIDE DEF b2
<1> QED
  BY <1>2 DEF Drop, Put, b2

LEMMA DeleteShrinks ==
    ASSUME VolumeFits, NEW b, Valid(b), NEW id \in DOMAIN b.orders
    PROVE  LET b2 == DeleteOrder(b, id)
           IN /\ Valid(b2) /\ Shrinks(b, b2)
              /\ DOMAIN b2.orders = DOMAIN b.orders \ {id}
              /\ \A i \in DOMAIN b.orders \ {id} : b2.orders[i] = b.orders[i]
<1> DEFINE b2 == DeleteOrder(b, id)
<1>1. Valid(b2) /\ b2.orders = Drop(b.orders, id)
  BY DeleteOrderKeepsBook DEF Valid, VolumeFits
<1>2. DOMAIN b2.levels \subseteq DOMAIN b.levels
  <2>1. b.orders[id].Level \in DOMAIN b.levels
    BY LinkedIsPending
  <2>2. \E os, b1, level : b1 = [b EXCEPT !.orders = os]
                           /\ b2 = SetLevel(b1, b.orders[id].Level, level)
    BY DEF DeleteOrder
  <2> HIDE DEF b2
  <2> QED
    BY <2>1, <2>2, SetLevelShrinks
<1> HIDE DEF b2
<1>3. /\ DOMAIN b2.orders = DOMAIN b.orders \ {id}
      /\ \A i \in DOMAIN b.orders \ {id} : b2.orders[i] = b.orders[i]
  BY <1>1 DEF Drop
<1>4. Shrinks(b, b2)
  BY <1>2, <1>3 DEF Shrinks, SameKind
<1> QED
  BY <1>1, <1>3, <1>4 DEF b2

\* What is executed of an order, or taken off it.
Lessened(old, quantity) == {Executed(old, quantity), Reduced(old, quantity)}

LEMMA LessenedOrder ==
    ASSUME NEW old \in OrderNode(OrderIds, MaxQuantity), NEW quantity \in Nat,
           NEW o \in Lessened(old, quantity)
    PROVE  /\ IsReduced(o, old, OrderIds, MaxQuantity) /\ SameKind(o, old)
           /\ o.Quantity = old.Quantity
           /\ o.LeavesQuantity = IF quantity < old.LeavesQuantity
                                 THEN old.LeavesQuantity - quantity ELSE 0
           /\ o.ExecutedQuantity \in {old.ExecutedQuantity, old.ExecutedQuantity + quantity}
<1>1. IsReduced(o, old, OrderIds, MaxQuantity)
  BY LessIsReduced DEF Lessened
<1>2. old.LeavesQuantity \in Nat
  BY DEF OrderNode
<1>3. old.LeavesQuantity - Lesser(quantity, old.LeavesQuantity) =
         IF quantity < old.LeavesQuantity THEN old.LeavesQuantity - quantity ELSE 0
  BY <1>2 DEF Lesser
<1>4. \E executed \in {old.ExecutedQuantity, old.ExecutedQuantity + quantity} :
         o = [old EXCEPT !.ExecutedQuantity = executed,
                         !.LeavesQuantity = IF quantity < old.LeavesQuantity
                                            THEN old.LeavesQuantity - quantity ELSE 0]
  BY <1>3 DEF Lessened, Executed, Reduced, OrderNode
<1> QED
  BY <1>1, <1>4 DEF SameKind, OrderNode

LEMMA ReduceShrinksBook ==
    ASSUME VolumeFits, NEW b, Valid(b), NEW id \in DOMAIN b.orders,
           NEW quantity \in Nat, NEW o \in Lessened(b.orders[id], quantity)
    PROVE  LET b2 == ReduceOrder(b, o)
           IN /\ Valid(b2) /\ Shrinks(b, b2)
              /\ o.LeavesQuantity = 0 => b2 = DeleteOrder(b, id)
              /\ o.LeavesQuantity # 0 => DOMAIN b2.orders = DOMAIN b.orders
                                         /\ b2.orders[id] = o
              /\ \A i \in DOMAIN b2.orders \ {id} : b2.orders[i] = b.orders[i]
<1> DEFINE b2 == ReduceOrder(b, o)
           old == b.orders[id]
<1>1. old \in OrderNode(OrderIds, MaxQuantity) /\ old.Id = id /\ old.Level \in DOMAIN b.levels
  BY LinkedIsPending
<1>2. IsReduced(o, old, OrderIds, MaxQuantity) /\ SameKind(o, old)
  BY <1>1, LessenedOrder
<1>3. /\ Valid(b2)
      /\ b2.orders = IF o.LeavesQuantity = 0 THEN Drop(b.orders, id) ELSE Put(b.orders, id, o)
  BY <1>2, ReduceOrderKeepsBook DEF Valid, VolumeFits
<1>4. o.LeavesQuantity = 0 => b2 = DeleteOrder(b, id)
  BY <1>2, ReduceToNothing DEF Valid, VolumeFits
<1>5. DOMAIN b2.levels \subseteq DOMAIN b.levels
  <2>1. o.Id = id
    BY <1>1, <1>2 DEF SameKind
  <2>2. \E os, b1, level : b1 = [b EXCEPT !.orders = os]
                           /\ b2 = SetLevel(b1, old.Level, level)
    BY <2>1 DEF ReduceOrder
  <2> HIDE DEF b2, old
  <2> QED
    BY <1>1, <2>2, SetLevelShrinks
<1> HIDE DEF b2
<1>6. \A i \in DOMAIN b2.orders : i \in DOMAIN b.orders
                                  /\ b2.orders[i] = IF i = id THEN o ELSE b.orders[i]
  BY <1>3 DEF Drop, Put
<1>7. o.LeavesQuantity # 0 => DOMAIN b2.orders = DOMAIN b.orders /\ b2.orders[id] = o
  BY <1>3 DEF Put
<1>8. Shrinks(b, b2)
  BY <1>2, <1>5, <1>6 DEF Shrinks, SameKind
<1> QED
  BY <1>3, <1>4, <1>6, <1>7, <1>8 DEF b2

\* The prices of a book that shrinks.
LEMMA ShrinksPrices ==
    ASSUME NEW b, NEW b2, Shrinks(b, b2), NEW c
    PROVE  PricesIn(b2, c) \subseteq PricesIn(b, c)
BY DEF Shrinks, PricesIn

LEMMA ShrinksTwice ==
    ASSUME NEW b, NEW b1, NEW b2, Shrinks(b, b1), Shrinks(b1, b2)
    PROVE  Shrinks(b, b2)
BY DEF Shrinks, SameKind

LEMMA ShrinksNot ==
    ASSUME NEW b
    PROVE  Shrinks(b, b)
BY DEF Shrinks, SameKind

-----------------------------------------------------------------------------
(* The best levels *)

\* A book whose bids are below its asks is not crossed.
LEMMA LessIsNotCrossed ==
    ASSUME NEW b, Valid(b), BestBidIsLess(b)
    PROVE  ~Crossed(b)
<1> SUFFICES ASSUME Crossed(b) PROVE FALSE
  OBVIOUS
<1>1. b.best["bids"] \in PricesIn(b, "bids") /\ b.best["asks"] \in PricesIn(b, "asks")
  BY BestOfLevels, SidesAreCollections DEF Crossed
<1>2. PricesIn(b, "bids") \subseteq UInt64 /\ PricesIn(b, "asks") \subseteq UInt64
  BY BestOfLevels, SidesAreCollections
<1> QED
  BY <1>1, <1>2 DEF Crossed, BestBidIsLess, UInt64

LEMMA ShrinksUncrossed ==
    ASSUME NEW b, NEW b2, Shrinks(b, b2), BestBidIsLess(b)
    PROVE  BestBidIsLess(b2)
BY ShrinksPrices DEF BestBidIsLess

\* The best opposite price is one the order reaches.
HasReached(b, t) == HasBest(b, Opposite(t)) /\ Reaches(t, b.best[Opposite(t)])

\* The levels of a book with one more order.
LEMMA AddedLevels ==
    ASSUME NEW b, NEW o
    PROVE  /\ DOMAIN AddOrder(b, o).levels = DOMAIN b.levels \cup {KeyOf(o)}
           /\ DOMAIN AddOrder(b, o).orders = DOMAIN b.orders \cup {o.Id}
           /\ \A id \in DOMAIN b.orders \ {o.Id} : AddOrder(b, o).orders[id] = b.orders[id]
           /\ AddOrder(b, o).orders[o.Id] = [o EXCEPT !.Level = KeyOf(o)]
BY DEF AddOrder, Put

LEMMA KeyOfPending ==
    ASSUME NEW o \in Pending, o.Type # "MARKET"
    PROVE  /\ IsLimit(o) => KeyOf(o) = <<IF IsBuy(o) THEN "bids" ELSE "asks", o.Price>>
           /\ ~IsLimit(o) => KeyOf(o)[1] \in StopCollections
           /\ KeyOf(o)[1] \in Collections /\ KeyOf(o) = <<CollectionOf(o), KeyOf(o)[2]>>
<1>1. o.Type \in {"LIMIT"} \cup StopTypes \cup TrailingTypes
  BY DEF Pending, OrderType
<1>2. ~IsLimit(o) => CollectionOf(o) \in StopCollections
  BY <1>1 DEF CollectionOf, StopCollections, IsLimit, IsTrailing, StopTypes, TrailingTypes
<1>3. IsLimit(o) => CollectionOf(o) = IF IsBuy(o) THEN "bids" ELSE "asks"
  BY DEF CollectionOf, IsLimit, StopTypes, TrailingTypes, IsTrailing
<1> QED
  BY <1>2, <1>3, StopCollectionsType, SidesAreCollections DEF KeyOf

\* A stop order, or a limit order that reaches no other, can be linked.
LEMMA AddUncrossed ==
    ASSUME NEW b, Valid(b), BestBidIsLess(b), NEW o \in Pending, o.Type # "MARKET",
           IsLimit(o) => ~HasReached(b, o)
    PROVE  BestBidIsLess(AddOrder(b, o))
<1> DEFINE b2 == AddOrder(b, o)
<1> SUFFICES ASSUME NEW bid \in PricesIn(b2, "bids"), NEW ask \in PricesIn(b2, "asks")
             PROVE  bid < ask
  BY DEF BestBidIsLess
<1>1. DOMAIN b2.levels = DOMAIN b.levels \cup {KeyOf(o)}
  BY AddedLevels
<1> HIDE DEF b2
<1>2. ASSUME NEW c, NEW p \in PricesIn(b2, c), p \notin PricesIn(b, c)
      PROVE  KeyOf(o)[1] = c /\ KeyOf(o)[2] = p
  BY <1>1, <1>2 DEF PricesIn
<1>3. o.Price \in UInt64 /\ o.Side \in OrderSide
  BY DEF Pending
<1>4. PricesIn(b, "bids") \subseteq UInt64 /\ PricesIn(b, "asks") \subseteq UInt64
  BY BestOfLevels, SidesAreCollections
<1>5. CASE bid \in PricesIn(b, "bids") /\ ask \in PricesIn(b, "asks")
  BY <1>5 DEF BestBidIsLess
<1>6. ASSUME KeyOf(o)[1] \in {"bids", "asks"}
      PROVE  IsLimit(o) /\ KeyOf(o) = <<IF IsBuy(o) THEN "bids" ELSE "asks", o.Price>>
  BY <1>6, KeyOfPending DEF StopCollections
<1>7. CASE bid \notin PricesIn(b, "bids")
  <2>1. KeyOf(o)[1] = "bids" /\ KeyOf(o)[2] = bid
    BY <1>2, <1>7
  <2>2. IsLimit(o) /\ IsBuy(o) /\ o.Price = bid
    BY <1>6, <2>1
  <2>3. ask \in PricesIn(b, "asks")
    BY <1>2, <2>1
  <2>4. HasBest(b, "asks") /\ ~Better("asks", ask, b.best["asks"])
        /\ b.best["asks"] \in PricesIn(b, "asks")
    BY <2>3, BestOfLevels, SidesAreCollections
  <2>5. ~(o.Price >= b.best["asks"])
    BY <2>2, <2>4 DEF HasReached, Reaches, Opposite
  <2>6. ~(ask < b.best["asks"])
    BY <2>4, SidesAreCollections DEF Better
  <2>7. bid \in Nat /\ ask \in Nat /\ b.best["asks"] \in Nat
    BY <1>3, <1>4, <2>2, <2>3, <2>4 DEF UInt64
  <2> QED
    BY <2>2, <2>5, <2>6, <2>7
<1>8. CASE ask \notin PricesIn(b, "asks")
  <2>1. KeyOf(o)[1] = "asks" /\ KeyOf(o)[2] = ask
    BY <1>2, <1>8
  <2>2. IsLimit(o) /\ ~IsBuy(o) /\ o.Price = ask
    BY <1>6, <2>1
  <2>3. bid \in PricesIn(b, "bids")
    BY <1>2, <2>1
  <2>4. HasBest(b, "bids") /\ ~Better("bids", bid, b.best["bids"])
        /\ b.best["bids"] \in PricesIn(b, "bids")
    BY <2>3, BestOfLevels, SidesAreCollections
  <2>5. ~(o.Price <= b.best["bids"])
    BY <2>2, <2>4 DEF HasReached, Reaches, Opposite
  <2>6. ~(bid > b.best["bids"])
    BY <2>4, SidesAreCollections DEF Better
  <2>7. bid \in Nat /\ ask \in Nat /\ b.best["bids"] \in Nat
    BY <1>3, <1>4, <2>2, <2>3, <2>4 DEF UInt64
  <2> QED
    BY <2>2, <2>5, <2>6, <2>7
<1> QED
  BY <1>5, <1>7, <1>8

-----------------------------------------------------------------------------
(* The front of a queue leaves *)

LEMMA TwoPlaces ==
    ASSUME NEW n \in Nat \ {0}, n # 1
    PROVE  1 \in 1 .. n /\ 2 \in 1 .. n
  OBVIOUS

\* The first order of a level has the second one next.
LEMMA NextOfFirst ==
    ASSUME NEW b, Valid(b), NEW k \in DOMAIN b.levels
    PROVE  LET list == b.levels[k].OrderList
           IN /\ list \in Seq(OrderIds) /\ Len(list) \in Nat \ {0} /\ Distinct(list)
              /\ (CHOOSE n \in 1 .. Len(list) : list[n] = list[1]) = 1
              /\ NextOrder(b, FirstOrder(b, k)) = IF Len(list) = 1 THEN NoOrder ELSE list[2]
<1> DEFINE list == b.levels[k].OrderList
           id == FirstOrder(b, k)
<1>1. /\ list \in Seq(OrderIds) /\ Len(list) \in Nat /\ Distinct(list)
  BY QueueOfLevel
<1>2. id \in DOMAIN b.orders /\ b.orders[id].Level = k /\ id = list[1]
  BY FirstOrderType DEF FirstOrder
<1>3. \E n \in 1 .. Len(list) : list[n] = id
  <2>1. id \in Elements(list)
    BY <1>2, BookInvParts DEF Valid, OrderOK
  <2> QED
    BY <2>1 DEF Elements
<1>4. NextOrder(b, id) = LET i == CHOOSE n \in 1 .. Len(list) : list[n] = id
                         IN IF i = Len(list) THEN NoOrder ELSE list[i + 1]
  BY <1>2 DEF NextOrder
<1> HIDE DEF list, id
<1>5. Len(list) \in Nat \ {0} /\ 1 \in 1 .. Len(list)
  BY <1>1, <1>3
<1>6. \A n \in 1 .. Len(list) : list[n] = list[1] => n = 1
  BY <1>1, <1>5 DEF Distinct
<1>7. (CHOOSE n \in 1 .. Len(list) : list[n] = list[1]) = 1
  BY <1>5, <1>6
<1>8. NextOrder(b, id) = IF 1 = Len(list) THEN NoOrder ELSE list[1 + 1]
  BY <1>2, <1>4, <1>7, Zenon
<1>9. NextOrder(b, id) = IF Len(list) = 1 THEN NoOrder ELSE list[2]
  BY <1>8
<1> QED
  BY <1>1, <1>5, <1>7, <1>9 DEF list, id

\* What DeleteOrder does to the level of the order.
LEMMA DeletedAtLevel ==
    ASSUME NEW b, Valid(b), NEW id \in DOMAIN b.orders
    PROVE  LET k == b.orders[id].Level
               b2 == DeleteOrder(b, id)
           IN /\ k \in DOMAIN b2.levels =>
                     /\ DOMAIN b2.levels = DOMAIN b.levels
                     /\ b2.levels[k].OrderList = Unlink(b.levels[k].OrderList, id)
                     /\ b2.best = b.best
              /\ k \notin DOMAIN b2.levels =>
                     /\ DOMAIN b2.levels = DOMAIN b.levels \ {k}
                     /\ b2.best = [b.best EXCEPT ![k[1]] =
                                      IF @ = k[2] THEN NextPrice(b, k) ELSE @]
<1> DEFINE k == b.orders[id].Level
           b2 == DeleteOrder(b, id)
           level == LevelAfterDelete(b, id)
           b1 == [b EXCEPT !.orders = Drop(@, id)]
<1>1. k \in DOMAIN b.levels /\ b.levels[k] \in LevelNode(OrderIds)
  BY LinkedIsPending, BookInvParts DEF Valid, LevelOK
<1>2. level.OrderList = Unlink(b.levels[k].OrderList, id)
  BY <1>1, LevelWithoutFields DEF LevelAfterDelete
<1>3. b2 = SetLevel(b1, k, level)
  BY DEF DeleteOrder, LevelAfterDelete
<1>4. /\ b1.levels = b.levels /\ b1.best = b.best
      /\ b1 = [orders |-> b1.orders, levels |-> b1.levels, best |-> b1.best]
  BY BookInvParts DEF Valid, BookShape
<1>5. NextPrice(b1, k) = NextPrice(b, k)
  BY <1>4 DEF NextPrice, PricesIn
<1> HIDE DEF b1, b2, level, k
<1>6. CASE level.TotalVolume = 0
  <2>1. /\ b2.levels = Drop(b.levels, k)
        /\ b2.best = [b.best EXCEPT ![k[1]] = IF @ = k[2] THEN NextPrice(b, k) ELSE @]
    BY <1>3, <1>4, <1>5, <1>6 DEF SetLevel, DeleteLevel
  <2>2. DOMAIN b2.levels = DOMAIN b.levels \ {k}
    BY <2>1 DEF Drop
  <2> QED
    BY <2>1, <2>2 DEF k, b2
<1>7. CASE level.TotalVolume # 0
  <2>1. b2.levels = Put(b.levels, k, level) /\ b2.best = b.best
    BY <1>3, <1>4, <1>7 DEF SetLevel
  <2>2. DOMAIN b2.levels = DOMAIN b.levels /\ b2.levels[k] = level
    BY <1>1, <2>1 DEF Put
  <2> QED
    BY <1>1, <1>2, <2>1, <2>2 DEF k, b2
<1> QED
  BY <1>6, <1>7

\* The same prices, the same neighbours.
LEMMA SameNeighbours ==
    ASSUME NEW b, NEW b2, DOMAIN b2.levels = DOMAIN b.levels, NEW k
    PROVE  LevelAfter(b2, k) = LevelAfter(b, k)
BY DEF LevelAfter, NextPrice, PricesIn

\* When the first order of the best level leaves, the next one is in front, at the same
\* level or, when that is gone, at the level after it.
LEMMA FrontLeaves ==
    ASSUME VolumeFits, NEW b, Valid(b), NEW c \in Collections, HasBest(b, c)
    PROVE  LET k == BestKey(b, c)
               id == FirstOrder(b, k)
               b2 == DeleteOrder(b, id)
           IN /\ NextOrder(b, id) # NoOrder =>
                     /\ HasBest(b2, c) /\ b2.best[c] = b.best[c]
                     /\ FirstOrder(b2, k) = NextOrder(b, id)
                     /\ LevelAfter(b2, k) = LevelAfter(b, k)
              /\ NextOrder(b, id) = NoOrder /\ LevelAfter(b, k) # NoLevel =>
                     HasBest(b2, c) /\ LevelAfter(b, k) = BestKey(b2, c)
<1> DEFINE k == BestKey(b, c)
           id == FirstOrder(b, k)
           b2 == DeleteOrder(b, id)
           list == b.levels[k].OrderList
<1>1. k \in DOMAIN b.levels /\ k = <<c, b.best[c]>>
  BY BestKeyType DEF BestKey
<1> HIDE DEF k
<1>2. id \in DOMAIN b.orders /\ b.orders[id].Level = k
  BY <1>1, FirstOrderType
<1>3. id = list[1]
  BY DEF FirstOrder
<1>4. /\ list \in Seq(OrderIds) /\ Len(list) \in Nat \ {0} /\ Distinct(list)
      /\ (CHOOSE n \in 1 .. Len(list) : list[n] = list[1]) = 1
      /\ NextOrder(b, id) = IF Len(list) = 1 THEN NoOrder ELSE list[2]
  BY <1>1, NextOfFirst
<1> HIDE DEF id
<1>5. /\ k \in DOMAIN b2.levels =>
             /\ DOMAIN b2.levels = DOMAIN b.levels
             /\ b2.levels[k].OrderList = Unlink(list, id)
             /\ b2.best = b.best
      /\ k \notin DOMAIN b2.levels =>
             /\ DOMAIN b2.levels = DOMAIN b.levels \ {k}
             /\ b2.best = [b.best EXCEPT ![k[1]] = IF @ = k[2] THEN NextPrice(b, k) ELSE @]
  BY <1>2, DeletedAtLevel
<1>6. /\ Valid(b2) /\ DOMAIN b2.orders = DOMAIN b.orders \ {id}
      /\ \A i \in DOMAIN b.orders \ {id} : b2.orders[i] = b.orders[i]
  BY <1>2, DeleteShrinks
<1>7. Unlink(list, id) = RemoveAt(list, 1)
  BY <1>3, <1>4 DEF Unlink
<1>8. \A n \in 1 .. Len(list) : list[n] \in DOMAIN b.orders /\ b.orders[list[n]].Level = k
  BY <1>1, QueueOfLevel
<1> HIDE DEF b2, list
<1>9. /\ Len(RemoveAt(list, 1)) = Len(list) - 1
      /\ \A n \in 1 .. Len(list) - 1 :
            RemoveAt(list, 1)[n] = IF n < 1 THEN list[n] ELSE list[n + 1]
  <2>1. 1 \in 1 .. Len(list)
    BY <1>4
  <2> QED
    BY <1>4, <2>1, RemoveAtProperties
<1>10. CASE k \in DOMAIN b2.levels
  <2>1. FirstOrder(b2, k) = RemoveAt(list, 1)[1]
    BY <1>5, <1>7, <1>10 DEF FirstOrder
  <2>2. Len(list) # 1
    <3>1. Len(b2.levels[k].OrderList) # 0
      BY <1>6, <1>10, NextOfFirst
    <3> QED
      BY <1>5, <1>7, <1>9, <1>10, <3>1
  <2>3. FirstOrder(b2, k) = list[2] /\ NextOrder(b, id) = list[2]
    BY <1>4, <1>9, <2>1, <2>2
  <2>4. list[2] # NoOrder
    <3>1. 2 \in 1 .. Len(list)
      BY <1>4, <2>2, TwoPlaces
    <3> QED
      BY <1>4, <3>1, ElementOfSeq DEF OrderIds, NoOrder
  <2>5. LevelAfter(b2, k) = LevelAfter(b, k) /\ b2.best = b.best
    BY <1>5, <1>10, SameNeighbours
  <2> QED
    BY <2>3, <2>4, <2>5 DEF HasBest, id, k, b2
<1>11. CASE k \notin DOMAIN b2.levels
  <2>1. NextOrder(b, id) = NoOrder
    <3> SUFFICES ASSUME Len(list) # 1 PROVE FALSE
      BY <1>4
    <3>1. 1 \in 1 .. Len(list) /\ 2 \in 1 .. Len(list)
      BY <1>4, TwoPlaces
    <3>2. list[2] # list[1]
      BY <1>4, <3>1 DEF Distinct
    <3>3. list[2] \in DOMAIN b2.orders /\ b2.orders[list[2]].Level = k
      BY <1>3, <1>6, <1>8, <3>1, <3>2
    <3> QED
      BY <1>6, <1>11, <3>3, LinkedIsPending
  <2>2. b2.best[c] = NextPrice(b, k)
    <3>1. b.best \in [Collections -> UInt64 \cup {NoPrice}]
      BY BookInvParts DEF Valid, Bests
    <3>2. k[1] = c /\ k[2] = b.best[c]
      BY <1>1
    <3> QED
      BY <1>5, <1>11, <3>1, <3>2
  <2>3. LevelAfter(b, k) # NoLevel => NextPrice(b, k) # NoPrice
                                      /\ LevelAfter(b, k) = <<c, NextPrice(b, k)>>
    BY <1>1 DEF LevelAfter
  <2> QED
    BY <2>1, <2>2, <2>3 DEF HasBest, BestKey, id, k, b2
<1> QED
  BY <1>10, <1>11

-----------------------------------------------------------------------------
(* Calm matching: strictly nested calls *)

\* How deep a call is in the calls of one operation.
Depth(f) ==
    IF f.at = "add" THEN 0
    ELSE IF f.at \in MatchLabels \cup {"reset"} THEN 1
    ELSE IF f.at \in {"recalculate", "walk"} THEN 2
    ELSE IF f.at = "activate" THEN 3
    ELSE IF f.at = "finish" THEN 4
    ELSE IF f.at \in {"match_order", "take", "filled"} THEN 5
    ELSE 6

\* The calls that are made while the book is not crossed.
CalmLabels == {"add", "match", "buy_stops", "sell_stops", "round", "recalculate", "walk",
               "activate", "finish", "match_order", "take", "filled", "chain"}

CalmFrame(f) == f.at \in CalmLabels /\ (f.at = "match" => ~f.internal)

\* An order that needs a chain is matched by one, another order by order.
Role(f, t) ==
    /\ f.at \in {"chain", "filled"} => NeedsChain(t)
    /\ f.at = "take" => ~NeedsChain(t)
    /\ f.at = "match_order" /\ f.next # NoOrder => ~NeedsChain(t)

Quiet(s, t) ==
    /\ \A i, j \in 1 .. Len(s) : i < j => Depth(s[i]) < Depth(s[j])
    /\ \A i \in 1 .. Len(s) : CalmFrame(s[i]) /\ Role(s[i], t)

\* The order is the next one the taker meets.
AtFront(b, t, id) == HasBest(b, Opposite(t)) /\ id = FirstOrder(b, BestKey(b, Opposite(t)))

\* What is left of the taker meets no order it could trade with.
Unmatched(t, b) ==
    t.Type \in {"LIMIT", "MARKET"} /\ t.LeavesQuantity > 0 /\ ~NeedsChain(t) =>
        ~HasReached(b, t)

\* What the innermost call remembers of the book is still true.
Top(f, t, b) ==
    /\ f.at = "finish" => Unmatched(t, b)
    /\ f.at = "match_order" /\ f.next # NoOrder => AtFront(b, t, f.next) /\ HasReached(b, t)
    /\ f.at = "take" =>
          /\ Reaches(t, f.price)
          /\ f.next # NoOrder /\ f.quantity < t.LeavesQuantity =>
                AtFront(b, t, f.next) /\ HasReached(b, t)
    /\ f.at = "chain" /\ f.order # NoOrder =>
          /\ AtFront(b, t, f.order) /\ f.volume > 0
          /\ f.level = LevelAfter(b, BestKey(b, Opposite(t)))
    /\ f.at = "chain" /\ f.order = NoOrder /\ f.volume > 0 /\ f.level # NoLevel =>
          HasBest(b, Opposite(t)) /\ f.level = BestKey(b, Opposite(t))

CalmBook(b) == BestBidIsLess(b) /\ \A id \in DOMAIN b.orders : ~IsAON(b.orders[id])

CalmTaker(t) == t # NoTaker => ~IsAON(t)

\* The inductive invariant, besides IInv.
Calm == /\ enabled
        /\ CalmBook(book)
        /\ CalmTaker(taker)
        /\ Quiet(calls, taker)
        /\ calls # << >> => Top(Call, taker, book)

\* The caller leaves automatic matching on, and no order is All-Or-None.
Automatic == Operations \cap {"match", "enable", "disable"} = {}
NoneIsAON == \A t \in NewOrders : t.TimeInForce # "AON"

\* The labels of a depth.
LEMMA DepthOfLabel ==
    ASSUME NEW f
    PROVE  /\ f.at = "add" => Depth(f) = 0
           /\ f.at \in MatchLabels => Depth(f) = 1
           /\ f.at \in {"recalculate", "walk"} => Depth(f) = 2
           /\ f.at = "activate" => Depth(f) = 3
           /\ f.at = "finish" => Depth(f) = 4
           /\ f.at \in {"match_order", "take", "filled"} => Depth(f) = 5
           /\ f.at = "chain" => Depth(f) = 6
<1>1. f.at = "add" => Depth(f) = 0
  BY DEF Depth
<1>2. f.at \in MatchLabels => Depth(f) = 1
  BY DEF Depth, MatchLabels
<1>3. f.at \in {"recalculate", "walk"} => Depth(f) = 2
  BY DEF Depth, MatchLabels
<1>4. f.at = "activate" => Depth(f) = 3
  BY DEF Depth, MatchLabels
<1>5. f.at = "finish" => Depth(f) = 4
  BY DEF Depth, MatchLabels
<1>6. f.at \in {"match_order", "take", "filled"} => Depth(f) = 5
  BY DEF Depth, MatchLabels
<1>7. f.at = "chain" => Depth(f) = 6
  BY DEF Depth, MatchLabels
<1> QED
  BY <1>1, <1>2, <1>3, <1>4, <1>5, <1>6, <1>7

LEMMA DepthOfMatching ==
    ASSUME NEW f
    PROVE  /\ f.at \in {"match_order", "take", "filled"} =>
                 Depth(f) <= 5 /\ Depth(f) <= 6 /\ Depth(f) = 5
           /\ f.at = "finish" => Depth(f) <= 4 /\ Depth(f) = 4
           /\ f.at = "chain" => Depth(f) <= 6 /\ Depth(f) = 6
<1>1. CASE f.at \in {"match_order", "take", "filled"}
  <2>1. Depth(f) = 5
    BY <1>1, DepthOfLabel, Zenon
  <2>2. Depth(f) <= 5 /\ Depth(f) <= 6
    BY ONLY <2>1
  <2>3. f.at # "finish" /\ f.at # "chain"
    BY <1>1
  <2> QED
    BY <2>1, <2>2, <2>3, Zenon
<1>2. CASE f.at = "finish"
  <2>1. Depth(f) = 4
    BY <1>2, DepthOfLabel, Zenon
  <2>2. Depth(f) <= 4
    BY ONLY <2>1
  <2>3. f.at # "chain" /\ f.at \notin {"match_order", "take", "filled"}
    BY <1>2
  <2> QED
    BY <2>1, <2>2, <2>3, Zenon
<1>3. CASE f.at = "chain"
  <2>1. Depth(f) = 6
    BY <1>3, DepthOfLabel, Zenon
  <2>2. Depth(f) <= 6
    BY ONLY <2>1
  <2>3. f.at # "finish" /\ f.at \notin {"match_order", "take", "filled"}
    BY <1>3
  <2> QED
    BY <2>1, <2>2, <2>3, Zenon
<1> QED
  BY <1>1, <1>2, <1>3, Zenon

LEMMA DepthOfCalm ==
    ASSUME NEW f, CalmFrame(f)
    PROVE  /\ Depth(f) \in 0 .. 6
           /\ Depth(f) < 4 => f.at \notin {"finish", "match_order", "take", "chain", "filled"}
           /\ Depth(f) < 5 => f.at \notin {"match_order", "take", "chain", "filled"}
           /\ Depth(f) < 6 => f.at # "chain"
           /\ Depth(f) > 4 => f.at \in {"match_order", "take", "chain", "filled"}
           /\ Depth(f) > 5 => f.at = "chain"
<1>1. \/ f.at = "add" /\ Depth(f) = 0
      \/ f.at \in {"match", "buy_stops", "sell_stops", "round"} /\ Depth(f) = 1
      \/ f.at \in {"recalculate", "walk"} /\ Depth(f) = 2
      \/ f.at = "activate" /\ Depth(f) = 3
      \/ f.at = "finish" /\ Depth(f) = 4
      \/ f.at \in {"match_order", "take", "filled"} /\ Depth(f) = 5
      \/ f.at = "chain" /\ Depth(f) = 6
  BY DepthOfLabel DEF CalmFrame, CalmLabels, MatchLabels
<1> DEFINE d == Depth(f)
           l == f.at
<1>2. ASSUME \/ l = "add" /\ d = 0
             \/ l \in {"match", "buy_stops", "sell_stops", "round"} /\ d = 1
             \/ l \in {"recalculate", "walk"} /\ d = 2
             \/ l = "activate" /\ d = 3
             \/ l = "finish" /\ d = 4
             \/ l \in {"match_order", "take", "filled"} /\ d = 5
             \/ l = "chain" /\ d = 6
      PROVE  /\ d \in 0 .. 6
             /\ d < 4 => l \notin {"finish", "match_order", "take", "chain", "filled"}
             /\ d < 5 => l \notin {"match_order", "take", "chain", "filled"}
             /\ d < 6 => l # "chain"
             /\ d > 4 => l \in {"match_order", "take", "chain", "filled"}
             /\ d > 5 => l = "chain"
  <2> HIDE DEF d, l
  <2>1. CASE l = "add" /\ d = 0
    BY <2>1
  <2>2. CASE l \in {"match", "buy_stops", "sell_stops", "round"} /\ d = 1
    <3>0. d = 1
      BY <2>2, Zenon
    <3>1. d \in 0 .. 6 /\ (d < 4) /\ (d < 5) /\ (d < 6)
          /\ ~(d > 4) /\ ~(d > 5)
      BY ONLY <3>0
    <3>2. l \notin {"finish", "match_order", "take", "chain", "filled"} /\ l # "chain"
          /\ l \notin {"match_order", "take", "chain", "filled"}
      BY <2>2
    <3> QED
      BY <3>1, <3>2, Zenon
  <2>3. CASE l \in {"recalculate", "walk"} /\ d = 2
    <3>0. d = 2
      BY <2>3, Zenon
    <3>1. d \in 0 .. 6 /\ (d < 4) /\ (d < 5) /\ (d < 6)
          /\ ~(d > 4) /\ ~(d > 5)
      BY ONLY <3>0
    <3>2. l \notin {"finish", "match_order", "take", "chain", "filled"} /\ l # "chain"
          /\ l \notin {"match_order", "take", "chain", "filled"}
      BY <2>3
    <3> QED
      BY <3>1, <3>2, Zenon
  <2>4. CASE l = "activate" /\ d = 3
    BY <2>4
  <2>5. CASE l = "finish" /\ d = 4
    BY <2>5
  <2>6. CASE l \in {"match_order", "take", "filled"} /\ d = 5
    <3>0. d = 5
      BY <2>6, Zenon
    <3>1. d \in 0 .. 6 /\ ~(d < 4) /\ ~(d < 5) /\ (d < 6)
          /\ (d > 4) /\ ~(d > 5)
      BY ONLY <3>0
    <3>2. l \in {"match_order", "take", "chain", "filled"} /\ l # "chain"
      BY <2>6
    <3> QED
      BY <3>1, <3>2, Zenon
  <2>7. CASE l = "chain" /\ d = 6
    BY <2>7
  <2> QED
    BY <1>2, <2>1, <2>2, <2>3, <2>4, <2>5, <2>6, <2>7, Zenon
<1> QED
  BY <1>1, <1>2

\* The conditions of the innermost call, for the calls that have none.
LEMMA NoTop ==
    ASSUME NEW f, f.at \notin {"finish", "match_order", "take", "chain"}, NEW t, NEW b
    PROVE  Top(f, t, b)
BY DEF Top

-----------------------------------------------------------------------------
(* Nested calls *)

\* Frames the innermost call can go on as.
OnTop(frames, t) == /\ frames \in Seq(Frame)
                    /\ Quiet(frames, t)
                    /\ \A j \in 1 .. Len(frames) : Depth(Call) <= Depth(frames[j])

LEMMA OnTopNone ==
    ASSUME NEW t
    PROVE  OnTop(<< >>, t)
<1>1. << >> \in Seq(Frame) /\ Len(<< >>) = 0
  BY EmptySeq
<1>2. 1 .. 0 = {}
  OBVIOUS
<1> QED
  BY <1>1, <1>2 DEF OnTop, Quiet

LEMMA QuietOne ==
    ASSUME NEW t, NEW f \in Frame, CalmFrame(f), Role(f, t)
    PROVE  /\ <<f>> \in Seq(Frame) /\ Quiet(<<f>>, t)
           /\ Len(<<f>>) = 1 /\ <<f>>[1] = f /\ <<f>> # << >>
<1> DEFINE s == <<f>>
<1>1. s \in Seq(Frame) /\ Len(s) = 1 /\ s[1] = f /\ s # << >>
  OBVIOUS
<1> HIDE DEF s
<1>2. \A i \in 1 .. Len(s) : i = 1
  BY <1>1, Indices
<1>3. \A i, j \in 1 .. Len(s) : ~(i < j)
  BY <1>2
<1> QED
  BY <1>1, <1>2, <1>3 DEF Quiet, s

\* More frames above others.
Below(s, r) == \A i \in 1 .. Len(s), j \in 1 .. Len(r) : Depth(s[i]) < Depth(r[j])

LEMMA QuietJoin ==
    ASSUME NEW t, NEW s \in Seq(Frame), NEW r \in Seq(Frame), Quiet(s, t), Quiet(r, t),
           Below(s, r)
    PROVE  /\ s \o r \in Seq(Frame) /\ Quiet(s \o r, t)
           /\ Len(s \o r) = Len(s) + Len(r)
           /\ Len(r) # 0 => s \o r # << >> /\ (s \o r)[Len(s \o r)] = r[Len(r)]
           /\ Len(r) = 0 => s \o r = s
<1> DEFINE u == s \o r
<1>1. /\ u \in Seq(Frame) /\ Len(u) = Len(s) + Len(r) /\ Len(s) \in Nat /\ Len(r) \in Nat
      /\ \A i \in 1 .. Len(s) + Len(r) : u[i] = IF i <= Len(s) THEN s[i] ELSE r[i - Len(s)]
  BY ConcatProperties, LenProperties
<1>2. Len(r) = 0 => u = s
  BY ConcatEmptySeq, EmptySeq
<1>3. Len(r) # 0 => u # << >>
  BY <1>1, EmptySeq
<1> HIDE DEF u
<1>4. ASSUME NEW i \in 1 .. Len(u)
      PROVE  \/ i \in 1 .. Len(s) /\ u[i] = s[i]
             \/ i - Len(s) \in 1 .. Len(r) /\ u[i] = r[i - Len(s)] /\ i > Len(s)
  BY <1>1
<1>5. ASSUME NEW i \in 1 .. Len(u), NEW j \in 1 .. Len(u), i < j
      PROVE  Depth(u[i]) < Depth(u[j])
  <2>1. CASE i \in 1 .. Len(s) /\ u[i] = s[i] /\ j \in 1 .. Len(s) /\ u[j] = s[j]
    BY <1>5, <2>1 DEF Quiet
  <2>2. CASE i \in 1 .. Len(s) /\ u[i] = s[i] /\ j - Len(s) \in 1 .. Len(r)
             /\ u[j] = r[j - Len(s)]
    BY <2>2 DEF Below
  <2>3. CASE /\ i - Len(s) \in 1 .. Len(r) /\ u[i] = r[i - Len(s)]
             /\ j - Len(s) \in 1 .. Len(r) /\ u[j] = r[j - Len(s)]
    <3>1. i - Len(s) < j - Len(s)
      BY <1>1, <1>5
    <3> QED
      BY <2>3, <3>1 DEF Quiet
  <2>4. ~(i > Len(s) /\ j \in 1 .. Len(s))
    BY <1>1, <1>5
  <2> QED
    BY <1>4, <2>1, <2>2, <2>3, <2>4
<1>6. \A i \in 1 .. Len(u) : CalmFrame(u[i]) /\ Role(u[i], t)
  BY <1>4 DEF Quiet
<1>7. Len(r) # 0 => u[Len(u)] = r[Len(r)]
  <2> SUFFICES ASSUME Len(r) # 0 PROVE u[Len(u)] = r[Len(r)]
    OBVIOUS
  <2>1. Len(u) \in 1 .. Len(s) + Len(r) /\ ~(Len(u) <= Len(s)) /\ Len(u) - Len(s) = Len(r)
    BY <1>1
  <2> QED
    BY <1>1, <2>1
<1> QED
  BY <1>1, <1>2, <1>3, <1>5, <1>6, <1>7 DEF Quiet, u

LEMMA QuietTwo ==
    ASSUME NEW t, NEW f \in Frame, NEW g \in Frame, CalmFrame(f), CalmFrame(g),
           Role(f, t), Role(g, t), Depth(f) < Depth(g)
    PROVE  /\ <<f, g>> \in Seq(Frame) /\ Quiet(<<f, g>>, t)
           /\ Len(<<f, g>>) = 2 /\ <<f, g>>[1] = f /\ <<f, g>>[2] = g /\ <<f, g>> # << >>
<1> DEFINE s == <<f, g>>
<1>1. s \in Seq(Frame) /\ Len(s) = 2 /\ s[1] = f /\ s[2] = g /\ s # << >>
  OBVIOUS
<1> HIDE DEF s
<1>2. \A i \in 1 .. Len(s) : i = 1 \/ i = 2
  BY <1>1, Indices
<1>3. \A i, j \in 1 .. Len(s) : i < j => i = 1 /\ j = 2
  BY <1>2
<1>4. \A i, j \in 1 .. Len(s) : i < j => Depth(s[i]) < Depth(s[j])
  BY <1>1, <1>3
<1>5. \A i \in 1 .. Len(s) : CalmFrame(s[i]) /\ Role(s[i], t)
  BY <1>1, <1>2
<1> QED
  BY <1>1, <1>4, <1>5 DEF Quiet, s

LEMMA OnTopOne ==
    ASSUME NEW t, NEW f \in Frame, CalmFrame(f), Role(f, t), Depth(Call) <= Depth(f)
    PROVE  OnTop(<<f>>, t)
<1> DEFINE s == <<f>>
<1>1. s \in Seq(Frame) /\ Quiet(s, t) /\ Len(s) = 1 /\ s[1] = f
  BY QuietOne
<1> HIDE DEF s
<1>2. \A i \in 1 .. Len(s) : i = 1
  BY <1>1, Indices
<1> QED
  BY <1>1, <1>2 DEF OnTop, s

LEMMA OnTopTwo ==
    ASSUME NEW t, NEW f \in Frame, NEW g \in Frame, CalmFrame(f), CalmFrame(g),
           Role(f, t), Role(g, t), Depth(f) < Depth(g),
           Depth(Call) <= Depth(f), Depth(Call) <= Depth(g)
    PROVE  OnTop(<<f, g>>, t)
<1> DEFINE s == <<f, g>>
<1>1. s \in Seq(Frame) /\ Quiet(s, t) /\ Len(s) = 2 /\ s[1] = f /\ s[2] = g
  BY QuietTwo
<1> HIDE DEF s
<1>2. \A i \in 1 .. Len(s) : i = 1 \/ i = 2
  BY <1>1, Indices
<1> QED
  BY <1>1, <1>2 DEF OnTop, s

LEMMA OnTopMore ==
    ASSUME NEW t, NEW s, NEW g \in Frame, OnTop(s, t), CalmFrame(g), Role(g, t),
           \A i \in 1 .. Len(s) : Depth(s[i]) < Depth(g), Depth(Call) <= Depth(g)
    PROVE  /\ OnTop(s \o <<g>>, t)
           /\ s \o <<g>> # << >> /\ (s \o <<g>>)[Len(s \o <<g>>)] = g
<1> DEFINE r == <<g>>
           u == s \o r
<1>1. r \in Seq(Frame) /\ Quiet(r, t) /\ Len(r) = 1 /\ r[1] = g
  BY QuietOne
<1>2. s \in Seq(Frame) /\ Quiet(s, t)
  BY DEF OnTop
<1> HIDE DEF r
<1>3. \A j \in 1 .. Len(r) : r[j] = g
  BY <1>1, Indices
<1>4. Below(s, r)
  BY <1>3 DEF Below
<1>5. u \in Seq(Frame) /\ Quiet(u, t) /\ u # << >> /\ u[Len(u)] = g
  <2>1. Len(r) # 0 /\ r[Len(r)] = g
    BY <1>1
  <2>0. s \in Seq(Frame) /\ r \in Seq(Frame)
    BY <1>1, <1>2, Zenon
  <2>3. Quiet(s, t) /\ Quiet(r, t)
    BY <1>1, <1>2, Zenon
  <2>4. Below(s, r)
    BY <1>4, Zenon
  <2>2. /\ s \o r \in Seq(Frame) /\ Quiet(s \o r, t)
        /\ Len(r) # 0 => s \o r # << >> /\ (s \o r)[Len(s \o r)] = r[Len(r)]
    BY <2>0, <2>3, <2>4, QuietJoin
  <2> QED
    BY <2>1, <2>2
<1>6. /\ Len(u) = Len(s) + Len(r) /\ Len(s) \in Nat
      /\ \A i \in 1 .. Len(s) + Len(r) : u[i] = IF i <= Len(s) THEN s[i] ELSE r[i - Len(s)]
  BY <1>1, <1>2, ConcatProperties, LenProperties
<1> HIDE DEF u
<1>7. ASSUME NEW i \in 1 .. Len(u) PROVE Depth(Call) <= Depth(u[i])
  <2>1. CASE i <= Len(s)
    <3>1. i \in 1 .. Len(s) /\ u[i] = s[i]
      BY <1>6, <2>1
    <3> QED
      BY <3>1 DEF OnTop
  <2>2. CASE ~(i <= Len(s))
    <3>1. i - Len(s) \in 1 .. Len(r)
      BY <1>1, <1>6, <2>2
    <3>2. u[i] = g
      BY <1>3, <1>6, <2>2, <3>1
    <3> QED
      BY <3>2
  <2> QED
    BY <2>1, <2>2
<1> QED
  BY <1>5, <1>7 DEF OnTop, u, r

\* Whether the taker needs a chain does not change while it is matched.
SameRole(t) == NeedsChain(t) = NeedsChain(taker) \/ Depth(Call) <= 4

\* The callers are less deep than the innermost call.
LEMMA CallersBelow ==
    ASSUME IInv, Calm, calls # << >>
    PROVE  /\ Callers \in Seq(Frame) /\ Len(Callers) \in Nat
           /\ Call \in Frame /\ CalmFrame(Call) /\ Role(Call, taker) /\ Top(Call, taker, book)
           /\ \A i \in 1 .. Len(Callers) : Depth(Callers[i]) < Depth(Call)
           /\ \A t : SameRole(t) => Quiet(Callers, t)
<1>1. calls \in Seq(Frame) /\ Len(calls) \in Nat \ {0} /\ Call \in Frame
  BY CallOf DEF IInv, StackOK
<1>2. Len(calls) - 1 \in Int /\ Len(calls) - 1 <= Len(calls) /\ Len(calls) \in 1 .. Len(calls)
  BY <1>1
<1>3. /\ StackOK(Callers, taker)
      /\ \A i \in 1 .. Len(Callers) :
            i \in 1 .. Len(calls) /\ i <= Len(calls) - 1 /\ Callers[i] = calls[i]
  BY <1>2, OuterStack DEF IInv, Callers
<1>4. Callers \in Seq(Frame) /\ Len(Callers) \in Nat
  BY <1>3, LenProperties DEF StackOK
<1>5. /\ \A i, j \in 1 .. Len(calls) : i < j => Depth(calls[i]) < Depth(calls[j])
      /\ \A i \in 1 .. Len(calls) : CalmFrame(calls[i]) /\ Role(calls[i], taker)
  BY DEF Calm, Quiet
<1>6. CalmFrame(Call) /\ Role(Call, taker)
  BY <1>2, <1>5 DEF Call
<1>7. \A i \in 1 .. Len(Callers) : Depth(Callers[i]) < Depth(Call)
  <2> SUFFICES ASSUME NEW i \in 1 .. Len(Callers) PROVE Depth(Callers[i]) < Depth(Call)
    OBVIOUS
  <2>1. i \in 1 .. Len(calls) /\ i < Len(calls) /\ Callers[i] = calls[i]
    BY <1>1, <1>3
  <2>2. Depth(calls[i]) < Depth(calls[Len(calls)])
    BY <1>2, <1>5, <2>1
  <2> QED
    BY <2>1, <2>2 DEF Call
<1>8. ASSUME NEW t, SameRole(t) PROVE Quiet(Callers, t)
  <2>1. \A i, j \in 1 .. Len(Callers) : i < j => Depth(Callers[i]) < Depth(Callers[j])
    BY <1>3, <1>5
  <2>2. \A i \in 1 .. Len(Callers) : CalmFrame(Callers[i]) /\ Role(Callers[i], taker)
    BY <1>3, <1>5
  <2>3. \A i \in 1 .. Len(Callers) : Role(Callers[i], t)
    <3>1. CASE NeedsChain(t) = NeedsChain(taker)
      BY <2>2, <3>1 DEF Role
    <3>2. CASE Depth(Call) <= 4
      <4> SUFFICES ASSUME NEW i \in 1 .. Len(Callers) PROVE Role(Callers[i], t)
        OBVIOUS
      <4>1. Depth(Callers[i]) \in 0 .. 6 /\ Depth(Call) \in 0 .. 6
        BY <1>6, <2>2, DepthOfCalm
      <4>2. Depth(Callers[i]) < 4
        BY <1>7, <3>2, <4>1
      <4>3. Callers[i].at \notin {"finish", "match_order", "take", "chain", "filled"}
        BY <2>2, <4>2, DepthOfCalm
      <4> QED
        BY <4>3 DEF Role
    <3> QED
      BY <1>8, <3>1, <3>2 DEF SameRole
  <2> QED
    BY <2>1, <2>2, <2>3 DEF Quiet
<1>9. Top(Call, taker, book)
  BY DEF Calm
<1> QED
  BY <1>1, <1>4, <1>6, <1>7, <1>8, <1>9

\* The innermost call goes on, or returns to one that has no conditions but for the end
\* of the taker's call.
LEMMA ContinueCalm ==
    ASSUME IInv, Calm, calls # << >>, NEW frames, Continue(frames), OnTop(frames, taker'),
           SameRole(taker'), enabled' = enabled, CalmBook(book'), CalmTaker(taker'),
           frames # << >> => Top(frames[Len(frames)], taker', book'),
           frames = << >> /\ Depth(Call) = 5 => Unmatched(taker', book')
    PROVE  Calm'
<1>1. /\ Callers \in Seq(Frame) /\ Len(Callers) \in Nat
      /\ CalmFrame(Call) /\ Role(Call, taker)
      /\ \A i \in 1 .. Len(Callers) : Depth(Callers[i]) < Depth(Call)
      /\ Quiet(Callers, taker')
  BY CallersBelow
<1>2. frames \in Seq(Frame) /\ Quiet(frames, taker')
      /\ \A j \in 1 .. Len(frames) : Depth(Call) <= Depth(frames[j])
  BY DEF OnTop
<1>3. Below(Callers, frames)
  <2> SUFFICES ASSUME NEW i \in 1 .. Len(Callers), NEW j \in 1 .. Len(frames)
               PROVE  Depth(Callers[i]) < Depth(frames[j])
    BY DEF Below
  <2>1. CalmFrame(Callers[i]) /\ CalmFrame(frames[j])
    BY <1>1, <1>2 DEF Quiet
  <2>2. Depth(Callers[i]) \in 0 .. 6 /\ Depth(frames[j]) \in 0 .. 6 /\ Depth(Call) \in 0 .. 6
    BY <1>1, <2>1, DepthOfCalm
  <2>3. Depth(Callers[i]) < Depth(Call) /\ Depth(Call) <= Depth(frames[j])
    BY <1>1, <1>2
  <2> QED
    BY <2>2, <2>3
<1>4. /\ calls' = Callers \o frames /\ Quiet(calls', taker')
      /\ Len(frames) # 0 => calls' # << >> /\ calls'[Len(calls')] = frames[Len(frames)]
      /\ Len(frames) = 0 => calls' = Callers
  <2>1. calls' = Callers \o frames
    BY DEF Continue
  <2>2. Callers \in Seq(Frame) /\ frames \in Seq(Frame)
    BY <1>1, <1>2
  <2>3. Quiet(Callers, taker') /\ Quiet(frames, taker')
    BY <1>1, <1>2
  <2>4. /\ Quiet(Callers \o frames, taker')
        /\ Len(frames) # 0 => Callers \o frames # << >>
              /\ (Callers \o frames)[Len(Callers \o frames)] = frames[Len(frames)]
        /\ Len(frames) = 0 => Callers \o frames = Callers
    BY <1>3, <2>2, <2>3, QuietJoin
  <2> QED
    BY <2>1, <2>4
<1>5. frames # << >> <=> Len(frames) # 0
  BY <1>2, EmptySeq
<1>6. CASE frames # << >>
  <2>1. Top(calls'[Len(calls')], taker', book')
    BY <1>4, <1>5, <1>6
  <2> QED
    BY <1>4, <2>1 DEF Calm, Call
<1>7. CASE frames = << >> /\ Callers = << >>
  <2>1. calls' = << >>
    BY <1>4, <1>5, <1>7
  <2> QED
    BY <1>4, <2>1 DEF Calm
<1>8. CASE frames = << >> /\ Callers # << >>
  <2> DEFINE n == Len(Callers)
             f == Callers[n]
  <2>1. calls' = Callers
    BY <1>4, <1>5, <1>8
  <2>2. n \in 1 .. Len(Callers)
    <3>1. n # 0
      BY <1>1, <1>8, EmptySeq
    <3> QED
      BY <1>1, <3>1
  <2>3. CalmFrame(f) /\ Role(f, taker') /\ Depth(f) < Depth(Call)
    BY <1>1, <2>2 DEF Quiet
  <2> HIDE DEF n
  <2>4. Depth(f) \in 0 .. 6 /\ Depth(Call) \in 0 .. 6
    BY <1>1, <2>3, DepthOfCalm
  <2> HIDE DEF f
  <2>5. Top(f, taker', book')
    <3>1. CASE Depth(f) < 4
      <4>1. f.at \notin {"finish", "match_order", "take", "chain"}
        BY <2>3, <3>1, DepthOfCalm
      <4> QED
        BY <4>1, NoTop
    <3>2. CASE Depth(Call) = 5 /\ Depth(f) = 4
      <4>1. f.at \notin {"match_order", "take", "chain"}
        BY <2>3, <3>2, DepthOfCalm
      <4>2. Unmatched(taker', book')
        BY <1>8, <3>2
      <4> QED
        BY <4>1, <4>2 DEF Top
    <3>3. CASE Depth(Call) = 6
      <4>1. Call.at = "chain" /\ f.at # "chain"
        <5>1. Depth(Call) > 5 /\ Depth(f) < 6
          BY <2>3, <2>4, <3>3
        <5>2. Call.at = "chain"
          BY <1>1, <5>1, DepthOfCalm
        <5>3. f.at # "chain"
          BY <2>3, <5>1, DepthOfCalm
        <5> QED
          BY <5>2, <5>3
      <4>2. NeedsChain(taker')
        BY <1>1, <3>3, <4>1 DEF Role, SameRole
      <4>3. f.at # "take" /\ ~(f.at = "match_order" /\ f.next # NoOrder)
        BY <2>3, <4>2 DEF Role
      <4> QED
        BY <4>1, <4>2, <4>3 DEF Top, Unmatched
    <3> QED
      BY <2>3, <2>4, <3>1, <3>2, <3>3
  <2> QED
    BY <1>4, <2>1, <2>5 DEF Calm, Call, f, n
<1> QED
  BY <1>6, <1>7, <1>8

-----------------------------------------------------------------------------
(* The frames of calm matching *)

LEMMA MatchOrderIsCalm ==
    \A next : /\ MatchOrderFrame(next).at = "match_order"
              /\ MatchOrderFrame(next).next = next
              /\ CalmFrame(MatchOrderFrame(next)) /\ Depth(MatchOrderFrame(next)) = 5
BY DEF MatchOrderFrame, CalmFrame, CalmLabels, Depth, MatchLabels

LEMMA TakeIsCalm ==
    ASSUME NEW price, NEW quantity, NEW next
    PROVE  LET f == TakeFrame(price, quantity, next)
           IN /\ f.at = "take" /\ f.price = price /\ f.quantity = quantity /\ f.next = next
              /\ CalmFrame(f) /\ Depth(f) = 5
BY DEF TakeFrame, CalmFrame, CalmLabels, Depth, MatchLabels

LEMMA ChainIsCalm ==
    ASSUME NEW level, NEW order, NEW price, NEW volume
    PROVE  LET f == ChainFrame(level, order, price, volume)
           IN /\ f.at = "chain" /\ f.level = level /\ f.order = order /\ f.volume = volume
              /\ CalmFrame(f) /\ Depth(f) = 6
BY DEF ChainFrame, CalmFrame, CalmLabels, Depth, MatchLabels

LEMMA FilledIsCalm ==
    FilledFrame.at = "filled" /\ CalmFrame(FilledFrame) /\ Depth(FilledFrame) = 5
BY DEF FilledFrame, CalmFrame, CalmLabels, Depth, MatchLabels

LEMMA FinishIsCalm ==
    FinishFrame.at = "finish" /\ CalmFrame(FinishFrame) /\ Depth(FinishFrame) = 4
BY DEF FinishFrame, CalmFrame, CalmLabels, Depth, MatchLabels

\* The frames of the calls that have no conditions on the taker.
LEMMA OuterFrames ==
    /\ \A order : LET f == ActivateFrame(order)
                  IN f.at = "activate" /\ CalmFrame(f) /\ Depth(f) = 3
    /\ \A side : LET f == RecalculateFrame(side)
                 IN f.at = "recalculate" /\ CalmFrame(f) /\ Depth(f) = 2
    /\ \A c, previous, current, order :
          LET f == WalkFrame(c, previous, current, order)
          IN f.at = "walk" /\ CalmFrame(f) /\ Depth(f) = 2
    /\ \A o : LET f == AddFrame(o) IN f.at = "add" /\ CalmFrame(f) /\ Depth(f) = 0
    /\ \A resets : LET f == MatchFrame(FALSE, resets)
                   IN f.at = "match" /\ CalmFrame(f) /\ Depth(f) = 1
<1>1. \A order : LET f == ActivateFrame(order)
                 IN f.at = "activate" /\ CalmFrame(f) /\ Depth(f) = 3
  BY DEF ActivateFrame, CalmFrame, CalmLabels, Depth, MatchLabels
<1>2. \A side : LET f == RecalculateFrame(side)
                IN f.at = "recalculate" /\ CalmFrame(f) /\ Depth(f) = 2
  BY DEF RecalculateFrame, CalmFrame, CalmLabels, Depth, MatchLabels
<1>3. \A c, previous, current, order :
          LET f == WalkFrame(c, previous, current, order)
          IN f.at = "walk" /\ CalmFrame(f) /\ Depth(f) = 2
  BY DEF WalkFrame, CalmFrame, CalmLabels, Depth, MatchLabels
<1>4. \A o : LET f == AddFrame(o) IN f.at = "add" /\ CalmFrame(f) /\ Depth(f) = 0
  BY DEF AddFrame, CalmFrame, CalmLabels, Depth, MatchLabels
<1>5. \A resets : LET f == MatchFrame(FALSE, resets)
                  IN f.at = "match" /\ CalmFrame(f) /\ Depth(f) = 1
  BY DEF MatchFrame, CalmFrame, CalmLabels, Depth, MatchLabels
<1> QED
  BY <1>1, <1>2, <1>3, <1>4, <1>5, Zenon

LEMMA NoRole ==
    ASSUME NEW f, f.at \notin {"match_order", "take", "chain", "filled"}
    PROVE  \A t : Role(f, t)
BY DEF Role

-----------------------------------------------------------------------------
(* What keeps matching calm *)

LEMMA CalmBookShrinks ==
    ASSUME NEW b, NEW b2, CalmBook(b), Shrinks(b, b2)
    PROVE  CalmBook(b2)
<1>1. BestBidIsLess(b2)
  BY ShrinksUncrossed DEF CalmBook
<1>2. ASSUME NEW id \in DOMAIN b2.orders PROVE ~IsAON(b2.orders[id])
  BY DEF CalmBook, Shrinks, SameKind, IsAON
<1> QED
  BY <1>1, <1>2 DEF CalmBook

LEMMA UnchangedCalm ==
    ASSUME Calm, UNCHANGED <<book, enabled, taker, calls>>
    PROVE  Calm'
BY DEF Calm, Call

LEMMA UseCalm ==
    ASSUME Calm, UseAfterRelease
    PROVE  Calm'
BY UnchangedCalm DEF UseAfterRelease

\* The innermost call goes on as one other, or returns.
LEMMA OneCalm ==
    ASSUME IInv, Calm, calls # << >>, NEW f \in Frame, Continue(<<f>>), CalmFrame(f),
           Role(f, taker'), Depth(Call) <= Depth(f),
           SameRole(taker'), enabled' = enabled, CalmBook(book'), CalmTaker(taker'),
           Top(f, taker', book')
    PROVE  Calm'
<1> DEFINE s == <<f>>
<1>1. OnTop(s, taker')
  BY OnTopOne
<1>2. s # << >> /\ s[Len(s)] = f /\ Continue(s)
  OBVIOUS
<1> HIDE DEF s
<1> QED
  BY <1>1, <1>2, ContinueCalm

LEMMA ReturnCalm ==
    ASSUME IInv, Calm, calls # << >>, Continue(<< >>),
           SameRole(taker'), enabled' = enabled, CalmBook(book'), CalmTaker(taker'),
           Depth(Call) = 5 => Unmatched(taker', book')
    PROVE  Calm'
<1> DEFINE s == << >>
<1>1. OnTop(s, taker') /\ s = << >> /\ Continue(s)
  BY OnTopNone
<1> HIDE DEF s
<1> QED
  BY <1>1, ContinueCalm

LEMMA GotoCalm ==
    ASSUME IInv, Calm, calls # << >>, NEW frames, Goto(frames), OnTop(frames, taker),
           frames # << >> => Top(frames[Len(frames)], taker, book),
           frames = << >> /\ Depth(Call) = 5 => Unmatched(taker, book)
    PROVE  Calm'
<1>1. /\ book' = book /\ enabled' = enabled /\ taker' = taker /\ Continue(frames)
      /\ SameRole(taker) /\ CalmBook(book) /\ CalmTaker(taker)
  BY DEF Goto, SameRole, Calm
<1> QED
  BY <1>1, ContinueCalm

\* The same for the calls without conditions.
LEMMA GotoOuterCalm ==
    ASSUME IInv, Calm, calls # << >>, NEW f \in Frame, Goto(<<f>>), CalmFrame(f),
           Depth(Call) <= Depth(f),
           f.at \notin {"finish", "match_order", "take", "chain", "filled"}
    PROVE  Calm'
<1>1. /\ book' = book /\ enabled' = enabled /\ taker' = taker /\ Continue(<<f>>)
      /\ SameRole(taker) /\ CalmBook(book) /\ CalmTaker(taker)
  BY DEF Goto, SameRole, Calm
<1>2. Role(f, taker) /\ Top(f, taker, book)
  BY NoRole, NoTop
<1> QED
  BY <1>1, <1>2, OneCalm

LEMMA ReturnGotoCalm ==
    ASSUME IInv, Calm, calls # << >>, Goto(<< >>), Depth(Call) = 5 => Unmatched(taker, book)
    PROVE  Calm'
<1>1. /\ book' = book /\ enabled' = enabled /\ taker' = taker /\ Continue(<< >>)
      /\ SameRole(taker) /\ CalmBook(book) /\ CalmTaker(taker)
  BY DEF Goto, SameRole, Calm
<1> QED
  BY <1>1, ReturnCalm

\* A resting order is executed and reduced: no nested call of Match.
LEMMA ExecuteRestingCalm ==
    ASSUME VolumeFits, IInv, Calm, calls # << >>, NEW id \in DOMAIN book.orders,
           NEW price, NEW quantity \in Nat, NEW f \in Frame,
           ExecuteResting(id, price, quantity, <<f>>),
           CalmFrame(f), Role(f, taker), Depth(Call) <= Depth(f),
           Top(f, taker, ReduceOrder(book, Executed(book.orders[id], quantity)))
    PROVE  Calm'
<1> DEFINE o == book.orders[id]
           b == ReduceOrder(book, Executed(o, quantity))
<1>1. Valid(book) /\ CalmBook(book) /\ CalmTaker(taker) /\ enabled
  BY DEF IInv, Calm
<1>2. Valid(b) /\ Shrinks(book, b)
  <2>1. Executed(o, quantity) \in Lessened(o, quantity)
    BY DEF Lessened
  <2> QED
    BY <1>1, <2>1, ReduceShrinksBook
<1>3. CalmBook(b) /\ ~Crossed(b)
  BY <1>1, <1>2, CalmBookShrinks, LessIsNotCrossed DEF CalmBook
<1>4. /\ ReturnInternal(b, o, price, <<f>>)
      /\ enabled' = enabled /\ taker' = taker
  BY DEF ExecuteResting
<1> HIDE DEF b, o
<1>5. book' = b /\ Continue(<<f>>)
  <2>1. <<f>> \o << >> = <<f>>
    OBVIOUS
  <2>2. book' = b /\ Continue(<<f>> \o << >>)
    BY <1>3, <1>4, Zenon DEF ReturnInternal
  <2> QED
    BY <2>1, <2>2
<1>6. SameRole(taker)
  BY DEF SameRole
<1> QED
  BY <1>1, <1>3, <1>4, <1>5, <1>6, OneCalm DEF b, o

-----------------------------------------------------------------------------
(* MatchOrder *)

\* The first order of the best level opposite the taker.
LEMMA FrontOrder ==
    ASSUME NEW b, Valid(b), NEW t, NEW id, AtFront(b, t, id)
    PROVE  LET c == Opposite(t)
           IN /\ id \in DOMAIN b.orders /\ id \in Ids /\ id # NoOrder
              /\ b.orders[id].Level = BestKey(b, c) /\ BestKey(b, c) \in DOMAIN b.levels
              /\ BestKey(b, c) \in LevelKey
              /\ IsLimit(b.orders[id]) /\ CollectionOf(b.orders[id]) = c
              /\ b.orders[id].Price = b.best[c]
              /\ b.orders[id].LeavesQuantity \in 1 .. MaxQuantity
              /\ b.orders[id].Price \in UInt64
<1> DEFINE c == Opposite(t)
           k == BestKey(b, c)
           o == b.orders[id]
<1>1. HasBest(b, c) /\ id = FirstOrder(b, k) /\ c \in {"bids", "asks"} /\ c \in Collections
  BY SidesAreCollections DEF AtFront, Opposite
<1>2. k \in DOMAIN b.levels /\ k = <<c, b.best[c]>>
  BY <1>1, BestKeyType DEF BestKey
<1> HIDE DEF k, c
<1>3. id \in DOMAIN b.orders /\ o.Level = k
  BY <1>1, <1>2, FirstOrderType
<1>4. /\ o \in Pending /\ o \in OrderNode(OrderIds, MaxQuantity) /\ id \in OrderIds
      /\ o.LeavesQuantity \in 1 .. MaxQuantity /\ o.Level = KeyOf(o) /\ k \in LevelKey
  BY <1>3, LinkedIsPending
<1>5. o.Type # "MARKET" /\ o.Price \in UInt64
  BY <1>4 DEF OrderNode
<1> HIDE DEF o
<1>6. KeyOf(o) = <<c, b.best[c]>>
  BY <1>2, <1>3, <1>4 DEF o
<1>7. IsLimit(o)
  BY <1>1, <1>4, <1>5, <1>6, KeyOfPending DEF StopCollections
<1>8. CollectionOf(o) = c /\ o.Price = b.best[c]
  BY <1>6, <1>7 DEF KeyOf
<1>9. id \in Ids /\ id # NoOrder
  BY <1>4 DEF OrderIds, NoOrder
<1> QED
  BY <1>2, <1>3, <1>4, <1>5, <1>7, <1>8, <1>9 DEF o, k, c

\* When the order in front is executed whole, the next one is in front.
LEMMA FrontExecuted ==
    ASSUME VolumeFits, NEW b, Valid(b), NEW t, NEW id, AtFront(b, t, id)
    PROVE  LET c == Opposite(t)
               o == b.orders[id]
               b2 == ReduceOrder(b, Executed(o, o.LeavesQuantity))
               k == BestKey(b, c)
               next == NextOrder(b, id)
           IN /\ next # NoOrder => /\ AtFront(b2, t, next)
                                   /\ HasReached(b, t) => HasReached(b2, t)
                                   /\ LevelAfter(b2, BestKey(b2, c)) = LevelAfter(b, k)
              /\ next = NoOrder /\ LevelAfter(b, k) # NoLevel =>
                    HasBest(b2, c) /\ LevelAfter(b, k) = BestKey(b2, c)
<1> DEFINE c == Opposite(t)
           o == b.orders[id]
           b2 == ReduceOrder(b, Executed(o, o.LeavesQuantity))
           k == BestKey(b, c)
           next == NextOrder(b, id)
<1>1. HasBest(b, c) /\ id = FirstOrder(b, k) /\ c \in Collections
  BY OppositeType DEF AtFront
<1>2. id \in DOMAIN b.orders /\ o.LeavesQuantity \in 1 .. MaxQuantity
      /\ o \in OrderNode(OrderIds, MaxQuantity)
  BY FrontOrder, LinkedIsPending
<1>3. b2 = DeleteOrder(b, id)
  <2> DEFINE p == Executed(o, o.LeavesQuantity)
  <2>1. p \in Lessened(o, o.LeavesQuantity) /\ o.LeavesQuantity \in Nat
    BY <1>2, Numbers DEF Lessened
  <2>2. p.LeavesQuantity = 0
    BY <1>2, <2>1, LessenedOrder
  <2> QED
    BY <1>2, <2>1, <2>2, ReduceShrinksBook
<1>4. /\ next # NoOrder =>
             /\ HasBest(b2, c) /\ b2.best[c] = b.best[c]
             /\ FirstOrder(b2, k) = next
             /\ LevelAfter(b2, k) = LevelAfter(b, k)
      /\ next = NoOrder /\ LevelAfter(b, k) # NoLevel =>
             HasBest(b2, c) /\ LevelAfter(b, k) = BestKey(b2, c)
  BY <1>1, <1>3, FrontLeaves
<1>5. next # NoOrder => BestKey(b2, c) = k
  BY <1>4 DEF BestKey
<1> HIDE DEF next, k, b2
<1>6. next # NoOrder => AtFront(b2, t, next) /\ (HasReached(b, t) => HasReached(b2, t))
  BY <1>4, <1>5 DEF AtFront, HasReached, c
<1> HIDE DEF c
<1>7. next # NoOrder => LevelAfter(b2, BestKey(b2, c)) = LevelAfter(b, k)
  BY <1>4, <1>5
<1> QED
  BY <1>4, <1>6, <1>7 DEF next, k, b2, c

\* Less than the second of two quantities is taken only if the first one is used up.
LEMMA LesserIsFirst ==
    ASSUME NEW m \in 1 .. MaxQuantity, NEW n \in 1 .. MaxQuantity, Lesser(m, n) < n
    PROVE  Lesser(m, n) = m
<1>1. m \in Int /\ n \in Int
  BY Numbers
<1> QED
  BY <1>1 DEF Lesser

\* The taker meets an order that it reaches.
LEMMA MatchAgainstCalm ==
    ASSUME VolumeFits, IInv, Calm, At("match_order"), ~NeedsChain(taker),
           HasReached(book, taker), NEW id, AtFront(book, taker, id), MatchAgainst(id)
    PROVE  Calm'
<1> DEFINE o == book.orders[id]
           quantity == Lesser(o.LeavesQuantity, taker.LeavesQuantity)
           next == NextOrder(book, id)
           f == TakeFrame(o.Price, quantity, next)
           b == ReduceOrder(book, Executed(o, quantity))
           c == Opposite(taker)
<1>1. calls # << >> /\ Call.at = "match_order" /\ Valid(book)
  BY DEF At, IInv
<1>2. /\ Unlinked(taker) /\ taker.LeavesQuantity \in 1 .. MaxQuantity
  <2>1. Unlinked(taker) /\ taker.LeavesQuantity \in 0 .. MaxQuantity
    BY <1>1, TakerOfCall
  <2>2. taker.LeavesQuantity > 0
    BY <1>1, CallParts, Zenon DEF Serves
  <2> QED
    BY <2>1, <2>2, PositiveType
<1>3. /\ id \in DOMAIN book.orders /\ o.LeavesQuantity \in 1 .. MaxQuantity
      /\ o.Price \in UInt64 /\ o.Price = book.best[c]
  BY <1>1, FrontOrder
<1>4. quantity \in 1 .. MaxQuantity /\ quantity <= taker.LeavesQuantity /\ quantity \in Nat
  BY <1>2, <1>3, LesserType
<1>5. next \in AnyOrder
  BY <1>1, <1>3, NextOrderType
<1>6. ~IsAON(o)
  BY <1>3 DEF Calm, CalmBook
<1>7. ExecuteResting(id, o.Price, quantity, <<f>>)
  BY <1>6 DEF MatchAgainst
<1>8. quantity < taker.LeavesQuantity => quantity = o.LeavesQuantity
  BY <1>2, <1>3, LesserIsFirst
<1>9. next # NoOrder /\ quantity < taker.LeavesQuantity =>
         AtFront(b, taker, next) /\ HasReached(b, taker)
  <2> SUFFICES ASSUME next # NoOrder, quantity < taker.LeavesQuantity
               PROVE  AtFront(b, taker, next) /\ HasReached(b, taker)
    OBVIOUS
  <2>1. b = ReduceOrder(book, Executed(o, o.LeavesQuantity))
    BY <1>8
  <2> HIDE DEF b, quantity
  <2> QED
    BY <1>1, <2>1, FrontExecuted
<1>10. Reaches(taker, o.Price)
  BY <1>3 DEF HasReached
<1>12. /\ f.at = "take" /\ f.price = o.Price /\ f.quantity = quantity /\ f.next = next
       /\ CalmFrame(f) /\ Depth(f) = 5
  <2> HIDE DEF quantity, o, next
  <2> QED
    BY DEF TakeFrame, CalmFrame, CalmLabels, Depth, MatchLabels
<1> HIDE DEF quantity, o
<1>11. f \in Frame /\ Rank(f) = 2
  BY <1>2, <1>3, <1>4, <1>5, TakeFrameType
<1> HIDE DEF f, b, next
<1>13. Role(f, taker)
  BY <1>12 DEF Role
<1>14. Top(f, taker, b)
  BY <1>9, <1>10, <1>12 DEF Top
<1>15. Depth(Call) <= Depth(f)
  BY <1>1, <1>12, DepthOfMatching
<1> QED
  BY <1>1, <1>3, <1>4, <1>7, <1>11, <1>12, <1>13, <1>14, <1>15, ExecuteRestingCalm DEF b, o

\* A frame of the matching of a taker is no deeper than the innermost call.
LEMMA MatchWholeCalm ==
    ASSUME IInv, Calm, At("match_order"), NeedsChain(taker),
           LET c == Opposite(taker) IN HasBest(book, c) /\ MatchWhole(BestKey(book, c))
    PROVE  Calm'
<1> DEFINE c == Opposite(taker)
           level == BestKey(book, c)
           chain == ChainForOrder(book, taker, level)
           f == ChainFrame(level, NoOrder, taker.Price, chain)
           frames == <<FilledFrame, f>>
<1>1. calls # << >> /\ Call.at = "match_order" /\ Valid(book) /\ HasBest(book, c)
  BY DEF At, IInv
<1>2. Rank(Call) = 2 /\ Unlinked(taker) /\ taker.Price \in UInt64
  BY <1>1, TakerOfCall DEF Unlinked, Pending
<1>3. chain \in UInt64
  BY <1>2, ChainForOrderType
<1>4. level \in AnyLevel /\ NoOrder \in AnyOrder
  BY <1>1, OppositeType, BestKeyType, BookInvParts DEF Valid, BookShape, AnyLevel, AnyOrder
<1>5. ReturnFromMatchOrder \/ Goto(frames)
  BY DEF MatchWhole, Goto
<1>6. CASE ReturnFromMatchOrder
  <2>1. Goto(<< >>)
    BY <1>6 DEF ReturnFromMatchOrder, Goto
  <2>2. Unmatched(taker, book)
    BY DEF Unmatched
  <2> QED
    BY <1>1, <2>1, <2>2, ReturnGotoCalm
<1>7. CASE Goto(frames)
  <2>1. /\ f.at = "chain" /\ f.level = level /\ f.order = NoOrder /\ f.volume = chain
        /\ CalmFrame(f) /\ Depth(f) = 6
    <3> HIDE DEF level, chain
    <3> QED
      BY DEF ChainFrame, CalmFrame, CalmLabels, Depth, MatchLabels
  <2> HIDE DEF chain
  <2>2. f \in Frame
    <3> HIDE DEF level
    <3> QED
      BY <1>2, <1>3, <1>4, ChainFrameType
  <2>3. Role(f, taker)
    BY <2>1 DEF Role
  <2>4. Top(f, taker, book)
    BY <1>1, <2>1 DEF Top
  <2> HIDE DEF f
  <2>5. /\ FilledFrame \in Frame /\ CalmFrame(FilledFrame) /\ Depth(FilledFrame) = 5
        /\ Role(FilledFrame, taker)
    BY <1>2, FilledFrameType, FilledIsCalm DEF Role
  <2>6. Depth(Call) = 5
    BY <1>1, DepthOfMatching, Zenon
  <2>7. /\ Depth(Call) <= Depth(FilledFrame) /\ Depth(Call) <= Depth(f)
        /\ Depth(FilledFrame) < Depth(f)
    <3>1. Depth(f) = 6 /\ Depth(FilledFrame) = 5 /\ Depth(Call) = 5
      BY <2>1, <2>5, <2>6, Zenon
    <3> QED
      BY ONLY <3>1
  <2>8. OnTop(frames, taker)
    BY <2>1, <2>2, <2>3, <2>5, <2>7, OnTopTwo
  <2>9. frames # << >> /\ Len(frames) = 2 /\ frames[2] = f
    OBVIOUS
  <2> HIDE DEF frames
  <2> QED
    BY <1>1, <1>7, <2>4, <2>8, <2>9, GotoCalm
<1> QED
  BY <1>5, <1>6, <1>7

LEMMA MatchOrderCalm ==
    ASSUME VolumeFits, IInv, Calm, MatchOrder
    PROVE  Calm'
<1> DEFINE c == Opposite(taker)
<1>1. At("match_order") /\ calls # << >> /\ Valid(book) /\ Call.at = "match_order"
  BY DEF MatchOrder, At, IInv
<1>2. Role(Call, taker) /\ Top(Call, taker, book)
  BY <1>1, CallersBelow
<1>3. \/ UseAfterRelease
      \/ Call.next # NoOrder /\ MatchAgainst(Call.next)
      \/ ~HasBest(book, c) /\ ReturnFromMatchOrder
      \/ HasBest(book, c) /\ ~Reaches(taker, book.best[c]) /\ ReturnFromMatchOrder
      \/ HasBest(book, c) /\ NeedsChain(taker) /\ MatchWhole(BestKey(book, c))
      \/ /\ HasBest(book, c) /\ Reaches(taker, book.best[c]) /\ ~NeedsChain(taker)
         /\ MatchAgainst(FirstOrder(book, BestKey(book, c)))
  BY Zenon DEF MatchOrder
<1>4. CASE Call.next # NoOrder /\ MatchAgainst(Call.next)
  <2>1. AtFront(book, taker, Call.next) /\ HasReached(book, taker) /\ ~NeedsChain(taker)
    BY <1>1, <1>2, <1>4 DEF Top, Role
  <2> QED
    BY <1>1, <1>4, <2>1, MatchAgainstCalm
<1>5. CASE /\ ~HasBest(book, c) \/ ~Reaches(taker, book.best[c])
           /\ ReturnFromMatchOrder
  <2>1. Goto(<< >>)
    BY <1>5 DEF ReturnFromMatchOrder, Goto
  <2>2. Unmatched(taker, book)
    BY <1>5 DEF Unmatched, HasReached
  <2> QED
    BY <1>1, <2>1, <2>2, ReturnGotoCalm
<1>6. CASE HasBest(book, c) /\ NeedsChain(taker) /\ MatchWhole(BestKey(book, c))
  BY <1>1, <1>6, MatchWholeCalm
<1>7. CASE /\ HasBest(book, c) /\ Reaches(taker, book.best[c]) /\ ~NeedsChain(taker)
           /\ MatchAgainst(FirstOrder(book, BestKey(book, c)))
  <2> DEFINE id == FirstOrder(book, BestKey(book, c))
  <2>1. AtFront(book, taker, id) /\ HasReached(book, taker)
    BY <1>7 DEF AtFront, HasReached
  <2>2. MatchAgainst(id) /\ ~NeedsChain(taker)
    BY <1>7
  <2> HIDE DEF id
  <2> QED
    BY <1>1, <2>1, <2>2, MatchAgainstCalm
<1> QED
  BY <1>3, <1>4, <1>5, <1>6, <1>7, UseCalm

\* The taker's half of an execution leaves its kind as it is.
LEMMA TakerKind ==
    ASSUME NEW t, Unlinked(t), NEW quantity \in Nat
    PROVE  LET u == Executed(t, quantity)
           IN /\ SameKind(u, t) /\ NeedsChain(u) = NeedsChain(t) /\ Opposite(u) = Opposite(t)
              /\ IsAON(u) = IsAON(t)
              /\ \A p : Reaches(u, p) = Reaches(t, p)
              /\ \A b : HasReached(b, u) = HasReached(b, t)
              /\ \A b, id : AtFront(b, u, id) = AtFront(b, t, id)
              /\ quantity = t.LeavesQuantity => u.LeavesQuantity = 0
              /\ quantity < t.LeavesQuantity =>
                    u.LeavesQuantity = t.LeavesQuantity - quantity /\ u.LeavesQuantity > 0
<1> DEFINE u == Executed(t, quantity)
<1>1. t.LeavesQuantity \in Nat /\ t.ExecutedQuantity \in Nat
  BY Numbers DEF Unlinked, Pending
<1>2. SameKind(u, t)
  BY DEF Executed, SameKind, Unlinked, Pending
<1>3. u.LeavesQuantity = t.LeavesQuantity - Lesser(quantity, t.LeavesQuantity)
  BY DEF Executed, Unlinked, Pending
<1> HIDE DEF u
<1>4. Opposite(u) = Opposite(t) /\ NeedsChain(u) = NeedsChain(t) /\ IsAON(u) = IsAON(t)
      /\ \A p : Reaches(u, p) = Reaches(t, p)
  BY <1>2 DEF SameKind, Opposite, IsBuy, NeedsChain, IsFOK, IsAON, Reaches
<1>5. /\ \A b : HasReached(b, u) = HasReached(b, t)
      /\ \A b, id : AtFront(b, u, id) = AtFront(b, t, id)
  BY <1>4 DEF HasReached, AtFront
<1>6. /\ quantity = t.LeavesQuantity => u.LeavesQuantity = 0
      /\ quantity < t.LeavesQuantity =>
            u.LeavesQuantity = t.LeavesQuantity - quantity /\ u.LeavesQuantity > 0
  BY <1>1, <1>3 DEF Lesser
<1> QED
  BY <1>2, <1>4, <1>5, <1>6 DEF u

LEMMA TakerIsSome ==
    ASSUME NEW t, Unlinked(t)
    PROVE  t # NoTaker
<1>1. t.Id # NoOrder
  BY CallAssumption DEF Unlinked, Pending, OrderIds, NoOrder
<1> QED
  BY <1>1 DEF NoTaker

LEMMA TakeCalm ==
    ASSUME IInv, Calm, Take
    PROVE  Calm'
<1> DEFINE t == Executed(taker, Call.quantity)
           f == MatchOrderFrame(Call.next)
<1>1. /\ calls # << >> /\ Call.at = "take"
      /\ ExecuteTaker(Call.price, Call.quantity, IF taker.LeavesQuantity = Call.quantity
                       THEN << >> ELSE <<f>>)
  BY DEF Take, At
<1>2. Unlinked(taker) /\ taker.LeavesQuantity \in Nat
  BY <1>1, TakerOfCall, Numbers
<1>3. Call \in TakeFrames /\ Call.quantity <= taker.LeavesQuantity
  BY <1>1, CallParts, FrameParts DEF Serves
<1>4. Call.quantity \in Nat /\ Call.next \in AnyOrder
  BY <1>3, Numbers DEF TakeFrames
<1>5. Role(Call, taker) /\ Top(Call, taker, book)
  BY <1>1, CallersBelow
<1>6. /\ taker' = t /\ book' = book /\ enabled' = enabled
      /\ Continue(IF taker.LeavesQuantity = Call.quantity THEN << >> ELSE <<f>>)
  BY <1>1 DEF ExecuteTaker
<1>7. /\ NeedsChain(t) = NeedsChain(taker) /\ IsAON(t) = IsAON(taker)
      /\ HasReached(book, t) = HasReached(book, taker)
      /\ \A id : AtFront(book, t, id) = AtFront(book, taker, id)
      /\ Call.quantity = taker.LeavesQuantity => t.LeavesQuantity = 0
  BY <1>2, <1>4, TakerKind
<1> HIDE DEF t
<1>8. /\ CalmTaker(taker') /\ CalmBook(book') /\ SameRole(taker')
  BY <1>2, <1>6, <1>7, TakerIsSome DEF Calm, CalmTaker, SameRole
<1>9. CASE taker.LeavesQuantity = Call.quantity
  <2>1. Continue(<< >>)
    BY <1>6, <1>9
  <2>2. Unmatched(taker', book')
    BY <1>6, <1>7, <1>9 DEF Unmatched
  <2> QED
    BY <1>1, <1>6, <1>8, <2>1, <2>2, ReturnCalm
<1>10. CASE taker.LeavesQuantity # Call.quantity
  <2>1. Continue(<<f>>)
    BY <1>6, <1>10
  <2>2. Call.quantity < taker.LeavesQuantity
    BY <1>2, <1>3, <1>4, <1>10
  <2>3. f.at = "match_order" /\ f.next = Call.next /\ CalmFrame(f) /\ Depth(f) = 5
    BY MatchOrderIsCalm, Zenon
  <2>4. f \in Frame
    BY <1>4 DEF MatchOrderFrame, MatchOrderFrames, Frame
  <2> HIDE DEF f
  <2>5. Role(f, t)
    BY <1>1, <1>5, <1>7, <2>3 DEF Role
  <2>6. Top(f, t, book)
    BY <1>1, <1>5, <1>7, <2>2, <2>3 DEF Top
  <2>7. Depth(Call) <= Depth(f)
    <3>1. Depth(Call) = 5 /\ Depth(f) = 5
      BY <1>1, <2>3, DepthOfMatching, Zenon
    <3> QED
      BY ONLY <3>1
  <2>8. Role(f, taker') /\ Top(f, taker', book')
    BY <1>6, <2>5, <2>6
  <2> QED
    BY <1>1, <1>6, <1>8, <2>1, <2>3, <2>4, <2>7, <2>8, OneCalm
<1> QED
  BY <1>9, <1>10

LEMMA FilledCalm ==
    ASSUME IInv, Calm, Filled
    PROVE  Calm'
<1> DEFINE t == Executed(taker, taker.LeavesQuantity)
<1>1. /\ calls # << >> /\ Call.at = "filled"
      /\ ExecuteTaker(taker.Price, taker.LeavesQuantity, << >>)
  BY DEF Filled, At
<1>2. Unlinked(taker) /\ taker.LeavesQuantity \in Nat
  BY <1>1, TakerOfCall, Numbers
<1>3. taker' = t /\ book' = book /\ enabled' = enabled /\ Continue(<< >>)
  BY <1>1 DEF ExecuteTaker
<1>4. /\ NeedsChain(t) = NeedsChain(taker) /\ IsAON(t) = IsAON(taker)
      /\ t.LeavesQuantity = 0
  BY <1>2, TakerKind
<1> HIDE DEF t
<1>5. CalmTaker(taker') /\ CalmBook(book') /\ SameRole(taker')
  BY <1>2, <1>3, <1>4, TakerIsSome DEF Calm, CalmTaker, SameRole
<1>6. Unmatched(taker', book')
  BY <1>3, <1>4 DEF Unmatched
<1> QED
  BY <1>1, <1>3, <1>5, <1>6, ReturnCalm

\* An order that is not All-Or-None is linked where it does not cross the book.
LEMMA CalmBookAdds ==
    ASSUME NEW b, Valid(b), CalmBook(b), NEW o \in Pending, o.Type # "MARKET", ~IsAON(o),
           IsLimit(o) => ~HasReached(b, o)
    PROVE  CalmBook(AddOrder(b, o))
<1> DEFINE b2 == AddOrder(b, o)
<1>1. BestBidIsLess(b2)
  BY AddUncrossed DEF CalmBook
<1>2. /\ DOMAIN b2.orders = DOMAIN b.orders \cup {o.Id}
      /\ \A id \in DOMAIN b.orders \ {o.Id} : b2.orders[id] = b.orders[id]
      /\ b2.orders[o.Id] = [o EXCEPT !.Level = KeyOf(o)]
  BY AddedLevels
<1> HIDE DEF b2
<1>3. [o EXCEPT !.Level = KeyOf(o)].TimeInForce = o.TimeInForce
  BY DEF Pending
<1>4. ASSUME NEW id \in DOMAIN b2.orders PROVE ~IsAON(b2.orders[id])
  BY <1>2, <1>3 DEF CalmBook, IsAON
<1> QED
  BY <1>1, <1>4 DEF CalmBook, b2

\* What is left of the taker is linked.
LEMMA FinishCalm ==
    ASSUME IInv, Calm, Finish
    PROVE  Calm'
<1> DEFINE rests == taker.LeavesQuantity > 0 /\ Resting(taker)
           duplicate == rests /\ taker.Id \in DOMAIN book.orders
<1>1. /\ calls # << >> /\ Call.at = "finish"
      /\ book' = IF rests /\ ~duplicate THEN AddOrder(book, taker) ELSE book
      /\ calls' = IF duplicate THEN << >> ELSE Callers
      /\ taker' = NoTaker /\ enabled' = enabled
  BY DEF Finish, At
<1>2. Unlinked(taker) /\ Valid(book) /\ CalmBook(book) /\ enabled
  BY <1>1, TakerOfCall DEF IInv, Calm
<1>3. Unmatched(taker, book) /\ ~IsAON(taker)
  <2>1. Top(Call, taker, book)
    BY <1>1, CallersBelow
  <2> QED
    BY <1>1, <1>2, <2>1, TakerIsSome DEF Top, Calm, CalmTaker
<1>4. CalmBook(book')
  <2>1. CASE rests /\ ~duplicate
    <3>1. taker \in Pending /\ taker.Type # "MARKET"
      BY <1>2, <2>1, RestingIsNoMarket DEF Unlinked
    <3>2. IsLimit(taker) => ~HasReached(book, taker)
      BY <1>3, <2>1 DEF Unmatched, IsLimit, Resting, NeedsChain, StopTypes, TrailingTypes
    <3>3. book' = AddOrder(book, taker)
      BY <1>1, <2>1
    <3> QED
      BY <1>2, <1>3, <3>1, <3>2, <3>3, CalmBookAdds
  <2>2. CASE ~(rests /\ ~duplicate)
    BY <1>1, <1>2, <2>2
  <2> QED
    BY <2>1, <2>2
<1>5. CalmTaker(taker')
  BY <1>1 DEF CalmTaker
<1> HIDE DEF duplicate
<1>6. CASE duplicate
  <2>1. calls' = << >>
    BY <1>1, <1>6
  <2>2. Quiet(<< >>, taker')
    BY OnTopNone DEF OnTop
  <2> QED
    BY <1>1, <1>2, <1>4, <1>5, <2>1, <2>2 DEF Calm
<1>7. CASE ~duplicate
  <2>1. Callers \o << >> = Callers
    BY <1>1, CallersBelow, ConcatEmptySeq
  <2>2. Continue(<< >>)
    BY <1>1, <1>7, <2>1 DEF Continue
  <2>3. Depth(Call) = 4 /\ Depth(Call) <= 4
    BY <1>1, DepthOfMatching
  <2>4. Depth(Call) # 5
    BY ONLY <2>3
  <2>5. SameRole(taker')
    BY <2>3 DEF SameRole
  <2> QED
    BY <1>1, <1>4, <1>5, <2>2, <2>4, <2>5, ReturnCalm
<1> QED
  BY <1>6, <1>7

-----------------------------------------------------------------------------
(* ExecuteMatchingChain *)

\* What an order of a chain takes of its volume.
LEMMA ChainVolume ==
    ASSUME NEW leaves \in 1 .. MaxQuantity, NEW volume \in UInt64, volume > 0
    PROVE  LET quantity == Lesser(leaves, volume)
               rest == Wrap(volume - quantity)
           IN /\ quantity \in Nat /\ rest \in UInt64
              /\ rest > 0 => quantity = leaves
<1>1. leaves \in Int /\ volume \in Int /\ 0 < leaves /\ 0 <= leaves /\ 0 <= volume
      /\ UInt64Size \in Nat /\ volume < UInt64Size
  BY Numbers DEF UInt64
<1> QED
  BY <1>1 DEF Lesser, Wrap, UInt64

LEMMA ChainStepCalm ==
    ASSUME VolumeFits, IInv, Calm, At("chain"), NEW nextLevel \in AnyLevel, NEW id,
           AtFront(book, taker, id), Call.volume > 0,
           nextLevel = LevelAfter(book, BestKey(book, Opposite(taker))),
           ChainStep(nextLevel, id)
    PROVE  Calm'
<1> DEFINE o == book.orders[id]
           c == Opposite(taker)
           quantity == Lesser(o.LeavesQuantity, Call.volume)
           volume == Wrap(Call.volume - quantity)
           next == IF volume > 0 THEN NextOrder(book, id) ELSE NoOrder
           f == ChainFrame(nextLevel, next, Call.price, volume)
           b == ReduceOrder(book, Executed(o, quantity))
<1>1. calls # << >> /\ Call \in ChainFrames /\ Valid(book) /\ Call.at = "chain"
  BY CallParts, FrameParts DEF At
<1>2. Call.price \in UInt64 /\ Call.volume \in UInt64
  BY <1>1 DEF ChainFrames
<1>3. /\ id \in DOMAIN book.orders /\ o.LeavesQuantity \in 1 .. MaxQuantity
  BY <1>1, FrontOrder
<1>4. ~IsAON(o)
  BY <1>3 DEF Calm, CalmBook
<1>5. quantity \in Nat /\ volume \in UInt64 /\ (volume > 0 => quantity = o.LeavesQuantity)
  BY <1>2, <1>3, ChainVolume
<1>6. ExecuteResting(id, Call.price, quantity, <<f>>)
  BY <1>4 DEF ChainStep
<1>7. next \in AnyOrder
  BY <1>1, <1>3, NextOrderType DEF AnyOrder
<1>8. volume > 0 => b = ReduceOrder(book, Executed(o, o.LeavesQuantity))
  BY <1>5
<1>9. volume > 0 /\ next # NoOrder =>
         AtFront(b, taker, next) /\ nextLevel = LevelAfter(b, BestKey(b, c))
  <2> SUFFICES ASSUME volume > 0, next # NoOrder
               PROVE  AtFront(b, taker, next) /\ nextLevel = LevelAfter(b, BestKey(b, c))
    OBVIOUS
  <2>1. next = NextOrder(book, id) /\ b = ReduceOrder(book, Executed(o, o.LeavesQuantity))
    BY <1>8
  <2> HIDE DEF b, quantity, volume, next
  <2> QED
    BY <1>1, <2>1, FrontExecuted
<1>10. volume > 0 /\ next = NoOrder /\ nextLevel # NoLevel =>
         HasBest(b, c) /\ nextLevel = BestKey(b, c)
  <2> SUFFICES ASSUME volume > 0, next = NoOrder, nextLevel # NoLevel
               PROVE  HasBest(b, c) /\ nextLevel = BestKey(b, c)
    OBVIOUS
  <2>1. next = NextOrder(book, id) /\ b = ReduceOrder(book, Executed(o, o.LeavesQuantity))
    BY <1>8
  <2> HIDE DEF b, quantity, volume, next
  <2> QED
    BY <1>1, <2>1, FrontExecuted
<1>11. next # NoOrder => volume > 0
  OBVIOUS
<1>12. /\ f.at = "chain" /\ f.level = nextLevel /\ f.order = next /\ f.volume = volume
       /\ CalmFrame(f) /\ Depth(f) = 6
  <2> HIDE DEF next, volume
  <2> QED
    BY DEF ChainFrame, CalmFrame, CalmLabels, Depth, MatchLabels
<1> HIDE DEF volume, next
<1>13. f \in Frame
  BY <1>2, <1>5, <1>7, ChainFrameType
<1> HIDE DEF f
<1>14. Role(f, taker)
  <2>1. NeedsChain(taker)
    BY <1>1, CallersBelow DEF Role
  <2> QED
    BY <1>12, <2>1 DEF Role
<1> HIDE DEF b
<1>15. Top(f, taker, b)
  BY <1>9, <1>10, <1>11, <1>12 DEF Top
<1>16. Depth(Call) <= Depth(f)
  <2>1. Depth(Call) = 6 /\ Depth(f) = 6
    BY <1>1, <1>12, DepthOfMatching, Zenon
  <2> QED
    BY ONLY <2>1
<1> HIDE DEF quantity
<1> QED
  BY <1>1, <1>3, <1>5, <1>6, <1>12, <1>13, <1>14, <1>15, <1>16, ExecuteRestingCalm DEF b, o

LEMMA ChainCalm ==
    ASSUME VolumeFits, IInv, Calm, ExecuteMatchingChain
    PROVE  Calm'
<1>1. At("chain") /\ calls # << >> /\ Call \in ChainFrames /\ Valid(book) /\ Call.at = "chain"
  BY CallParts, FrameParts DEF ExecuteMatchingChain, At
<1>2. \/ UseAfterRelease
      \/ Call.order # NoOrder /\ ChainStep(Call.level, Call.order)
      \/ ReturnFromMatchOrder
      \/ /\ Call.order = NoOrder /\ Call.volume # 0 /\ Call.level # NoLevel
         /\ Call.level \in DOMAIN book.levels
         /\ ChainStep(LevelAfter(book, Call.level), FirstOrder(book, Call.level))
  BY Zenon DEF ExecuteMatchingChain
<1>3. Top(Call, taker, book) /\ Call.volume \in UInt64 /\ Call.level \in AnyLevel
  BY <1>1, CallersBelow DEF ChainFrames
<1>4. CASE Call.order # NoOrder /\ ChainStep(Call.level, Call.order)
  <2>1. /\ AtFront(book, taker, Call.order) /\ Call.volume > 0
        /\ Call.level = LevelAfter(book, BestKey(book, Opposite(taker)))
    BY <1>1, <1>3, <1>4 DEF Top
  <2> QED
    BY <1>1, <1>3, <1>4, <2>1, ChainStepCalm
<1>5. CASE ReturnFromMatchOrder
  <2>1. Goto(<< >>)
    BY <1>5 DEF ReturnFromMatchOrder, Goto
  <2>2. Depth(Call) # 5
    <3>1. Depth(Call) = 6
      BY <1>1, DepthOfMatching, Zenon
    <3> QED
      BY ONLY <3>1
  <2> QED
    BY <1>1, <2>1, <2>2, ReturnGotoCalm
<1>6. CASE /\ Call.order = NoOrder /\ Call.volume # 0 /\ Call.level # NoLevel
           /\ Call.level \in DOMAIN book.levels
           /\ ChainStep(LevelAfter(book, Call.level), FirstOrder(book, Call.level))
  <2> DEFINE nextLevel == LevelAfter(book, Call.level)
             id == FirstOrder(book, Call.level)
  <2>1. Call.volume > 0
    <3>1. Call.volume \in Nat /\ Call.volume # 0
      BY <1>3, <1>6, Numbers, Zenon
    <3> QED
      BY ONLY <3>1
  <2>2. HasBest(book, Opposite(taker)) /\ Call.level = BestKey(book, Opposite(taker))
    BY <1>1, <1>3, <1>6, <2>1 DEF Top
  <2>3. AtFront(book, taker, id) /\ nextLevel = LevelAfter(book, BestKey(book, Opposite(taker)))
    BY <2>2 DEF AtFront
  <2>4. Call.level \in LevelKey
    BY <1>1, <1>6, BookInvParts DEF Valid, BookShape
  <2>5. nextLevel \in AnyLevel
    BY <1>1, <2>4, LevelAfterType
  <2>6. ChainStep(nextLevel, id)
    BY <1>6
  <2> HIDE DEF nextLevel, id
  <2> QED
    BY <1>1, <2>1, <2>3, <2>5, <2>6, ChainStepCalm
<1> QED
  BY <1>2, <1>4, <1>5, <1>6, UseCalm

-----------------------------------------------------------------------------
(* Match and stop orders *)

\* Match is not internal.
LEMMA MatchIsCalm ==
    ASSUME IInv, Calm, calls # << >>, Call.at \in MatchLabels
    PROVE  ~Call.internal /\ Depth(Call) = 1 /\ Call \in MatchFrames
<1>1. Call \in MatchFrames /\ CalmFrame(Call)
  BY MatchFields, CallersBelow
<1>2. ~Call.internal
  BY <1>1 DEF CalmFrame, MatchFrames
<1> QED
  BY <1>1, <1>2, DepthOfLabel

\* The frame of Match in another stage.
Stage(f, label, activated, again) ==
    [f EXCEPT !.at = label, !.activated = activated, !.again = again]

\* It goes on in stages that are calm.
LEMMA StageIsCalm ==
    ASSUME IInv, Calm, calls # << >>, Call.at \in MatchLabels,
           NEW label \in {"match", "buy_stops", "sell_stops", "round"},
           NEW activated \in BOOLEAN, NEW again \in BOOLEAN
    PROVE  LET g == Stage(Call, label, activated, again)
           IN g \in Frame /\ g.at = label /\ CalmFrame(g) /\ Depth(g) = 1 /\ g.again = again
<1> DEFINE g == Stage(Call, label, activated, again)
<1>1. ~Call.internal /\ Depth(Call) = 1 /\ Call \in MatchFrames
  BY MatchIsCalm
<1>2. label \in MatchLabels
  BY DEF MatchLabels
<1>3. g.at = label /\ g.internal = FALSE /\ g.again = again
  BY <1>1 DEF MatchFrames, Stage
<1>0. g = [Call EXCEPT !.at = label, !.activated = activated, !.again = again]
  BY DEF Stage
<1> HIDE DEF g
<1>4. g \in Frame
  BY <1>0, <1>1, <1>2, StageOfCall
<1>5. CalmFrame(g)
  BY <1>3 DEF CalmFrame, CalmLabels
<1>6. Depth(g) = 1
  BY <1>2, <1>3, DepthOfLabel
<1> QED
  BY <1>3, <1>4, <1>5, <1>6 DEF g

\* Match goes on in another stage.
LEMMA StageCalm ==
    ASSUME IInv, Calm, calls # << >>, Call.at \in MatchLabels,
           NEW label \in {"match", "buy_stops", "sell_stops", "round"},
           NEW activated \in BOOLEAN, NEW again \in BOOLEAN,
           Goto(<<Stage(Call, label, activated, again)>>)
    PROVE  Calm'
<1> DEFINE g == Stage(Call, label, activated, again)
<1>1. g \in Frame /\ g.at = label /\ CalmFrame(g) /\ Depth(g) = 1
  BY StageIsCalm
<1>2. Goto(<<g>>)
  OBVIOUS
<1> HIDE DEF g
<1>3. Depth(Call) <= Depth(g)
  BY <1>1, MatchIsCalm
<1>4. g.at \notin {"finish", "match_order", "take", "chain", "filled"}
  BY <1>1
<1> QED
  BY <1>1, <1>2, <1>3, <1>4, GotoOuterCalm

\* A book that is not crossed has no pairs to execute.
LEMMA MatchCalm ==
    ASSUME IInv, Calm, Match
    PROVE  Calm'
<1>1. calls # << >> /\ Call.at = "match" /\ Call.at \in MatchLabels
  BY DEF Match, At, MatchLabels
<1>2. ~Crossed(book)
  BY LessIsNotCrossed DEF IInv, Calm, CalmBook
<1>3. ~Call.internal
  BY <1>1, MatchIsCalm
<1>4. Goto(<<Stage(Call, "buy_stops", FALSE, FALSE)>>)
  BY <1>2, <1>3 DEF Match, Stage
<1> QED
  BY <1>1, <1>4, StageCalm

LEMMA ReturnFromMatchCalm ==
    ASSUME IInv, Calm, calls # << >>, Call.at \in MatchLabels, ReturnFromMatch(Call, Callers)
    PROVE  Calm'
<1>1. calls' = Callers /\ book' = book /\ enabled' = enabled /\ taker' = taker
  BY DEF ReturnFromMatch
<1>2. Callers \o << >> = Callers
  BY CallersBelow, ConcatEmptySeq
<1>3. Continue(<< >>)
  BY <1>1, <1>2 DEF Continue
<1>4. Depth(Call) = 1
  BY MatchIsCalm
<1>5. Depth(Call) # 5 /\ CalmBook(book') /\ CalmTaker(taker') /\ SameRole(taker')
  BY <1>1, <1>4 DEF Calm, SameRole
<1> QED
  BY <1>1, <1>3, <1>5, ReturnCalm

LEMMA RoundCalm ==
    ASSUME IInv, Calm, Round
    PROVE  Calm'
<1>1. calls # << >> /\ Call.at = "round" /\ Call.at \in MatchLabels
  BY DEF Round, At, MatchLabels
<1>2. \/ Goto(<<[Call EXCEPT !.at = "buy_stops", !.activated = TRUE, !.again = FALSE]>>)
      \/ Goto(<<[Call EXCEPT !.at = "match"]>>)
      \/ ReturnFromMatch(Call, Callers)
  BY Zenon DEF Round
<1>3. CASE Goto(<<[Call EXCEPT !.at = "buy_stops", !.activated = TRUE, !.again = FALSE]>>)
  <2>1. Goto(<<Stage(Call, "buy_stops", TRUE, FALSE)>>)
    BY <1>3 DEF Stage
  <2> QED
    BY <1>1, <2>1, StageCalm
<1>4. CASE Goto(<<[Call EXCEPT !.at = "match"]>>)
  <2>1. Call.activated \in BOOLEAN /\ Call.again \in BOOLEAN
        /\ [Call EXCEPT !.at = "match"] = Stage(Call, "match", Call.activated, Call.again)
    BY <1>1, MatchFields, StageFields DEF Stage
  <2>2. Goto(<<Stage(Call, "match", Call.activated, Call.again)>>)
    BY <1>4, <2>1
  <2> QED
    BY <1>1, <2>1, <2>2, StageCalm
<1> QED
  BY <1>1, <1>2, <1>3, <1>4, ReturnFromMatchCalm

\* A stage of Match, the trailing stop orders to follow, and orders to activate first.
LEMMA ActivationCalm ==
    ASSUME IInv, Calm, calls # << >>, Call.at \in MatchLabels,
           NEW g \in Frame, CalmFrame(g), Depth(g) = 1, g.at \in MatchLabels,
           NEW side \in {"bid", "ask"}, NEW activation,
           \/ activation = << >>
           \/ \E order \in AnyOrder : activation = <<ActivateFrame(order)>>,
           Goto(<<g, RecalculateFrame(side)>> \o activation)
    PROVE  Calm'
<1> DEFINE f == RecalculateFrame(side)
           s == <<g, f>>
<1>1. f \in Frame /\ f.at = "recalculate" /\ CalmFrame(f) /\ Depth(f) = 2
  BY RecalculateFrameType, OuterFrames
<1>2. Depth(Call) = 1
  BY MatchIsCalm
<1> HIDE DEF f
<1>3. Role(g, taker) /\ Role(f, taker)
  BY <1>1 DEF Role, MatchLabels
<1>4. Depth(Call) <= Depth(g) /\ Depth(Call) <= Depth(f) /\ Depth(g) < Depth(f)
  BY <1>1, <1>2
<1>5. OnTop(s, taker) /\ Len(s) = 2 /\ s[1] = g /\ s[2] = f /\ s # << >> /\ s \in Seq(Frame)
  BY <1>1, <1>3, <1>4, OnTopTwo
<1> HIDE DEF s
<1>6. CASE activation = << >>
  <2>1. s \o activation = s
    BY <1>5, <1>6, ConcatEmptySeq
  <2>2. Goto(s)
    BY <2>1 DEF s, f
  <2>3. s[Len(s)] = f
    BY <1>5
  <2>4. Top(f, taker, book)
    BY <1>1, NoTop
  <2> QED
    BY <1>5, <2>2, <2>3, <2>4, GotoCalm
<1>7. CASE \E order \in AnyOrder : activation = <<ActivateFrame(order)>>
  <2>1. PICK order \in AnyOrder : activation = <<ActivateFrame(order)>>
    BY <1>7
  <2> DEFINE h == ActivateFrame(order)
             u == s \o <<h>>
  <2>2. h \in Frame /\ h.at = "activate" /\ CalmFrame(h) /\ Depth(h) = 3
    BY ActivateFrameType, OuterFrames
  <2>3. Goto(u)
    BY <2>1 DEF s, f
  <2> HIDE DEF h
  <2>4. \A i \in 1 .. Len(s) : Depth(s[i]) < Depth(h)
    <3>1. \A i \in 1 .. Len(s) : s[i] = g \/ s[i] = f
      BY <1>5, Indices, Zenon
    <3>2. Depth(g) < Depth(h) /\ Depth(f) < Depth(h)
      BY <1>1, <2>2
    <3> QED
      BY <3>1, <3>2, Zenon
  <2>5. Role(h, taker) /\ Depth(Call) <= Depth(h) /\ Top(h, taker, book)
    BY <1>2, <2>2, NoTop DEF Role
  <2>6. OnTop(u, taker) /\ u # << >> /\ u[Len(u)] = h
    BY <1>5, <2>2, <2>4, <2>5, OnTopMore
  <2> HIDE DEF u
  <2> QED
    BY <2>3, <2>5, <2>6, GotoCalm
<1> QED
  BY <1>6, <1>7

LEMMA StopsCalm ==
    ASSUME IInv, Calm, Stops
    PROVE  Calm'
<1>1. ASSUME NEW label \in {"sell_stops", "round"}, NEW side \in {"bid", "ask"},
             NEW again \in BOOLEAN, NEW c \in StopCollections, NEW d \in StopCollections,
             calls # << >>, Call.at \in {"buy_stops", "sell_stops"},
             Goto(<<[Call EXCEPT !.at = label, !.again = again], RecalculateFrame(side)>>
                  \o ActivationOf(c, d))
      PROVE  Calm'
  <2> DEFINE g == [Call EXCEPT !.at = label, !.again = again]
             activation == ActivationOf(c, d)
  <2>1. Call.at \in MatchLabels /\ label \in MatchLabels /\ Valid(book)
    BY <1>1 DEF MatchLabels, IInv
  <2>2. Call.activated \in BOOLEAN
        /\ g = Stage(Call, label, Call.activated, again)
    BY <1>1, <2>1, MatchFields, StageFields DEF Stage
  <2>3. Goto(<<g, RecalculateFrame(side)>> \o activation)
    BY <1>1
  <2> HIDE DEF g
  <2>4. g \in Frame /\ g.at = label /\ CalmFrame(g) /\ Depth(g) = 1
    BY <1>1, <2>1, <2>2, StageIsCalm
  <2>5. \/ activation = << >>
        \/ \E order \in AnyOrder : activation = <<ActivateFrame(order)>>
    BY <2>1, ActivationOfType
  <2> HIDE DEF activation
  <2> QED
    BY <1>1, <2>1, <2>3, <2>4, <2>5, ActivationCalm
<1> DEFINE buy == ActivationOf("buy_stop", "trailing_buy_stop")
           sell == ActivationOf("sell_stop", "trailing_sell_stop")
<1>2. \/ /\ calls # << >> /\ Call.at = "buy_stops"
         /\ Goto(<<[Call EXCEPT !.at = "sell_stops", !.again = buy # << >>],
                   RecalculateFrame("ask")>> \o buy)
      \/ /\ calls # << >> /\ Call.at = "sell_stops"
         /\ Goto(<<[Call EXCEPT !.at = "round", !.again = Call.again \/ sell # << >>],
                   RecalculateFrame("bid")>> \o sell)
  BY DEF Stops, At
<1>3. StopCollections = {"buy_stop", "sell_stop", "trailing_buy_stop", "trailing_sell_stop"}
  BY DEF StopCollections
<1>4. (buy # << >>) \in BOOLEAN /\ (Call.again \/ sell # << >>) \in BOOLEAN
  OBVIOUS
<1> QED
  BY <1>1, <1>2, <1>3, <1>4

\* An order taken in hand, with the price of a market order.
LEMMA PricedKind ==
    ASSUME NEW b, NEW o \in Pending
    PROVE  LET t == [Priced(b, o) EXCEPT !.Level = NoLevel]
           IN /\ t.Type = o.Type /\ t.Side = o.Side /\ t.TimeInForce = o.TimeInForce
              /\ IsAON(t) = IsAON(o) /\ Opposite(t) = Opposite(o)
<1> DEFINE t == [Priced(b, o) EXCEPT !.Level = NoLevel]
<1>1. t.Type = o.Type /\ t.Side = o.Side /\ t.TimeInForce = o.TimeInForce
  <2>1. CASE IsMarket(o) /\ HasBest(b, Opposite(o))
    BY <2>1 DEF Priced, Pending
  <2>2. CASE ~(IsMarket(o) /\ HasBest(b, Opposite(o)))
    BY <2>2 DEF Priced, Pending
  <2> QED
    BY <2>1, <2>2
<1> HIDE DEF t
<1>2. IsAON(t) = IsAON(o) /\ Opposite(t) = Opposite(o)
  BY <1>1 DEF IsAON, Opposite, IsBuy
<1> QED
  BY <1>1, <1>2 DEF t

\* The calls of a taker that is matched: an outer call, the end of the taker's call and
\* its matching.
LEMMA EntryIsCalm ==
    ASSUME NEW b, NEW o \in Pending, NEW f \in Frame, CalmFrame(f), Depth(f) \in 1 .. 3
    PROVE  LET t == [Priced(b, o) EXCEPT !.Level = NoLevel]
               s == <<f, FinishFrame>> \o Matching(b, o)
           IN /\ s \in Seq(Frame) /\ Quiet(s, t) /\ s # << >>
              /\ \A i \in 1 .. Len(s) : Depth(f) <= Depth(s[i])
              /\ Top(s[Len(s)], t, b)
<1> DEFINE t == [Priced(b, o) EXCEPT !.Level = NoLevel]
           g == MatchOrderFrame(NoOrder)
           u == <<f, FinishFrame>>
           s == u \o Matching(b, o)
<1>1. t.Type = o.Type /\ Opposite(t) = Opposite(o)
  BY PricedKind
<1>2. FinishFrame \in Frame /\ FinishFrame.at = "finish" /\ CalmFrame(FinishFrame)
      /\ Depth(FinishFrame) = 4
  BY FinishIsCalm DEF Frame
<1>3. g \in Frame /\ g.at = "match_order" /\ g.next = NoOrder /\ CalmFrame(g) /\ Depth(g) = 5
  BY MatchOrderIsCalm DEF MatchOrderFrame, MatchOrderFrames, Frame, AnyOrder
<1> HIDE DEF g
<1>4. /\ Depth(f) < Depth(FinishFrame) /\ Depth(f) < Depth(g)
      /\ Depth(FinishFrame) < Depth(g) /\ Depth(f) <= Depth(f)
      /\ Depth(f) <= Depth(FinishFrame) /\ Depth(f) <= Depth(g)
  BY <1>2, <1>3
<1> HIDE DEF t
<1>5. Role(f, t) /\ Role(FinishFrame, t) /\ Role(g, t)
  <2>1. f.at \notin {"match_order", "take", "chain", "filled"}
    BY DepthOfCalm
  <2> QED
    BY <1>2, <1>3, <2>1 DEF Role
<1>6. u \in Seq(Frame) /\ Quiet(u, t) /\ Len(u) = 2 /\ u[1] = f /\ u[2] = FinishFrame
      /\ u # << >>
  BY <1>2, <1>4, <1>5, QuietTwo
<1> HIDE DEF u
<1>7. CASE IsMarket(o) /\ ~HasBest(b, Opposite(o))
  <2>1. Matching(b, o) = << >>
    BY <1>7 DEF Matching
  <2>2. s = u
    BY <1>6, <2>1, ConcatEmptySeq
  <2>3. \A i \in 1 .. Len(u) : Depth(f) <= Depth(u[i])
    BY <1>4, <1>6, Indices
  <2>4. Top(FinishFrame, t, b)
    BY <1>1, <1>2, <1>7 DEF Top, Unmatched, HasReached
  <2>5. u[Len(u)] = FinishFrame
    BY <1>6
  <2> HIDE DEF s
  <2>6. /\ s \in Seq(Frame) /\ Quiet(s, t) /\ s # << >>
        /\ \A i \in 1 .. Len(s) : Depth(f) <= Depth(s[i])
        /\ Top(s[Len(s)], t, b)
    BY <1>6, <2>2, <2>3, <2>4, <2>5, Zenon
  <2> QED
    BY <2>6 DEF s, u, t
<1>8. CASE ~(IsMarket(o) /\ ~HasBest(b, Opposite(o)))
  <2> DEFINE r == <<g>>
  <2>1. Matching(b, o) = r
    BY <1>8 DEF Matching, g
  <2>2. r \in Seq(Frame) /\ Quiet(r, t) /\ Len(r) = 1 /\ r[1] = g
    BY <1>3, <1>5, QuietOne
  <2> HIDE DEF r
  <2>3. Below(u, r)
    <3>1. \A i \in 1 .. Len(u) : u[i] = f \/ u[i] = FinishFrame
      BY <1>6, Indices, Zenon
    <3>2. \A j \in 1 .. Len(r) : r[j] = g
      BY <2>2, Indices, Zenon
    <3> QED
      BY <1>4, <3>1, <3>2, Zenon DEF Below
  <2>4. u \in Seq(Frame) /\ r \in Seq(Frame)
    BY <1>6, <2>2
  <2>5. Quiet(u, t) /\ Quiet(r, t)
    BY <1>6, <2>2
  <2>6. Len(r) # 0 /\ r[Len(r)] = g
    BY <2>2
  <2>7. u \o r \in Seq(Frame) /\ Quiet(u \o r, t) /\ u \o r # << >>
        /\ (u \o r)[Len(u \o r)] = g /\ Len(u \o r) = Len(u) + Len(r)
    BY <2>3, <2>4, <2>5, <2>6, QuietJoin
  <2>8. s = u \o r
    BY <2>1
  <2>9. \A i \in 1 .. Len(s) : s[i] = f \/ s[i] = FinishFrame \/ s[i] = g
    <3>1. Len(s) = 3
      BY <1>6, <2>2, <2>7, <2>8
    <3>4. \A i \in 1 .. Len(u) + Len(r) :
             (u \o r)[i] = IF i <= Len(u) THEN u[i] ELSE r[i - Len(u)]
      BY <2>4, ConcatProperties
    <3>6. Len(u) = 2 /\ Len(r) = 1
      BY <1>6, <2>2, Zenon
    <3> HIDE DEF s
    <3>5. /\ 1 \in 1 .. Len(u) + Len(r) /\ 1 <= Len(u)
          /\ 2 \in 1 .. Len(u) + Len(r) /\ 2 <= Len(u)
          /\ 3 \in 1 .. Len(u) + Len(r) /\ ~(3 <= Len(u)) /\ 3 - Len(u) = 1
      BY ONLY <3>6
    <3>7. (u \o r)[1] = u[1] /\ (u \o r)[2] = u[2] /\ (u \o r)[3] = r[1]
      BY <3>4, <3>5
    <3>2. s[1] = f /\ s[2] = FinishFrame /\ s[3] = g
      BY <1>6, <2>2, <2>8, <3>7, Zenon
    <3>3. \A i \in 1 .. 3 : i = 1 \/ i = 2 \/ i = 3
      OBVIOUS
    <3> QED
      BY <3>1, <3>2, <3>3, Zenon
  <2>10. Top(g, t, b)
    BY <1>3 DEF Top
  <2> HIDE DEF s
  <2>11. \A i \in 1 .. Len(s) : Depth(f) <= Depth(s[i])
    BY <1>4, <2>9, Zenon
  <2>12. /\ s \in Seq(Frame) /\ Quiet(s, t) /\ s # << >>
         /\ \A i \in 1 .. Len(s) : Depth(f) <= Depth(s[i])
         /\ Top(s[Len(s)], t, b)
    BY <2>7, <2>8, <2>10, <2>11, Zenon
  <2> QED
    BY <2>12 DEF s, u, t
<1> QED
  BY <1>7, <1>8

LEMMA ActivatedKind ==
    ASSUME NEW o \in Pending
    PROVE  IsAON(Activated(o)) => IsAON(o)
BY DEF Activated, IsAON, IsFOK, Pending

\* An order is activated, and matched before it is linked.
LEMMA ActivateCalm ==
    ASSUME VolumeFits, IInv, Calm, Activate
    PROVE  Calm'
<1> DEFINE id == Call.order
           b == DeleteOrder(book, id)
           o == Activated(book.orders[id])
           t == [Priced(b, o) EXCEPT !.Level = NoLevel]
           f == ActivateFrame(NextOrder(book, id))
           frames == <<f, FinishFrame>> \o Matching(b, o)
<1>1. calls # << >> /\ Call.at = "activate" /\ Valid(book) /\ Depth(Call) = 3
  BY DepthOfLabel DEF Activate, At, IInv
<1>2. \/ Goto(<< >>)
      \/ UseAfterRelease
      \/ /\ id \in DOMAIN book.orders
         /\ book' = b /\ taker' = t /\ Continue(frames) /\ enabled' = enabled
  BY Zenon DEF Activate, Released
<1>3. Depth(Call) # 5 /\ Depth(Call) <= 4
  BY <1>1
<1>4. CASE /\ id \in DOMAIN book.orders
           /\ book' = b /\ taker' = t /\ Continue(frames) /\ enabled' = enabled
  <2>1. Shrinks(book, b)
    BY <1>1, <1>4, DeleteShrinks
  <2>2. CalmBook(b)
    BY <2>1, CalmBookShrinks DEF Calm
  <2>3. book.orders[id] \in Pending /\ ~IsAON(book.orders[id])
    BY <1>1, <1>4, LinkedIsPending DEF Calm, CalmBook
  <2>4. o \in Pending /\ ~IsAON(o)
    BY <2>3, ActivatedIsPending, ActivatedKind
  <2>5. NextOrder(book, id) \in AnyOrder
    BY <1>1, <1>4, NextOrderType
  <2>6. f \in Frame /\ CalmFrame(f) /\ Depth(f) = 3
    BY <2>5, ActivateFrameType, OuterFrames
  <2> HIDE DEF f, b, o
  <2>7. CalmTaker(t)
    BY <2>4, PricedKind DEF CalmTaker
  <2>8. Depth(f) \in 1 .. 3
    BY <2>6
  <2>9. /\ frames \in Seq(Frame) /\ Quiet(frames, t) /\ frames # << >>
        /\ \A i \in 1 .. Len(frames) : Depth(f) <= Depth(frames[i])
        /\ Top(frames[Len(frames)], t, b)
    BY <2>4, <2>6, <2>8, EntryIsCalm
  <2> HIDE DEF frames, t
  <2>10. OnTop(frames, taker')
    BY <1>1, <1>4, <2>6, <2>9 DEF OnTop
  <2>11. SameRole(taker')
    BY <1>3 DEF SameRole
  <2> QED
    BY <1>1, <1>3, <1>4, <2>2, <2>7, <2>9, <2>10, <2>11, ContinueCalm
<1> QED
  BY <1>1, <1>2, <1>3, <1>4, ReturnGotoCalm, UseCalm

-----------------------------------------------------------------------------
(* Trailing stop orders *)

\* A walk goes on as a walk.
LEMMA WalkIsCalm ==
    ASSUME NEW f, f.at = "walk"
    PROVE  CalmFrame(f) /\ Depth(f) = 2 /\ Role(f, taker') /\ Top(f, taker', book')
BY DepthOfLabel DEF CalmFrame, CalmLabels, Role, Top

LEMMA RecalculateCalm ==
    ASSUME IInv, Calm, Recalculate
    PROVE  Calm'
<1>1. calls # << >> /\ Call.at = "recalculate" /\ Valid(book) /\ Depth(Call) = 2
  BY DepthOfLabel DEF Recalculate, At, IInv
<1> DEFINE c == IF Call.side = "ask" THEN "trailing_buy_stop" ELSE "trailing_sell_stop"
           f == WalkFrom(c, NoLevel, FirstLevel(book, c))
<1>2. \/ Goto(<< >>)
      \/ /\ Continue(<<f>>) \/ Continue(<< >>)
         /\ UNCHANGED <<book, enabled, taker>>
  BY DEF Recalculate
<1>3. Depth(Call) # 5 /\ Depth(Call) <= 4
  BY <1>1
<1>4. CASE /\ Continue(<<f>>) \/ Continue(<< >>)
           /\ UNCHANGED <<book, enabled, taker>>
  <2>1. c \in Collections /\ NoLevel \in AnyLevel
    BY DEF Collections, BidCollections, AskCollections, AnyLevel
  <2>2. f.at = "walk"
    BY DEF WalkFrom, WalkFrame
  <2> HIDE DEF c
  <2>3. f \in Frame
    BY <1>1, <2>1, FirstLevelType, WalkFromType
  <2> HIDE DEF f
  <2>4. CalmFrame(f) /\ Depth(f) = 2 /\ Role(f, taker') /\ Top(f, taker', book')
    BY <2>2, WalkIsCalm
  <2>5. Depth(Call) <= Depth(f)
    BY <1>1, <2>4
  <2>6. SameRole(taker') /\ CalmBook(book') /\ CalmTaker(taker') /\ enabled' = enabled
    BY <1>3, <1>4 DEF SameRole, Calm
  <2> QED
    BY <1>1, <1>3, <1>4, <2>3, <2>4, <2>5, <2>6, OneCalm, ReturnCalm
<1> QED
  BY <1>1, <1>2, <1>3, <1>4, ReturnGotoCalm

LEMMA FollowingKind ==
    ASSUME NEW b, NEW l, NEW o \in Pending
    PROVE  LET p == WithTrailingStop(b, l, o)
           IN /\ p.Type = o.Type /\ IsAON(p) = IsAON(o) /\ p.Side = o.Side
              /\ p.StopPrice # o.StopPrice => o.Type \in TrailingTypes
              /\ o.Type \notin TrailingTypes => p = o
<1> DEFINE p == WithTrailingStop(b, l, o)
           stop == CalculateTrailingStopPrice(b, l, o)
           price == Wrap(stop + Wrap(o.Price - o.StopPrice))
<1>1. \/ o.Type = "TRAILING_STOP" /\ p = [o EXCEPT !.StopPrice = stop]
      \/ /\ o.Type = "TRAILING_STOP_LIMIT"
         /\ p = [o EXCEPT !.StopPrice = stop, !.Price = price]
      \/ o.Type \notin TrailingTypes /\ p = o
  BY DEF WithTrailingStop, TrailingTypes
<1> HIDE DEF p, stop, price
<1>2. p.Type = o.Type /\ p.TimeInForce = o.TimeInForce /\ p.Side = o.Side
  BY <1>1 DEF Pending
<1>3. o.Type \notin TrailingTypes => p = o
  BY <1>1 DEF TrailingTypes
<1> QED
  BY <1>2, <1>3 DEF IsAON, p

\* An order that moves is a stop order.
LEMMA FollowCalm ==
    ASSUME VolumeFits, IInv, Calm, At("walk"), Call.order \in DOMAIN book.orders,
           Follow(Call.order)
    PROVE  Calm'
<1> DEFINE id == Call.order
           old == book.orders[id]
           o == WithTrailingStop(book, last, old)
           moves == o.StopPrice # old.StopPrice
           b == DeleteOrder(book, id)
           f == [Call EXCEPT !.order = NextOrder(book, id),
                             !.recalculated = Call.recalculated \/ moves]
<1>1. calls # << >> /\ Call.at = "walk" /\ Call \in WalkFrames /\ Valid(book) /\ Depth(Call) = 2
  BY CallParts, FrameParts, DepthOfLabel DEF At
<1>2. /\ book' = IF moves THEN AddOrder(b, o) ELSE book
      /\ Continue(<<f>>) /\ UNCHANGED <<enabled, taker>>
  BY DEF Follow
<1>3. NextOrder(book, id) \in AnyOrder
  BY <1>1, NextOrderType
<1>4. f \in Frame /\ f.at = "walk"
  <2>1. moves \in BOOLEAN
    OBVIOUS
  <2> HIDE DEF moves, id
  <2>2. f \in WalkFrames
    BY <1>1, <1>3, <2>1 DEF WalkFrames
  <2>3. f.at = "walk"
    BY <1>1 DEF WalkFrames
  <2> QED
    BY <2>2, <2>3 DEF Frame
<1> HIDE DEF f
<1>5. CalmFrame(f) /\ Depth(f) = 2 /\ Role(f, taker') /\ Top(f, taker', book')
  BY <1>4, WalkIsCalm
<1>6. CalmBook(book')
  <2>1. CASE moves
    <3>1. Valid(b) /\ Shrinks(book, b)
      BY <1>1, DeleteShrinks
    <3>2. CalmBook(b)
      BY <3>1, CalmBookShrinks DEF Calm
    <3>3. old \in Pending /\ ~IsAON(old)
      BY <1>1, LinkedIsPending DEF Calm, CalmBook
    <3>4. last \in MarketPrices /\ Valid(book)
      BY DEF IInv
    <3> HIDE DEF old
    <3>5. o \in Pending
      BY <3>3, <3>4, FollowingIsPending
    <3>6. o.Type \in TrailingTypes /\ IsAON(o) = IsAON(old)
      BY <2>1, <3>3, FollowingKind
    <3> HIDE DEF o
    <3>7. o.Type # "MARKET" /\ ~IsLimit(o)
      BY <3>6 DEF TrailingTypes, IsLimit
    <3>8. book' = AddOrder(b, o)
      BY <1>2, <2>1
    <3> HIDE DEF b
    <3> QED
      BY <3>1, <3>2, <3>3, <3>5, <3>6, <3>7, <3>8, CalmBookAdds
  <2>2. CASE ~moves
    BY <1>2, <2>2 DEF Calm
  <2> QED
    BY <2>1, <2>2
<1>7. Depth(Call) <= Depth(f) /\ Depth(Call) <= 4
  BY <1>1, <1>5
<1>8. SameRole(taker') /\ CalmTaker(taker') /\ enabled' = enabled
  BY <1>2, <1>7 DEF SameRole, Calm
<1> QED
  BY <1>1, <1>2, <1>4, <1>5, <1>6, <1>7, <1>8, OneCalm

\* The next level of a walk.
LEMMA NextLevelType ==
    ASSUME Valid(book), Call \in WalkFrames, Call.current # NoLevel,
           Call.recalculated => Call.previous \in DOMAIN book.levels \cup {NoLevel}
    PROVE  NextLevel \in Frame
<1> DEFINE back == IF Call.previous # NoLevel THEN Call.previous
                   ELSE FirstLevel(book, Call.collection)
           after == LevelAfter(book, Call.current)
<1>1. /\ Call.collection \in Collections
      /\ Call.previous \in AnyLevel /\ Call.current \in AnyLevel
  BY DEF WalkFrames
<1>2. CASE Call.recalculated
  <2>1. back \in DOMAIN book.levels \cup {NoLevel}
    BY <1>1, <1>2, FirstLevelType
  <2>2. NextLevel = WalkFrom(Call.collection, Call.previous, back)
    BY <1>2 DEF NextLevel
  <2> HIDE DEF back
  <2> QED
    BY <1>1, <2>1, <2>2, WalkFromType
<1>3. CASE ~Call.recalculated
  <2>1. Call.current \in LevelKey
    BY <1>1 DEF AnyLevel
  <2>2. after \in DOMAIN book.levels \cup {NoLevel}
    BY <2>1, LevelAfterType
  <2>3. NextLevel = WalkFrom(Call.collection, Call.current, after)
    BY <1>3 DEF NextLevel
  <2> HIDE DEF after
  <2> QED
    BY <1>1, <2>2, <2>3, WalkFromType
<1> QED
  BY <1>2, <1>3

LEMMA WalkCalm ==
    ASSUME VolumeFits, IInv, Calm, Walk
    PROVE  Calm'
<1>1. At("walk") /\ calls # << >> /\ Call \in WalkFrames /\ Valid(book)
      /\ Call.at = "walk" /\ Depth(Call) = 2
  BY CallParts, FrameParts, DepthOfLabel DEF Walk, At, IInv
<1>2. \/ Goto(<< >>)
      \/ UseAfterRelease
      \/ Call.order \in DOMAIN book.orders /\ Follow(Call.order)
      \/ /\ Call.current # NoLevel
         /\ Call.recalculated => Call.previous \in DOMAIN book.levels \cup {NoLevel}
         /\ Goto(<<NextLevel>>)
  BY DEF Walk, Released
<1>3. Depth(Call) # 5
  BY <1>1
<1>4. CASE /\ Call.current # NoLevel
           /\ Call.recalculated => Call.previous \in DOMAIN book.levels \cup {NoLevel}
           /\ Goto(<<NextLevel>>)
  <2>1. NextLevel \in Frame
    BY <1>1, <1>4, NextLevelType
  <2>2. NextLevel.at = "walk"
    BY DEF NextLevel, WalkFrom, WalkFrame
  <2>3. CalmFrame(NextLevel) /\ Depth(NextLevel) = 2
    BY <2>2, WalkIsCalm
  <2>4. Depth(Call) <= Depth(NextLevel)
    BY <1>1, <2>3
  <2>5. NextLevel.at \notin {"finish", "match_order", "take", "chain", "filled"}
    BY <2>2
  <2> QED
    BY <1>1, <1>4, <2>1, <2>3, <2>4, <2>5, GotoOuterCalm
<1> QED
  BY <1>1, <1>2, <1>3, <1>4, ReturnGotoCalm, UseCalm, FollowCalm

-----------------------------------------------------------------------------
(* Calls of the manager *)

\* The end of a call while automatic matching is enabled.
LEMMA EndIsCalm ==
    ASSUME enabled = TRUE
    PROVE  /\ EndOfCall \in Frame /\ EndOfCall.at = "match" /\ CalmFrame(EndOfCall)
           /\ Depth(EndOfCall) = 1
           /\ \A t, b : Role(EndOfCall, t) /\ Top(EndOfCall, t, b)
<1>1. EndOfCall = MatchFrame(FALSE, TRUE)
  BY DEF EndOfCall
<1>2. EndOfCall.at = "match" /\ CalmFrame(EndOfCall) /\ Depth(EndOfCall) = 1
  BY <1>1, OuterFrames, Zenon
<1>3. EndOfCall \in Frame
  BY EndOfCallType
<1> QED
  BY <1>2, <1>3, NoRole, NoTop

\* A new stack of calls.
LEMMA NewCallsCalm ==
    ASSUME enabled, UNCHANGED enabled, CalmBook(book'), CalmTaker(taker'), NEW s,
           calls' = s, Quiet(s, taker'), s # << >> => Top(s[Len(s)], taker', book')
    PROVE  Calm'
BY DEF Calm, Call

LEMMA SubmitCalm ==
    ASSUME enabled = TRUE, NEW b, CalmBook(b), NEW o \in Pending, ~IsAON(o), Submit(b, o)
    PROVE  Calm'
<1> DEFINE t == [Priced(b, o) EXCEPT !.Level = NoLevel]
           s == <<EndOfCall, FinishFrame>> \o Matching(b, o)
<1>1. book' = b /\ taker' = t /\ calls' = s /\ UNCHANGED enabled
  BY DEF Submit
<1>2. EndOfCall \in Frame /\ CalmFrame(EndOfCall) /\ Depth(EndOfCall) \in 1 .. 3
  BY EndIsCalm
<1>3. Quiet(s, t) /\ s # << >> /\ Top(s[Len(s)], t, b)
  BY <1>2, EntryIsCalm
<1>4. CalmTaker(t)
  BY PricedKind DEF CalmTaker
<1> HIDE DEF s, t
<1> QED
  BY <1>1, <1>3, <1>4, NewCallsCalm

LEMMA SettleCalm ==
    ASSUME enabled = TRUE, CalmTaker(taker), NEW b, CalmBook(b), Settle(b)
    PROVE  Calm'
<1> DEFINE s == <<EndOfCall>>
<1>1. book' = b /\ calls' = s /\ UNCHANGED <<enabled, taker>>
  BY DEF Settle
<1>2. Quiet(s, taker) /\ Top(s[Len(s)], taker, b)
  BY EndIsCalm, QuietOne
<1> HIDE DEF s
<1> QED
  BY <1>1, <1>2, NewCallsCalm

\* An order is entered: matched at once, or linked as a stop order.
LEMMA SubmitNewCalm ==
    ASSUME IInv, Calm, enabled = TRUE, NEW o \in Pending, ~IsAON(o), SubmitNew(o)
    PROVE  Calm'
<1> DEFINE new == WithTrailingStop(book, last, o)
           s == <<EndOfCall, FinishFrame>>
<1>1. Valid(book) /\ CalmBook(book) /\ last \in MarketPrices
  BY DEF IInv, Calm
<1>2. new \in Pending
  BY <1>1, FollowingIsPending
<1>3. new.Type = o.Type /\ IsAON(new) = IsAON(o)
  BY FollowingKind
<1>4. \/ Submit(book, o)
      \/ Submit(book, Activated(new))
      \/ /\ o.Type \notin {"MARKET", "LIMIT"}
         /\ taker' = new /\ calls' = s
         /\ UNCHANGED <<book, enabled>>
  BY Zenon DEF SubmitNew
<1> HIDE DEF new
<1>5. Activated(new) \in Pending /\ ~IsAON(Activated(new))
  BY <1>2, <1>3, ActivatedIsPending, ActivatedKind
<1>6. CASE /\ o.Type \notin {"MARKET", "LIMIT"}
           /\ taker' = new /\ calls' = s
           /\ UNCHANGED <<book, enabled>>
  <2>1. /\ EndOfCall \in Frame /\ CalmFrame(EndOfCall) /\ Depth(EndOfCall) = 1
        /\ Role(EndOfCall, new)
    BY EndIsCalm
  <2>2. FinishFrame \in Frame /\ FinishFrame.at = "finish" /\ CalmFrame(FinishFrame)
        /\ Depth(FinishFrame) = 4
    BY FinishIsCalm DEF Frame
  <2>3. Role(FinishFrame, new) /\ Depth(EndOfCall) < Depth(FinishFrame)
    BY <2>1, <2>2 DEF Role
  <2>4. Quiet(s, new) /\ Len(s) = 2 /\ s[2] = FinishFrame
    BY <2>1, <2>2, <2>3, QuietTwo
  <2>5. Top(FinishFrame, new, book)
    BY <1>3, <1>6, <2>2 DEF Top, Unmatched
  <2>6. CalmTaker(new)
    BY <1>3 DEF CalmTaker
  <2> HIDE DEF s
  <2> QED
    BY <1>1, <1>6, <2>4, <2>5, <2>6, NewCallsCalm
<1> QED
  BY <1>1, <1>4, <1>5, <1>6, SubmitCalm

\* The orders the caller enters are not All-Or-None.
LEMMA NewIsCalm ==
    ASSUME NoneIsAON, NEW t \in NewOrders, NEW id \in Ids
    PROVE  MakeOrder(t, id) \in Pending /\ ~IsAON(MakeOrder(t, id))
<1>1. MakeOrder(t, id) \in Pending
  BY NewOrderIsUnlinked DEF Unlinked
<1>2. MakeOrder(t, id).TimeInForce = t.TimeInForce
  BY DEF MakeOrder
<1> QED
  BY <1>1, <1>2 DEF IsAON, NoneIsAON

LEMMA CalmIsEnabled ==
    ASSUME IInv, Calm
    PROVE  enabled = TRUE
BY DEF IInv, Calm

LEMMA AddAfterDeleteCalm ==
    ASSUME NoneIsAON, IInv, Calm, AddAfterDelete
    PROVE  Calm'
<1>1. calls # << >> /\ Call \in AddFrames /\ Depth(Call) = 0
  BY CallParts, FrameParts, DepthOfLabel DEF AddAfterDelete, At
<1>2. PICK t \in NewOrders, id \in Ids : Call = AddFrame(MakeOrder(t, id))
  BY <1>1 DEF AddFrames
<1>3. Call.new = MakeOrder(t, id)
  BY <1>2 DEF AddFrame
<1>4. SubmitNew(Call.new) \/ Goto(<< >>)
  BY DEF AddAfterDelete
<1>5. Depth(Call) # 5
  BY <1>1
<1> QED
  BY <1>1, <1>3, <1>4, <1>5, NewIsCalm, CalmIsEnabled, SubmitNewCalm, ReturnGotoCalm

\* The calls that matching makes only on a crossed book.
LEMMA NoCrossedCalls ==
    ASSUME IInv, Calm
    PROVE  ~(Pair \/ Reducing \/ AskChain \/ PairStops \/ ResetMatchingPrice)
<1> SUFFICES ASSUME Pair \/ Reducing \/ AskChain \/ PairStops \/ ResetMatchingPrice
             PROVE  FALSE
  OBVIOUS
<1>1. calls # << >>
      /\ Call.at \in {"pair", "reducing", "ask_chain", "pair_buy_stops", "pair_sell_stops", "reset"}
  BY DEF Pair, Reducing, AskChain, PairStops, ResetMatchingPrice, At
<1>2. CalmFrame(Call)
  BY <1>1, CallersBelow
<1> QED
  BY <1>1, <1>2 DEF CalmFrame, CalmLabels

LEMMA StepCalm ==
    ASSUME VolumeFits, NoneIsAON, IInv, Calm, Step
    PROVE  Calm'
BY MatchOrderCalm, TakeCalm, FilledCalm, FinishCalm, ChainCalm, MatchCalm, StopsCalm,
   RoundCalm, ActivateCalm, RecalculateCalm, WalkCalm, AddAfterDeleteCalm, NoCrossedCalls
   DEF Step

\* A book without one of its orders, or with less of it.
LEMMA LessIsCalm ==
    ASSUME VolumeFits, IInv, Calm, NEW id \in DOMAIN book.orders
    PROVE  /\ CalmBook(DeleteOrder(book, id))
           /\ \A quantity \in Nat : \A o \in Lessened(book.orders[id], quantity) :
                 CalmBook(ReduceOrder(book, o))
           /\ book.orders[id] \in Pending /\ ~IsAON(book.orders[id])
<1>1. Valid(book) /\ CalmBook(book)
  BY DEF IInv, Calm
<1>2. CalmBook(DeleteOrder(book, id))
  BY <1>1, DeleteShrinks, CalmBookShrinks
<1>3. ASSUME NEW quantity \in Nat, NEW o \in Lessened(book.orders[id], quantity)
      PROVE  CalmBook(ReduceOrder(book, o))
  <2>1. Shrinks(book, ReduceOrder(book, o))
    BY <1>1, ReduceShrinksBook
  <2> QED
    BY <1>1, <2>1, CalmBookShrinks
<1> QED
  BY <1>1, <1>2, <1>3, LinkedIsPending DEF CalmBook

LEMMA ReduceOrderByCalm ==
    ASSUME VolumeFits, IInv, Calm, NEW id \in DOMAIN book.orders,
           NEW quantity \in Quantities, ReduceOrderBy(id, quantity)
    PROVE  Calm'
<1>1. quantity \in Nat
  BY CallAssumption, Numbers
<1>2. Reduced(book.orders[id], quantity) \in Lessened(book.orders[id], quantity)
  BY DEF Lessened
<1>3. CalmBook(ReduceOrder(book, Reduced(book.orders[id], quantity))) /\ CalmTaker(taker)
  BY <1>1, <1>2, LessIsCalm DEF Calm
<1> QED
  BY <1>3, CalmIsEnabled, SettleCalm DEF ReduceOrderBy

LEMMA ModifyOrderCalm ==
    ASSUME VolumeFits, IInv, Calm, NEW id \in DOMAIN book.orders, NEW price \in Prices,
           NEW quantity \in Quantities, NEW mitigate \in BOOLEAN,
           ModifyOrder(id, price, quantity, mitigate)
    PROVE  Calm'
<1> DEFINE o == Modified(book.orders[id], price, quantity, mitigate)
           b == DeleteOrder(book, id)
<1>1. CalmBook(b) /\ CalmTaker(taker) /\ enabled = TRUE
  BY LessIsCalm, CalmIsEnabled DEF Calm
<1>2. o \in Pending
  BY LessIsCalm, ModifiedIsPending
<1>3. o.TimeInForce = book.orders[id].TimeInForce
  BY LessIsCalm DEF Modified, Pending
<1>4. ~IsAON(o)
  BY <1>3, LessIsCalm DEF IsAON
<1>5. Submit(b, o) \/ Settle(b)
  BY DEF ModifyOrder
<1> HIDE DEF o, b
<1> QED
  BY <1>1, <1>2, <1>4, <1>5, SubmitCalm, SettleCalm

LEMMA ReplaceOrderCalm ==
    ASSUME VolumeFits, IInv, Calm, NEW id \in DOMAIN book.orders, NEW newId \in Ids,
           NEW price \in Prices, NEW quantity \in Quantities,
           ReplaceOrder(id, newId, price, quantity)
    PROVE  Calm'
<1> DEFINE o == Replaced(book.orders[id], newId, price, quantity)
           b == DeleteOrder(book, id)
<1>1. CalmBook(b) /\ CalmTaker(taker) /\ enabled = TRUE
  BY LessIsCalm, CalmIsEnabled DEF Calm
<1>2. o \in Pending
  BY LessIsCalm, ReplacedIsPending
<1>3. o.TimeInForce = book.orders[id].TimeInForce
  BY LessIsCalm DEF Replaced, Pending
<1>4. ~IsAON(o)
  BY <1>3, LessIsCalm DEF IsAON
<1>5. Submit(b, o)
  BY DEF ReplaceOrder
<1> HIDE DEF o, b
<1> QED
  BY <1>1, <1>2, <1>4, <1>5, SubmitCalm

LEMMA ReplaceOrderWithCalm ==
    ASSUME VolumeFits, IInv, Calm, NEW id \in DOMAIN book.orders, NEW t \in NewOrders,
           NEW newId \in Ids, ReplaceOrderWith(id, t, newId)
    PROVE  Calm'
<1> DEFINE f == AddFrame(MakeOrder(t, newId))
           s == <<f, EndOfCall>>
<1>1. /\ book' = DeleteOrder(book, id) /\ calls' = s /\ UNCHANGED <<enabled, taker>>
  BY DEF ReplaceOrderWith
<1>2. f \in Frame /\ f.at = "add" /\ CalmFrame(f) /\ Depth(f) = 0
  BY AddFrameType, OuterFrames
<1> HIDE DEF f
<1>3. /\ EndOfCall \in Frame /\ CalmFrame(EndOfCall) /\ Depth(EndOfCall) = 1
      /\ Role(EndOfCall, taker) /\ Top(EndOfCall, taker, book')
  BY CalmIsEnabled, EndIsCalm
<1>4. Role(f, taker) /\ Depth(f) < Depth(EndOfCall)
  BY <1>2, <1>3, NoRole
<1>5. Quiet(s, taker) /\ Len(s) = 2 /\ s[2] = EndOfCall
  BY <1>2, <1>3, <1>4, QuietTwo
<1> HIDE DEF s
<1>6. CalmBook(book') /\ CalmTaker(taker') /\ enabled
  BY <1>1, LessIsCalm DEF Calm
<1> QED
  BY <1>1, <1>3, <1>5, <1>6, NewCallsCalm

LEMMA ExecuteOrderCalm ==
    ASSUME VolumeFits, IInv, Calm, NEW id \in DOMAIN book.orders, NEW price,
           NEW quantity \in Quantities, ExecuteOrder(id, price, quantity)
    PROVE  Calm'
<1> DEFINE o == book.orders[id]
           lots == Lesser(quantity, o.LeavesQuantity)
           s == <<EndOfCall>>
<1>1. /\ book' = ReduceOrder(book, Executed(o, lots)) /\ calls' = s
      /\ UNCHANGED <<enabled, taker>>
  BY DEF ExecuteOrder
<1>2. lots \in Nat
  <2>1. quantity \in 1 .. MaxQuantity
    BY CallAssumption
  <2>2. o.LeavesQuantity \in 1 .. MaxQuantity
    BY LinkedIsPending DEF IInv
  <2> QED
    BY <2>1, <2>2, LesserType
<1> HIDE DEF lots
<1>3. Executed(o, lots) \in Lessened(o, lots)
  BY DEF Lessened
<1>4. CalmBook(book') /\ CalmTaker(taker') /\ enabled
  BY <1>1, <1>2, <1>3, LessIsCalm DEF Calm
<1>5. Quiet(s, taker) /\ Top(s[Len(s)], taker, book')
  BY CalmIsEnabled, EndIsCalm, QuietOne
<1> HIDE DEF s
<1> QED
  BY <1>1, <1>4, <1>5, NewCallsCalm

LEMMA OperationCalm ==
    ASSUME VolumeFits, IInv, Calm, NEW id \in DOMAIN book.orders, Operation(id)
    PROVE  Calm'
<1>1. CASE \E q \in Quantities : ReduceOrderBy(id, q)
  BY <1>1, ReduceOrderByCalm
<1>2. CASE \E p \in Prices, q \in Quantities, mitigate \in BOOLEAN :
              ModifyOrder(id, p, q, mitigate)
  BY <1>2, ModifyOrderCalm
<1>3. CASE \E newId \in Ids, p \in Prices, q \in Quantities : ReplaceOrder(id, newId, p, q)
  BY <1>3, ReplaceOrderCalm
<1>4. CASE \E t \in NewOrders, newId \in Ids : ReplaceOrderWith(id, t, newId)
  BY <1>4, ReplaceOrderWithCalm
<1>5. CASE CancelOrder(id)
  <2>1. CalmBook(DeleteOrder(book, id)) /\ CalmTaker(taker)
    BY LessIsCalm DEF Calm
  <2> QED
    BY <1>5, <2>1, CalmIsEnabled, SettleCalm DEF CancelOrder
<1>6. CASE \E p \in Prices \cup {book.orders[id].Price}, q \in Quantities :
              ExecuteOrder(id, p, q)
  BY <1>6, ExecuteOrderCalm
<1> QED
  BY <1>1, <1>2, <1>3, <1>4, <1>5, <1>6 DEF Operation

LEMMA RequestCalm ==
    ASSUME VolumeFits, Automatic, NoneIsAON, IInv, Calm, Request
    PROVE  Calm'
<1>1. CASE \E t \in NewOrders, id \in Ids : AddNewOrder(t, id)
  <2>1. PICK t \in NewOrders, id \in Ids : SubmitNew(MakeOrder(t, id))
    BY <1>1 DEF AddNewOrder
  <2> QED
    BY <2>1, NewIsCalm, CalmIsEnabled, SubmitNewCalm
<1>2. CASE \E id \in DOMAIN book.orders : Operation(id)
  BY <1>2, OperationCalm
<1> QED
  BY <1>1, <1>2 DEF Request, Automatic

LEMMA InitCalm ==
    ASSUME Automatic, Init
    PROVE  Calm
<1>1. book = EmptyBook /\ taker = NoTaker /\ calls = << >>
      /\ enabled = (Operations \cap {"match", "enable"} = {})
  BY DEF Init
<1>2. enabled
  BY <1>1 DEF Automatic
<1>3. CalmBook(book)
  BY <1>1 DEF CalmBook, BestBidIsLess, PricesIn, EmptyBook
<1>4. Quiet(calls, taker)
  BY <1>1, OnTopNone DEF OnTop
<1> QED
  BY <1>1, <1>2, <1>3, <1>4 DEF Calm, CalmTaker

-----------------------------------------------------------------------------
(* The theorems *)

\* Calm matching is an invariant, with the one of every specification.
THEOREM CalmHolds ==
    ASSUME VolumeFits, Automatic, NoneIsAON
    PROVE  Spec => [](IInv /\ Calm)
<1>1. Init => Calm
  BY InitCalm
<1>2. IInv /\ Calm /\ [Next]_vars => Calm'
  <2>1. ASSUME IInv, Calm, UNCHANGED vars PROVE Calm'
    BY <2>1, UnchangedCalm DEF vars
  <2> QED
    BY <2>1, RequestCalm, StepCalm DEF Next
<1> QED
  BY <1>1, <1>2, InvariantHolds, PTL DEF Spec

\* "The best bid price guarantied less than the best ask price": between any two steps,
\* and so whenever a call has returned.
THEOREM UncrossedHolds ==
    ASSUME VolumeFits, Automatic, NoneIsAON
    PROVE  Spec => []BookIsNotCrossed
<1>1. Calm => BookIsNotCrossed
  BY DEF Calm, CalmBook, BookIsNotCrossed
<1> QED
  BY <1>1, CalmHolds, PTL

-----------------------------------------------------------------------------
(* What trades *)

\* What a step of MatchOrder does: no order it meets was released.
LEMMA MatchOrderCases ==
    ASSUME IInv, Calm, MatchOrder
    PROVE  \/ Goto(<< >>) /\ (NeedsChain(taker) \/ ~HasReached(book, taker))
           \/ /\ NeedsChain(taker) /\ HasReached(book, taker)
              /\ \E f \in Frame : f.at = "chain" /\ Goto(<<FilledFrame, f>>)
           \/ /\ ~NeedsChain(taker) /\ HasReached(book, taker)
              /\ \E id \in DOMAIN book.orders : AtFront(book, taker, id) /\ MatchAgainst(id)
<1> DEFINE c == Opposite(taker)
           k == BestKey(book, c)
<1>1. At("match_order") /\ calls # << >> /\ Valid(book) /\ Call.at = "match_order"
  BY DEF MatchOrder, At, IInv
<1>2. Role(Call, taker) /\ Top(Call, taker, book)
  BY <1>1, CallersBelow
<1>3. \/ Call.next # NoOrder /\ Released(Call.next)
      \/ Call.next # NoOrder /\ MatchAgainst(Call.next)
      \/ (~HasBest(book, c) \/ ~Reaches(taker, book.best[c])) /\ ReturnFromMatchOrder
      \/ /\ HasBest(book, c) /\ Reaches(taker, book.best[c])
         /\ NeedsChain(taker) /\ MatchWhole(k)
      \/ /\ HasBest(book, c) /\ Reaches(taker, book.best[c]) /\ ~NeedsChain(taker)
         /\ MatchAgainst(FirstOrder(book, k))
  BY Zenon DEF MatchOrder
<1>4. Call.next # NoOrder =>
         /\ AtFront(book, taker, Call.next) /\ HasReached(book, taker) /\ ~NeedsChain(taker)
         /\ Call.next \in DOMAIN book.orders
  BY <1>1, <1>2, FrontOrder DEF Top, Role
<1>5. CASE (~HasBest(book, c) \/ ~Reaches(taker, book.best[c])) /\ ReturnFromMatchOrder
  BY <1>5 DEF ReturnFromMatchOrder, Goto, HasReached
<1>6. CASE /\ HasBest(book, c) /\ Reaches(taker, book.best[c])
           /\ NeedsChain(taker) /\ MatchWhole(k)
  <2> DEFINE chain == ChainForOrder(book, taker, k)
             f == ChainFrame(k, NoOrder, taker.Price, chain)
  <2>1. chain \in UInt64 /\ taker.Price \in UInt64
    BY <1>1, TakerOfCall, ChainForOrderType DEF Unlinked, Pending
  <2>2. k \in AnyLevel /\ NoOrder \in AnyOrder
    BY <1>1, <1>6, OppositeType, BestKeyType, BookInvParts
       DEF Valid, BookShape, AnyLevel, AnyOrder
  <2>3. ReturnFromMatchOrder \/ Goto(<<FilledFrame, f>>)
    BY <1>6 DEF MatchWhole, Goto
  <2>4. f.at = "chain"
    BY DEF ChainFrame
  <2> HIDE DEF chain, k
  <2>5. f \in Frame
    BY <2>1, <2>2, ChainFrameType
  <2>6. ReturnFromMatchOrder => Goto(<< >>)
    BY DEF ReturnFromMatchOrder, Goto
  <2>7. HasReached(book, taker)
    BY <1>6 DEF HasReached
  <2> HIDE DEF f
  <2> QED
    BY <1>6, <2>3, <2>4, <2>5, <2>6, <2>7
<1>7. CASE /\ HasBest(book, c) /\ Reaches(taker, book.best[c]) /\ ~NeedsChain(taker)
           /\ MatchAgainst(FirstOrder(book, k))
  <2> DEFINE id == FirstOrder(book, k)
  <2>1. AtFront(book, taker, id) /\ HasReached(book, taker)
    BY <1>7 DEF AtFront, HasReached
  <2>2. MatchAgainst(id) /\ ~NeedsChain(taker)
    BY <1>7
  <2> HIDE DEF id
  <2>3. id \in DOMAIN book.orders
    BY <1>1, <2>1, FrontOrder
  <2> QED
    BY <2>1, <2>2, <2>3
<1> QED
  BY <1>3, <1>4, <1>5, <1>6, <1>7 DEF Released

\* What a step of ExecuteMatchingChain does: no order or level it uses was released.
LEMMA ChainCases ==
    ASSUME IInv, Calm, ExecuteMatchingChain
    PROVE  \/ Goto(<< >>)
           \/ \E id \in DOMAIN book.orders, f \in Frame :
                 /\ AtFront(book, taker, id) /\ f.at = "chain"
                 /\ ExecuteResting(id, Call.price,
                                   Lesser(book.orders[id].LeavesQuantity, Call.volume), <<f>>)
<1>1. At("chain") /\ calls # << >> /\ Call \in ChainFrames /\ Valid(book) /\ Call.at = "chain"
  BY CallParts, FrameParts DEF ExecuteMatchingChain, At
<1>2. \/ Call.order # NoOrder /\ Released(Call.order)
      \/ Call.order # NoOrder /\ ChainStep(Call.level, Call.order)
      \/ ReturnFromMatchOrder
      \/ /\ Call.order = NoOrder /\ Call.volume # 0 /\ Call.level # NoLevel
         /\ \/ Call.level \notin DOMAIN book.levels
            \/ ChainStep(LevelAfter(book, Call.level), FirstOrder(book, Call.level))
  BY Zenon DEF ExecuteMatchingChain
<1>3. /\ Top(Call, taker, book) /\ Call.volume \in UInt64 /\ Call.level \in AnyLevel
      /\ Call.price \in UInt64
  BY <1>1, CallersBelow DEF ChainFrames
<1>4. ASSUME NEW nextLevel \in AnyLevel, NEW id, AtFront(book, taker, id), ChainStep(nextLevel, id)
      PROVE  \E f \in Frame :
                /\ id \in DOMAIN book.orders /\ f.at = "chain"
                /\ ExecuteResting(id, Call.price,
                                  Lesser(book.orders[id].LeavesQuantity, Call.volume), <<f>>)
  <2> DEFINE o == book.orders[id]
             quantity == Lesser(o.LeavesQuantity, Call.volume)
             volume == Wrap(Call.volume - quantity)
             next == IF volume > 0 THEN NextOrder(book, id) ELSE NoOrder
             f == ChainFrame(nextLevel, next, Call.price, volume)
  <2>1. id \in DOMAIN book.orders /\ o.LeavesQuantity \in 1 .. MaxQuantity
    BY <1>1, <1>4, FrontOrder
  <2>2. ~IsAON(o)
    BY <2>1 DEF Calm, CalmBook
  <2>3. volume \in UInt64
    <3>1. 1 .. MaxQuantity \subseteq 0 .. MaxQuantity
      OBVIOUS
    <3>2. quantity \in UInt64
      BY <1>3, <2>1, <3>1, Numbers DEF Lesser
    <3> QED
      BY <1>3, <3>2, WrapType
  <2>4. ExecuteResting(id, Call.price, quantity, <<f>>)
    BY <1>4, <2>2 DEF ChainStep
  <2>5. next \in AnyOrder
    BY <1>1, <2>1, NextOrderType DEF AnyOrder
  <2>6. f.at = "chain"
    BY DEF ChainFrame
  <2> HIDE DEF next, volume
  <2>7. f \in Frame
    BY <1>3, <2>3, <2>5, ChainFrameType
  <2> QED
    BY <2>1, <2>4, <2>6, <2>7
<1>5. Call.order # NoOrder => AtFront(book, taker, Call.order)
  BY <1>1, <1>3 DEF Top
<1>6. Call.order # NoOrder => Call.order \in DOMAIN book.orders
  BY <1>1, <1>5, FrontOrder
<1>7. ASSUME Call.order = NoOrder, Call.volume # 0, Call.level # NoLevel
      PROVE  /\ HasBest(book, Opposite(taker)) /\ Call.level = BestKey(book, Opposite(taker))
             /\ Call.level \in DOMAIN book.levels /\ LevelAfter(book, Call.level) \in AnyLevel
             /\ AtFront(book, taker, FirstOrder(book, Call.level))
  <2>1. Call.volume > 0
    <3>1. Call.volume \in Nat /\ Call.volume # 0
      BY <1>3, <1>7, Numbers, Zenon
    <3> QED
      BY ONLY <3>1
  <2>2. HasBest(book, Opposite(taker)) /\ Call.level = BestKey(book, Opposite(taker))
    BY <1>1, <1>3, <1>7, <2>1 DEF Top
  <2>3. Call.level \in DOMAIN book.levels
    BY <1>1, <2>2, OppositeType, BestKeyType
  <2>4. Call.level \in LevelKey
    BY <1>1, <2>3, BookInvParts DEF Valid, BookShape
  <2> QED
    BY <1>1, <2>2, <2>3, <2>4, LevelAfterType DEF AtFront, AnyLevel
<1>8. ReturnFromMatchOrder => Goto(<< >>)
  BY DEF ReturnFromMatchOrder, Goto
<1> QED
  BY <1>2, <1>3, <1>4, <1>5, <1>6, <1>7, <1>8 DEF Released

\* The order in front is the first of the best level of its side.
LEMMA FrontIsFirst ==
    ASSUME NEW b, Valid(b), NEW t, NEW id, AtFront(b, t, id)
    PROVE  LET o == b.orders[id]
           IN /\ \A p \in PricesIn(b, CollectionOf(o)) : ~Better(CollectionOf(o), p, o.Price)
              /\ Head(b.levels[o.Level].OrderList) = o.Id
<1> DEFINE c == Opposite(t)
           o == b.orders[id]
           list == b.levels[o.Level].OrderList
<1>1. /\ id \in DOMAIN b.orders /\ o.Level = BestKey(b, c) /\ o.Level \in DOMAIN b.levels
      /\ CollectionOf(o) = c /\ o.Price = b.best[c]
  BY FrontOrder
<1>2. id = FirstOrder(b, o.Level)
  BY <1>1 DEF AtFront
<1>3. o.Id = id
  BY <1>1, LinkedIsPending
<1>4. \A p \in PricesIn(b, c) : ~Better(c, p, b.best[c])
  BY OppositeType, BestOfLevels
<1>5. list \in Seq(OrderIds) /\ Len(list) \in Nat \ {0}
  BY <1>1, NextOfFirst
<1>6. list[1] = id
  BY <1>2 DEF FirstOrder
<1> HIDE DEF list
<1>7. Head(list) = list[1]
  BY <1>5
<1> QED
  BY <1>1, <1>3, <1>4, <1>6, <1>7 DEF list

\* Only the order in front and the taker trade.
LEMMA WhatTrades ==
    ASSUME IInv, Calm, Automatic, Next
    PROVE  \/ trade' = NoTrade
           \/ trade'.order = taker /\ Unlinked(taker)
           \/ \E id \in DOMAIN book.orders :
                 AtFront(book, taker, id) /\ trade'.order = book.orders[id]
<1>1. ASSUME Silent \/ UseAfterRelease PROVE trade' = NoTrade
  BY <1>1 DEF Silent, UseAfterRelease
<1>2. ASSUME NEW id, NEW price, NEW quantity, NEW frames,
             ExecuteResting(id, price, quantity, frames)
      PROVE  trade'.order = book.orders[id]
  BY <1>2 DEF ExecuteResting, Report
<1>3. CASE Request
  <2>1. ASSUME NEW o, SubmitNew(o) PROVE trade' = NoTrade
    BY <1>1, <2>1 DEF SubmitNew, Submit
  <2>2. ASSUME NEW id, Operation(id) PROVE trade' = NoTrade
    BY <1>1, <2>2 DEF Operation, ReduceOrderBy, ModifyOrder, ReplaceOrder, ReplaceOrderWith,
       CancelOrder, ExecuteOrder, Submit, Settle
  <2> QED
    BY <1>1, <1>3, <2>1, <2>2 DEF Request, Automatic, AddNewOrder
<1>4. CASE MatchOrder
  <2>1. ASSUME NEW id \in DOMAIN book.orders, MatchAgainst(id)
        PROVE  trade'.order = book.orders[id]
    <3>1. ~IsAON(book.orders[id])
      BY DEF Calm, CalmBook
    <3> QED
      BY <1>2, <2>1, <3>1 DEF MatchAgainst
  <2> QED
    BY <1>1, <1>4, <2>1, MatchOrderCases DEF Goto
<1>5. CASE ExecuteMatchingChain
  BY <1>1, <1>2, <1>5, ChainCases DEF Goto
<1>6. CASE Take \/ Filled
  <2>1. calls # << >> /\ Call.at \in {"take", "filled"}
    BY <1>6 DEF Take, Filled, At
  <2>2. Unlinked(taker)
    BY <2>1, TakerOfCall
  <2> QED
    BY <1>6, <2>2 DEF Take, Filled, ExecuteTaker, Report
<1>7. CASE Finish \/ Match \/ Stops \/ Round \/ Activate \/ AddAfterDelete
  BY <1>1, <1>7 DEF Finish, Match, Stops, Round, Activate, AddAfterDelete, Goto,
     ReturnFromMatch, SubmitNew, Submit
<1>8. CASE Recalculate \/ Walk
  BY <1>1, <1>8 DEF Recalculate, Walk, Goto, Follow
<1> QED
  BY <1>3, <1>4, <1>5, <1>6, <1>7, <1>8, NoCrossedCalls DEF Next, Step

\* An order that rests trades only from the front of the queue of the best level of
\* its side, in every execution of MatchOrder and ExecuteMatchingChain.
THEOREM FrontTradesHold ==
    ASSUME VolumeFits, Automatic, NoneIsAON
    PROVE  Spec => TradesAtTheFront
<1> DEFINE AtHead(o) ==
        /\ \A p \in PricesIn(book, CollectionOf(o)) : ~Better(CollectionOf(o), p, o.Price)
        /\ Head(book.levels[o.Level].OrderList) = o.Id
           A == LET o == trade'.order IN trade' # NoTrade /\ o.Level # NoLevel => AtHead(o)
<1>1. ASSUME IInv, Calm, Next PROVE A
  <2>1. CASE trade'.order = taker /\ Unlinked(taker)
    BY <2>1 DEF Unlinked
  <2>2. CASE \E id \in DOMAIN book.orders :
                AtFront(book, taker, id) /\ trade'.order = book.orders[id]
    <3>1. PICK id \in DOMAIN book.orders :
                AtFront(book, taker, id) /\ trade'.order = book.orders[id]
      BY <2>2
    <3>2. Valid(book)
      BY <1>1 DEF IInv
    <3> QED
      BY <3>1, <3>2, FrontIsFirst
  <2> QED
    BY <1>1, <2>1, <2>2, WhatTrades
<1>2. IInv /\ Calm /\ [Next]_vars => [A]_vars
  BY <1>1
<1> HIDE DEF A
<1>3. Spec => [][A]_vars
  BY <1>2, CalmHolds, PTL DEF Spec
<1> QED
  BY <1>3 DEF A, AtHead, TradesAtTheFront
=============================================================================

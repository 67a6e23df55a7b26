--------------------------- MODULE ExecutionProofs ---------------------------
(***************************************************************************)
(* What automatic matching executes and activates, on the books that it    *)
(* keeps uncrossed.  Without trailing orders no step uses released memory, *)
(* stop orders are activated while the market is at their price, and none  *)
(* is left over; what trades is bounded, priced and balanced.  On every    *)
(* book, crossed ones and manual matching too, a Fill-Or-Kill or           *)
(* All-Or-None order is executed whole or not at all.                      *)
(***************************************************************************)
EXTENDS MatchingEngineProofs

\* No trailing stop orders.
NoneTrails == \A t \in NewOrders : t.Type \notin TrailingTypes

\* ORDER_INT_MAX stands for "no limit": the caller uses no price or slippage above it,
\* though uint64_t holds some.
IsCapped == /\ \A t \in NewOrders : t.Price <= OrderIntMax /\ t.Slippage <= OrderIntMax
            /\ \A p \in Prices : p <= OrderIntMax

-----------------------------------------------------------------------------
(* What is known of the stop orders while a call runs *)

\* An order that does not trail and is priced within the limit.
Plain(o) == /\ o.Type \notin TrailingTypes
            /\ o.Type # "MARKET" => o.Price <= OrderIntMax
            /\ o.Slippage <= OrderIntMax

PlainBook(b) == \A id \in DOMAIN b.orders : Plain(b.orders[id])
PlainTaker(t) == t # NoTaker => Plain(t)

\* The market has reached the stop price of an order.
Due(b, m, o) == Triggered(b, m, CollectionOf(o), o.StopPrice)

\* The market has not reached the best level of a stop collection, nor any other.
NoneDue(b, m, c) == HasBest(b, c) => ~Triggered(b, m, c, b.best[c])

\* What a frame f of the stack knows of book b, matching prices m and taker t when the
\* innermost call is at depth d.  The next order to activate is there and still due;
\* while the one before it is matched that trades on the same side.  A round in which
\* nothing was activated has left no order of the sides it went through that is due.
Knows(f, b, m, t, d) ==
    /\ f.at = "add" => Plain(f.new)
    /\ f.at = "walk" => f.current = NoLevel
    /\ f.at = "activate" /\ f.order # NoOrder =>
          /\ f.order \in DOMAIN b.orders /\ b.orders[f.order].Type \in StopTypes
          /\ Due(b, m, b.orders[f.order])
          /\ d > 3 => t.Side = b.orders[f.order].Side
    /\ f.at = "sell_stops" /\ ~f.again => d < 3 /\ NoneDue(b, m, "buy_stop")
    /\ f.at = "round" /\ ~f.again =>
          d < 3 /\ NoneDue(b, m, "buy_stop") /\ NoneDue(b, m, "sell_stop")

TopDepth(s) == IF s = << >> THEN 0 ELSE Depth(s[Len(s)])

Known == /\ ~fault
         /\ PlainBook(book)
         /\ PlainTaker(taker)
         /\ \A i \in 1 .. Len(calls) : Knows(calls[i], book, matching, taker, TopDepth(calls))

\* The stop orders on the side of taker t that are due stay so: t2, b2 and m2 come after
\* t, b and m, with the innermost call at depth d.
KeepsDue(t, b, m, t2, b2, m2, d) ==
    \A id \in DOMAIN b.orders :
        LET o == b.orders[id]
        IN o.Type \in StopTypes /\ Due(b, m, o) /\ t.Side = o.Side =>
              /\ id \in DOMAIN b2.orders /\ b2.orders[id].Type \in StopTypes
              /\ Due(b2, m2, b2.orders[id])
              /\ d > 3 => t2.Side = b2.orders[id].Side

\* What a caller on the stack knows, it knows after the step.
LEMMA CallerKnows ==
    ASSUME NEW f, CalmFrame(f), NEW b, NEW m, NEW t, NEW d \in 0 .. 6, Depth(f) < d,
           Knows(f, b, m, t, d), NEW b2, NEW m2, NEW t2, NEW d2,
           d > 3 => KeepsDue(t, b, m, t2, b2, m2, d2),
           d = 2 => b2 = b /\ m2 = m /\ d2 < 3
    PROVE  Knows(f, b2, m2, t2, d2)
<1>1. CASE f.at = "activate"
  <2>1. Depth(f) = 3
    BY <1>1, DepthOfLabel
  <2>2. d > 3
    BY <2>1
  <2> QED
    BY <1>1, <2>2 DEF Knows, KeepsDue
<1>2. CASE f.at \in {"sell_stops", "round"}
  <2>1. Depth(f) = 1
    BY <1>2, DepthOfLabel DEF MatchLabels
  <2>2. d < 3 => d = 2
    BY <2>1
  <2> QED
    BY <1>2, <2>2 DEF Knows
<1>3. CASE f.at \notin {"activate", "sell_stops", "round"}
  BY <1>3 DEF Knows
<1> QED
  BY <1>1, <1>2, <1>3

LEMMA TopOfStack ==
    ASSUME IInv, Calm, calls # << >>, NEW frames \in Seq(Frame), Continue(frames)
    PROVE  /\ frames # << >> => TopDepth(calls') = Depth(frames[Len(frames)])
           /\ frames = << >> => TopDepth(calls') \in 0 .. 6 /\ TopDepth(calls') <= Depth(Call)
           /\ frames = << >> /\ Depth(Call) > 0 => TopDepth(calls') < Depth(Call)
           /\ Depth(Call) \in 0 .. 6 /\ TopDepth(calls) = Depth(Call)
<1>1. /\ Callers \in Seq(Frame) /\ Len(Callers) \in Nat /\ CalmFrame(Call)
      /\ \A i \in 1 .. Len(Callers) : Depth(Callers[i]) < Depth(Call)
  BY CallersBelow
<1>2. Depth(Call) \in 0 .. 6
  BY <1>1, DepthOfCalm
<1>3. TopDepth(calls) = Depth(Call)
  BY DEF TopDepth, Call
<1>4. CASE frames # << >>
  <2>1. Len(frames) \in Nat \ {0}
    BY <1>4, EmptySeq, LenProperties
  <2>2. Callers \o frames # << >> /\ (Callers \o frames)[Len(Callers \o frames)] = frames[Len(frames)]
    <3>1. Len(Callers \o frames) = Len(Callers) + Len(frames)
      BY <1>1, ConcatProperties
    <3>2. Len(Callers) + Len(frames) \in 1 .. Len(Callers) + Len(frames)
          /\ Len(Callers) + Len(frames) > Len(Callers)
          /\ Len(Callers) + Len(frames) - Len(Callers) = Len(frames)
      BY <1>1, <2>1
    <3>3. (Callers \o frames)[Len(Callers) + Len(frames)] = frames[Len(frames)]
      BY <1>1, <3>2, ConcatProperties
    <3>4. Len(Callers \o frames) # 0
      BY <1>1, <2>1, <3>1
    <3> QED
      BY <3>1, <3>3, <3>4, EmptySeq
  <2> QED
    BY <1>2, <1>3, <1>4, <2>2 DEF TopDepth, Continue
<1>5. CASE frames = << >>
  <2>1. calls' = Callers
    BY <1>1, <1>5, ConcatEmptySeq DEF Continue
  <2>2. CASE Callers = << >>
    <3>1. TopDepth(calls') = 0
      BY <2>1, <2>2 DEF TopDepth
    <3> QED
      BY <1>2, <1>3, <1>5, <3>1
  <2>3. CASE Callers # << >>
    <3>1. Len(Callers) \in 1 .. Len(Callers)
      BY <1>1, <2>3, EmptySeq
    <3>2. TopDepth(calls') = Depth(Callers[Len(Callers)])
      BY <2>1, <2>3 DEF TopDepth
    <3>3. Depth(Callers[Len(Callers)]) < Depth(Call)
      BY <1>1, <3>1
    <3>4. CalmFrame(Callers[Len(Callers)])
      BY <3>1, CallersBelow DEF Quiet, SameRole
    <3>5. Depth(Callers[Len(Callers)]) \in 0 .. 6
      BY <3>4, DepthOfCalm
    <3> QED
      BY <1>2, <1>3, <1>5, <3>2, <3>3, <3>5
  <2> QED
    BY <2>2, <2>3
<1> QED
  BY <1>4, <1>5

\* A step that leaves its callers in place.
LEMMA ContinueKnown ==
    ASSUME IInv, Calm, Known, calls # << >>, NEW frames \in Seq(Frame), Continue(frames),
           ~fault', PlainBook(book'), PlainTaker(taker'),
           Depth(Call) > 3 =>
               KeepsDue(taker, book, matching, taker', book', matching', TopDepth(calls')),
           Depth(Call) = 2 => UNCHANGED <<book, matching>> /\ TopDepth(calls') < 3,
           \A j \in 1 .. Len(frames) :
               Knows(frames[j], book', matching', taker', TopDepth(calls'))
    PROVE  Known'
<1>1. /\ Callers \in Seq(Frame) /\ Len(Callers) \in Nat
      /\ \A i \in 1 .. Len(Callers) : Depth(Callers[i]) < Depth(Call)
      /\ \A i \in 1 .. Len(Callers) : CalmFrame(Callers[i])
  BY CallersBelow DEF Quiet, SameRole
<1>2. Depth(Call) \in 0 .. 6 /\ TopDepth(calls) = Depth(Call)
  BY TopOfStack
<1>3. /\ Len(calls) \in Nat
      /\ \A i \in 1 .. Len(Callers) :
            i \in 1 .. Len(calls) /\ i <= Len(calls) - 1 /\ Callers[i] = calls[i]
  <2>1. Len(calls) \in Nat \ {0}
    BY CallOf DEF IInv
  <2>2. Len(calls) - 1 \in Int /\ Len(calls) - 1 <= Len(calls)
    BY <2>1
  <2> QED
    BY <2>1, <2>2, OuterStack DEF IInv, Callers
<1>4. \A i \in 1 .. Len(Callers) :
         Knows(Callers[i], book', matching', taker', TopDepth(calls'))
  <2> SUFFICES ASSUME NEW i \in 1 .. Len(Callers)
               PROVE  Knows(Callers[i], book', matching', taker', TopDepth(calls'))
    OBVIOUS
  <2>1. Knows(Callers[i], book, matching, taker, Depth(Call))
    BY <1>2, <1>3 DEF Known
  <2> QED
    BY <1>1, <1>2, <2>1, CallerKnows
<1>5. calls' = Callers \o frames
  BY DEF Continue
<1>6. /\ Len(calls') = Len(Callers) + Len(frames) /\ Len(frames) \in Nat
      /\ \A i \in 1 .. Len(Callers) + Len(frames) :
            calls'[i] = IF i <= Len(Callers) THEN Callers[i] ELSE frames[i - Len(Callers)]
  BY <1>1, <1>5, ConcatProperties, LenProperties
<1>7. \A i \in 1 .. Len(calls') : Knows(calls'[i], book', matching', taker', TopDepth(calls'))
  <2> SUFFICES ASSUME NEW i \in 1 .. Len(calls')
               PROVE  Knows(calls'[i], book', matching', taker', TopDepth(calls'))
    OBVIOUS
  <2>1. CASE i <= Len(Callers)
    <3>1. i \in 1 .. Len(Callers) /\ calls'[i] = Callers[i]
      BY <1>1, <1>6, <2>1
    <3> QED
      BY <1>4, <3>1
  <2>2. CASE i > Len(Callers)
    <3>1. i - Len(Callers) \in 1 .. Len(frames) /\ calls'[i] = frames[i - Len(Callers)]
      BY <1>1, <1>6, <2>2
    <3> QED
      BY <3>1
  <2> QED
    BY <1>1, <1>6, <2>1, <2>2
<1> QED
  BY <1>7 DEF Known

-----------------------------------------------------------------------------
(* Matching does not bring the market back to a stop price it has left *)

LEMMA StopCollectionOf ==
    ASSUME NEW o, o.Type \in StopTypes
    PROVE  CollectionOf(o) = IF IsBuy(o) THEN "buy_stop" ELSE "sell_stop"
<1>1. ~IsLimit(o) /\ ~IsTrailing(o)
  BY DEF StopTypes, TrailingTypes, IsLimit, IsTrailing
<1> QED
  BY <1>1 DEF CollectionOf

\* A buy stop is due when the asks have risen to it, a sell stop when the bids have fallen.
LEMMA DueMeans ==
    ASSUME NEW b, NEW m, NEW o, o.Type \in StopTypes
    PROVE  Due(b, m, o) <=> IF IsBuy(o) THEN MarketPriceAsk(b, m) >= o.StopPrice
                            ELSE MarketPriceBid(b, m) <= o.StopPrice
BY StopCollectionOf DEF Due, Triggered, BidCollections

LEMMA OrderAtLevel ==
    ASSUME NEW b, Valid(b), NEW k \in DOMAIN b.levels
    PROVE  LET id == FirstOrder(b, k)
           IN /\ id \in DOMAIN b.orders /\ id # NoOrder
              /\ b.orders[id] \in OrderNode(OrderIds, MaxQuantity)
              /\ b.orders[id].Level = k /\ KeyOf(b.orders[id]) = k
<1> DEFINE id == FirstOrder(b, k)
<1>1. id \in DOMAIN b.orders /\ id \in Ids /\ b.orders[id].Level = k
  BY FirstOrderType
<1>2. id # NoOrder
  BY <1>1, CallAssumption DEF NoOrder
<1> QED
  BY <1>1, <1>2, LinkedIsPending

LEMMA LinkedKind ==
    ASSUME NEW b, Valid(b), NEW id \in DOMAIN b.orders
    PROVE  LET o == b.orders[id]
           IN /\ o.Level = KeyOf(o)
              /\ IsLimit(o) => KeyOf(o) = <<IF IsBuy(o) THEN "bids" ELSE "asks", o.Price>>
              /\ o.Type \in StopTypes =>
                    KeyOf(o) = <<IF IsBuy(o) THEN "buy_stop" ELSE "sell_stop", o.StopPrice>>
              /\ o.Type \in TrailingTypes =>
                    KeyOf(o)[1] \in {"trailing_buy_stop", "trailing_sell_stop"}
              /\ o.Type \in {"LIMIT"} \cup StopTypes \cup TrailingTypes
              /\ o.Price \in UInt64 /\ o.StopPrice \in UInt64 /\ o.Side \in OrderSide
<1> DEFINE o == b.orders[id]
<1>1. o \in OrderNode(OrderIds, MaxQuantity) /\ o.Level = KeyOf(o)
  BY LinkedIsPending
<1>2. /\ o.Type \in {"LIMIT"} \cup StopTypes \cup TrailingTypes
      /\ o.Price \in UInt64 /\ o.StopPrice \in UInt64 /\ o.Side \in OrderSide
  BY <1>1 DEF OrderNode, OrderType
<1> HIDE DEF o
<1>3. o.Type = "LIMIT" => KeyOf(o) = <<IF IsBuy(o) THEN "bids" ELSE "asks", o.Price>>
  <2>1. ASSUME o.Type = "LIMIT"
        PROVE  IsLimit(o) /\ o.Type \notin StopTypes /\ ~IsTrailing(o)
    BY <2>1 DEF StopTypes, TrailingTypes, IsLimit, IsTrailing
  <2> QED
    BY <2>1 DEF KeyOf, CollectionOf
<1>4. o.Type \in StopTypes =>
         KeyOf(o) = <<IF IsBuy(o) THEN "buy_stop" ELSE "sell_stop", o.StopPrice>>
  BY StopCollectionOf DEF KeyOf, IsLimit, StopTypes
<1>5. o.Type \in TrailingTypes =>
         KeyOf(o)[1] \in {"trailing_buy_stop", "trailing_sell_stop"}
  BY DEF KeyOf, CollectionOf, IsLimit, IsTrailing, StopTypes, TrailingTypes
<1> QED
  BY <1>1, <1>2, <1>3, <1>4, <1>5 DEF IsLimit, o

LEMMA CappedAsks ==
    ASSUME NEW b, Valid(b), PlainBook(b), NEW p \in PricesIn(b, "asks")
    PROVE  p <= OrderIntMax
<1>1. PICK k \in DOMAIN b.levels : k[1] = "asks" /\ k[2] = p
  BY DEF PricesIn
<1> DEFINE id == FirstOrder(b, k)
           o == b.orders[id]
<1>2. id \in DOMAIN b.orders /\ KeyOf(o) = k
  BY OrderAtLevel
<1>3. o.Type = "LIMIT" /\ k = <<IF IsBuy(o) THEN "bids" ELSE "asks", o.Price>>
  BY <1>1, <1>2, LinkedKind DEF IsLimit
<1>4. Plain(o)
  BY <1>2 DEF PlainBook
<1> HIDE DEF o
<1>5. o.Price <= OrderIntMax
  BY <1>3, <1>4 DEF Plain
<1> QED
  BY <1>1, <1>3, <1>5

\* The prices of the market are numbers.
LEMMA MarketPriceType ==
    ASSUME NEW b, Valid(b), NEW m \in MarketPrices
    PROVE  MarketPriceBid(b, m) \in Nat /\ MarketPriceAsk(b, m) \in Nat
<1>1. \A c \in {"bids", "asks"} : b.best[c] = NoPrice \/ b.best[c] \in UInt64
  BY SidesAreCollections, BestOfLevels DEF HasBest
<1>2. m.bid \in Nat /\ m.ask \in Nat
  BY Numbers DEF MarketPrices
<1>3. UInt64 \subseteq Nat /\ OrderIntMax \in Nat
  BY Numbers
<1> QED
  BY <1>1, <1>2, <1>3 DEF MarketPriceBid, MarketPriceAsk, BestPrice, Greater, Lesser

\* Once orders have left the book and the matching prices are reset, the asks are no
\* lower than they were and the bids are no higher.
LEMMA MarketRecedes ==
    ASSUME NEW b, Valid(b), PlainBook(b), NEW b2, Valid(b2), Shrinks(b, b2),
           NEW m \in MarketPrices
    PROVE  /\ MarketPriceAsk(b, m) <= MarketPriceAsk(b2, NoMatchingPrice)
           /\ MarketPriceBid(b2, NoMatchingPrice) <= MarketPriceBid(b, m)
<1> DEFINE ask == BestPrice(b, "asks", OrderIntMax)
           ask2 == BestPrice(b2, "asks", OrderIntMax)
           bid == BestPrice(b, "bids", 0)
           bid2 == BestPrice(b2, "bids", 0)
<1>1. UInt64 \subseteq Nat /\ OrderIntMax \in Nat /\ m.bid \in Nat /\ m.ask \in Nat
  BY Numbers DEF MarketPrices
<1>2. /\ PricesIn(b, "asks") \subseteq UInt64 /\ PricesIn(b, "bids") \subseteq UInt64
      /\ PricesIn(b2, "asks") \subseteq PricesIn(b, "asks")
      /\ PricesIn(b2, "bids") \subseteq PricesIn(b, "bids")
  BY ShrinksPrices, BestOfLevels, SidesAreCollections
<1>12. \A p \in PricesIn(b, "asks") \cup PricesIn(b, "bids") : p \in Nat
  BY <1>1, <1>2, Zenon
<1>3. /\ HasBest(b, "asks") => b.best["asks"] \in PricesIn(b, "asks")
      /\ \A p \in PricesIn(b, "asks") : HasBest(b, "asks") /\ ~Better("asks", p, b.best["asks"])
      /\ HasBest(b2, "asks") => b2.best["asks"] \in PricesIn(b2, "asks")
  BY BestOfLevels, SidesAreCollections
<1>4. /\ HasBest(b, "bids") => b.best["bids"] \in PricesIn(b, "bids")
      /\ \A p \in PricesIn(b, "bids") : HasBest(b, "bids") /\ ~Better("bids", p, b.best["bids"])
      /\ HasBest(b2, "bids") => b2.best["bids"] \in PricesIn(b2, "bids")
  BY BestOfLevels, SidesAreCollections
<1>5. ask \in Nat /\ ask2 \in Nat /\ ask <= ask2
  <2>1. CASE ~HasBest(b2, "asks")
    <3>1. ask2 = OrderIntMax
      BY <2>1 DEF BestPrice, HasBest
    <3>2. ask = OrderIntMax \/ ask \in PricesIn(b, "asks")
      BY <1>3 DEF BestPrice, HasBest
    <3> HIDE DEF ask
    <3>3. ask \in Nat /\ ask <= OrderIntMax
      BY <1>1, <1>12, <3>2, CappedAsks
    <3> QED
      BY <1>1, <3>1, <3>3
  <2>2. CASE HasBest(b2, "asks")
    <3>1. ask2 = b2.best["asks"] /\ ask2 \in PricesIn(b, "asks")
      BY <1>2, <1>3, <2>2 DEF BestPrice, HasBest
    <3>2. ask = b.best["asks"] /\ ask \in PricesIn(b, "asks") /\ ~Better("asks", ask2, ask)
      BY <1>3, <3>1 DEF BestPrice, HasBest
    <3>3. ask \in Nat /\ ask2 \in Nat
      BY <1>1, <1>2, <3>1, <3>2
    <3>4. ~(ask2 < ask)
      BY <3>2, SidesAreCollections DEF Better
    <3> QED
      BY <3>3, <3>4
  <2> QED
    BY <2>1, <2>2
<1>6. bid \in Nat /\ bid2 \in Nat /\ bid2 <= bid
  <2>1. bid = 0 \/ bid \in PricesIn(b, "bids")
    BY <1>4 DEF BestPrice, HasBest
  <2>2. bid \in Nat
    <3> HIDE DEF bid
    <3> QED
      BY <1>12, <2>1
  <2>3. CASE ~HasBest(b2, "bids")
    <3>1. bid2 = 0
      BY <2>3 DEF BestPrice, HasBest
    <3> QED
      BY <2>2, <3>1
  <2>4. CASE HasBest(b2, "bids")
    <3>1. bid2 = b2.best["bids"] /\ bid2 \in PricesIn(b, "bids")
      BY <1>2, <1>4, <2>4 DEF BestPrice, HasBest
    <3>2. bid = b.best["bids"] /\ ~Better("bids", bid2, bid)
      BY <1>4, <3>1 DEF BestPrice, HasBest
    <3>3. bid2 \in Nat
      BY <1>1, <1>2, <3>1
    <3>4. ~(bid2 > bid)
      BY <3>2, SidesAreCollections DEF Better
    <3> QED
      BY <2>2, <3>3, <3>4
  <2> QED
    BY <2>3, <2>4
<1>7. NoMatchingPrice.bid = 0 /\ NoMatchingPrice.ask = OrderIntMax
  BY DEF NoMatchingPrice
<1>8. ask2 <= OrderIntMax
  <2>1. ask2 = OrderIntMax \/ ask2 \in PricesIn(b, "asks")
    BY <1>2, <1>3 DEF BestPrice, HasBest
  <2> QED
    BY <1>1, <2>1, CappedAsks
<1>9. /\ MarketPriceAsk(b, m) = Lesser(m.ask, ask)
      /\ MarketPriceAsk(b2, NoMatchingPrice) = Lesser(OrderIntMax, ask2)
      /\ MarketPriceBid(b, m) = Greater(m.bid, bid)
      /\ MarketPriceBid(b2, NoMatchingPrice) = Greater(0, bid2)
  BY <1>7 DEF MarketPriceAsk, MarketPriceBid
<1> HIDE DEF ask, ask2, bid, bid2
<1>10. Lesser(m.ask, ask) <= Lesser(OrderIntMax, ask2)
  BY <1>1, <1>5, <1>8 DEF Lesser
<1>11. Greater(0, bid2) <= Greater(m.bid, bid)
  BY <1>1, <1>6 DEF Greater
<1> QED
  BY <1>9, <1>10, <1>11

-----------------------------------------------------------------------------
(* Steps that match the taker *)

\* Frames of matching know nothing of the stop orders.
LEMMA KnowsNothing ==
    ASSUME NEW f, f.at \notin {"add", "walk", "activate", "sell_stops", "round"}
    PROVE  \A b, m, t, d : Knows(f, b, m, t, d)
BY DEF Knows

LEMMA DueIsKept ==
    ASSUME NEW b, Valid(b), NEW b2, Valid(b2), NEW m \in MarketPrices, NEW m2 \in MarketPrices,
           NEW id \in DOMAIN b.orders, b.orders[id].Type \in StopTypes, Due(b, m, b.orders[id]),
           IsBuy(b.orders[id]) => MarketPriceAsk(b, m) <= MarketPriceAsk(b2, m2),
           ~IsBuy(b.orders[id]) => MarketPriceBid(b2, m2) <= MarketPriceBid(b, m)
    PROVE  Due(b2, m2, b.orders[id])
<1> DEFINE o == b.orders[id]
<1>1. o.StopPrice \in Nat
  BY LinkedKind, Numbers
<1>2. /\ MarketPriceBid(b, m) \in Nat /\ MarketPriceAsk(b, m) \in Nat
      /\ MarketPriceBid(b2, m2) \in Nat /\ MarketPriceAsk(b2, m2) \in Nat
  BY MarketPriceType
<1> HIDE DEF o
<1> QED
  BY <1>1, <1>2, DueMeans DEF o

\* A resting order trades: the order is not a stop order.
LEMMA ExecuteRestingKnown ==
    ASSUME VolumeFits, IInv, Calm, Known, calls # << >>, Depth(Call) > 3,
           NEW id, AtFront(book, taker, id), NEW price, NEW quantity \in Nat, NEW f \in Frame,
           f.at \in {"take", "chain"}, ExecuteResting(id, price, quantity, <<f>>)
    PROVE  Known'
<1> DEFINE o == book.orders[id]
           b == ReduceOrder(book, Executed(o, quantity))
<1>1. Valid(book) /\ CalmBook(book) /\ matching \in MarketPrices /\ PlainBook(book)
      /\ PlainTaker(taker)
  BY DEF IInv, Calm, Known
<1>2. id \in DOMAIN book.orders /\ IsLimit(o) /\ o \in OrderNode(OrderIds, MaxQuantity)
  BY <1>1, FrontOrder, LinkedIsPending
<1>3. Executed(o, quantity) \in Lessened(o, quantity)
  BY DEF Lessened
<1>4. /\ Valid(b) /\ Shrinks(book, b)
      /\ \A i \in DOMAIN b.orders \ {id} : b.orders[i] = book.orders[i]
      /\ \A i \in DOMAIN book.orders \ {id} : i \in DOMAIN b.orders
  <2>1. /\ Valid(b) /\ Shrinks(book, b)
        /\ Executed(o, quantity).LeavesQuantity = 0 => b = DeleteOrder(book, id)
        /\ Executed(o, quantity).LeavesQuantity # 0 => DOMAIN b.orders = DOMAIN book.orders
        /\ \A i \in DOMAIN b.orders \ {id} : b.orders[i] = book.orders[i]
    BY <1>1, <1>2, <1>3, ReduceShrinksBook
  <2>2. DOMAIN DeleteOrder(book, id).orders = DOMAIN book.orders \ {id}
    BY <1>1, <1>2, DeleteShrinks
  <2> QED
    BY <2>1, <2>2
<1>5. CalmBook(b) /\ ~Crossed(b)
  BY <1>1, <1>4, CalmBookShrinks, LessIsNotCrossed DEF CalmBook
<1>6. ReturnInternal(b, o, price, <<f>>) /\ taker' = taker /\ fault' = fault
  BY DEF ExecuteResting, Report
<1>7. PlainBook(b)
  <2> SUFFICES ASSUME NEW i \in DOMAIN b.orders PROVE Plain(b.orders[i])
    BY DEF PlainBook
  <2>1. i # id => Plain(b.orders[i])
    BY <1>1, <1>4 DEF PlainBook, Shrinks
  <2>2. i = id => b.orders[i] = Executed(o, quantity)
    <3>1. Executed(o, quantity).LeavesQuantity = 0 => b = DeleteOrder(book, id)
      BY <1>1, <1>2, <1>3, ReduceShrinksBook
    <3>2. Executed(o, quantity).LeavesQuantity # 0 => b.orders[id] = Executed(o, quantity)
      BY <1>1, <1>2, <1>3, ReduceShrinksBook
    <3>3. DOMAIN DeleteOrder(book, id).orders = DOMAIN book.orders \ {id}
      BY <1>1, <1>2, DeleteShrinks
    <3> QED
      BY <3>1, <3>2, <3>3
  <2>3. Plain(o)
    BY <1>1, <1>2 DEF PlainBook
  <2>4. Plain(Executed(o, quantity))
    BY <1>2, <2>3 DEF Plain, Executed, OrderNode
  <2> QED
    BY <2>1, <2>2, <2>4
<1> HIDE DEF b, o
<1>8. book' = b /\ Continue(<<f>>) /\ matching' = NoMatchingPrice
  <2>1. <<f>> \o << >> = <<f>>
    OBVIOUS
  <2>2. book' = b /\ Continue(<<f>> \o << >>) /\ matching' = NoMatchingPrice
    BY <1>5, <1>6, Zenon DEF ReturnInternal
  <2> QED
    BY <2>1, <2>2
<1>9. KeepsDue(taker, book, matching, taker, b, NoMatchingPrice, TopDepth(calls'))
  <2> SUFFICES ASSUME NEW i \in DOMAIN book.orders, book.orders[i].Type \in StopTypes,
                      Due(book, matching, book.orders[i]), taker.Side = book.orders[i].Side
               PROVE  /\ i \in DOMAIN b.orders /\ b.orders[i] = book.orders[i]
                      /\ Due(b, NoMatchingPrice, book.orders[i])
    BY DEF KeepsDue
  <2>1. i # id
    BY <1>2 DEF IsLimit, StopTypes, o
  <2>2. i \in DOMAIN b.orders /\ b.orders[i] = book.orders[i]
    BY <1>4, <2>1
  <2>3. /\ MarketPriceAsk(book, matching) <= MarketPriceAsk(b, NoMatchingPrice)
        /\ MarketPriceBid(b, NoMatchingPrice) <= MarketPriceBid(book, matching)
    BY <1>1, <1>4, MarketRecedes
  <2>4. NoMatchingPrice \in MarketPrices
    BY Numbers
  <2> QED
    BY <1>1, <1>4, <2>2, <2>3, <2>4, DueIsKept
<1>10. <<f>> \in Seq(Frame)
  OBVIOUS
<1>11. \A j \in 1 .. Len(<<f>>) : Knows(<<f>>[j], book', matching', taker', TopDepth(calls'))
  BY KnowsNothing
<1>12. Depth(Call) # 2
  OBVIOUS
<1> QED
  BY <1>1, <1>6, <1>7, <1>8, <1>9, <1>10, <1>11, <1>12, ContinueKnown DEF Known

\* The taker trades: the matching price of its side changes, the stop orders due on its
\* side follow the other.
LEMMA ExecuteTakerKnown ==
    ASSUME IInv, Calm, Known, calls # << >>, Depth(Call) > 3, Unlinked(taker),
           NEW price \in UInt64, NEW quantity \in Nat, NEW frames \in Seq(Frame),
           \A j \in 1 .. Len(frames) : frames[j].at = "match_order",
           ExecuteTaker(price, quantity, frames)
    PROVE  Known'
<1>1. Valid(book) /\ matching \in MarketPrices /\ PlainBook(book) /\ PlainTaker(taker)
  BY DEF IInv, Known
<1>2. /\ taker' = Executed(taker, quantity) /\ matching' = WithPrice(matching, taker, price)
      /\ book' = book /\ Continue(frames) /\ fault' = fault
  BY DEF ExecuteTaker, Report
<1>3. taker'.Side = taker.Side
  BY <1>2, TakerKind DEF SameKind
<1>4. PlainTaker(taker')
  <2>1. Plain(taker)
    BY <1>1, TakerIsSome DEF PlainTaker
  <2>2. taker'.Slippage = taker.Slippage
    BY <1>2 DEF Executed, Unlinked, Pending
  <2>3. taker'.Type = taker.Type /\ taker'.Price = taker.Price
    BY <1>2, TakerKind DEF SameKind
  <2> QED
    BY <2>1, <2>2, <2>3 DEF PlainTaker, Plain
<1>5. matching' \in MarketPrices
  BY <1>1, <1>2, PriceUpdated
<1>6. /\ IsBuy(taker) => matching'.ask = matching.ask
      /\ ~IsBuy(taker) => matching'.bid = matching.bid
  BY <1>1, <1>2 DEF WithPrice, PriceSide, MarketPrices
<1>7. KeepsDue(taker, book, matching, taker', book', matching', TopDepth(calls'))
  <2> SUFFICES ASSUME NEW i \in DOMAIN book.orders, book.orders[i].Type \in StopTypes,
                      Due(book, matching, book.orders[i]), taker.Side = book.orders[i].Side
               PROVE  Due(book, matching', book.orders[i])
    BY <1>2, <1>3 DEF KeepsDue
  <2>1. IsBuy(book.orders[i]) <=> IsBuy(taker)
    BY DEF IsBuy
  <2>2. /\ IsBuy(taker) => MarketPriceAsk(book, matching') = MarketPriceAsk(book, matching)
        /\ ~IsBuy(taker) => MarketPriceBid(book, matching') = MarketPriceBid(book, matching)
    BY <1>6 DEF MarketPriceAsk, MarketPriceBid
  <2>3. MarketPriceBid(book, matching) \in Nat /\ MarketPriceAsk(book, matching) \in Nat
    BY <1>1, MarketPriceType
  <2>4. /\ IsBuy(taker) => MarketPriceAsk(book, matching) <= MarketPriceAsk(book, matching')
        /\ ~IsBuy(taker) => MarketPriceBid(book, matching') <= MarketPriceBid(book, matching)
    BY <2>2, <2>3
  <2> QED
    BY <1>1, <1>5, <2>1, <2>4, DueIsKept
<1>8. \A j \in 1 .. Len(frames) : Knows(frames[j], book', matching', taker', TopDepth(calls'))
  BY KnowsNothing
<1>9. Depth(Call) # 2
  OBVIOUS
<1> QED
  BY <1>1, <1>2, <1>4, <1>7, <1>8, <1>9, ContinueKnown DEF Known

LEMMA DueIsUnchanged ==
    ASSUME NEW t, NEW b, NEW m, NEW d
    PROVE  KeepsDue(t, b, m, t, b, m, d)
BY DEF KeepsDue

LEMMA GotoKnown ==
    ASSUME IInv, Calm, Known, calls # << >>, NEW frames \in Seq(Frame), Goto(frames),
           Depth(Call) = 2 => TopDepth(calls') < 3,
           \A j \in 1 .. Len(frames) : Knows(frames[j], book, matching, taker, TopDepth(calls'))
    PROVE  Known'
<1>1. /\ Continue(frames) /\ book' = book /\ matching' = matching /\ taker' = taker
      /\ fault' = fault
  BY DEF Goto, Silent
<1>2. ~fault /\ PlainBook(book) /\ PlainTaker(taker)
  BY DEF Known
<1>3. KeepsDue(taker, book, matching, taker', book', matching', TopDepth(calls'))
  BY <1>1, DueIsUnchanged
<1> QED
  BY <1>1, <1>2, <1>3, ContinueKnown

LEMMA ReturnKnown ==
    ASSUME IInv, Calm, Known, calls # << >>, Goto(<< >>)
    PROVE  Known'
<1>1. << >> \in Seq(Frame) /\ Len(<< >>) = 0
  OBVIOUS
<1>2. Continue(<< >>)
  BY DEF Goto
<1>3. /\ Depth(Call) \in 0 .. 6 /\ TopDepth(calls') \in 0 .. 6
      /\ TopDepth(calls') <= Depth(Call)
  BY <1>1, <1>2, TopOfStack
<1>4. Depth(Call) = 2 => TopDepth(calls') < 3
  BY <1>3
<1>5. \A j \in 1 .. Len(<< >>) : Knows(<< >>[j], book, matching, taker, TopDepth(calls'))
  BY <1>1
<1> QED
  BY <1>1, <1>4, <1>5, GotoKnown

LEMMA MatchOrderKnown ==
    ASSUME VolumeFits, IInv, Calm, Known, MatchOrder
    PROVE  Known'
<1>1. calls # << >> /\ Call.at = "match_order" /\ Valid(book)
  BY DEF MatchOrder, At, IInv
<1>2. Depth(Call) = 5 /\ Depth(Call) > 3 /\ Depth(Call) # 2
  BY <1>1, DepthOfLabel
<1>3. ASSUME NEW f \in Frame, f.at = "chain", Goto(<<FilledFrame, f>>)
      PROVE  Known'
  <2>1. FilledFrame.at = "filled" /\ FilledFrame \in Frame
    BY FilledIsCalm DEF Frame
  <2>2. <<FilledFrame, f>> \in Seq(Frame) /\ Len(<<FilledFrame, f>>) = 2
        /\ <<FilledFrame, f>>[1] = FilledFrame /\ <<FilledFrame, f>>[2] = f
    BY <2>1
  <2>3. \A j \in 1 .. Len(<<FilledFrame, f>>) :
           Knows(<<FilledFrame, f>>[j], book, matching, taker, TopDepth(calls'))
    BY <1>3, <2>1, <2>2, Indices, KnowsNothing
  <2> QED
    BY <1>1, <1>2, <1>3, <2>2, <2>3, GotoKnown
<1>4. ASSUME NEW id \in DOMAIN book.orders, AtFront(book, taker, id), MatchAgainst(id)
      PROVE  Known'
  <2> DEFINE o == book.orders[id]
             quantity == Lesser(o.LeavesQuantity, taker.LeavesQuantity)
             f == TakeFrame(o.Price, quantity, NextOrder(book, id))
  <2>1. ~IsAON(o)
    BY DEF Calm, CalmBook
  <2>2. ExecuteResting(id, o.Price, quantity, <<f>>)
    BY <1>4, <2>1 DEF MatchAgainst
  <2>3. /\ Unlinked(taker) /\ taker.LeavesQuantity \in 1 .. MaxQuantity
        /\ o.LeavesQuantity \in 1 .. MaxQuantity /\ o.Price \in UInt64
    <3>1. Serves(Call, taker) /\ taker.LeavesQuantity \in 0 .. MaxQuantity /\ Unlinked(taker)
      BY <1>1, CallParts, TakerOfCall
    <3>2. taker.LeavesQuantity > 0
      BY <1>1, <3>1 DEF Serves
    <3> QED
      BY <1>1, <1>4, <3>1, <3>2, PositiveType, LinkedKind, LinkedIsPending
  <2>4. quantity \in 1 .. MaxQuantity /\ quantity \in Nat /\ quantity <= taker.LeavesQuantity
    BY <2>3, LesserType
  <2>5. NextOrder(book, id) \in AnyOrder
    BY <1>1, NextOrderType
  <2> HIDE DEF quantity, o
  <2>6. f \in Frame /\ f.at = "take"
    BY <2>3, <2>4, <2>5, TakeFrameType, TakeIsCalm
  <2> HIDE DEF f
  <2> QED
    BY <1>1, <1>2, <1>4, <2>2, <2>4, <2>6, ExecuteRestingKnown
<1> QED
  BY <1>1, <1>3, <1>4, MatchOrderCases, ReturnKnown

LEMMA ChainKnown ==
    ASSUME VolumeFits, IInv, Calm, Known, ExecuteMatchingChain
    PROVE  Known'
<1>1. calls # << >> /\ Call.at = "chain" /\ Valid(book)
  BY DEF ExecuteMatchingChain, At, IInv
<1>2. Depth(Call) = 6 /\ Depth(Call) > 3
  BY <1>1, DepthOfLabel
<1>3. ASSUME NEW id \in DOMAIN book.orders, NEW f \in Frame,
             AtFront(book, taker, id), f.at = "chain",
             ExecuteResting(id, Call.price,
                            Lesser(book.orders[id].LeavesQuantity, Call.volume), <<f>>)
      PROVE  Known'
  <2>1. book.orders[id].LeavesQuantity \in 1 .. MaxQuantity
    BY <1>1, LinkedIsPending
  <2>2. Call.volume \in UInt64
    BY <1>1, CallParts, FrameParts DEF ChainFrames
  <2>3. Lesser(book.orders[id].LeavesQuantity, Call.volume) \in Nat
    <3>1. book.orders[id].LeavesQuantity \in Nat /\ Call.volume \in Nat
      <4>1. Call.volume \in Nat
        BY <2>2, Numbers, Zenon
      <4> QED
        BY <2>1, <4>1
    <3> QED
      BY <3>1 DEF Lesser
  <2> QED
    BY <1>1, <1>2, <1>3, <2>3, ExecuteRestingKnown
<1> QED
  BY <1>1, <1>3, ChainCases, ReturnKnown

LEMMA TakeKnown ==
    ASSUME IInv, Calm, Known, Take
    PROVE  Known'
<1> DEFINE frames == IF taker.LeavesQuantity = Call.quantity THEN << >>
                     ELSE <<MatchOrderFrame(Call.next)>>
<1>1. calls # << >> /\ Call.at = "take" /\ ExecuteTaker(Call.price, Call.quantity, frames)
  BY DEF Take, At
<1>2. Depth(Call) > 3 /\ Unlinked(taker)
  BY <1>1, DepthOfLabel, TakerOfCall
<1>3. Call.price \in UInt64 /\ Call.quantity \in Nat /\ Call.next \in AnyOrder
  BY <1>1, CallParts, FrameParts, Numbers DEF TakeFrames
<1>4. MatchOrderFrame(Call.next) \in Frame /\ MatchOrderFrame(Call.next).at = "match_order"
  BY <1>3, MatchOrderIsCalm DEF MatchOrderFrame, MatchOrderFrames, Frame
<1>5. frames \in Seq(Frame) /\ \A j \in 1 .. Len(frames) : frames[j].at = "match_order"
  BY <1>4
<1> HIDE DEF frames
<1> QED
  BY <1>1, <1>2, <1>3, <1>5, ExecuteTakerKnown

LEMMA FilledKnown ==
    ASSUME IInv, Calm, Known, Filled
    PROVE  Known'
<1>1. calls # << >> /\ Call.at = "filled"
      /\ ExecuteTaker(taker.Price, taker.LeavesQuantity, << >>)
  BY DEF Filled, At
<1>2. Depth(Call) > 3 /\ Unlinked(taker) /\ taker.LeavesQuantity \in Nat
  BY <1>1, DepthOfLabel, TakerOfCall
<1>3. taker.Price \in UInt64
  BY <1>2 DEF Unlinked, Pending
<1>4. << >> \in Seq(Frame) /\ \A j \in 1 .. Len(<< >>) : << >>[j].at = "match_order"
  OBVIOUS
<1> QED
  BY <1>1, <1>2, <1>3, <1>4, ExecuteTakerKnown

\* What is left of the taker is linked: the market of the other side is not moved.
LEMMA AddedBest ==
    ASSUME NEW b, Valid(b), NEW o \in Pending, o.Type # "MARKET"
    PROVE  LET b2 == AddOrder(b, o)
           IN /\ IsBuy(o) => b2.best["asks"] = b.best["asks"]
              /\ ~IsBuy(o) => b2.best["bids"] = b.best["bids"]
<1> DEFINE k == KeyOf(o)
<1>1. DOMAIN b.best = Collections
  BY BookInvParts DEF Valid, Bests
<1>2. k[1] \in Collections /\ (IsBuy(o) => k[1] # "asks") /\ (~IsBuy(o) => k[1] # "bids")
  BY KeyOfPending DEF StopCollections
<1>3. AddOrder(b, o).best = b.best \/ AddOrder(b, o).best = BestAfterAdd(b, k)
  BY DEF AddOrder
<1> HIDE DEF k
<1>4. \A c \in Collections : c # k[1] => BestAfterAdd(b, k)[c] = b.best[c]
  BY <1>1 DEF BestAfterAdd
<1> QED
  BY <1>2, <1>3, <1>4, SidesAreCollections

LEMMA FinishKnown ==
    ASSUME VolumeFits, IInv, Calm, Known, Finish
    PROVE  Known'
<1> DEFINE rests == taker.LeavesQuantity > 0 /\ Resting(taker)
           duplicate == rests /\ taker.Id \in DOMAIN book.orders
           b == AddOrder(book, taker)
<1>1. /\ calls # << >> /\ Call.at = "finish"
      /\ book' = IF rests /\ ~duplicate THEN b ELSE book
      /\ calls' = IF duplicate THEN << >> ELSE Callers
      /\ taker' = NoTaker /\ matching' = matching /\ fault' = fault
  BY DEF Finish, At, Silent
<1>2. /\ Unlinked(taker) /\ Valid(book) /\ matching \in MarketPrices
      /\ ~fault /\ PlainBook(book) /\ Plain(taker)
  BY <1>1, TakerOfCall, TakerIsSome DEF IInv, Known, PlainTaker
<1>3. Valid(book)'
  BY FinishKeeps DEF Kept, IInv
<1>4. ASSUME rests, ~duplicate
      PROVE  /\ taker \in Pending /\ taker.Type # "MARKET"
             /\ \A i \in DOMAIN book.orders : i \in DOMAIN b.orders /\ b.orders[i] = book.orders[i]
             /\ PlainBook(b)
  <2>1. taker \in Pending /\ taker.Type # "MARKET"
    BY <1>2, <1>4, RestingIsNoMarket DEF Unlinked
  <2>5. taker.Id \notin DOMAIN book.orders
    BY <1>4
  <2>6. /\ DOMAIN b.orders = DOMAIN book.orders \cup {taker.Id}
        /\ \A i \in DOMAIN book.orders \ {taker.Id} : b.orders[i] = book.orders[i]
    BY AddedLevels
  <2> HIDE DEF b
  <2>2. \A i \in DOMAIN book.orders : i \in DOMAIN b.orders /\ b.orders[i] = book.orders[i]
    BY <2>5, <2>6
  <2>3. Plain([taker EXCEPT !.Level = KeyOf(taker)])
    BY <1>2, <2>1 DEF Plain, Pending
  <2>4. PlainBook(b)
    <3>1. b.orders[taker.Id] = [taker EXCEPT !.Level = KeyOf(taker)]
      BY AddedLevels DEF b
    <3> QED
      BY <1>2, <2>2, <2>3, <2>6, <3>1 DEF PlainBook
  <2> QED
    BY <2>1, <2>2, <2>4
<1>5. PlainBook(book')
  BY <1>1, <1>2, <1>4
<1>6. PlainTaker(taker')
  BY <1>1 DEF PlainTaker
<1> HIDE DEF duplicate, rests
<1>7. CASE duplicate
  <2>1. Len(calls') = 0
    BY <1>1, <1>7
  <2> QED
    BY <1>1, <1>2, <1>5, <1>6, <2>1 DEF Known
<1>8. CASE ~duplicate
  <2>1. << >> \in Seq(Frame) /\ Len(<< >>) = 0
    OBVIOUS
  <2>2. Continue(<< >>)
    <3>1. Callers \o << >> = Callers
      BY <1>1, CallersBelow, ConcatEmptySeq
    <3> QED
      BY <1>1, <1>8, <3>1 DEF Continue
  <2>3. Depth(Call) = 4 /\ Depth(Call) > 0 /\ Depth(Call) # 2
    BY <1>1, DepthOfMatching
  <2>4. ~(TopDepth(calls') > 3)
    <3>1. TopDepth(calls') \in 0 .. 6 /\ TopDepth(calls') < Depth(Call)
      BY <1>1, <2>1, <2>2, <2>3, TopOfStack
    <3> QED
      BY <2>3, <3>1
  <2>5. KeepsDue(taker, book, matching, taker', book', matching', TopDepth(calls'))
    <3>1. CASE book' = book
      BY <1>1, <2>4, <3>1 DEF KeepsDue
    <3>2. CASE rests /\ book' = b
      <4> SUFFICES ASSUME NEW i \in DOMAIN book.orders, book.orders[i].Type \in StopTypes,
                          Due(book, matching, book.orders[i]),
                          taker.Side = book.orders[i].Side
                   PROVE  Due(b, matching, book.orders[i])
        BY <1>1, <1>4, <1>8, <2>4, <3>2 DEF KeepsDue
      <4>1. IsBuy(book.orders[i]) <=> IsBuy(taker)
        BY DEF IsBuy
      <4>2. /\ IsBuy(taker) => b.best["asks"] = book.best["asks"]
            /\ ~IsBuy(taker) => b.best["bids"] = book.best["bids"]
        BY <1>2, <1>4, <1>8, <3>2, AddedBest
      <4> HIDE DEF b
      <4>3. /\ IsBuy(taker) => MarketPriceAsk(b, matching) = MarketPriceAsk(book, matching)
            /\ ~IsBuy(taker) => MarketPriceBid(b, matching) = MarketPriceBid(book, matching)
        BY <4>2 DEF MarketPriceAsk, MarketPriceBid, BestPrice
      <4>4. MarketPriceBid(book, matching) \in Nat /\ MarketPriceAsk(book, matching) \in Nat
        BY <1>2, MarketPriceType
      <4>5. /\ IsBuy(taker) => MarketPriceAsk(book, matching) <= MarketPriceAsk(b, matching)
            /\ ~IsBuy(taker) => MarketPriceBid(b, matching) <= MarketPriceBid(book, matching)
        BY <4>3, <4>4
      <4>6. Valid(b)
        BY <1>3, <3>2
      <4> QED
        BY <1>2, <4>1, <4>5, <4>6, DueIsKept
    <3> QED
      BY <1>1, <1>8, <3>1, <3>2
  <2>6. \A j \in 1 .. Len(<< >>) :
           Knows(<< >>[j], book', matching', taker', TopDepth(calls'))
    BY <2>1
  <2> QED
    BY <1>1, <1>2, <1>5, <1>6, <2>1, <2>2, <2>3, <2>5, <2>6, ContinueKnown
<1> QED
  BY <1>7, <1>8

-----------------------------------------------------------------------------
(* Steps that activate stop orders *)

LEMMA NextAtLevel ==
    ASSUME NEW b, Valid(b), NEW id \in DOMAIN b.orders, NextOrder(b, id) # NoOrder
    PROVE  LET next == NextOrder(b, id)
           IN next \in DOMAIN b.orders /\ next # id /\ b.orders[next].Level = b.orders[id].Level
<1> DEFINE k == b.orders[id].Level
           list == b.levels[k].OrderList
           i == CHOOSE n \in 1 .. Len(list) : list[n] = id
<1>1. k \in DOMAIN b.levels /\ i \in 1 .. Len(list) /\ list[i] = id
  BY PlaceOfOrder
<1>2. NextOrder(b, id) = IF i = Len(list) THEN NoOrder ELSE list[i + 1]
  BY DEF NextOrder
<1> HIDE DEF k, i
<1>3. /\ Len(list) \in Nat /\ Distinct(list)
      /\ \A n \in 1 .. Len(list) : list[n] \in DOMAIN b.orders /\ b.orders[list[n]].Level = k
  BY <1>1, QueueOfLevel
<1> HIDE DEF list
<1>4. i + 1 \in 1 .. Len(list) /\ i + 1 # i
  BY <1>1, <1>2, <1>3
<1>5. list[i + 1] # list[i]
  BY <1>1, <1>3, <1>4 DEF Distinct
<1> QED
  BY <1>1, <1>2, <1>3, <1>4, <1>5 DEF k

\* The stop orders of a level have one side and one stop price.
LEMMA StopsOfLevel ==
    ASSUME NEW b, Valid(b), NEW i \in DOMAIN b.orders, NEW j \in DOMAIN b.orders,
           b.orders[i].Type \in StopTypes, b.orders[j].Level = b.orders[i].Level
    PROVE  /\ b.orders[j].Type \in StopTypes
           /\ b.orders[j].StopPrice = b.orders[i].StopPrice
           /\ b.orders[j].Side = b.orders[i].Side
<1> DEFINE o == b.orders[i]
           p == b.orders[j]
<1>1. /\ o.Level = KeyOf(o) /\ o.Type \in StopTypes /\ o.Side \in OrderSide
      /\ KeyOf(o) = <<IF IsBuy(o) THEN "buy_stop" ELSE "sell_stop", o.StopPrice>>
  BY LinkedKind
<1>2. /\ p.Level = KeyOf(p) /\ p.Side \in OrderSide
      /\ p.Type \in {"LIMIT"} \cup StopTypes \cup TrailingTypes
      /\ IsLimit(p) => KeyOf(p) = <<IF IsBuy(p) THEN "bids" ELSE "asks", p.Price>>
      /\ p.Type \in StopTypes =>
            KeyOf(p) = <<IF IsBuy(p) THEN "buy_stop" ELSE "sell_stop", p.StopPrice>>
      /\ p.Type \in TrailingTypes => KeyOf(p)[1] \in {"trailing_buy_stop", "trailing_sell_stop"}
  BY LinkedKind
<1>3. KeyOf(p) = KeyOf(o)
  BY <1>1, <1>2
<1> HIDE DEF o, p
<1>4. KeyOf(p)[1] \in {"buy_stop", "sell_stop"}
  BY <1>1, <1>3
<1>5. p.Type \in StopTypes
  BY <1>2, <1>4 DEF IsLimit
<1>6. /\ (IF IsBuy(p) THEN "buy_stop" ELSE "sell_stop") = (IF IsBuy(o) THEN "buy_stop" ELSE "sell_stop")
      /\ p.StopPrice = o.StopPrice
  BY <1>1, <1>2, <1>3, <1>5
<1>7. IsBuy(p) <=> IsBuy(o)
  BY <1>6
<1>8. p.Side = o.Side
  BY <1>1, <1>2, <1>7 DEF IsBuy, OrderSide
<1> QED
  BY <1>5, <1>6, <1>8 DEF o, p

\* Taking a stop order out does not move the market.
LEMMA SameMarket ==
    ASSUME NEW b, Valid(b), NEW id \in DOMAIN b.orders, b.orders[id].Type \in StopTypes
    PROVE  LET b2 == DeleteOrder(b, id)
           IN b2.best["bids"] = b.best["bids"] /\ b2.best["asks"] = b.best["asks"]
<1> DEFINE b2 == DeleteOrder(b, id)
           k == b.orders[id].Level
<1>1. k[1] \in {"buy_stop", "sell_stop"}
  BY LinkedKind
<1>2. b2.best = b.best \/ b2.best = [b.best EXCEPT ![k[1]] = IF @ = k[2] THEN NextPrice(b, k) ELSE @]
  BY DeletedAtLevel
<1>3. DOMAIN b.best = Collections
  BY BookInvParts DEF Valid, Bests
<1> HIDE DEF b2, k
<1>4. k[1] # "bids" /\ k[1] # "asks"
  BY <1>1
<1>5. b2.best["bids"] = b.best["bids"] /\ b2.best["asks"] = b.best["asks"]
  BY <1>2, <1>3, <1>4, SidesAreCollections
<1> QED
  BY <1>5 DEF b2

\* What is activated is due as long as its level is.
LEMMA DueAtLevel ==
    ASSUME NEW b, Valid(b), NEW b2, NEW m, NEW i \in DOMAIN b.orders, NEW j \in DOMAIN b.orders,
           b.orders[i].Type \in StopTypes, b.orders[j].Level = b.orders[i].Level,
           Due(b, m, b.orders[i]),
           b2.best["bids"] = b.best["bids"], b2.best["asks"] = b.best["asks"]
    PROVE  Due(b2, m, b.orders[j])
<1>1. /\ b.orders[j].Type \in StopTypes
      /\ b.orders[j].StopPrice = b.orders[i].StopPrice
      /\ b.orders[j].Side = b.orders[i].Side
  BY StopsOfLevel
<1>2. MarketPriceAsk(b2, m) = MarketPriceAsk(b, m) /\ MarketPriceBid(b2, m) = MarketPriceBid(b, m)
  BY DEF MarketPriceAsk, MarketPriceBid, BestPrice
<1> QED
  BY <1>1, <1>2, DueMeans DEF IsBuy

\* An order that is activated stays plain.
LEMMA PlainActivated ==
    ASSUME NEW o \in Pending, Plain(o), o.Type # "MARKET"
    PROVE  Plain(Activated(o)) /\ Activated(o).Side = o.Side
<1> DEFINE tif == IF IsFOK(o) THEN "FOK" ELSE "IOC"
<1>1. o.Type \in {"STOP", "TRAILING_STOP"} =>
         Activated(o) = [o EXCEPT !.Type = "MARKET", !.Price = 0, !.StopPrice = 0,
                                  !.TimeInForce = tif]
  BY DEF Activated
<1>2. o.Type \notin {"STOP", "TRAILING_STOP"} =>
         Activated(o) = [o EXCEPT !.Type = "LIMIT", !.StopPrice = 0]
  BY DEF Activated
<1>3. CASE o.Type \in {"STOP", "TRAILING_STOP"}
  BY <1>1, <1>3 DEF Plain, Pending, TrailingTypes
<1>4. CASE o.Type \notin {"STOP", "TRAILING_STOP"}
  BY <1>2, <1>4 DEF Plain, Pending, TrailingTypes
<1> QED
  BY <1>3, <1>4

\* An order taken in hand stays plain.
LEMMA PlainPriced ==
    ASSUME NEW b, NEW o \in Pending, Plain(o)
    PROVE  /\ Plain([Priced(b, o) EXCEPT !.Level = NoLevel])
           /\ Plain([o EXCEPT !.Level = NoLevel])
<1>1. Plain([o EXCEPT !.Level = NoLevel])
  BY DEF Plain, Pending
<1>2. CASE IsMarket(o)
  <2>1. Priced(b, o) = [o EXCEPT !.Price = AcceptablePrice(b, o)] \/ Priced(b, o) = o
    BY DEF Priced
  <2> HIDE DEF Priced
  <2>2. [Priced(b, o) EXCEPT !.Level = NoLevel].Type = "MARKET"
        /\ [Priced(b, o) EXCEPT !.Level = NoLevel].Slippage = o.Slippage
    BY <1>2, <2>1 DEF Pending, IsMarket
  <2> QED
    BY <1>1, <2>2 DEF Plain, TrailingTypes
<1>3. CASE ~IsMarket(o)
  BY <1>1, <1>3 DEF Priced
<1> QED
  BY <1>1, <1>2, <1>3

\* What the frames of a taker's call know.
LEMMA EntryKnows ==
    ASSUME NEW b, NEW m, NEW o \in Pending, NEW t, NEW d, NEW f \in Frame, Knows(f, b, m, t, d)
    PROVE  LET s == <<f, FinishFrame>> \o Matching(b, o)
           IN \A j \in 1 .. Len(s) : Knows(s[j], b, m, t, d)
<1> DEFINE g == MatchOrderFrame(NoOrder)
           u == <<f, FinishFrame>>
           s == u \o Matching(b, o)
<1>1. Knows(FinishFrame, b, m, t, d)
  BY KnowsNothing DEF FinishFrame
<1>2. Knows(g, b, m, t, d)
  BY KnowsNothing DEF MatchOrderFrame
<1>3. Matching(b, o) = << >> \/ Matching(b, o) = <<g>>
  BY DEF Matching
<1>4. FinishFrame \in Frame /\ g \in Frame
  BY DEF Frame, MatchOrderFrame, MatchOrderFrames, AnyOrder
<1>5. u \in Seq(Frame) /\ Len(u) = 2 /\ u[1] = f /\ u[2] = FinishFrame
  BY <1>4
<1> HIDE DEF g
<1>6. \A j \in 1 .. Len(u) : Knows(u[j], b, m, t, d)
  BY <1>1, <1>5, Indices
<1>7. CASE Matching(b, o) = << >>
  <2>1. s = u
    BY <1>5, <1>7, ConcatEmptySeq
  <2> QED
    BY <1>6, <2>1
<1>8. CASE Matching(b, o) = <<g>>
  <2> DEFINE r == <<g>>
  <2>1. r \in Seq(Frame) /\ Len(r) = 1 /\ r[1] = g
    BY <1>4
  <2> HIDE DEF r, u
  <2>2. s = u \o r
    BY <1>8 DEF r
  <2>3. /\ Len(u \o r) = Len(u) + Len(r)
        /\ \A i \in 1 .. Len(u) + Len(r) :
              (u \o r)[i] = IF i <= Len(u) THEN u[i] ELSE r[i - Len(u)]
    BY <1>5, <2>1, ConcatProperties
  <2>4. \A i \in 1 .. Len(u) + Len(r) :
           (i <= Len(u) => i \in 1 .. Len(u)) /\ (~(i <= Len(u)) => i - Len(u) = 1)
    BY <1>5, <2>1
  <2> HIDE DEF s
  <2>5. \A j \in 1 .. Len(s) : Knows(s[j], b, m, t, d)
    BY <1>2, <1>6, <2>1, <2>2, <2>3, <2>4
  <2> QED
    BY <2>5 DEF s, u
<1> QED
  BY <1>3, <1>7, <1>8

LEMMA ActivateKnown ==
    ASSUME VolumeFits, IInv, Calm, Known, Activate
    PROVE  Known'
<1> DEFINE id == Call.order
           old == book.orders[id]
           b == DeleteOrder(book, id)
           o == Activated(old)
           t == [Priced(b, o) EXCEPT !.Level = NoLevel]
           next == NextOrder(book, id)
           f == ActivateFrame(next)
           frames == <<f, FinishFrame>> \o Matching(b, o)
<1>1. calls # << >> /\ Call.at = "activate" /\ Valid(book) /\ Depth(Call) = 3
      /\ CalmFrame(Call) /\ ~fault /\ PlainBook(book)
  BY CallersBelow, DepthOfLabel DEF Activate, At, IInv, Known
<1>2. Knows(Call, book, matching, taker, TopDepth(calls))
  <2>1. Len(calls) \in 1 .. Len(calls)
    BY <1>1, CallOf DEF IInv
  <2> QED
    BY <2>1 DEF Known, Call
<1>3. id # NoOrder => id \in DOMAIN book.orders /\ old.Type \in StopTypes
                      /\ Due(book, matching, old)
  BY <1>1, <1>2 DEF Knows
<1>4. id # NoOrder => ~ErasesForeignLevel(id)
  BY <1>3 DEF ErasesForeignLevel, IsTrailing, StopTypes, TrailingTypes
<1>5. \/ Goto(<< >>)
      \/ /\ id # NoOrder
         /\ book' = b /\ taker' = t /\ Continue(frames)
         /\ matching' = matching /\ fault' = fault
  BY <1>3, <1>4, Zenon DEF Activate, Released, Silent
<1>6. CASE /\ id # NoOrder
           /\ book' = b /\ taker' = t /\ Continue(frames)
           /\ matching' = matching /\ fault' = fault
  <2>1. /\ old \in Pending /\ Plain(old) /\ old.Type # "MARKET"
        /\ old.Type \in StopTypes /\ id \in DOMAIN book.orders /\ Due(book, matching, old)
    BY <1>1, <1>3, <1>6, LinkedIsPending DEF PlainBook, StopTypes
  <2>2. /\ Shrinks(book, b) /\ DOMAIN b.orders = DOMAIN book.orders \ {id}
        /\ \A i \in DOMAIN book.orders \ {id} : b.orders[i] = book.orders[i]
    BY <1>1, <2>1, DeleteShrinks
  <2>3. b.best["bids"] = book.best["bids"] /\ b.best["asks"] = book.best["asks"]
    BY <1>1, <2>1, SameMarket
  <2>4. o \in Pending /\ Plain(o) /\ o.Side = old.Side
    BY <2>1, ActivatedIsPending, PlainActivated
  <2> HIDE DEF b, o
  <2>5. Plain(t) /\ t.Side = old.Side
    <3>1. o \in Pending /\ Plain(o)
      BY <2>4
    <3>2. Plain(t)
      BY <3>1, PlainPriced
    <3>3. t.Side = o.Side
      BY <3>1, PricedKind
    <3> QED
      BY <2>4, <3>2, <3>3
  <2>6. PlainBook(b)
    BY <1>1, <2>2 DEF PlainBook
  <2>7. next \in AnyOrder
    BY <1>1, <2>1, NextOrderType
  <2>8. f \in Frame /\ f.at = "activate" /\ f.order = next /\ CalmFrame(f) /\ Depth(f) = 3
    BY <2>7, ActivateFrameType, OuterFrames DEF ActivateFrame
  <2>9. next # NoOrder =>
           /\ next \in DOMAIN b.orders /\ b.orders[next].Type \in StopTypes
           /\ Due(b, matching, b.orders[next]) /\ t.Side = b.orders[next].Side
    <3> SUFFICES ASSUME next # NoOrder
                 PROVE  /\ next \in DOMAIN b.orders /\ b.orders[next].Type \in StopTypes
                        /\ Due(b, matching, b.orders[next]) /\ t.Side = b.orders[next].Side
      OBVIOUS
    <3>1. next \in DOMAIN book.orders /\ next # id /\ book.orders[next].Level = old.Level
      BY <1>1, <2>1, NextAtLevel
    <3>2. book.orders[next].Type \in StopTypes /\ book.orders[next].Side = old.Side
      BY <1>1, <2>1, <3>1, StopsOfLevel
    <3>3. b.orders[next] = book.orders[next] /\ next \in DOMAIN b.orders
      BY <2>2, <3>1
    <3>4. Due(b, matching, book.orders[next])
      BY <1>1, <2>1, <2>3, <3>1, DueAtLevel
    <3> QED
      BY <2>5, <3>2, <3>3, <3>4
  <2> HIDE DEF next, f, t
  <2>10. \A d : Knows(f, b, matching, t, d)
    BY <2>8, <2>9 DEF Knows
  <2>11. \A d : \A j \in 1 .. Len(frames) : Knows(frames[j], b, matching, t, d)
    BY <2>4, <2>8, <2>10, EntryKnows
  <2>12. frames \in Seq(Frame)
    <3>1. Depth(f) \in 1 .. 3
      BY <2>8
    <3> QED
      BY <2>4, <2>8, <3>1, EntryIsCalm
  <2> HIDE DEF frames
  <2>13. /\ Depth(Call) # 2 /\ ~(Depth(Call) > 3)
    BY <1>1
  <2>14. PlainTaker(t)
    BY <2>5 DEF PlainTaker
  <2> QED
    BY <1>1, <1>6, <2>6, <2>11, <2>12, <2>13, <2>14, ContinueKnown
<1> QED
  BY <1>1, <1>5, <1>6, ReturnKnown

-----------------------------------------------------------------------------
(* Steps of Match *)

\* What the innermost call knows.
LEMMA CallKnows ==
    ASSUME IInv, Calm, Known, calls # << >>
    PROVE  /\ Knows(Call, book, matching, taker, Depth(Call))
           /\ CalmFrame(Call) /\ Valid(book) /\ matching \in MarketPrices
           /\ ~fault /\ PlainBook(book) /\ PlainTaker(taker)
<1>1. Len(calls) \in 1 .. Len(calls)
  BY CallOf DEF IInv
<1>2. TopDepth(calls) = Depth(Call)
  BY DEF TopDepth, Call
<1> QED
  BY <1>1, <1>2, CallersBelow DEF Known, Call, IInv

\* The innermost call goes on as another that knows what it needs.
LEMMA OneKnown ==
    ASSUME IInv, Calm, Known, calls # << >>, NEW f \in Frame, Continue(<<f>>),
           book' = book, matching' = matching, taker' = taker, fault' = fault,
           Depth(Call) = 2 => Depth(f) < 3, Knows(f, book, matching, taker, Depth(f))
    PROVE  Known'
<1> DEFINE s == <<f>>
<1>1. s \in Seq(Frame) /\ Len(s) = 1 /\ s[1] = f /\ s # << >>
  OBVIOUS
<1>2. Continue(s)
  OBVIOUS
<1> HIDE DEF s
<1>3. TopDepth(calls') = Depth(f)
  BY <1>1, <1>2, TopOfStack
<1>4. ~fault /\ PlainBook(book) /\ PlainTaker(taker)
  BY DEF Known
<1>5. KeepsDue(taker, book, matching, taker', book', matching', TopDepth(calls'))
  BY DueIsUnchanged
<1>6. \A j \in 1 .. Len(s) : Knows(s[j], book', matching', taker', TopDepth(calls'))
  BY <1>1, <1>3, Indices
<1> QED
  BY <1>1, <1>2, <1>3, <1>4, <1>5, <1>6, ContinueKnown

\* It returns, and no frame below it needs more than it knows.
LEMMA NoneKnown ==
    ASSUME IInv, Calm, Known, calls # << >>, Continue(<< >>), ~fault',
           PlainBook(book'), PlainTaker(taker'), ~(Depth(Call) > 3),
           Depth(Call) = 2 => book' = book /\ matching' = matching
    PROVE  Known'
<1>1. << >> \in Seq(Frame) /\ Len(<< >>) = 0
  OBVIOUS
<1>2. /\ Depth(Call) \in 0 .. 6 /\ TopDepth(calls') \in 0 .. 6
      /\ TopDepth(calls') <= Depth(Call)
  BY <1>1, TopOfStack
<1>3. Depth(Call) = 2 => TopDepth(calls') < 3
  BY <1>2
<1>4. \A j \in 1 .. Len(<< >>) : Knows(<< >>[j], book', matching', taker', TopDepth(calls'))
  BY <1>1
<1> QED
  BY <1>1, <1>3, <1>4, ContinueKnown

\* Without trailing orders there are no levels of them.
LEMMA NoneTrailing ==
    ASSUME NEW b, Valid(b), PlainBook(b), NEW c \in {"trailing_buy_stop", "trailing_sell_stop"}
    PROVE  ~HasBest(b, c)
<1> SUFFICES ASSUME HasBest(b, c) PROVE FALSE
  OBVIOUS
<1> DEFINE k == BestKey(b, c)
           id == FirstOrder(b, k)
           o == b.orders[id]
<1>1. c \in Collections
  BY DEF Collections, BidCollections, AskCollections
<1>2. k \in DOMAIN b.levels /\ k[1] = c
  BY <1>1, BestKeyType DEF BestKey
<1> HIDE DEF k
<1>3. id \in DOMAIN b.orders /\ KeyOf(o) = k
  BY <1>2, OrderAtLevel
<1>4. /\ IsLimit(o) => KeyOf(o) = <<IF IsBuy(o) THEN "bids" ELSE "asks", o.Price>>
      /\ o.Type \in StopTypes =>
            KeyOf(o) = <<IF IsBuy(o) THEN "buy_stop" ELSE "sell_stop", o.StopPrice>>
      /\ o.Type \in {"LIMIT"} \cup StopTypes \cup TrailingTypes
  BY <1>3, LinkedKind
<1>5. o.Type \notin TrailingTypes
  BY <1>3 DEF PlainBook, Plain
<1> HIDE DEF o
<1>6. KeyOf(o)[1] \in {"bids", "asks", "buy_stop", "sell_stop"}
  BY <1>4, <1>5 DEF IsLimit
<1> QED
  BY <1>2, <1>3, <1>6

\* The stop orders of a side are activated if, and only if, the best of them is due.
LEMMA WhatActivates ==
    ASSUME Valid(book), PlainBook(book), NEW c \in {"buy_stop", "sell_stop"},
           NEW d \in {"trailing_buy_stop", "trailing_sell_stop"}
    PROVE  \/ ActivationOf(c, d) = << >> /\ NoneDue(book, matching, c)
           \/ \E id \in DOMAIN book.orders :
                 /\ ActivationOf(c, d) = <<ActivateFrame(id)>> /\ id \in AnyOrder
                 /\ book.orders[id].Type \in StopTypes /\ Due(book, matching, book.orders[id])
<1>1. Activation(d) = << >>
  BY NoneTrailing DEF Activation
<1>2. ActivationOf(c, d) = Activation(c)
  BY <1>1 DEF ActivationOf
<1>3. CASE ~(HasBest(book, c) /\ Triggered(book, matching, c, book.best[c]))
  BY <1>2, <1>3 DEF Activation, NoneDue
<1>4. CASE HasBest(book, c) /\ Triggered(book, matching, c, book.best[c])
  <2> DEFINE k == BestKey(book, c)
             id == FirstOrder(book, k)
             o == book.orders[id]
  <2>1. c \in Collections
    BY DEF Collections, BidCollections, AskCollections
  <2>2. k \in DOMAIN book.levels /\ k = <<c, book.best[c]>>
    BY <1>4, <2>1, BestKeyType DEF BestKey
  <2>3. Activation(c) = <<ActivateFrame(id)>>
    BY <1>4 DEF Activation
  <2> HIDE DEF k
  <2>4. id \in DOMAIN book.orders /\ KeyOf(o) = k /\ id \in AnyOrder
    BY <2>2, OrderAtLevel, FirstOrderType DEF AnyOrder
  <2>5. /\ IsLimit(o) => KeyOf(o) = <<IF IsBuy(o) THEN "bids" ELSE "asks", o.Price>>
        /\ o.Type \in StopTypes =>
              KeyOf(o) = <<IF IsBuy(o) THEN "buy_stop" ELSE "sell_stop", o.StopPrice>>
        /\ o.Type \in TrailingTypes => KeyOf(o)[1] \in {"trailing_buy_stop", "trailing_sell_stop"}
        /\ o.Type \in {"LIMIT"} \cup StopTypes \cup TrailingTypes
    BY <2>4, LinkedKind
  <2> HIDE DEF o
  <2>6. o.Type \in StopTypes
    BY <2>2, <2>4, <2>5 DEF IsLimit
  <2>7. c = (IF IsBuy(o) THEN "buy_stop" ELSE "sell_stop") /\ o.StopPrice = book.best[c]
    BY <2>2, <2>4, <2>5, <2>6
  <2>8. Due(book, matching, o)
    BY <1>4, <2>6, <2>7, StopCollectionOf DEF Due
  <2> QED
    BY <1>2, <2>3, <2>4, <2>6, <2>8 DEF o
<1> QED
  BY <1>3, <1>4

\* Match in another stage.
LEMMA StageKnown ==
    ASSUME IInv, Calm, Known, calls # << >>, Call.at \in MatchLabels,
           NEW label \in {"match", "buy_stops"},
           NEW activated \in BOOLEAN, NEW again \in BOOLEAN,
           Goto(<<Stage(Call, label, activated, again)>>)
    PROVE  Known'
<1> DEFINE g == Stage(Call, label, activated, again)
<1>1. g \in Frame /\ g.at = label /\ Depth(g) = 1
  BY StageIsCalm
<1>2. Goto(<<g>>)
  OBVIOUS
<1> HIDE DEF g
<1>3. /\ Continue(<<g>>) /\ book' = book /\ matching' = matching /\ taker' = taker
      /\ fault' = fault
  BY <1>2 DEF Goto, Silent
<1>4. Depth(Call) # 2
  BY MatchIsCalm
<1>5. Knows(g, book, matching, taker, Depth(g))
  BY <1>1 DEF Knows
<1> QED
  BY <1>1, <1>3, <1>4, <1>5, OneKnown

LEMMA MatchKnown ==
    ASSUME IInv, Calm, Known, Match
    PROVE  Known'
<1>1. calls # << >> /\ Call.at = "match" /\ Call.at \in MatchLabels
  BY DEF Match, At, MatchLabels
<1>2. ~Crossed(book)
  BY LessIsNotCrossed DEF IInv, Calm, CalmBook
<1>3. ~Call.internal
  BY <1>1, MatchIsCalm
<1>4. Goto(<<Stage(Call, "buy_stops", FALSE, FALSE)>>)
  BY <1>2, <1>3 DEF Match, Stage
<1> QED
  BY <1>1, <1>4, StageKnown

LEMMA RoundKnown ==
    ASSUME IInv, Calm, Known, Round
    PROVE  Known'
<1>1. calls # << >> /\ Call.at = "round" /\ Call.at \in MatchLabels
  BY DEF Round, At, MatchLabels
<1>2. \/ Goto(<<[Call EXCEPT !.at = "buy_stops", !.activated = TRUE, !.again = FALSE]>>)
      \/ Goto(<<[Call EXCEPT !.at = "match"]>>)
      \/ ReturnFromMatch(Call, Callers)
  BY Zenon DEF Round
<1>3. CASE Goto(<<[Call EXCEPT !.at = "buy_stops", !.activated = TRUE, !.again = FALSE]>>)
  <2>1. Goto(<<Stage(Call, "buy_stops", TRUE, FALSE)>>)
    BY <1>3 DEF Stage
  <2> QED
    BY <1>1, <2>1, StageKnown
<1>4. CASE Goto(<<[Call EXCEPT !.at = "match"]>>)
  <2>1. Call.activated \in BOOLEAN /\ Call.again \in BOOLEAN
        /\ [Call EXCEPT !.at = "match"] = Stage(Call, "match", Call.activated, Call.again)
    BY <1>1, MatchFields, StageFields DEF Stage
  <2>2. Goto(<<Stage(Call, "match", Call.activated, Call.again)>>)
    BY <1>4, <2>1
  <2> QED
    BY <1>1, <2>1, <2>2, StageKnown
<1>5. CASE ReturnFromMatch(Call, Callers)
  <2>1. calls' = Callers /\ book' = book /\ taker' = taker /\ fault' = fault
    BY <1>5 DEF ReturnFromMatch, Silent
  <2>2. Callers \o << >> = Callers
    BY <1>1, CallersBelow, ConcatEmptySeq
  <2>3. Continue(<< >>)
    BY <2>1, <2>2 DEF Continue
  <2>4. Depth(Call) # 2 /\ ~(Depth(Call) > 3)
    BY <1>1, MatchIsCalm
  <2> QED
    BY <1>1, <2>1, <2>3, <2>4, CallKnows, NoneKnown
<1> QED
  BY <1>2, <1>3, <1>4, <1>5

\* The stage of Match after a side was gone through, with the orders to activate first.
LEMMA RoundOfStops ==
    ASSUME IInv, Calm, Known, calls # << >>, Call.at \in MatchLabels,
           NEW g \in Frame, NEW side \in {"bid", "ask"},
           g.at \notin {"add", "walk", "activate"}, NEW activation,
           Goto(<<g, RecalculateFrame(side)>> \o activation),
           \/ /\ activation = << >>
              /\ \A d : d < 3 => Knows(g, book, matching, taker, d)
           \/ \E id \in DOMAIN book.orders :
                 /\ activation = <<ActivateFrame(id)>> /\ id \in AnyOrder /\ g.again
                 /\ book.orders[id].Type \in StopTypes /\ Due(book, matching, book.orders[id])
    PROVE  Known'
<1> DEFINE f == RecalculateFrame(side)
           s == <<g, f>>
           u == s \o activation
<1>1. f \in Frame /\ f.at = "recalculate" /\ Depth(f) = 2
  BY RecalculateFrameType, OuterFrames
<1>2. Depth(Call) # 2
  BY MatchIsCalm
<1> HIDE DEF f
<1>3. s \in Seq(Frame) /\ Len(s) = 2 /\ s[1] = g /\ s[2] = f /\ s # << >>
  BY <1>1
<1>4. Goto(u)
  BY DEF s, f
<1>5. \A d : Knows(f, book, matching, taker, d)
  BY <1>1, KnowsNothing
<1> HIDE DEF s
<1>6. CASE /\ activation = << >>
           /\ \A d : d < 3 => Knows(g, book, matching, taker, d)
  <2>1. u = s
    BY <1>3, <1>6, ConcatEmptySeq
  <2>2. Goto(s) /\ Continue(s)
    BY <1>4, <2>1 DEF Goto
  <2>3. TopDepth(calls') = Depth(f)
    BY <1>3, <2>2, TopOfStack
  <2>4. TopDepth(calls') < 3
    BY <1>1, <2>3
  <2>5. \A j \in 1 .. Len(s) : Knows(s[j], book, matching, taker, TopDepth(calls'))
    BY <1>3, <1>5, <1>6, <2>4, Indices
  <2> QED
    BY <1>2, <1>3, <2>2, <2>5, GotoKnown
<1>7. CASE \E id \in DOMAIN book.orders :
              /\ activation = <<ActivateFrame(id)>> /\ id \in AnyOrder /\ g.again
              /\ book.orders[id].Type \in StopTypes /\ Due(book, matching, book.orders[id])
  <2>1. PICK id \in DOMAIN book.orders :
              /\ activation = <<ActivateFrame(id)>> /\ id \in AnyOrder /\ g.again
              /\ book.orders[id].Type \in StopTypes /\ Due(book, matching, book.orders[id])
    BY <1>7
  <2> DEFINE h == ActivateFrame(id)
             r == <<h>>
  <2>2. h \in Frame /\ h.at = "activate" /\ h.order = id /\ Depth(h) = 3
    BY <2>1, ActivateFrameType, OuterFrames DEF ActivateFrame
  <2>3. activation = r
    BY <2>1
  <2> HIDE DEF h
  <2>4. r \in Seq(Frame) /\ Len(r) = 1 /\ r[1] = h /\ r # << >>
    BY <2>2
  <2> HIDE DEF r
  <2>5. u = s \o r
    BY <2>3
  <2>6. /\ Len(s \o r) = Len(s) + Len(r) /\ s \o r \in Seq(Frame)
        /\ \A i \in 1 .. Len(s) + Len(r) :
              (s \o r)[i] = IF i <= Len(s) THEN s[i] ELSE r[i - Len(s)]
    BY <1>3, <2>4, ConcatProperties
  <2>7. Len(s) = 2 /\ Len(r) = 1
    BY <1>3, <2>4
  <2> HIDE DEF u
  <2>8. /\ Len(s) + Len(r) = 3
        /\ 1 \in 1 .. Len(s) + Len(r) /\ 1 <= Len(s)
        /\ 2 \in 1 .. Len(s) + Len(r) /\ 2 <= Len(s)
        /\ 3 \in 1 .. Len(s) + Len(r) /\ ~(3 <= Len(s)) /\ 3 - Len(s) = 1
    BY ONLY <2>7
  <2>9. Len(u) = 3 /\ u[1] = g /\ u[2] = f /\ u[3] = h /\ u \in Seq(Frame)
    BY <1>3, <2>4, <2>5, <2>6, <2>8
  <2>10. u # << >>
    <3>1. Len(u) # 0 /\ Len(<< >>) = 0
      BY <2>9
    <3> QED
      BY <3>1
  <2>11. Continue(u)
    BY <1>4 DEF Goto
  <2>12. TopDepth(calls') = Depth(h)
    BY <2>9, <2>10, <2>11, TopOfStack
  <2>13. ~(TopDepth(calls') > 3)
    BY <2>2, <2>12
  <2>14. id # NoOrder => Knows(h, book, matching, taker, TopDepth(calls'))
    BY <2>1, <2>2, <2>13 DEF Knows
  <2>15. Knows(h, book, matching, taker, TopDepth(calls'))
    BY <2>2, <2>14 DEF Knows
  <2>16. Knows(g, book, matching, taker, TopDepth(calls'))
    BY <2>1 DEF Knows
  <2>17. \A j \in 1 .. 3 : j = 1 \/ j = 2 \/ j = 3
    OBVIOUS
  <2>18. \A j \in 1 .. Len(u) : Knows(u[j], book, matching, taker, TopDepth(calls'))
    BY <1>5, <2>9, <2>15, <2>16, <2>17
  <2> QED
    BY <1>2, <1>4, <2>9, <2>18, GotoKnown
<1> QED
  BY <1>6, <1>7

LEMMA StopsKnown ==
    ASSUME IInv, Calm, Known, Stops
    PROVE  Known'
<1> DEFINE buy == ActivationOf("buy_stop", "trailing_buy_stop")
           sell == ActivationOf("sell_stop", "trailing_sell_stop")
<1>1. \/ /\ calls # << >> /\ Call.at = "buy_stops"
         /\ Goto(<<[Call EXCEPT !.at = "sell_stops", !.again = buy # << >>],
                   RecalculateFrame("ask")>> \o buy)
      \/ /\ calls # << >> /\ Call.at = "sell_stops"
         /\ Goto(<<[Call EXCEPT !.at = "round", !.again = Call.again \/ sell # << >>],
                   RecalculateFrame("bid")>> \o sell)
  BY DEF Stops, At
<1>2. Call.at \in MatchLabels
  BY <1>1 DEF MatchLabels
<1>3. /\ Knows(Call, book, matching, taker, Depth(Call))
      /\ Valid(book) /\ PlainBook(book) /\ Call \in MatchFrames /\ Call.activated \in BOOLEAN
      /\ Call.again \in BOOLEAN
  BY <1>1, <1>2, CallKnows, MatchFields
<1>4. \A id \in DOMAIN book.orders : <<ActivateFrame(id)>> # << >>
  OBVIOUS
<1>5. CASE /\ calls # << >> /\ Call.at = "buy_stops"
           /\ Goto(<<[Call EXCEPT !.at = "sell_stops", !.again = buy # << >>],
                     RecalculateFrame("ask")>> \o buy)
  <2> DEFINE again == buy # << >>
             g == [Call EXCEPT !.at = "sell_stops", !.again = again]
  <2>1. g = Stage(Call, "sell_stops", Call.activated, again) /\ again \in BOOLEAN
    BY <1>3, StageFields DEF Stage
  <2> HIDE DEF again
  <2>2. g \in Frame /\ g.at = "sell_stops" /\ g.again = again
    BY <1>2, <1>3, <1>5, <2>1, StageIsCalm
  <2>3. Goto(<<g, RecalculateFrame("ask")>> \o buy)
    BY <1>5 DEF again
  <2> HIDE DEF g
  <2>4. CASE buy = << >> /\ NoneDue(book, matching, "buy_stop")
    <3>1. \A d : d < 3 => Knows(g, book, matching, taker, d)
      BY <2>2, <2>4 DEF Knows
    <3> HIDE DEF buy
    <3> QED
      BY <1>2, <1>5, <2>2, <2>3, <2>4, <3>1, RoundOfStops
  <2>5. CASE \E id \in DOMAIN book.orders :
                 /\ buy = <<ActivateFrame(id)>> /\ id \in AnyOrder
                 /\ book.orders[id].Type \in StopTypes /\ Due(book, matching, book.orders[id])
    <3> HIDE DEF buy
    <3>1. g.again
      BY <1>4, <2>2, <2>5 DEF again
    <3> QED
      BY <1>2, <1>5, <2>2, <2>3, <2>5, <3>1, RoundOfStops
  <2> QED
    BY <1>3, <2>4, <2>5, WhatActivates
<1>6. CASE /\ calls # << >> /\ Call.at = "sell_stops"
           /\ Goto(<<[Call EXCEPT !.at = "round", !.again = Call.again \/ sell # << >>],
                     RecalculateFrame("bid")>> \o sell)
  <2> DEFINE again == Call.again \/ sell # << >>
             g == [Call EXCEPT !.at = "round", !.again = again]
  <2>1. g = Stage(Call, "round", Call.activated, again) /\ again \in BOOLEAN
    BY <1>3, StageFields DEF Stage
  <2> HIDE DEF again
  <2>2. g \in Frame /\ g.at = "round" /\ g.again = again
    BY <1>2, <1>3, <1>6, <2>1, StageIsCalm
  <2>3. Goto(<<g, RecalculateFrame("bid")>> \o sell)
    BY <1>6 DEF again
  <2> HIDE DEF g
  <2>4. CASE sell = << >> /\ NoneDue(book, matching, "sell_stop")
    <3>1. g.again \/ NoneDue(book, matching, "buy_stop")
      BY <1>3, <1>6, <2>2 DEF Knows, again
    <3>2. \A d : d < 3 => Knows(g, book, matching, taker, d)
      BY <2>2, <2>4, <3>1 DEF Knows
    <3> HIDE DEF sell
    <3> QED
      BY <1>2, <1>6, <2>2, <2>3, <2>4, <3>2, RoundOfStops
  <2>5. CASE \E id \in DOMAIN book.orders :
                 /\ sell = <<ActivateFrame(id)>> /\ id \in AnyOrder
                 /\ book.orders[id].Type \in StopTypes /\ Due(book, matching, book.orders[id])
    <3> HIDE DEF sell
    <3>1. g.again
      BY <1>4, <2>2, <2>5 DEF again
    <3> QED
      BY <1>2, <1>6, <2>2, <2>3, <2>5, <3>1, RoundOfStops
  <2> QED
    BY <1>3, <2>4, <2>5, WhatActivates
<1> QED
  BY <1>1, <1>5, <1>6

\* No trailing orders follow the market.
LEMMA RecalculateKnown ==
    ASSUME IInv, Calm, Known, Recalculate
    PROVE  Known'
<1>1. calls # << >> /\ Call.at = "recalculate" /\ Depth(Call) = 2
      /\ Valid(book) /\ ~fault /\ PlainBook(book) /\ PlainTaker(taker)
  BY CallKnows, DepthOfLabel DEF Recalculate, At
<1> DEFINE c == IF Call.side = "ask" THEN "trailing_buy_stop" ELSE "trailing_sell_stop"
           f == WalkFrom(c, NoLevel, FirstLevel(book, c))
<1>2. \/ Goto(<< >>)
      \/ /\ Continue(<<f>>) \/ Continue(<< >>)
         /\ book' = book /\ matching' = matching /\ taker' = taker /\ fault' = fault
  BY DEF Recalculate
<1>3. c \in Collections /\ NoLevel \in AnyLevel /\ c \in {"trailing_buy_stop", "trailing_sell_stop"}
  BY DEF Collections, BidCollections, AskCollections, AnyLevel
<1> HIDE DEF c
<1>4. FirstLevel(book, c) = NoLevel
  BY <1>1, <1>3, NoneTrailing DEF FirstLevel
<1>5. f \in Frame
  BY <1>1, <1>3, FirstLevelType, WalkFromType
<1>6. f.at = "walk" /\ f.current = NoLevel /\ Depth(f) = 2
  BY <1>4, OuterFrames DEF WalkFrom, WalkFrame
<1> HIDE DEF f
<1>7. CASE /\ Continue(<<f>>)
           /\ book' = book /\ matching' = matching /\ taker' = taker /\ fault' = fault
  <2>1. Depth(f) < 3 /\ Knows(f, book, matching, taker, Depth(f))
    BY <1>6 DEF Knows
  <2> QED
    BY <1>1, <1>5, <1>7, <2>1, OneKnown
<1>8. CASE /\ Continue(<< >>)
           /\ book' = book /\ matching' = matching /\ taker' = taker /\ fault' = fault
  <2>1. ~(Depth(Call) > 3)
    BY <1>1
  <2> QED
    BY <1>1, <1>8, <2>1, NoneKnown
<1> QED
  BY <1>1, <1>2, <1>7, <1>8, ReturnKnown

LEMMA WalkKnown ==
    ASSUME IInv, Calm, Known, Walk
    PROVE  Known'
<1>1. calls # << >> /\ Call.at = "walk"
  BY DEF Walk, At
<1>2. Call.current = NoLevel
  BY <1>1, CallKnows DEF Knows
<1>3. Goto(<< >>)
  BY <1>2 DEF Walk
<1> QED
  BY <1>1, <1>3, ReturnKnown

-----------------------------------------------------------------------------
(* Calls of the manager *)

\* A call of the caller leaves no caller on the stack.
LEMMA NewCallsKnown ==
    ASSUME ~fault, UNCHANGED fault, PlainBook(book'), PlainTaker(taker'), NEW s, calls' = s,
           \A j \in 1 .. Len(s) : Knows(s[j], book', matching', taker', TopDepth(s))
    PROVE  Known'
<1>1. TopDepth(calls') = TopDepth(s) /\ ~fault'
  OBVIOUS
<1> QED
  BY <1>1 DEF Known

LEMMA EndKnows ==
    ASSUME enabled = TRUE
    PROVE  /\ EndOfCall \in Frame
           /\ \A b, m, t, d : Knows(EndOfCall, b, m, t, d)
<1>1. EndOfCall \in Frame /\ EndOfCall.at = "match"
  BY EndIsCalm
<1> QED
  BY <1>1, KnowsNothing

LEMMA SubmitKnown ==
    ASSUME enabled = TRUE, ~fault, NEW b, PlainBook(b), NEW o \in Pending, Plain(o), Submit(b, o)
    PROVE  Known'
<1> DEFINE t == [Priced(b, o) EXCEPT !.Level = NoLevel]
           s == <<EndOfCall, FinishFrame>> \o Matching(b, o)
<1>1. book' = b /\ taker' = t /\ calls' = s /\ UNCHANGED fault
  BY DEF Submit, Silent
<1>2. Plain(t)
  BY PlainPriced
<1>3. PlainTaker(t)
  BY <1>2 DEF PlainTaker
<1>4. \A m, d : \A j \in 1 .. Len(s) : Knows(s[j], b, m, t, d)
  BY EndKnows, EntryKnows
<1> HIDE DEF s, t
<1> QED
  BY <1>1, <1>3, <1>4, NewCallsKnown

LEMMA SettleKnown ==
    ASSUME enabled = TRUE, ~fault, PlainTaker(taker), NEW b, PlainBook(b), Settle(b)
    PROVE  Known'
<1> DEFINE s == <<EndOfCall>>
<1>1. book' = b /\ taker' = taker /\ calls' = s /\ UNCHANGED fault
  BY DEF Settle, Silent
<1>2. Len(s) = 1 /\ s[1] = EndOfCall
  OBVIOUS
<1> HIDE DEF s
<1>3. \A m, t, d : \A j \in 1 .. Len(s) : Knows(s[j], b, m, t, d)
  BY <1>2, EndKnows, Indices
<1> QED
  BY <1>1, <1>3, NewCallsKnown

LEMMA SubmitNewKnown ==
    ASSUME IInv, Known, enabled = TRUE, NEW o \in Pending, Plain(o), SubmitNew(o)
    PROVE  Known'
<1> DEFINE s == <<EndOfCall, FinishFrame>>
<1>1. ~fault /\ PlainBook(book)
  BY DEF Known
<1>2. WithTrailingStop(book, last, o) = o
  BY DEF WithTrailingStop, Plain, IsTrailing, TrailingTypes
<1>3. \/ Submit(book, o)
      \/ o.Type # "MARKET" /\ Submit(book, Activated(o))
      \/ taker' = o /\ calls' = s /\ book' = book /\ UNCHANGED fault
  BY <1>2, Zenon DEF SubmitNew, Silent
<1>4. o.Type # "MARKET" => Activated(o) \in Pending /\ Plain(Activated(o))
  BY ActivatedIsPending, PlainActivated
<1>5. CASE taker' = o /\ calls' = s /\ book' = book /\ UNCHANGED fault
  <2>1. FinishFrame \in Frame
    BY DEF Frame
  <2>2. Len(s) = 2 /\ s[1] = EndOfCall /\ s[2] = FinishFrame
    OBVIOUS
  <2>3. \A m, d : Knows(FinishFrame, book, m, o, d) /\ Knows(EndOfCall, book, m, o, d)
    BY EndKnows, KnowsNothing DEF FinishFrame
  <2> HIDE DEF s
  <2>4. \A m, d : \A j \in 1 .. Len(s) : Knows(s[j], book, m, o, d)
    BY <2>2, <2>3, Indices
  <2>5. PlainTaker(o)
    BY DEF PlainTaker
  <2> QED
    BY <1>1, <1>5, <2>4, <2>5, NewCallsKnown
<1> QED
  BY <1>1, <1>3, <1>4, <1>5, SubmitKnown

LEMMA NewIsPlain ==
    ASSUME NoneTrails, IsCapped, NEW t \in NewOrders, NEW id \in Ids
    PROVE  MakeOrder(t, id) \in Pending /\ Plain(MakeOrder(t, id))
<1>1. MakeOrder(t, id) \in Pending
  BY NewOrderIsUnlinked DEF Unlinked
<1>2. Plain(MakeOrder(t, id))
  BY DEF MakeOrder, Plain, NoneTrails, IsCapped
<1> QED
  BY <1>1, <1>2

LEMMA AddAfterDeleteKnown ==
    ASSUME NoneTrails, IsCapped, IInv, Calm, Known, AddAfterDelete
    PROVE  Known'
<1>1. calls # << >> /\ Call \in AddFrames
  BY CallParts, FrameParts DEF AddAfterDelete, At
<1>2. PICK t \in NewOrders, id \in Ids : Call = AddFrame(MakeOrder(t, id))
  BY <1>1 DEF AddFrames
<1>3. Call.new = MakeOrder(t, id)
  BY <1>2 DEF AddFrame
<1>4. SubmitNew(Call.new) \/ Goto(<< >>)
  BY DEF AddAfterDelete
<1> QED
  BY <1>1, <1>3, <1>4, NewIsPlain, CalmIsEnabled, SubmitNewKnown, ReturnKnown

LEMMA StepKnown ==
    ASSUME VolumeFits, NoneTrails, IsCapped, IInv, Calm, Known, Step
    PROVE  Known'
BY MatchOrderKnown, TakeKnown, FilledKnown, FinishKnown, ChainKnown, MatchKnown, StopsKnown,
   RoundKnown, ActivateKnown, RecalculateKnown, WalkKnown, AddAfterDeleteKnown, NoCrossedCalls
   DEF Step

\* A book without one of its orders, or with less of it.
LEMMA LessIsPlain ==
    ASSUME VolumeFits, IInv, Known, NEW id \in DOMAIN book.orders
    PROVE  /\ PlainBook(DeleteOrder(book, id))
           /\ \A quantity \in Nat : \A o \in Lessened(book.orders[id], quantity) :
                 PlainBook(ReduceOrder(book, o))
           /\ book.orders[id] \in Pending /\ Plain(book.orders[id])
<1>1. Valid(book) /\ PlainBook(book)
  BY DEF IInv, Known
<1>2. PlainBook(DeleteOrder(book, id))
  <2>1. /\ DOMAIN DeleteOrder(book, id).orders = DOMAIN book.orders \ {id}
        /\ \A i \in DOMAIN book.orders \ {id} :
              DeleteOrder(book, id).orders[i] = book.orders[i]
    BY <1>1, DeleteShrinks
  <2> QED
    BY <1>1, <2>1 DEF PlainBook
<1>3. book.orders[id] \in Pending /\ Plain(book.orders[id])
      /\ book.orders[id] \in OrderNode(OrderIds, MaxQuantity)
  BY <1>1, LinkedIsPending DEF PlainBook
<1>4. ASSUME NEW quantity \in Nat, NEW o \in Lessened(book.orders[id], quantity)
      PROVE  PlainBook(ReduceOrder(book, o))
  <2> DEFINE b == ReduceOrder(book, o)
  <2>1. Plain(o)
    BY <1>3, <1>4 DEF Lessened, Executed, Reduced, Plain, OrderNode
  <2>2. /\ o.LeavesQuantity = 0 => b = DeleteOrder(book, id)
        /\ o.LeavesQuantity # 0 => DOMAIN b.orders = DOMAIN book.orders /\ b.orders[id] = o
        /\ \A i \in DOMAIN b.orders \ {id} : b.orders[i] = book.orders[i]
    BY <1>1, <1>4, ReduceShrinksBook
  <2> HIDE DEF b
  <2>3. CASE o.LeavesQuantity = 0
    BY <1>2, <2>2, <2>3 DEF b
  <2>4. CASE o.LeavesQuantity # 0
    BY <1>1, <2>1, <2>2, <2>4 DEF PlainBook, b
  <2> QED
    BY <2>3, <2>4
<1> QED
  BY <1>2, <1>3, <1>4

LEMMA OperationKnown ==
    ASSUME VolumeFits, NoneTrails, IsCapped, IInv, Calm, Known,
           NEW id \in DOMAIN book.orders, Operation(id)
    PROVE  Known'
<1> DEFINE o == book.orders[id]
           b == DeleteOrder(book, id)
<1>1. enabled = TRUE /\ ~fault /\ PlainTaker(taker) /\ PlainBook(b)
      /\ o \in Pending /\ Plain(o)
  BY CalmIsEnabled, LessIsPlain DEF Known
<1> HIDE DEF b, o
<1>2. ASSUME NEW q \in Quantities, ReduceOrderBy(id, q) PROVE Known'
  <2>1. q \in Nat /\ Reduced(book.orders[id], q) \in Lessened(book.orders[id], q)
    BY CallAssumption, Numbers DEF Lessened
  <2>2. PlainBook(ReduceOrder(book, Reduced(book.orders[id], q)))
    BY <2>1, LessIsPlain
  <2> QED
    BY <1>1, <1>2, <2>2, SettleKnown DEF ReduceOrderBy
<1>3. ASSUME NEW p \in Prices, NEW q \in Quantities, NEW mitigate \in BOOLEAN,
             ModifyOrder(id, p, q, mitigate)
      PROVE  Known'
  <2> DEFINE new == Modified(o, p, q, mitigate)
  <2>1. Submit(b, new) \/ Settle(b)
    BY <1>3 DEF ModifyOrder, o, b
  <2>2. new \in Pending
    BY <1>1, ModifiedIsPending
  <2>3. Plain(new)
    BY <1>1 DEF Modified, Plain, Pending, IsCapped
  <2> HIDE DEF new
  <2> QED
    BY <1>1, <2>1, <2>2, <2>3, SubmitKnown, SettleKnown
<1>4. ASSUME NEW newId \in Ids, NEW p \in Prices, NEW q \in Quantities,
             ReplaceOrder(id, newId, p, q)
      PROVE  Known'
  <2> DEFINE new == Replaced(o, newId, p, q)
  <2>1. Submit(b, new)
    BY <1>4 DEF ReplaceOrder, o, b
  <2>2. new \in Pending
    BY <1>1, ReplacedIsPending
  <2>3. Plain(new)
    BY <1>1 DEF Replaced, Plain, Pending, IsCapped
  <2> HIDE DEF new
  <2> QED
    BY <1>1, <2>1, <2>2, <2>3, SubmitKnown
<1>5. ASSUME NEW t \in NewOrders, NEW newId \in Ids, ReplaceOrderWith(id, t, newId)
      PROVE  Known'
  <2> DEFINE f == AddFrame(MakeOrder(t, newId))
             s == <<f, EndOfCall>>
  <2>1. book' = b /\ taker' = taker /\ calls' = s /\ UNCHANGED fault
    BY <1>5 DEF ReplaceOrderWith, Silent, b
  <2>2. f.at = "add" /\ f.new = MakeOrder(t, newId)
    BY DEF AddFrame
  <2>3. Plain(f.new)
    BY <2>2, NewIsPlain
  <2> HIDE DEF f
  <2>4. \A m, d : Knows(f, b, m, taker, d) /\ Knows(EndOfCall, b, m, taker, d)
    BY <1>1, <2>2, <2>3, EndKnows DEF Knows
  <2>5. Len(s) = 2 /\ s[1] = f /\ s[2] = EndOfCall
    OBVIOUS
  <2> HIDE DEF s
  <2>6. \A m, d : \A j \in 1 .. Len(s) : Knows(s[j], b, m, taker, d)
    BY <2>4, <2>5, Indices
  <2> QED
    BY <1>1, <2>1, <2>6, NewCallsKnown
<1>6. ASSUME CancelOrder(id) PROVE Known'
  BY <1>1, <1>6, SettleKnown DEF CancelOrder, b
<1>7. ASSUME NEW p, NEW q \in Quantities, ExecuteOrder(id, p, q) PROVE Known'
  <2> DEFINE lots == Lesser(q, book.orders[id].LeavesQuantity)
             s == <<EndOfCall>>
  <2>1. /\ book' = ReduceOrder(book, Executed(book.orders[id], lots)) /\ calls' = s
        /\ taker' = taker /\ UNCHANGED fault
    BY <1>7 DEF ExecuteOrder
  <2>2. lots \in Nat
    <3>1. q \in 1 .. MaxQuantity /\ book.orders[id].LeavesQuantity \in 1 .. MaxQuantity
      BY CallAssumption, LinkedIsPending DEF IInv
    <3> QED
      BY <3>1, LesserType
  <2> HIDE DEF lots
  <2>3. PlainBook(book')
    <3>1. Executed(book.orders[id], lots) \in Lessened(book.orders[id], lots)
      BY DEF Lessened
    <3> QED
      BY <2>1, <2>2, <3>1, LessIsPlain
  <2>4. Len(s) = 1 /\ s[1] = EndOfCall
    OBVIOUS
  <2> HIDE DEF s
  <2>5. \A m, t, d : \A j \in 1 .. Len(s) : Knows(s[j], book', m, t, d)
    BY <1>1, <2>4, EndKnows, Indices
  <2> QED
    BY <1>1, <2>1, <2>3, <2>5, NewCallsKnown
<1> QED
  BY <1>2, <1>3, <1>4, <1>5, <1>6, <1>7 DEF Operation

LEMMA RequestKnown ==
    ASSUME VolumeFits, Automatic, NoneTrails, IsCapped, IInv, Calm, Known, Request
    PROVE  Known'
<1>1. CASE \E t \in NewOrders, id \in Ids : AddNewOrder(t, id)
  <2>1. PICK t \in NewOrders, id \in Ids : SubmitNew(MakeOrder(t, id))
    BY <1>1 DEF AddNewOrder
  <2> QED
    BY <2>1, NewIsPlain, CalmIsEnabled, SubmitNewKnown
<1>2. CASE \E id \in DOMAIN book.orders : Operation(id)
  BY <1>2, OperationKnown
<1> QED
  BY <1>1, <1>2 DEF Request, Automatic

LEMMA InitKnown ==
    ASSUME Init
    PROVE  Known
<1>1. book = EmptyBook /\ taker = NoTaker /\ Len(calls) = 0 /\ ~fault
  BY DEF Init
<1>2. PlainBook(book)
  BY <1>1 DEF PlainBook, EmptyBook
<1> QED
  BY <1>1, <1>2 DEF Known, PlainTaker

-----------------------------------------------------------------------------
(* The theorems on stop orders *)

\* What the frames know is an invariant, with the one of calm matching.
THEOREM KnownHolds ==
    ASSUME VolumeFits, Automatic, NoneIsAON, NoneTrails, IsCapped
    PROVE  Spec => [](IInv /\ Calm /\ Known)
<1>1. Init => Known
  BY InitKnown
<1>2. IInv /\ Calm /\ Known /\ [Next]_vars => Known'
  <2>1. ASSUME IInv, Calm, Known, UNCHANGED vars PROVE Known'
    BY <2>1 DEF vars, Known
  <2> QED
    BY <2>1, RequestKnown, StepKnown DEF Next
<1> QED
  BY <1>1, <1>2, CalmHolds, PTL DEF Spec

\* No step of MatchOrder, ExecuteMatchingChain or ActivateStopOrders reads an order or a
\* level that a nested call has released.
THEOREM NothingReleasedIsUsed ==
    ASSUME VolumeFits, Automatic, NoneIsAON, NoneTrails, IsCapped
    PROVE  Spec => []NoUseAfterRelease
<1>1. Known => NoUseAfterRelease
  BY DEF Known, NoUseAfterRelease
<1> QED
  BY <1>1, KnownHolds, PTL

\* ActivateStopOrders checks the price of a level once, but the market is still at it
\* when each of its orders is activated, whatever the ones before it traded.
THEOREM DueIsActivated ==
    ASSUME VolumeFits, Automatic, NoneIsAON, NoneTrails, IsCapped
    PROVE  Spec => []ActivationIsDue
<1>1. IInv /\ Calm /\ Known => ActivationIsDue
  <2> SUFFICES ASSUME IInv, Calm, Known, At("activate"), Call.order # NoOrder
               PROVE  LET o == book.orders[Call.order]
                      IN Triggered(book, matching, CollectionOf(o), o.StopPrice)
    BY DEF ActivationIsDue
  <2>1. calls # << >> /\ Call.at = "activate"
    BY DEF At
  <2> QED
    BY <2>1, CallKnows DEF Knows, Due
<1> QED
  BY <1>1, KnownHolds, PTL

\* A stop order is not due if the best of its collection is not.
LEMMA NoneIsDue ==
    ASSUME NEW b, Valid(b), PlainBook(b), NEW m \in MarketPrices,
           NoneDue(b, m, "buy_stop"), NoneDue(b, m, "sell_stop"),
           NEW id \in DOMAIN b.orders, ~IsLimit(b.orders[id])
    PROVE  ~Due(b, m, b.orders[id])
<1> DEFINE o == b.orders[id]
           c == IF IsBuy(o) THEN "buy_stop" ELSE "sell_stop"
           k == KeyOf(o)
<1>1. o.Type \in {"LIMIT"} \cup StopTypes \cup TrailingTypes /\ o.Type \notin TrailingTypes
  BY LinkedKind DEF PlainBook, Plain
<1>2. o.Type \in StopTypes
  BY <1>1 DEF IsLimit
<1>3. k = <<c, o.StopPrice>> /\ o.StopPrice \in UInt64
  BY <1>2, LinkedKind
<1>4. k \in DOMAIN b.levels
  BY LinkedIsPending
<1>5. c \in Collections /\ c \in {"buy_stop", "sell_stop"}
      /\ (c \in BidCollections <=> ~IsBuy(o))
  BY DEF Collections, BidCollections, AskCollections
<1>6. Due(b, m, o) <=> IF IsBuy(o) THEN MarketPriceAsk(b, m) >= o.StopPrice
                       ELSE MarketPriceBid(b, m) <= o.StopPrice
  BY <1>2, DueMeans
<1>7. NoneDue(b, m, c)
  BY <1>5
<1> HIDE DEF o, c, k
<1>8. o.StopPrice \in PricesIn(b, c)
  BY <1>3, <1>4 DEF PricesIn
<1>9. /\ HasBest(b, c) /\ ~Better(c, o.StopPrice, b.best[c])
      /\ b.best[c] \in PricesIn(b, c) /\ PricesIn(b, c) \subseteq UInt64
  BY <1>5, <1>8, BestOfLevels
<1>10. ~Triggered(b, m, c, b.best[c])
  BY <1>7, <1>9 DEF NoneDue
<1>11. /\ MarketPriceBid(b, m) \in Nat /\ MarketPriceAsk(b, m) \in Nat
       /\ b.best[c] \in Nat /\ o.StopPrice \in Nat
  BY <1>3, <1>9, MarketPriceType, Numbers
<1>12. CASE IsBuy(o)
  <2>1. ~(MarketPriceAsk(b, m) >= b.best[c]) /\ ~(o.StopPrice < b.best[c])
    BY <1>5, <1>9, <1>10, <1>12 DEF Triggered, Better
  <2> QED
    BY <1>6, <1>11, <1>12, <2>1 DEF o
<1>13. CASE ~IsBuy(o)
  <2>1. ~(MarketPriceBid(b, m) <= b.best[c]) /\ ~(o.StopPrice > b.best[c])
    BY <1>5, <1>9, <1>10, <1>13 DEF Triggered, Better
  <2> QED
    BY <1>6, <1>11, <1>13, <2>1 DEF o
<1> QED
  BY <1>12, <1>13

\* The step that is taken is the one of the innermost call.
LEMMA OnlyRound ==
    ASSUME IInv, Calm, At("round"), Next
    PROVE  Round
<1>1. calls # << >> /\ Call.at = "round"
  BY DEF At
<1>2. ~Request
  BY <1>1 DEF Request, Idle
<1>3. ~(MatchOrder \/ Take \/ Filled \/ Finish \/ ExecuteMatchingChain \/ Match)
  BY <1>1 DEF MatchOrder, Take, Filled, Finish, ExecuteMatchingChain, Match, At
<1>4. ~(Stops \/ Activate \/ Recalculate \/ Walk \/ AddAfterDelete)
  BY <1>1 DEF Stops, Activate, Recalculate, Walk, AddAfterDelete, At
<1> QED
  BY <1>2, <1>3, <1>4, NoCrossedCalls DEF Next, Step

\* When the rounds of ActivateStopOrders end, no stop order is left that the market has
\* reached.
THEOREM NoStopIsLeft ==
    ASSUME VolumeFits, Automatic, NoneIsAON, NoneTrails, IsCapped
    PROVE  Spec => StopsAreSettled
<1> DEFINE A == At("round") /\ calls' = << >> =>
                   \A id \in DOMAIN book.orders :
                       LET o == book.orders[id]
                       IN ~IsLimit(o) => ~Triggered(book, matching, CollectionOf(o), o.StopPrice)
<1>1. ASSUME IInv, Calm, Known, Next PROVE A
  <2> SUFFICES ASSUME At("round"), calls' = << >>, NEW id \in DOMAIN book.orders,
                      ~IsLimit(book.orders[id])
               PROVE  ~Due(book, matching, book.orders[id])
    BY DEF Due
  <2>1. calls # << >> /\ Call.at = "round" /\ Round /\ Callers \in Seq(Frame)
    BY <1>1, OnlyRound, CallersBelow DEF At
  <2>2. ASSUME NEW f, Goto(<<f>>) PROVE FALSE
    <3>1. Callers \o <<f>> = << >>
      BY <2>2 DEF Goto, Continue
    <3>2. Len(Callers \o <<f>>) = Len(Callers) + 1 /\ Len(Callers) \in Nat
      BY <2>1
    <3> QED
      BY <3>1, <3>2
  <2>3. ~Call.again
    BY <2>1, <2>2 DEF Round
  <2>4. /\ NoneDue(book, matching, "buy_stop") /\ NoneDue(book, matching, "sell_stop")
        /\ Valid(book) /\ PlainBook(book) /\ matching \in MarketPrices
    BY <1>1, <2>1, <2>3, CallKnows DEF Knows
  <2> QED
    BY <2>4, NoneIsDue
<1>2. IInv /\ Calm /\ Known /\ [Next]_vars => [A]_vars
  BY <1>1
<1> HIDE DEF A
<1>3. Spec => [][A]_vars
  BY <1>2, KnownHolds, PTL DEF Spec
<1> QED
  BY <1>3 DEF A, StopsAreSettled


-----------------------------------------------------------------------------
(* What executions leave *)

\* No Fill-Or-Kill orders: what a matching chain adds up to is out of the provers' reach.
NoneIsFOK == \A t \in NewOrders : t.TimeInForce # "FOK"

\* What was executed of an order and what is left of it are no more than the whole, unless
\* ModifyOrder has set it anew.
Sound(o) ==
    /\ NoneIsFOK => ~IsFOK(o)
    /\ "modify" \notin Operations => o.ExecutedQuantity + o.LeavesQuantity <= o.Quantity

SoundBook(b) == \A id \in DOMAIN b.orders : Sound(b.orders[id])
SoundTaker(t) == t # NoTaker => Sound(t)

\* An execution takes no more than the order has left, at a price that the order accepts.
SoundTrade(x) ==
    x # NoTrade =>
        /\ x.quantity <= x.order.LeavesQuantity
        /\ NoneIsFOK /\ IsLimit(x.order) =>
              IF IsBuy(x.order) THEN x.price <= x.order.Price ELSE x.price >= x.order.Price

\* What the taker owes the resting order it is about to trade with.
Owing == IF calls # << >> /\ Call.at = "take"
         THEN (IF IsBuy(taker) THEN -Call.quantity ELSE Call.quantity) ELSE 0

Balanced == /\ SoundBook(book)
            /\ SoundTaker(taker)
            /\ SoundTrade(trade)
            /\ NoneIsFOK => /\ net = Owing
                            /\ \A i \in 1 .. Len(calls) : calls[i].at # "chain"

\* An order with the quantities and the time in force of another one.
LEMMA SoundAs ==
    ASSUME NEW o, Sound(o), NEW p, IsFOK(p) => IsFOK(o), p.Quantity = o.Quantity,
           p.ExecutedQuantity = o.ExecutedQuantity, p.LeavesQuantity = o.LeavesQuantity
    PROVE  Sound(p)
BY DEF Sound

LEMMA SoundActivated ==
    ASSUME NEW o \in Pending, Sound(o)
    PROVE  Sound(Activated(o))
<1> DEFINE p == Activated(o)
           tif == IF IsFOK(o) THEN "FOK" ELSE "IOC"
<1>1. \/ p = [o EXCEPT !.Type = "MARKET", !.Price = 0, !.StopPrice = 0, !.TimeInForce = tif]
      \/ p = [o EXCEPT !.Type = "LIMIT", !.StopPrice = 0]
  BY DEF Activated
<1>2. tif = "FOK" => IsFOK(o)
  OBVIOUS
<1> HIDE DEF p, tif
<1>3. /\ p.Quantity = o.Quantity /\ p.ExecutedQuantity = o.ExecutedQuantity
      /\ p.LeavesQuantity = o.LeavesQuantity
      /\ p.TimeInForce = tif \/ p.TimeInForce = o.TimeInForce
  BY <1>1 DEF Pending
<1> QED
  BY <1>2, <1>3, SoundAs DEF IsFOK, p

LEMMA SoundPriced ==
    ASSUME NEW b, NEW o \in Pending, Sound(o)
    PROVE  Sound([Priced(b, o) EXCEPT !.Level = NoLevel]) /\ Sound([o EXCEPT !.Level = NoLevel])
<1> DEFINE price == AcceptablePrice(b, o)
           q == Priced(b, o)
<1>1. q = [o EXCEPT !.Price = price] \/ q = o
  BY DEF Priced
<1> HIDE DEF price, q
<1>2. /\ [q EXCEPT !.Level = NoLevel].Quantity = o.Quantity
      /\ [q EXCEPT !.Level = NoLevel].ExecutedQuantity = o.ExecutedQuantity
      /\ [q EXCEPT !.Level = NoLevel].LeavesQuantity = o.LeavesQuantity
      /\ [q EXCEPT !.Level = NoLevel].TimeInForce = o.TimeInForce
  BY <1>1 DEF Pending
<1>3. /\ [o EXCEPT !.Level = NoLevel].Quantity = o.Quantity
      /\ [o EXCEPT !.Level = NoLevel].ExecutedQuantity = o.ExecutedQuantity
      /\ [o EXCEPT !.Level = NoLevel].LeavesQuantity = o.LeavesQuantity
      /\ [o EXCEPT !.Level = NoLevel].TimeInForce = o.TimeInForce
  BY DEF Pending
<1>4. Sound([q EXCEPT !.Level = NoLevel])
  BY <1>2, SoundAs DEF IsFOK
<1>5. Sound([o EXCEPT !.Level = NoLevel])
  BY <1>3, SoundAs DEF IsFOK
<1> QED
  BY <1>4, <1>5 DEF q

\* An order that follows the market.
LEMMA SoundFollowing ==
    ASSUME NEW b, NEW l, NEW o \in Pending, Sound(o)
    PROVE  LET p == WithTrailingStop(b, l, o)
           IN Sound(p) /\ (IsFOK(p) => IsFOK(o)) /\ p.Type = o.Type
<1> DEFINE p == WithTrailingStop(b, l, o)
           stop == CalculateTrailingStopPrice(b, l, o)
           price == Wrap(stop + Wrap(o.Price - o.StopPrice))
<1>1. \/ p = [o EXCEPT !.StopPrice = stop]
      \/ p = [o EXCEPT !.StopPrice = stop, !.Price = price]
      \/ p = o
  BY DEF WithTrailingStop, TrailingTypes
<1> HIDE DEF p, stop, price
<1>2. /\ p.Quantity = o.Quantity /\ p.ExecutedQuantity = o.ExecutedQuantity
      /\ p.LeavesQuantity = o.LeavesQuantity /\ p.TimeInForce = o.TimeInForce
      /\ p.Type = o.Type
  BY <1>1 DEF Pending
<1> QED
  BY <1>2, SoundAs DEF IsFOK, p

\* What is left of an order when some of it was executed or taken off.
LEMMA SoundExecuted ==
    ASSUME NEW o \in Pending, Sound(o), NEW quantity \in Nat, quantity <= o.LeavesQuantity
    PROVE  LET p == Executed(o, quantity)
           IN /\ Sound(p) /\ IsFOK(p) = IsFOK(o) /\ p.Type = o.Type
              /\ quantity = o.LeavesQuantity => p.LeavesQuantity = 0
<1> DEFINE p == Executed(o, quantity)
           lesser == Lesser(quantity, o.LeavesQuantity)
<1>1. o.LeavesQuantity \in Nat /\ o.ExecutedQuantity \in Nat /\ o.Quantity \in Nat
  BY Numbers DEF Pending
<1>2. lesser = quantity
  BY <1>1 DEF Lesser
<1>3. /\ p.Quantity = o.Quantity /\ p.ExecutedQuantity = o.ExecutedQuantity + quantity
      /\ p.LeavesQuantity = o.LeavesQuantity - lesser /\ p.TimeInForce = o.TimeInForce
      /\ p.Type = o.Type
  BY DEF Executed, Pending
<1> HIDE DEF p, lesser
<1>4. p.ExecutedQuantity + p.LeavesQuantity = o.ExecutedQuantity + o.LeavesQuantity
  BY <1>1, <1>2, <1>3
<1>5. quantity = o.LeavesQuantity => p.LeavesQuantity = 0
  BY <1>1, <1>2, <1>3
<1> QED
  BY <1>3, <1>4, <1>5 DEF Sound, IsFOK, p

LEMMA SoundReduced ==
    ASSUME NEW o \in Pending, Sound(o), NEW quantity \in Nat
    PROVE  Sound(Reduced(o, quantity))
<1> DEFINE p == Reduced(o, quantity)
           lesser == Lesser(quantity, o.LeavesQuantity)
<1>1. o.LeavesQuantity \in Nat /\ o.ExecutedQuantity \in Nat /\ o.Quantity \in Nat
  BY Numbers DEF Pending
<1>2. lesser \in Nat
  BY <1>1 DEF Lesser
<1>3. /\ p.Quantity = o.Quantity /\ p.ExecutedQuantity = o.ExecutedQuantity
      /\ p.LeavesQuantity = o.LeavesQuantity - lesser /\ p.TimeInForce = o.TimeInForce
      /\ p.Type = o.Type
  BY DEF Reduced, Pending
<1> HIDE DEF p, lesser
<1>4. o.ExecutedQuantity + o.LeavesQuantity <= o.Quantity =>
         p.ExecutedQuantity + p.LeavesQuantity <= p.Quantity
  BY <1>1, <1>2, <1>3
<1> QED
  BY <1>3, <1>4 DEF Sound, IsFOK, IsLimit, p

\* A book without one of its orders, or with less of it.
LEMMA LessIsSound ==
    ASSUME VolumeFits, IInv, Balanced, NEW id \in DOMAIN book.orders
    PROVE  /\ SoundBook(DeleteOrder(book, id))
           /\ \A quantity \in Nat : \A o \in Lessened(book.orders[id], quantity) :
                 Sound(o) => SoundBook(ReduceOrder(book, o))
           /\ book.orders[id] \in Pending /\ Sound(book.orders[id])
<1>1. Valid(book) /\ SoundBook(book)
  BY DEF IInv, Balanced
<1>2. SoundBook(DeleteOrder(book, id))
  <2>1. /\ DOMAIN DeleteOrder(book, id).orders = DOMAIN book.orders \ {id}
        /\ \A i \in DOMAIN book.orders \ {id} :
              DeleteOrder(book, id).orders[i] = book.orders[i]
    BY <1>1, DeleteShrinks
  <2> QED
    BY <1>1, <2>1 DEF SoundBook
<1>3. book.orders[id] \in Pending /\ Sound(book.orders[id])
  BY <1>1, LinkedIsPending DEF SoundBook
<1>4. ASSUME NEW quantity \in Nat, NEW o \in Lessened(book.orders[id], quantity), Sound(o)
      PROVE  SoundBook(ReduceOrder(book, o))
  <2> DEFINE b == ReduceOrder(book, o)
  <2>1. /\ o.LeavesQuantity = 0 => b = DeleteOrder(book, id)
        /\ o.LeavesQuantity # 0 => DOMAIN b.orders = DOMAIN book.orders /\ b.orders[id] = o
        /\ \A i \in DOMAIN b.orders \ {id} : b.orders[i] = book.orders[i]
    BY <1>1, <1>4, ReduceShrinksBook
  <2> HIDE DEF b
  <2>2. CASE o.LeavesQuantity = 0
    BY <1>2, <2>1, <2>2 DEF b
  <2>3. CASE o.LeavesQuantity # 0
    BY <1>1, <1>4, <2>1, <2>3 DEF SoundBook, b
  <2> QED
    BY <2>2, <2>3
<1> QED
  BY <1>2, <1>3, <1>4

\* A book with an order that is linked into it.
LEMMA MoreIsSound ==
    ASSUME NEW b, Valid(b), SoundBook(b), NEW o \in Pending, o.Type # "MARKET", Sound(o)
    PROVE  SoundBook(AddOrder(b, o))
<1> DEFINE b2 == AddOrder(b, o)
           p == [o EXCEPT !.Level = KeyOf(o)]
<1>1. /\ DOMAIN b2.orders = DOMAIN b.orders \cup {o.Id}
      /\ \A id \in DOMAIN b.orders \ {o.Id} : b2.orders[id] = b.orders[id]
      /\ b2.orders[o.Id] = p
  BY AddedLevels
<1>2. /\ p.Quantity = o.Quantity /\ p.ExecutedQuantity = o.ExecutedQuantity
      /\ p.LeavesQuantity = o.LeavesQuantity /\ p.TimeInForce = o.TimeInForce
  BY DEF Pending
<1> HIDE DEF b2, p
<1>3. Sound(p)
  BY <1>2, SoundAs DEF IsFOK
<1> QED
  BY <1>1, <1>3 DEF SoundBook, b2

-----------------------------------------------------------------------------
(* Between executions nothing is owed *)

\* Frames that execute nothing yet.
Quitting(s) == \A i \in 1 .. Len(s) : s[i].at \notin {"take", "chain"}

LEMMA QuittingOne ==
    ASSUME NEW f, f.at \notin {"take", "chain"}
    PROVE  Quitting(<<f>>)
<1> DEFINE s == <<f>>
<1>1. Len(s) = 1 /\ s[1] = f
  OBVIOUS
<1> HIDE DEF s
<1>2. Quitting(s)
  BY <1>1, Indices DEF Quitting
<1> QED
  BY <1>2 DEF s

LEMMA QuittingTwo ==
    ASSUME NEW f, f.at \notin {"take", "chain"}, NEW g, g.at \notin {"take", "chain"}
    PROVE  Quitting(<<f, g>>)
<1> DEFINE s == <<f, g>>
<1>1. Len(s) = 2 /\ s[1] = f /\ s[2] = g
  OBVIOUS
<1> HIDE DEF s
<1>2. Quitting(s)
  BY <1>1, Indices DEF Quitting
<1> QED
  BY <1>2 DEF s

LEMMA QuittingNone == Quitting(<< >>)
<1>1. Len(<< >>) = 0
  OBVIOUS
<1>2. 1 .. 0 = {}
  OBVIOUS
<1> QED
  BY <1>1, <1>2 DEF Quitting

LEMMA QuittingJoin ==
    ASSUME NEW s \in Seq(Frame), NEW r \in Seq(Frame), Quitting(s), Quitting(r)
    PROVE  Quitting(s \o r)
<1>1. /\ Len(s \o r) = Len(s) + Len(r) /\ Len(s) \in Nat /\ Len(r) \in Nat
      /\ \A i \in 1 .. Len(s) + Len(r) :
            (s \o r)[i] = IF i <= Len(s) THEN s[i] ELSE r[i - Len(s)]
  BY ConcatProperties, LenProperties
<1>2. ASSUME NEW i \in 1 .. Len(s) + Len(r)
      PROVE  (i <= Len(s) => i \in 1 .. Len(s)) /\ (~(i <= Len(s)) => i - Len(s) \in 1 .. Len(r))
  BY <1>1
<1> QED
  BY <1>1, <1>2 DEF Quitting

\* A call that executes nothing, and with a taker priced and linked later.
LEMMA QuittingEntry ==
    ASSUME NEW f \in Frame, f.at \notin {"take", "chain"}, NEW b, NEW o
    PROVE  LET s == <<f, FinishFrame>> \o Matching(b, o)
           IN Quitting(s) /\ s \in Seq(Frame)
<1> DEFINE g == MatchOrderFrame(NoOrder)
           u == <<f, FinishFrame>>
           r == <<g>>
<1>1. FinishFrame \in Frame /\ g \in Frame /\ g.at = "match_order" /\ FinishFrame.at = "finish"
  BY DEF Frame, MatchOrderFrame, MatchOrderFrames, AnyOrder, FinishFrame
<1>2. Matching(b, o) = << >> \/ Matching(b, o) = r
  BY DEF Matching
<1> HIDE DEF g
<1>3. u \in Seq(Frame) /\ Quitting(u)
  BY <1>1, QuittingTwo
<1>4. r \in Seq(Frame) /\ Quitting(r)
  BY <1>1, QuittingOne
<1> HIDE DEF u, r
<1>5. Quitting(u \o r) /\ u \o r \in Seq(Frame)
  BY <1>3, <1>4, QuittingJoin, ConcatProperties
<1>6. Quitting(u \o << >>) /\ u \o << >> \in Seq(Frame)
  BY <1>3, ConcatEmptySeq
<1>7. Quitting(u \o Matching(b, o)) /\ u \o Matching(b, o) \in Seq(Frame)
  BY <1>2, <1>5, <1>6
<1> QED
  BY <1>7 DEF u

LEMMA NothingOwedNext ==
    ASSUME Quitting(calls'), calls' \in Seq(Frame)
    PROVE  Owing' = 0
<1> SUFFICES ASSUME calls' # << >> PROVE calls'[Len(calls')].at # "take"
  BY DEF Owing, Call
<1>1. Len(calls') \in 1 .. Len(calls')
  BY EmptySeq, LenProperties
<1> QED
  BY <1>1 DEF Quitting

\* The callers of a call are no executions, but for those of a chain.
LEMMA QuittingCallers ==
    ASSUME IInv, Calm, Balanced, NoneIsFOK, calls # << >>
    PROVE  Quitting(Callers) /\ Call.at # "chain"
<1>1. /\ Callers \in Seq(Frame) /\ Len(Callers) \in Nat /\ CalmFrame(Call)
      /\ \A i \in 1 .. Len(Callers) : Depth(Callers[i]) < Depth(Call)
  BY CallersBelow
<1>2. Len(calls) \in Nat \ {0}
  BY CallOf DEF IInv
<1>3. Len(calls) - 1 \in Int /\ Len(calls) - 1 <= Len(calls) /\ Len(calls) \in 1 .. Len(calls)
  BY <1>2
<1>4. \A i \in 1 .. Len(Callers) : i \in 1 .. Len(calls) /\ Callers[i] = calls[i]
  BY <1>3, OuterStack DEF IInv, Callers
<1>5. \A i \in 1 .. Len(calls) : calls[i].at # "chain"
  BY DEF Balanced
<1>6. Call.at # "chain"
  BY <1>3, <1>5 DEF Call
<1>7. Depth(Call) \in 0 .. 6 /\ ~(Depth(Call) > 5)
  BY <1>1, <1>6, DepthOfCalm
<1>8. ASSUME NEW i \in 1 .. Len(Callers) PROVE Callers[i].at # "take"
  <2>1. Callers[i].at = "take" => Depth(Callers[i]) = 5
    BY DepthOfLabel
  <2>2. Depth(Callers[i]) < Depth(Call)
    BY <1>1
  <2> QED
    BY <1>7, <2>1, <2>2
<1> QED
  BY <1>4, <1>5, <1>6, <1>8 DEF Quitting

\* A step that executes nothing and goes on as frames that do not yet.
LEMMA QuietlyBalanced ==
    ASSUME IInv, Calm, Balanced, calls # << >>, NEW frames \in Seq(Frame), Continue(frames),
           Quitting(frames), SoundBook(book'), SoundTaker(taker'), trade' = NoTrade,
           NoneIsFOK => net' = 0
    PROVE  Balanced'
<1>1. SoundTrade(trade')
  BY DEF SoundTrade
<1>2. ASSUME NoneIsFOK
      PROVE  net' = Owing' /\ \A i \in 1 .. Len(calls') : calls'[i].at # "chain"
  <2>1. Callers \in Seq(Frame) /\ Quitting(Callers)
    BY <1>2, QuittingCallers, CallersBelow
  <2>2. Quitting(calls') /\ calls' \in Seq(Frame)
    BY <2>1, QuittingJoin, ConcatProperties DEF Continue
  <2>3. Owing' = 0
    BY <2>2, NothingOwedNext
  <2> QED
    BY <1>2, <2>2, <2>3 DEF Quitting
<1> QED
  BY <1>1, <1>2 DEF Balanced

LEMMA NetOfQuitting ==
    ASSUME Balanced, NoneIsFOK, calls = << >> \/ Call.at # "take"
    PROVE  net = 0
BY DEF Balanced, Owing

LEMMA GotoBalanced ==
    ASSUME IInv, Calm, Balanced, calls # << >>, Call.at # "take",
           NEW frames \in Seq(Frame), Quitting(frames), Goto(frames)
    PROVE  Balanced'
<1>1. /\ Continue(frames) /\ book' = book /\ taker' = taker /\ trade' = NoTrade /\ net' = net
  BY DEF Goto, Silent
<1>2. SoundBook(book') /\ SoundTaker(taker')
  BY <1>1 DEF Balanced
<1>3. NoneIsFOK => net' = 0
  BY <1>1, NetOfQuitting
<1> QED
  BY <1>1, <1>2, <1>3, QuietlyBalanced

\* The innermost call returns, or goes on as one other.
LEMMA ReturnBalanced ==
    ASSUME IInv, Calm, Balanced, calls # << >>, Call.at # "take", Goto(<< >>)
    PROVE  Balanced'
<1>1. << >> \in Seq(Frame)
  OBVIOUS
<1> QED
  BY <1>1, QuittingNone, GotoBalanced

LEMMA OneBalanced ==
    ASSUME IInv, Calm, Balanced, calls # << >>, Call.at # "take",
           NEW f \in Frame, f.at \notin {"take", "chain"}, Goto(<<f>>)
    PROVE  Balanced'
<1>1. <<f>> \in Seq(Frame)
  OBVIOUS
<1> QED
  BY <1>1, QuittingOne, GotoBalanced

\* With Fill-Or-Kill orders the net is not accounted for.
LEMMA SoundIsBalanced ==
    ASSUME ~NoneIsFOK, SoundBook(book'), SoundTaker(taker'), SoundTrade(trade')
    PROVE  Balanced'
BY DEF Balanced

\* An order of the book is executed: no nested call of Match.
LEMMA RestingMeans ==
    ASSUME VolumeFits, IInv, Calm, NEW id \in DOMAIN book.orders,
           NEW price, NEW quantity \in Nat, NEW frames \in Seq(Frame),
           ExecuteResting(id, price, quantity, frames)
    PROVE  LET o == book.orders[id]
           IN /\ book' = ReduceOrder(book, Executed(o, quantity)) /\ taker' = taker
              /\ trade' = [order |-> o, price |-> price, quantity |-> quantity]
              /\ net' = net + (IF IsBuy(o) THEN quantity ELSE -quantity)
              /\ Continue(frames)
<1> DEFINE o == book.orders[id]
           b == ReduceOrder(book, Executed(o, quantity))
<1>1. Valid(book) /\ CalmBook(book)
  BY DEF IInv, Calm
<1>2. Valid(b) /\ Shrinks(book, b)
  <2>1. Executed(o, quantity) \in Lessened(o, quantity)
    BY DEF Lessened
  <2> QED
    BY <1>1, <2>1, ReduceShrinksBook
<1>3. ~Crossed(b)
  BY <1>1, <1>2, CalmBookShrinks, LessIsNotCrossed DEF CalmBook
<1>4. ReturnInternal(b, o, price, frames) /\ Report(o, price, quantity) /\ taker' = taker
  BY DEF ExecuteResting
<1> HIDE DEF b
<1>5. book' = b /\ Continue(frames \o << >>)
  BY <1>3, <1>4, Zenon DEF ReturnInternal
<1>6. frames \o << >> = frames
  BY ConcatEmptySeq
<1> QED
  BY <1>4, <1>5, <1>6 DEF Report, b

\* An order of the book is executed, in part or whole.
LEMMA RestingIsSound ==
    ASSUME VolumeFits, IInv, Balanced, NEW id \in DOMAIN book.orders, NEW quantity \in Nat,
           quantity <= book.orders[id].LeavesQuantity
    PROVE  SoundBook(ReduceOrder(book, Executed(book.orders[id], quantity)))
<1> DEFINE o == book.orders[id]
           p == Executed(o, quantity)
<1>1. o \in Pending /\ Sound(o)
  BY LessIsSound
<1>2. Sound(p)
  BY <1>1, SoundExecuted
<1>3. p \in Lessened(o, quantity)
  BY DEF Lessened
<1> HIDE DEF p, o
<1>4. SoundBook(ReduceOrder(book, p))
  BY <1>2, <1>3, LessIsSound DEF o
<1> QED
  BY <1>4 DEF p, o

LEMMA MatchAgainstBalanced ==
    ASSUME VolumeFits, IInv, Calm, Balanced, At("match_order"), ~NeedsChain(taker),
           NEW id \in DOMAIN book.orders, AtFront(book, taker, id), MatchAgainst(id)
    PROVE  Balanced'
<1> DEFINE o == book.orders[id]
           quantity == Lesser(o.LeavesQuantity, taker.LeavesQuantity)
           f == TakeFrame(o.Price, quantity, NextOrder(book, id))
<1>1. calls # << >> /\ Call.at = "match_order" /\ Valid(book)
  BY DEF At, IInv
<1>2. /\ Unlinked(taker) /\ taker.LeavesQuantity \in 1 .. MaxQuantity
  <2>1. Unlinked(taker) /\ taker.LeavesQuantity \in 0 .. MaxQuantity
    BY <1>1, TakerOfCall
  <2>2. taker.LeavesQuantity > 0
    BY <1>1, CallParts, Zenon DEF Serves
  <2> QED
    BY <2>1, <2>2, PositiveType
<1>3. /\ o.LeavesQuantity \in 1 .. MaxQuantity /\ o.Price \in UInt64
      /\ IsLimit(o) /\ CollectionOf(o) = Opposite(taker)
  BY <1>1, FrontOrder
<1>4. quantity \in 1 .. MaxQuantity /\ quantity <= o.LeavesQuantity /\ quantity \in Nat
  <2>1. o.LeavesQuantity \in Nat /\ taker.LeavesQuantity \in Nat
    BY <1>2, <1>3, Numbers
  <2>2. quantity <= o.LeavesQuantity
    BY <2>1 DEF Lesser
  <2>3. quantity \in {o.LeavesQuantity, taker.LeavesQuantity}
    BY DEF Lesser
  <2> QED
    BY <1>2, <1>3, <2>1, <2>2, <2>3
<1>5. quantity <= taker.LeavesQuantity
  <2>1. o.LeavesQuantity \in Nat /\ taker.LeavesQuantity \in Nat
    BY <1>2, <1>3, Numbers
  <2> QED
    BY <2>1 DEF Lesser
<1>6. NextOrder(book, id) \in AnyOrder
  BY <1>1, NextOrderType DEF AnyOrder
<1>7. ExecuteResting(id, o.Price, quantity, <<f>>)
  <2>1. ~IsAON(o)
    BY DEF Calm, CalmBook
  <2> QED
    BY <2>1 DEF MatchAgainst
<1>8. SoundBook(ReduceOrder(book, Executed(o, quantity)))
  <2> HIDE DEF quantity
  <2> QED
    BY <1>3, <1>4, RestingIsSound
<1>9. IsBuy(o) <=> ~IsBuy(taker)
  BY <1>3 DEF CollectionOf, Opposite
<1> HIDE DEF quantity
<1>10. f \in Frame /\ f.at = "take" /\ f.quantity = quantity
  <2>1. f.at = "take" /\ f.quantity = quantity
    BY DEF TakeFrame
  <2>2. quantity \in 1 .. MaxQuantity /\ quantity <= taker.LeavesQuantity
    BY <1>4, <1>5
  <2>3. f \in Frame
    BY <1>2, <1>3, <1>6, <2>2, TakeFrameType
  <2> QED
    BY <2>1, <2>3
<1> HIDE DEF f
<1> DEFINE s == <<f>>
<1>11. s \in Seq(Frame) /\ Len(s) = 1 /\ s[1] = f
  BY <1>10
<1>12. ExecuteResting(id, o.Price, quantity, s)
  BY <1>7
<1> HIDE DEF s
<1>13. /\ book' = ReduceOrder(book, Executed(o, quantity)) /\ taker' = taker
       /\ trade' = [order |-> o, price |-> o.Price, quantity |-> quantity]
       /\ net' = net + (IF IsBuy(o) THEN quantity ELSE -quantity)
       /\ Continue(s)
  BY <1>4, <1>11, <1>12, RestingMeans
<1>14. SoundTrade(trade')
  <2>1. trade'.quantity = quantity /\ trade'.order = o /\ trade'.price = o.Price
    BY <1>13
  <2>2. o.Price <= o.Price /\ o.Price >= o.Price
    <3>1. o.Price \in Nat
      BY <1>3, Numbers
    <3> QED
      BY <3>1
  <2> QED
    BY <1>4, <2>1, <2>2 DEF SoundTrade
<1>15. SoundBook(book') /\ SoundTaker(taker')
  BY <1>8, <1>13 DEF Balanced
<1>16. ASSUME NoneIsFOK
       PROVE  net' = Owing' /\ \A i \in 1 .. Len(calls') : calls'[i].at # "chain"
  <2>1. Callers \in Seq(Frame) /\ Quitting(Callers) /\ Len(Callers) \in Nat
    BY <1>1, <1>16, QuittingCallers, CallersBelow
  <2>2. /\ Len(calls') = Len(Callers) + 1
        /\ \A i \in 1 .. Len(Callers) + 1 :
              calls'[i] = IF i <= Len(Callers) THEN Callers[i] ELSE s[i - Len(Callers)]
    <3>1. /\ Len(Callers \o s) = Len(Callers) + Len(s)
          /\ \A i \in 1 .. Len(Callers) + Len(s) :
                (Callers \o s)[i] = IF i <= Len(Callers) THEN Callers[i] ELSE s[i - Len(Callers)]
      BY <1>11, <2>1, ConcatProperties
    <3>2. calls' = Callers \o s /\ Len(s) = 1
      BY <1>11, <1>13 DEF Continue
    <3> QED
      BY <3>1, <3>2, Zenon
  <2>3. Len(Callers) + 1 \in 1 .. Len(Callers) + 1 /\ ~(Len(Callers) + 1 <= Len(Callers))
        /\ Len(Callers) + 1 - Len(Callers) = 1 /\ Len(Callers) + 1 # 0
    BY <2>1
  <2>4. calls' # << >> /\ calls'[Len(calls')] = f
    <3>1. Len(calls') # 0 /\ Len(<< >>) = 0
      BY <2>2, <2>3
    <3> QED
      BY <1>11, <2>2, <2>3, <3>1
  <2>5. Owing' = IF IsBuy(taker) THEN -quantity ELSE quantity
    BY <1>10, <1>13, <2>4 DEF Owing, Call
  <2>6. net = 0
    BY <1>1, <1>16, NetOfQuitting
  <2>7. net' = Owing'
    BY <1>4, <1>9, <1>13, <2>5, <2>6
  <2>8. ASSUME NEW i \in 1 .. Len(calls') PROVE calls'[i].at # "chain"
    <3>1. i <= Len(Callers) => i \in 1 .. Len(Callers)
      BY <2>1, <2>2
    <3>2. ~(i <= Len(Callers)) => i - Len(Callers) = 1
      BY <2>1, <2>2
    <3> QED
      BY <1>10, <1>11, <2>1, <2>2, <3>1, <3>2 DEF Quitting
  <2> QED
    BY <2>7, <2>8
<1> QED
  BY <1>14, <1>15, <1>16 DEF Balanced

\* A taker that needs a chain is a Fill-Or-Kill order.
LEMMA ChainIsFOK ==
    ASSUME Calm, Balanced, Unlinked(taker), NeedsChain(taker)
    PROVE  ~NoneIsFOK /\ IsFOK(taker)
BY TakerIsSome DEF Calm, CalmTaker, Balanced, SoundTaker, Sound, NeedsChain

LEMMA UseBalanced ==
    ASSUME Balanced, UseAfterRelease
    PROVE  Balanced'
BY DEF UseAfterRelease, Balanced, SoundTrade, Owing, Call

LEMMA MatchOrderBalanced ==
    ASSUME VolumeFits, IInv, Calm, Balanced, MatchOrder
    PROVE  Balanced'
<1>1. At("match_order") /\ calls # << >> /\ Call.at = "match_order"
  BY DEF MatchOrder, At
<1>2. Unlinked(taker)
  BY <1>1, TakerOfCall
<1>3. CASE Goto(<< >>)
  BY <1>1, <1>3, ReturnBalanced
<1>4. CASE /\ NeedsChain(taker) /\ HasReached(book, taker)
           /\ \E f \in Frame : f.at = "chain" /\ Goto(<<FilledFrame, f>>)
  <2>1. book' = book /\ taker' = taker /\ trade' = NoTrade
    BY <1>4 DEF Goto, Silent
  <2>2. SoundTrade(trade')
    BY <2>1 DEF SoundTrade
  <2>3. ~NoneIsFOK
    BY <1>2, <1>4, ChainIsFOK
  <2> QED
    BY <2>1, <2>2, <2>3, SoundIsBalanced DEF Balanced
<1>5. CASE /\ ~NeedsChain(taker) /\ HasReached(book, taker)
           /\ \E id \in DOMAIN book.orders : AtFront(book, taker, id) /\ MatchAgainst(id)
  BY <1>1, <1>5, MatchAgainstBalanced
<1> QED
  BY <1>3, <1>4, <1>5, MatchOrderCases

\* The taker pays what it owes.
LEMMA TakeBalanced ==
    ASSUME VolumeFits, IInv, Calm, Balanced, Take
    PROVE  Balanced'
<1> DEFINE t == Executed(taker, Call.quantity)
           frames == IF taker.LeavesQuantity = Call.quantity THEN << >>
                     ELSE <<MatchOrderFrame(Call.next)>>
<1>1. /\ calls # << >> /\ Call.at = "take" /\ ExecuteTaker(Call.price, Call.quantity, frames)
  BY DEF Take, At
<1>2. Unlinked(taker) /\ taker \in Pending /\ taker # NoTaker /\ taker.LeavesQuantity \in Nat
  BY <1>1, TakerOfCall, TakerIsSome, Numbers DEF Unlinked
<1>3. Call \in TakeFrames /\ Call.quantity <= taker.LeavesQuantity
  BY <1>1, CallParts, FrameParts DEF Serves
<1>4. Call.quantity \in Nat /\ Call.next \in AnyOrder /\ Call.price \in UInt64
  BY <1>3, Numbers DEF TakeFrames
<1>5. ~NeedsChain(taker) /\ Reaches(taker, Call.price)
  BY <1>1, CallersBelow DEF Role, Top
<1>6. /\ taker' = t /\ book' = book
      /\ trade' = [order |-> taker, price |-> Call.price, quantity |-> Call.quantity]
      /\ net' = net + (IF IsBuy(taker) THEN Call.quantity ELSE -Call.quantity)
      /\ Continue(frames)
  BY <1>1 DEF ExecuteTaker, Report
<1>7. SoundTaker(taker')
  <2>1. Sound(taker)
    BY <1>2 DEF Balanced, SoundTaker
  <2>2. Sound(t)
    BY <1>2, <1>3, <1>4, <2>1, SoundExecuted
  <2> HIDE DEF t
  <2> QED
    BY <1>6, <2>2 DEF SoundTaker
<1> HIDE DEF t
<1>8. SoundTrade(trade')
  <2>1. trade'.quantity = Call.quantity /\ trade'.order = taker /\ trade'.price = Call.price
    BY <1>6
  <2>2. IF IsBuy(taker) THEN Call.price <= taker.Price ELSE Call.price >= taker.Price
    <3>1. Call.price \in Nat /\ taker.Price \in Nat
      BY <1>2, <1>4, Numbers DEF Pending
    <3> QED
      BY <1>5, <3>1 DEF Reaches
  <2> QED
    BY <1>3, <2>1, <2>2 DEF SoundTrade
<1>9. frames \in Seq(Frame) /\ Quitting(frames)
  <2> DEFINE f == MatchOrderFrame(Call.next)
  <2>1. f \in Frame /\ f.at = "match_order"
    BY <1>4 DEF MatchOrderFrame, MatchOrderFrames, Frame
  <2> HIDE DEF f
  <2>2. Quitting(<<f>>) /\ <<f>> \in Seq(Frame)
    BY <2>1, QuittingOne
  <2>3. Quitting(<< >>) /\ << >> \in Seq(Frame)
    BY QuittingNone
  <2> QED
    BY <2>2, <2>3 DEF f
<1> HIDE DEF frames
<1>10. ASSUME NoneIsFOK
       PROVE  net' = Owing' /\ \A i \in 1 .. Len(calls') : calls'[i].at # "chain"
  <2>1. Callers \in Seq(Frame) /\ Quitting(Callers)
    BY <1>1, <1>10, QuittingCallers, CallersBelow
  <2>2. Quitting(calls') /\ calls' \in Seq(Frame)
    BY <1>6, <1>9, <2>1, QuittingJoin, ConcatProperties DEF Continue
  <2>3. Owing' = 0
    BY <2>2, NothingOwedNext
  <2>4. net = IF IsBuy(taker) THEN -Call.quantity ELSE Call.quantity
    BY <1>1, <1>10 DEF Balanced, Owing
  <2>5. net' = 0
    BY <1>4, <1>6, <2>4
  <2> QED
    BY <2>2, <2>3, <2>5 DEF Quitting
<1> QED
  BY <1>6, <1>7, <1>8, <1>10 DEF Balanced

\* The taker of a chain is filled.
LEMMA FilledBalanced ==
    ASSUME IInv, Calm, Balanced, Filled
    PROVE  Balanced'
<1> DEFINE t == Executed(taker, taker.LeavesQuantity)
<1>1. /\ calls # << >> /\ Call.at = "filled"
      /\ ExecuteTaker(taker.Price, taker.LeavesQuantity, << >>)
  BY DEF Filled, At
<1>2. Unlinked(taker) /\ taker \in Pending /\ taker # NoTaker /\ taker.LeavesQuantity \in Nat
  BY <1>1, TakerOfCall, TakerIsSome, Numbers DEF Unlinked
<1>3. NeedsChain(taker)
  BY <1>1, CallersBelow DEF Role
<1>4. ~NoneIsFOK
  BY <1>2, <1>3, ChainIsFOK
<1>5. /\ taker' = t /\ book' = book
      /\ trade' = [order |-> taker, price |-> taker.Price, quantity |-> taker.LeavesQuantity]
  BY <1>1 DEF ExecuteTaker, Report
<1>6. Sound(t)
  <2>1. Sound(taker) /\ taker.LeavesQuantity <= taker.LeavesQuantity
    BY <1>2 DEF Balanced, SoundTaker
  <2> QED
    BY <1>2, <2>1, SoundExecuted
<1> HIDE DEF t
<1>7. SoundTaker(taker') /\ SoundBook(book')
  BY <1>5, <1>6 DEF SoundTaker, Balanced
<1>8. SoundTrade(trade')
  <2>1. trade'.quantity = taker.LeavesQuantity /\ trade'.order = taker
    BY <1>5
  <2>2. taker.LeavesQuantity <= taker.LeavesQuantity
    BY <1>2
  <2> QED
    BY <1>4, <2>1, <2>2 DEF SoundTrade
<1> QED
  BY <1>4, <1>7, <1>8, SoundIsBalanced

\* What is left of the taker is linked.
LEMMA FinishBalanced ==
    ASSUME IInv, Calm, Balanced, Finish
    PROVE  Balanced'
<1> DEFINE rests == taker.LeavesQuantity > 0 /\ Resting(taker)
           duplicate == rests /\ taker.Id \in DOMAIN book.orders
<1>1. /\ calls # << >> /\ Call.at = "finish"
      /\ book' = IF rests /\ ~duplicate THEN AddOrder(book, taker) ELSE book
      /\ calls' = IF duplicate THEN << >> ELSE Callers
      /\ taker' = NoTaker /\ trade' = NoTrade /\ net' = net
  BY DEF Finish, At, Silent
<1>2. Unlinked(taker) /\ Valid(book) /\ taker \in Pending /\ taker # NoTaker
      /\ taker.LeavesQuantity \in Nat
  BY <1>1, TakerOfCall, TakerIsSome, Numbers DEF IInv, Unlinked
<1>3. SoundBook(book')
  <2>1. SoundBook(book)
    BY DEF Balanced
  <2>2. CASE rests /\ ~duplicate
    <3>1. taker.Type # "MARKET" /\ book' = AddOrder(book, taker)
      BY <1>1, <1>2, <2>2, RestingIsNoMarket
    <3>2. Sound(taker)
      BY <1>2 DEF Balanced, SoundTaker
    <3> QED
      BY <1>2, <2>1, <3>1, <3>2, MoreIsSound
  <2>3. CASE ~(rests /\ ~duplicate)
    BY <1>1, <2>1, <2>3
  <2> QED
    BY <2>2, <2>3
<1>4. SoundTaker(taker') /\ SoundTrade(trade')
  BY <1>1 DEF SoundTaker, SoundTrade
<1> HIDE DEF duplicate
<1>5. ASSUME NoneIsFOK
      PROVE  net' = Owing' /\ \A i \in 1 .. Len(calls') : calls'[i].at # "chain"
  <2>1. Callers \in Seq(Frame) /\ Quitting(Callers)
    BY <1>1, <1>5, QuittingCallers, CallersBelow
  <2>2. << >> \in Seq(Frame) /\ Quitting(<< >>)
    BY QuittingNone
  <2>3. Quitting(calls') /\ calls' \in Seq(Frame)
    BY <1>1, <2>1, <2>2
  <2>4. Owing' = 0
    BY <2>3, NothingOwedNext
  <2>5. net' = 0
    BY <1>1, <1>5, NetOfQuitting
  <2> QED
    BY <2>3, <2>4, <2>5 DEF Quitting
<1> QED
  BY <1>3, <1>4, <1>5 DEF Balanced

\* The orders of a chain are executed; there is one for Fill-Or-Kill orders only.
LEMMA ChainBalanced ==
    ASSUME VolumeFits, IInv, Calm, Balanced, ExecuteMatchingChain
    PROVE  Balanced'
<1>1. calls # << >> /\ Call.at = "chain" /\ Valid(book)
  BY DEF ExecuteMatchingChain, At, IInv
<1>2. ~NoneIsFOK
  BY <1>1, QuittingCallers
<1>3. ASSUME NEW id \in DOMAIN book.orders, NEW f \in Frame, AtFront(book, taker, id),
             ExecuteResting(id, Call.price, Lesser(book.orders[id].LeavesQuantity, Call.volume),
                            <<f>>)
      PROVE  Balanced'
  <2> DEFINE o == book.orders[id]
             quantity == Lesser(o.LeavesQuantity, Call.volume)
             s == <<f>>
  <2>1. o.LeavesQuantity \in 1 .. MaxQuantity /\ IsLimit(o)
    BY <1>1, <1>3, FrontOrder
  <2>2. Call.volume \in Nat
    <3>1. Call \in ChainFrames
      BY <1>1, CallParts, FrameParts
    <3> QED
      BY <3>1, Numbers DEF ChainFrames
  <2>3. quantity \in Nat /\ quantity <= o.LeavesQuantity
    <3>1. o.LeavesQuantity \in Nat
      BY <2>1, Numbers
    <3> QED
      BY <2>2, <3>1 DEF Lesser
  <2>4. s \in Seq(Frame) /\ ExecuteResting(id, Call.price, quantity, s)
    BY <1>3
  <2> HIDE DEF s, quantity
  <2>5. SoundBook(ReduceOrder(book, Executed(o, quantity)))
    BY <2>1, <2>3, RestingIsSound
  <2>6. /\ book' = ReduceOrder(book, Executed(o, quantity)) /\ taker' = taker
        /\ trade' = [order |-> o, price |-> Call.price, quantity |-> quantity]
    BY <2>3, <2>4, RestingMeans
  <2>7. SoundTrade(trade')
    <3>1. trade'.quantity = quantity /\ trade'.order = o
      BY <2>6
    <3> QED
      BY <1>2, <2>3, <3>1 DEF SoundTrade
  <2> QED
    BY <1>2, <2>5, <2>6, <2>7, SoundIsBalanced DEF Balanced
<1> QED
  BY <1>1, <1>3, ChainCases, ReturnBalanced

-----------------------------------------------------------------------------
(* Steps of Match, and of the stop orders *)

LEMMA StageBalanced ==
    ASSUME IInv, Calm, Balanced, calls # << >>, Call.at \in MatchLabels,
           NEW label \in {"match", "buy_stops"},
           NEW activated \in BOOLEAN, NEW again \in BOOLEAN,
           Goto(<<Stage(Call, label, activated, again)>>)
    PROVE  Balanced'
<1> DEFINE g == Stage(Call, label, activated, again)
<1>1. g \in Frame /\ g.at = label
  BY StageIsCalm
<1>2. Goto(<<g>>)
  OBVIOUS
<1> HIDE DEF g
<1>3. Call.at # "take" /\ g.at \notin {"take", "chain"}
  BY <1>1 DEF MatchLabels
<1> QED
  BY <1>1, <1>2, <1>3, OneBalanced

LEMMA MatchBalanced ==
    ASSUME IInv, Calm, Balanced, Match
    PROVE  Balanced'
<1>1. calls # << >> /\ Call.at = "match" /\ Call.at \in MatchLabels
  BY DEF Match, At, MatchLabels
<1>2. ~Crossed(book)
  BY LessIsNotCrossed DEF IInv, Calm, CalmBook
<1>3. ~Call.internal
  BY <1>1, MatchIsCalm
<1>4. Goto(<<Stage(Call, "buy_stops", FALSE, FALSE)>>)
  BY <1>2, <1>3 DEF Match, Stage
<1> QED
  BY <1>1, <1>4, StageBalanced

LEMMA RoundBalanced ==
    ASSUME IInv, Calm, Balanced, Round
    PROVE  Balanced'
<1>1. calls # << >> /\ Call.at = "round" /\ Call.at \in MatchLabels
  BY DEF Round, At, MatchLabels
<1>2. \/ Goto(<<[Call EXCEPT !.at = "buy_stops", !.activated = TRUE, !.again = FALSE]>>)
      \/ Goto(<<[Call EXCEPT !.at = "match"]>>)
      \/ ReturnFromMatch(Call, Callers)
  BY Zenon DEF Round
<1>3. CASE Goto(<<[Call EXCEPT !.at = "buy_stops", !.activated = TRUE, !.again = FALSE]>>)
  <2>1. Goto(<<Stage(Call, "buy_stops", TRUE, FALSE)>>)
    BY <1>3 DEF Stage
  <2> QED
    BY <1>1, <2>1, StageBalanced
<1>4. CASE Goto(<<[Call EXCEPT !.at = "match"]>>)
  <2>1. Call.activated \in BOOLEAN /\ Call.again \in BOOLEAN
        /\ [Call EXCEPT !.at = "match"] = Stage(Call, "match", Call.activated, Call.again)
    BY <1>1, MatchFields, StageFields DEF Stage
  <2>2. Goto(<<Stage(Call, "match", Call.activated, Call.again)>>)
    BY <1>4, <2>1
  <2> QED
    BY <1>1, <2>1, <2>2, StageBalanced
<1>5. CASE ReturnFromMatch(Call, Callers)
  <2>1. /\ calls' = Callers /\ book' = book /\ taker' = taker /\ trade' = NoTrade
        /\ net' = net
    BY <1>5 DEF ReturnFromMatch, Silent
  <2>2. Callers \o << >> = Callers
    BY <1>1, CallersBelow, ConcatEmptySeq
  <2>3. Continue(<< >>)
    BY <2>1, <2>2 DEF Continue
  <2>4. SoundBook(book') /\ SoundTaker(taker')
    BY <2>1 DEF Balanced
  <2>5. NoneIsFOK => net' = 0
    BY <1>1, <2>1, NetOfQuitting
  <2>6. << >> \in Seq(Frame) /\ Quitting(<< >>)
    BY QuittingNone
  <2> QED
    BY <1>1, <2>1, <2>3, <2>4, <2>5, <2>6, QuietlyBalanced
<1> QED
  BY <1>2, <1>3, <1>4, <1>5

\* The stage of Match after a side was gone through, with the orders to activate first.
LEMMA StopsRoundBalanced ==
    ASSUME IInv, Calm, Balanced, calls # << >>, Call.at \in MatchLabels,
           NEW g \in Frame, NEW side \in {"bid", "ask"}, g.at \notin {"take", "chain"},
           NEW activation,
           \/ activation = << >>
           \/ \E order \in AnyOrder : activation = <<ActivateFrame(order)>>,
           Goto(<<g, RecalculateFrame(side)>> \o activation)
    PROVE  Balanced'
<1> DEFINE f == RecalculateFrame(side)
           s == <<g, f>>
<1>1. f \in Frame /\ f.at = "recalculate"
  BY RecalculateFrameType, OuterFrames
<1> HIDE DEF f
<1>2. s \in Seq(Frame) /\ Quitting(s)
  BY <1>1, QuittingTwo
<1>3. activation \in Seq(Frame) /\ Quitting(activation)
  <2>1. CASE activation = << >>
    BY <2>1, QuittingNone
  <2>2. CASE \E order \in AnyOrder : activation = <<ActivateFrame(order)>>
    <3>1. PICK order \in AnyOrder : activation = <<ActivateFrame(order)>>
      BY <2>2
    <3> DEFINE h == ActivateFrame(order)
    <3>2. h \in Frame /\ h.at = "activate"
      BY ActivateFrameType DEF ActivateFrame
    <3> HIDE DEF h
    <3>3. <<h>> \in Seq(Frame) /\ Quitting(<<h>>)
      BY <3>2, QuittingOne
    <3> QED
      BY <3>1, <3>3 DEF h
  <2> QED
    BY <2>1, <2>2
<1>4. Goto(s \o activation)
  BY DEF f
<1> HIDE DEF s
<1>5. s \o activation \in Seq(Frame) /\ Quitting(s \o activation)
  BY <1>2, <1>3, QuittingJoin, ConcatProperties
<1>6. Call.at # "take"
  BY DEF MatchLabels
<1> QED
  BY <1>4, <1>5, <1>6, GotoBalanced

LEMMA StopsBalanced ==
    ASSUME IInv, Calm, Balanced, Stops
    PROVE  Balanced'
<1> DEFINE buy == ActivationOf("buy_stop", "trailing_buy_stop")
           sell == ActivationOf("sell_stop", "trailing_sell_stop")
<1>1. \/ /\ calls # << >> /\ Call.at = "buy_stops"
         /\ Goto(<<[Call EXCEPT !.at = "sell_stops", !.again = buy # << >>],
                   RecalculateFrame("ask")>> \o buy)
      \/ /\ calls # << >> /\ Call.at = "sell_stops"
         /\ Goto(<<[Call EXCEPT !.at = "round", !.again = Call.again \/ sell # << >>],
                   RecalculateFrame("bid")>> \o sell)
  BY DEF Stops, At
<1>2. Call.at \in MatchLabels
  BY <1>1 DEF MatchLabels
<1>3. /\ Valid(book) /\ Call \in MatchFrames /\ Call.activated \in BOOLEAN
      /\ Call.again \in BOOLEAN
  BY <1>1, <1>2, MatchFields DEF IInv
<1>4. /\ \/ buy = << >>
         \/ \E order \in AnyOrder : buy = <<ActivateFrame(order)>>
      /\ \/ sell = << >>
         \/ \E order \in AnyOrder : sell = <<ActivateFrame(order)>>
  BY <1>3, ActivationOfType DEF StopCollections
<1>5. CASE /\ calls # << >> /\ Call.at = "buy_stops"
           /\ Goto(<<[Call EXCEPT !.at = "sell_stops", !.again = buy # << >>],
                     RecalculateFrame("ask")>> \o buy)
  <2> DEFINE again == buy # << >>
             g == [Call EXCEPT !.at = "sell_stops", !.again = again]
  <2>1. g = Stage(Call, "sell_stops", Call.activated, again) /\ again \in BOOLEAN
    BY <1>3, StageFields DEF Stage
  <2> HIDE DEF again
  <2>2. g \in Frame /\ g.at = "sell_stops"
    BY <1>2, <1>3, <1>5, <2>1, StageIsCalm
  <2>3. Goto(<<g, RecalculateFrame("ask")>> \o buy)
    BY <1>5 DEF again
  <2> HIDE DEF g, buy
  <2> QED
    BY <1>2, <1>4, <1>5, <2>2, <2>3, StopsRoundBalanced
<1>6. CASE /\ calls # << >> /\ Call.at = "sell_stops"
           /\ Goto(<<[Call EXCEPT !.at = "round", !.again = Call.again \/ sell # << >>],
                     RecalculateFrame("bid")>> \o sell)
  <2> DEFINE again == Call.again \/ sell # << >>
             g == [Call EXCEPT !.at = "round", !.again = again]
  <2>1. g = Stage(Call, "round", Call.activated, again) /\ again \in BOOLEAN
    BY <1>3, StageFields DEF Stage
  <2> HIDE DEF again
  <2>2. g \in Frame /\ g.at = "round"
    BY <1>2, <1>3, <1>6, <2>1, StageIsCalm
  <2>3. Goto(<<g, RecalculateFrame("bid")>> \o sell)
    BY <1>6 DEF again
  <2> HIDE DEF g, sell
  <2> QED
    BY <1>2, <1>4, <1>6, <2>2, <2>3, StopsRoundBalanced
<1> QED
  BY <1>1, <1>5, <1>6

\* An order is taken from the book and matched as another kind.
LEMMA ActivateBalanced ==
    ASSUME VolumeFits, IInv, Calm, Balanced, Activate
    PROVE  Balanced'
<1> DEFINE id == Call.order
           b == DeleteOrder(book, id)
           o == Activated(book.orders[id])
           t == [Priced(b, o) EXCEPT !.Level = NoLevel]
           f == ActivateFrame(NextOrder(book, id))
           frames == <<f, FinishFrame>> \o Matching(b, o)
<1>1. calls # << >> /\ Call.at = "activate" /\ Valid(book)
  BY DEF Activate, At, IInv
<1>2. \/ Goto(<< >>)
      \/ UseAfterRelease
      \/ /\ id \in DOMAIN book.orders
         /\ book' = b /\ taker' = t /\ Continue(frames)
         /\ trade' = NoTrade /\ net' = net
  BY Zenon DEF Activate, Released, Silent
<1>3. CASE /\ id \in DOMAIN book.orders
           /\ book' = b /\ taker' = t /\ Continue(frames)
           /\ trade' = NoTrade /\ net' = net
  <2>1. SoundBook(b) /\ book.orders[id] \in Pending /\ Sound(book.orders[id])
    BY <1>3, LessIsSound
  <2>2. o \in Pending /\ Sound(o)
    BY <2>1, ActivatedIsPending, SoundActivated
  <2>3. NextOrder(book, id) \in AnyOrder
    BY <1>1, <1>3, NextOrderType
  <2>4. f \in Frame /\ f.at = "activate"
    BY <2>3, ActivateFrameType DEF ActivateFrame
  <2> HIDE DEF f, b, o
  <2>5. Sound(t)
    BY <2>2, SoundPriced
  <2> HIDE DEF t
  <2>6. SoundTaker(taker')
    BY <1>3, <2>5 DEF SoundTaker
  <2>7. frames \in Seq(Frame) /\ Quitting(frames)
    BY <2>4, QuittingEntry
  <2> HIDE DEF frames
  <2>8. NoneIsFOK => net' = 0
    BY <1>1, <1>3, NetOfQuitting
  <2> QED
    BY <1>1, <1>3, <2>1, <2>6, <2>7, <2>8, QuietlyBalanced
<1> QED
  BY <1>1, <1>2, <1>3, ReturnBalanced, UseBalanced

\* A frame that executes nothing, whatever it does to the book.
LEMMA OneQuietlyBalanced ==
    ASSUME IInv, Calm, Balanced, calls # << >>, Call.at # "take", NEW f \in Frame,
           f.at \notin {"take", "chain"}, Continue(<<f>>) \/ Continue(<< >>),
           SoundBook(book'), taker' = taker, trade' = NoTrade, net' = net
    PROVE  Balanced'
<1>1. <<f>> \in Seq(Frame) /\ Quitting(<<f>>)
  BY QuittingOne
<1>2. << >> \in Seq(Frame) /\ Quitting(<< >>)
  BY QuittingNone
<1>3. SoundTaker(taker')
  BY DEF Balanced
<1>4. NoneIsFOK => net' = 0
  BY NetOfQuitting
<1>5. CASE Continue(<<f>>)
  BY <1>1, <1>3, <1>4, <1>5, QuietlyBalanced
<1>6. CASE Continue(<< >>)
  BY <1>2, <1>3, <1>4, <1>6, QuietlyBalanced
<1> QED
  BY <1>5, <1>6

LEMMA RecalculateBalanced ==
    ASSUME IInv, Calm, Balanced, Recalculate
    PROVE  Balanced'
<1>1. calls # << >> /\ Call.at = "recalculate" /\ Valid(book)
  BY DEF Recalculate, At, IInv
<1> DEFINE c == IF Call.side = "ask" THEN "trailing_buy_stop" ELSE "trailing_sell_stop"
           f == WalkFrom(c, NoLevel, FirstLevel(book, c))
<1>2. \/ Goto(<< >>)
      \/ /\ Continue(<<f>>) \/ Continue(<< >>)
         /\ book' = book /\ taker' = taker /\ trade' = NoTrade /\ net' = net
  BY DEF Recalculate
<1>3. c \in Collections /\ NoLevel \in AnyLevel
  BY DEF Collections, BidCollections, AskCollections, AnyLevel
<1>4. f.at = "walk"
  BY DEF WalkFrom, WalkFrame
<1> HIDE DEF c
<1>5. f \in Frame
  BY <1>1, <1>3, FirstLevelType, WalkFromType
<1> HIDE DEF f
<1>6. SoundBook(book)
  BY DEF Balanced
<1> QED
  BY <1>1, <1>2, <1>4, <1>5, <1>6, ReturnBalanced, OneQuietlyBalanced

\* An order that moves keeps what was executed of it.
LEMMA FollowBalanced ==
    ASSUME VolumeFits, IInv, Calm, Balanced, At("walk"), Call.order \in DOMAIN book.orders,
           Follow(Call.order)
    PROVE  Balanced'
<1> DEFINE id == Call.order
           old == book.orders[id]
           o == WithTrailingStop(book, last, old)
           moves == o.StopPrice # old.StopPrice
           b == DeleteOrder(book, id)
           f == [Call EXCEPT !.order = NextOrder(book, id),
                             !.recalculated = Call.recalculated \/ moves]
<1>1. calls # << >> /\ Call.at = "walk" /\ Call \in WalkFrames /\ Valid(book)
  BY CallParts, FrameParts DEF At
<1>2. /\ book' = IF moves THEN AddOrder(b, o) ELSE book
      /\ Continue(<<f>>) /\ taker' = taker /\ trade' = NoTrade /\ net' = net
  BY DEF Follow, Silent
<1>3. NextOrder(book, id) \in AnyOrder
  BY <1>1, NextOrderType
<1>4. f \in Frame /\ f.at = "walk"
  <2>1. moves \in BOOLEAN
    OBVIOUS
  <2> HIDE DEF moves, id
  <2>2. f \in WalkFrames
    BY <1>1, <1>3, <2>1 DEF WalkFrames
  <2>3. f.at = "walk"
    BY <1>1 DEF WalkFrames
  <2> QED
    BY <2>2, <2>3 DEF Frame
<1> HIDE DEF f
<1>5. SoundBook(book')
  <2>1. CASE moves
    <3>1. Valid(b) /\ SoundBook(b)
      BY <1>1, DeleteShrinks, LessIsSound
    <3>2. old \in Pending /\ Sound(old)
      BY LessIsSound
    <3>3. last \in MarketPrices /\ Valid(book)
      BY DEF IInv
    <3> HIDE DEF old
    <3>4. o \in Pending
      BY <3>2, <3>3, FollowingIsPending
    <3>5. o.Type \in TrailingTypes
      BY <2>1, <3>2, FollowingKind
    <3>6. Sound(o)
      BY <3>2, SoundFollowing
    <3> HIDE DEF o
    <3>7. o.Type # "MARKET"
      BY <3>5 DEF TrailingTypes
    <3>8. book' = AddOrder(b, o)
      BY <1>2, <2>1
    <3> HIDE DEF b
    <3> QED
      BY <3>1, <3>4, <3>6, <3>7, <3>8, MoreIsSound
  <2>2. CASE ~moves
    BY <1>2, <2>2 DEF Balanced
  <2> QED
    BY <2>1, <2>2
<1> QED
  BY <1>1, <1>2, <1>4, <1>5, OneQuietlyBalanced

LEMMA WalkBalanced ==
    ASSUME VolumeFits, IInv, Calm, Balanced, Walk
    PROVE  Balanced'
<1>1. At("walk") /\ calls # << >> /\ Call \in WalkFrames /\ Valid(book) /\ Call.at = "walk"
  BY CallParts, FrameParts DEF Walk, At, IInv
<1>2. \/ Goto(<< >>)
      \/ UseAfterRelease
      \/ Call.order \in DOMAIN book.orders /\ Follow(Call.order)
      \/ /\ Call.current # NoLevel
         /\ Call.recalculated => Call.previous \in DOMAIN book.levels \cup {NoLevel}
         /\ Goto(<<NextLevel>>)
  BY <1>1 DEF Walk, Released
<1>3. CASE /\ Call.current # NoLevel
           /\ Call.recalculated => Call.previous \in DOMAIN book.levels \cup {NoLevel}
           /\ Goto(<<NextLevel>>)
  <2>1. NextLevel \in Frame
    BY <1>1, <1>3, NextLevelType
  <2>2. NextLevel.at = "walk"
    BY DEF NextLevel, WalkFrom, WalkFrame
  <2> QED
    BY <1>1, <1>3, <2>1, <2>2, OneBalanced
<1> QED
  BY <1>1, <1>2, <1>3, ReturnBalanced, UseBalanced, FollowBalanced

-----------------------------------------------------------------------------
(* Calls of the manager *)

\* A call of the caller, which executes nothing yet.
LEMMA NewCallsBalanced ==
    ASSUME SoundBook(book'), SoundTaker(taker'), trade' = NoTrade, NoneIsFOK => net' = 0,
           NEW s \in Seq(Frame), Quitting(s), calls' = s
    PROVE  Balanced'
<1>1. SoundTrade(trade')
  BY DEF SoundTrade
<1>2. Quitting(calls') /\ calls' \in Seq(Frame)
  OBVIOUS
<1>3. Owing' = 0
  BY <1>2, NothingOwedNext
<1> QED
  BY <1>1, <1>2, <1>3 DEF Balanced, Quitting

LEMMA EndIsQuitting ==
    ASSUME enabled = TRUE
    PROVE  /\ EndOfCall \in Frame /\ EndOfCall.at = "match"
           /\ <<EndOfCall>> \in Seq(Frame) /\ Quitting(<<EndOfCall>>)
<1> DEFINE g == EndOfCall
<1>1. g \in Frame /\ g.at = "match"
  BY EndIsCalm
<1> HIDE DEF g
<1>2. <<g>> \in Seq(Frame) /\ Quitting(<<g>>)
  BY <1>1, QuittingOne
<1> QED
  BY <1>1, <1>2 DEF g

LEMMA SubmitBalanced ==
    ASSUME enabled = TRUE, NoneIsFOK => net = 0, NEW b, SoundBook(b), NEW o \in Pending,
           Sound(o), Submit(b, o)
    PROVE  Balanced'
<1> DEFINE t == [Priced(b, o) EXCEPT !.Level = NoLevel]
           s == <<EndOfCall, FinishFrame>> \o Matching(b, o)
<1>1. book' = b /\ taker' = t /\ calls' = s /\ trade' = NoTrade /\ net' = net
  BY DEF Submit, Silent
<1>2. SoundTaker(t)
  BY SoundPriced DEF SoundTaker
<1>3. EndOfCall \in Frame /\ EndOfCall.at \notin {"take", "chain"}
  BY EndIsQuitting
<1>4. s \in Seq(Frame) /\ Quitting(s)
  BY <1>3, QuittingEntry
<1> HIDE DEF s, t
<1> QED
  BY <1>1, <1>2, <1>4, NewCallsBalanced

LEMMA SettleBalanced ==
    ASSUME enabled = TRUE, NoneIsFOK => net = 0, SoundTaker(taker), NEW b, SoundBook(b),
           Settle(b)
    PROVE  Balanced'
<1> DEFINE s == <<EndOfCall>>
<1>1. book' = b /\ taker' = taker /\ calls' = s /\ trade' = NoTrade /\ net' = net
  BY DEF Settle, Silent
<1>2. s \in Seq(Frame) /\ Quitting(s)
  BY EndIsQuitting
<1> HIDE DEF s
<1> QED
  BY <1>1, <1>2, NewCallsBalanced

LEMMA SubmitNewBalanced ==
    ASSUME IInv, Balanced, enabled = TRUE, NoneIsFOK => net = 0, NEW o \in Pending, Sound(o),
           SubmitNew(o)
    PROVE  Balanced'
<1> DEFINE new == WithTrailingStop(book, last, o)
           s == <<EndOfCall, FinishFrame>>
<1>1. Valid(book) /\ SoundBook(book) /\ last \in MarketPrices
  BY DEF IInv, Balanced
<1>2. new \in Pending /\ Sound(new)
  BY <1>1, FollowingIsPending, SoundFollowing
<1>3. \/ Submit(book, o)
      \/ Submit(book, Activated(new))
      \/ /\ taker' = new /\ calls' = s
         /\ book' = book /\ trade' = NoTrade /\ net' = net
  BY Zenon DEF SubmitNew, Silent
<1> HIDE DEF new
<1>4. Activated(new) \in Pending /\ Sound(Activated(new))
  BY <1>2, ActivatedIsPending, SoundActivated
<1>5. CASE /\ taker' = new /\ calls' = s
           /\ book' = book /\ trade' = NoTrade /\ net' = net
  <2>1. SoundTaker(new)
    BY <1>2 DEF SoundTaker
  <2>2. FinishFrame \in Frame /\ FinishFrame.at = "finish"
    BY DEF Frame, FinishFrame
  <2>3. EndOfCall \in Frame /\ EndOfCall.at = "match"
    BY EndIsQuitting
  <2>4. s \in Seq(Frame) /\ Quitting(s)
    BY <2>2, <2>3, QuittingTwo
  <2> HIDE DEF s
  <2> QED
    BY <1>1, <1>5, <2>1, <2>4, NewCallsBalanced
<1> QED
  BY <1>1, <1>2, <1>3, <1>4, <1>5, SubmitBalanced

\* Nothing of an order that is entered was executed.
LEMMA NewIsSound ==
    ASSUME NEW t \in NewOrders, NEW id \in Ids
    PROVE  MakeOrder(t, id) \in Pending /\ Sound(MakeOrder(t, id))
<1> DEFINE o == MakeOrder(t, id)
<1>1. o \in Pending
  BY NewOrderIsUnlinked DEF Unlinked
<1>2. /\ o.Quantity = t.Quantity /\ o.ExecutedQuantity = 0 /\ o.LeavesQuantity = t.Quantity
      /\ o.TimeInForce = t.TimeInForce
  BY DEF MakeOrder
<1> HIDE DEF o
<1>3. o.ExecutedQuantity + o.LeavesQuantity <= o.Quantity
  <2>1. o.Quantity \in Nat
    BY <1>1, Numbers DEF Pending
  <2> QED
    BY <1>2, <2>1
<1>4. Sound(o)
  BY <1>2, <1>3 DEF Sound, IsFOK, NoneIsFOK
<1> QED
  BY <1>1, <1>4 DEF o

LEMMA AddAfterDeleteBalanced ==
    ASSUME IInv, Calm, Balanced, AddAfterDelete
    PROVE  Balanced'
<1>1. calls # << >> /\ Call.at = "add" /\ Call \in AddFrames
  BY CallParts, FrameParts DEF AddAfterDelete, At
<1>2. PICK t \in NewOrders, id \in Ids : Call = AddFrame(MakeOrder(t, id))
  BY <1>1 DEF AddFrames
<1>3. Call.new = MakeOrder(t, id)
  BY <1>2 DEF AddFrame
<1>4. SubmitNew(Call.new) \/ Goto(<< >>)
  BY DEF AddAfterDelete
<1>5. NoneIsFOK => net = 0
  BY <1>1, NetOfQuitting
<1> QED
  BY <1>1, <1>3, <1>4, <1>5, NewIsSound, CalmIsEnabled, SubmitNewBalanced, ReturnBalanced

LEMMA StepBalanced ==
    ASSUME VolumeFits, IInv, Calm, Balanced, Step
    PROVE  Balanced'
BY MatchOrderBalanced, TakeBalanced, FilledBalanced, FinishBalanced, ChainBalanced,
   MatchBalanced, StopsBalanced, RoundBalanced, ActivateBalanced, RecalculateBalanced,
   WalkBalanced, AddAfterDeleteBalanced, NoCrossedCalls
   DEF Step

\* What ModifyOrder or MitigateOrder makes of an order.
LEMMA SoundModified ==
    ASSUME NEW o \in Pending, Sound(o), NEW price \in Prices, NEW quantity \in Quantities,
           NEW mitigate \in BOOLEAN, ~mitigate => "modify" \in Operations
    PROVE  LET p == Modified(o, price, quantity, mitigate)
           IN p \in Pending /\ (p.LeavesQuantity > 0 => Sound(p))
<1> DEFINE p == Modified(o, price, quantity, mitigate)
           leaves == IF ~mitigate THEN quantity
                     ELSE IF quantity > o.ExecutedQuantity
                          THEN quantity - o.ExecutedQuantity ELSE 0
<1>1. p \in Pending
  BY ModifiedIsPending
<1>2. p = [o EXCEPT !.Price = price, !.Quantity = quantity, !.LeavesQuantity = leaves]
  BY DEF Modified
<1>3. quantity \in Nat /\ o.ExecutedQuantity \in Nat
  BY CallAssumption DEF Pending
<1>4. mitigate /\ leaves > 0 => o.ExecutedQuantity + leaves <= quantity
  BY <1>3
<1> HIDE DEF p, leaves
<1>5. /\ p.Quantity = quantity /\ p.ExecutedQuantity = o.ExecutedQuantity
      /\ p.LeavesQuantity = leaves /\ p.TimeInForce = o.TimeInForce
  BY <1>2 DEF Pending
<1>6. p.LeavesQuantity > 0 => Sound(p)
  BY <1>4, <1>5 DEF Sound, IsFOK
<1> QED
  BY <1>1, <1>6 DEF p

\* ... and ReplaceOrder.
LEMMA SoundReplaced ==
    ASSUME NEW o \in Pending, Sound(o), NEW newId \in Ids, NEW price \in Prices,
           NEW quantity \in Quantities
    PROVE  Replaced(o, newId, price, quantity) \in Pending
           /\ Sound(Replaced(o, newId, price, quantity))
<1> DEFINE p == Replaced(o, newId, price, quantity)
<1>1. p \in Pending
  BY ReplacedIsPending
<1>2. /\ p.Quantity = quantity /\ p.ExecutedQuantity = 0
      /\ p.LeavesQuantity = quantity /\ p.TimeInForce = o.TimeInForce
  BY DEF Replaced, Pending
<1> HIDE DEF p
<1>3. p.ExecutedQuantity + p.LeavesQuantity <= p.Quantity
  <2>1. quantity \in Nat
    BY CallAssumption
  <2> QED
    BY <1>2, <2>1
<1> QED
  BY <1>1, <1>2, <1>3 DEF Sound, IsFOK, p

LEMMA ExecuteOrderBalanced ==
    ASSUME VolumeFits, IInv, Calm, Balanced, NoneIsFOK => net = 0, "execute" \in Operations,
           NEW id \in DOMAIN book.orders, NEW price, NEW quantity \in Quantities,
           ExecuteOrder(id, price, quantity)
    PROVE  Balanced'
<1> DEFINE o == book.orders[id]
           lots == Lesser(quantity, o.LeavesQuantity)
           p == Executed(o, lots)
           s == <<EndOfCall>>
<1>1. /\ book' = ReduceOrder(book, p) /\ calls' = s
      /\ taker' = taker /\ trade' = NoTrade /\ net' = net
  BY DEF ExecuteOrder
<1>2. lots \in Nat /\ lots <= o.LeavesQuantity
  <2>1. quantity \in 1 .. MaxQuantity /\ o.LeavesQuantity \in 1 .. MaxQuantity
    BY CallAssumption, LinkedIsPending DEF IInv
  <2> QED
    BY <2>1 DEF Lesser
<1> HIDE DEF lots
<1>3. o \in Pending /\ Sound(o)
  BY LessIsSound
<1>4. Sound(p)
  BY <1>2, <1>3, SoundExecuted
<1>5. p \in Lessened(o, lots)
  BY DEF Lessened
<1> HIDE DEF p
<1>6. SoundBook(book')
  BY <1>1, <1>2, <1>4, <1>5, LessIsSound
<1>7. SoundTaker(taker')
  BY <1>1 DEF Balanced
<1>8. s \in Seq(Frame) /\ Quitting(s)
  BY CalmIsEnabled, EndIsQuitting
<1> HIDE DEF s
<1> QED
  BY <1>1, <1>6, <1>7, <1>8, NewCallsBalanced

LEMMA OperationBalanced ==
    ASSUME VolumeFits, IInv, Calm, Balanced, NoneIsFOK => net = 0,
           NEW id \in DOMAIN book.orders, Operation(id)
    PROVE  Balanced'
<1> DEFINE o == book.orders[id]
           b == DeleteOrder(book, id)
<1>1. enabled = TRUE /\ SoundTaker(taker) /\ SoundBook(b) /\ o \in Pending /\ Sound(o)
  BY CalmIsEnabled, LessIsSound DEF Balanced
<1> HIDE DEF b, o
<1>2. ASSUME NEW q \in Quantities, ReduceOrderBy(id, q) PROVE Balanced'
  <2>1. q \in Nat /\ Reduced(book.orders[id], q) \in Lessened(book.orders[id], q)
    BY CallAssumption, Numbers DEF Lessened
  <2>2. Sound(Reduced(book.orders[id], q))
    BY <1>1, <2>1, SoundReduced DEF o
  <2>3. SoundBook(ReduceOrder(book, Reduced(book.orders[id], q)))
    BY <2>1, <2>2, LessIsSound
  <2> QED
    BY <1>1, <1>2, <2>3, SettleBalanced DEF ReduceOrderBy
<1>3. ASSUME NEW p \in Prices, NEW q \in Quantities, NEW mitigate \in BOOLEAN,
             ~mitigate => "modify" \in Operations, ModifyOrder(id, p, q, mitigate)
      PROVE  Balanced'
  <2> DEFINE new == Modified(o, p, q, mitigate)
  <2>1. (new.LeavesQuantity > 0 /\ Submit(b, new)) \/ Settle(b)
    BY <1>3 DEF ModifyOrder, o, b
  <2>2. new \in Pending /\ (new.LeavesQuantity > 0 => Sound(new))
    BY <1>1, <1>3, SoundModified
  <2> HIDE DEF new
  <2> QED
    BY <1>1, <2>1, <2>2, SubmitBalanced, SettleBalanced
<1>4. ASSUME NEW newId \in Ids, NEW p \in Prices, NEW q \in Quantities,
             ReplaceOrder(id, newId, p, q)
      PROVE  Balanced'
  <2> DEFINE new == Replaced(o, newId, p, q)
  <2>1. Submit(b, new)
    BY <1>4 DEF ReplaceOrder, o, b
  <2>2. new \in Pending /\ Sound(new)
    BY <1>1, SoundReplaced
  <2> HIDE DEF new
  <2> QED
    BY <1>1, <2>1, <2>2, SubmitBalanced
<1>5. ASSUME NEW t \in NewOrders, NEW newId \in Ids, ReplaceOrderWith(id, t, newId)
      PROVE  Balanced'
  <2> DEFINE f == AddFrame(MakeOrder(t, newId))
             s == <<f, EndOfCall>>
  <2>1. /\ book' = b /\ taker' = taker /\ calls' = s /\ trade' = NoTrade /\ net' = net
    BY <1>5 DEF ReplaceOrderWith, Silent, b
  <2>2. f \in Frame /\ f.at = "add"
    BY AddFrameType DEF AddFrame
  <2> HIDE DEF f
  <2>3. s \in Seq(Frame) /\ Quitting(s)
    BY <1>1, <2>2, EndIsQuitting, QuittingTwo
  <2> HIDE DEF s
  <2> QED
    BY <1>1, <2>1, <2>3, NewCallsBalanced
<1>6. ASSUME CancelOrder(id) PROVE Balanced'
  BY <1>1, <1>6, SettleBalanced DEF CancelOrder, b
<1>7. ASSUME NEW p, NEW q \in Quantities, "execute" \in Operations, ExecuteOrder(id, p, q)
      PROVE  Balanced'
  BY <1>7, ExecuteOrderBalanced
<1> QED
  BY <1>2, <1>3, <1>4, <1>5, <1>6, <1>7 DEF Operation

LEMMA RequestBalanced ==
    ASSUME VolumeFits, Automatic, IInv, Calm, Balanced, Request
    PROVE  Balanced'
<1>1. NoneIsFOK => net = 0
  BY NetOfQuitting DEF Request, Idle
<1>2. CASE \E t \in NewOrders, id \in Ids : AddNewOrder(t, id)
  <2>1. PICK t \in NewOrders, id \in Ids : SubmitNew(MakeOrder(t, id))
    BY <1>2 DEF AddNewOrder
  <2> QED
    BY <1>1, <2>1, NewIsSound, CalmIsEnabled, SubmitNewBalanced
<1>3. CASE \E id \in DOMAIN book.orders : Operation(id)
  BY <1>1, <1>3, OperationBalanced
<1> QED
  BY <1>2, <1>3 DEF Request, Automatic

LEMMA InitBalanced ==
    ASSUME Init
    PROVE  Balanced
<1>1. /\ book = EmptyBook /\ taker = NoTaker /\ calls = << >> /\ trade = NoTrade /\ net = 0
  BY DEF Init
<1>2. SoundBook(book)
  BY <1>1 DEF SoundBook, EmptyBook
<1>3. \A i \in 1 .. Len(calls) : calls[i].at # "chain"
  BY <1>1, QuittingNone DEF Quitting
<1> QED
  BY <1>1, <1>2, <1>3 DEF Balanced, SoundTaker, SoundTrade, Owing

-----------------------------------------------------------------------------
(* The theorems on what trades *)

\* What executions leave is an invariant, with the one of calm matching.
THEOREM BalancedHolds ==
    ASSUME VolumeFits, Automatic, NoneIsAON
    PROVE  Spec => [](IInv /\ Calm /\ Balanced)
<1>1. Init => Balanced
  BY InitBalanced
<1>2. IInv /\ Calm /\ Balanced /\ [Next]_vars => Balanced'
  <2>1. ASSUME IInv, Calm, Balanced, UNCHANGED vars PROVE Balanced'
    BY <2>1 DEF vars, Balanced, Owing, Call
  <2> QED
    BY <2>1, RequestBalanced, StepBalanced DEF Next
<1> QED
  BY <1>1, <1>2, CalmHolds, PTL DEF Spec

\* Whenever a call has returned, what matching bought it has sold: nested calls, stop
\* orders they activate and orders they link between two executions leave no half of
\* one behind.
THEOREM NetIsZeroHolds ==
    ASSUME VolumeFits, Automatic, NoneIsAON, NoneIsFOK
    PROVE  Spec => []NetIsZero
<1>1. Balanced => NetIsZero
  BY NetOfQuitting DEF NetIsZero, Idle
<1> QED
  BY <1>1, BalancedHolds, PTL

\* No execution of a limit order is at a price worse than its own: neither of the order
\* that rests nor of the one that meets it.
THEOREM PriceIsAcceptableHolds ==
    ASSUME VolumeFits, Automatic, NoneIsAON, NoneIsFOK
    PROVE  Spec => []PriceIsAcceptable
<1>1. Balanced => PriceIsAcceptable
  BY DEF Balanced, SoundTrade, PriceIsAcceptable
<1> QED
  BY <1>1, BalancedHolds, PTL

\* No execution takes more than the order has left, and none is filled beyond its quantity,
\* unless ModifyOrder forgets what was executed.
THEOREM NotOverfilledHolds ==
    ASSUME VolumeFits, Automatic, NoneIsAON, "modify" \notin Operations
    PROVE  Spec => []NotOverfilled
<1>1. Balanced => NotOverfilled
  BY DEF Balanced, SoundBook, Sound, SoundTrade, NotOverfilled
<1> QED
  BY <1>1, BalancedHolds, PTL

\* An order that does not reach the best opposite price reaches none.
LEMMA NoneReached ==
    ASSUME NEW b, Valid(b), NEW o \in Pending, ~HasReached(b, o)
    PROVE  Available(b, o) = 0
<1> DEFINE c == Opposite(o)
           reached == {q \in PricesIn(b, c) : Reaches(o, q)}
           volumes == [p \in reached |-> b.levels[<<c, p>>].TotalVolume]
<1>1. reached = {}
  <2> SUFFICES ASSUME NEW q \in PricesIn(b, c), Reaches(o, q) PROVE FALSE
    OBVIOUS
  <2>1. /\ PricesIn(b, c) \subseteq UInt64 /\ HasBest(b, c)
        /\ b.best[c] \in PricesIn(b, c) /\ ~Better(c, q, b.best[c])
    BY OppositeType, BestOfLevels
  <2>2. q \in Nat /\ b.best[c] \in Nat /\ o.Price \in Nat
    BY <2>1, Numbers DEF Pending
  <2>3. ~Reaches(o, b.best[c])
    BY <2>1 DEF HasReached
  <2> QED
    BY <2>1, <2>2, <2>3, SidesAreCollections DEF Reaches, Better, Opposite
<1> HIDE DEF reached
<1>2. UNION {{x} \X (1 .. volumes[x]) : x \in DOMAIN volumes} = {}
  BY <1>1
<1> HIDE DEF volumes
<1>3. Lots(volumes) = 0
  BY <1>2, FS_EmptySet DEF Lots
<1> QED
  BY <1>3 DEF Available, volumes, reached

\* Matching gives up nothing tradable: when it ends, a limit order with a quantity left
\* reaches no volume of the book, whatever was activated and linked before.
THEOREM LeftoverIsUntradableHolds ==
    ASSUME VolumeFits, Automatic, NoneIsAON, NoneIsFOK
    PROVE  Spec => []LeftoverIsUntradable
<1>1. IInv /\ Calm /\ Balanced => LeftoverIsUntradable
  <2> SUFFICES ASSUME IInv, Calm, Balanced, At("finish"), IsLimit(taker),
                      taker.LeavesQuantity > 0
               PROVE  Available(book, taker) < IF IsFOK(taker) THEN taker.LeavesQuantity ELSE 1
    BY DEF LeftoverIsUntradable
  <2>1. calls # << >> /\ Call.at = "finish"
    BY DEF At
  <2>2. Unlinked(taker) /\ taker \in Pending /\ taker # NoTaker /\ Valid(book)
    BY <2>1, TakerOfCall, TakerIsSome DEF Unlinked, IInv
  <2>3. ~IsFOK(taker) /\ ~NeedsChain(taker)
    BY <2>2 DEF Calm, CalmTaker, Balanced, SoundTaker, Sound, NeedsChain
  <2>4. ~HasReached(book, taker)
    BY <2>1, <2>3, CallersBelow DEF Top, Unmatched, IsLimit
  <2>5. Available(book, taker) = 0
    BY <2>2, <2>4, NoneReached
  <2> QED
    BY <2>3, <2>5
<1> QED
  BY <1>1, BalancedHolds, PTL

-----------------------------------------------------------------------------
(* Market orders to buy *)

\* A market order to buy without a slippage limit accepts any price there is.
Unlimited(t, b) ==
    t # NoTaker /\ IsMarket(t) /\ IsBuy(t) /\ ~IsSlippage(t) =>
        t.Price = OrderIntMax \/ ~HasBest(b, "asks")

LEMMA UnlimitedPriced ==
    ASSUME NEW b, Valid(b), NEW o \in Pending, Plain(o)
    PROVE  Unlimited([Priced(b, o) EXCEPT !.Level = NoLevel], b)
<1> DEFINE t == [Priced(b, o) EXCEPT !.Level = NoLevel]
           best == b.best["asks"]
<1> SUFFICES ASSUME IsMarket(t), IsBuy(t), ~IsSlippage(t), HasBest(b, "asks")
             PROVE  t.Price = OrderIntMax
  BY DEF Unlimited
<1>1. IsMarket(o) /\ IsBuy(o)
  BY PricedKind DEF IsMarket, IsBuy
<1>2. Opposite(o) = "asks"
  BY <1>1 DEF Opposite
<1>3. Priced(b, o) = [o EXCEPT !.Price = AcceptablePrice(b, o)]
  BY <1>1, <1>2 DEF Priced
<1>4. t.Price = AcceptablePrice(b, o) /\ t.Slippage = o.Slippage
  <2> HIDE DEF AcceptablePrice
  <2> QED
    BY <1>3 DEF Pending
<1> HIDE DEF t
<1>5. o.Slippage = OrderIntMax
  <2>1. o.Slippage <= OrderIntMax /\ ~(o.Slippage < OrderIntMax)
    BY <1>4 DEF Plain, IsSlippage
  <2>2. o.Slippage \in Nat /\ OrderIntMax \in Nat
    BY Numbers DEF Pending
  <2> QED
    BY <2>1, <2>2
<1>6. best \in UInt64
  BY BestOfLevels, SidesAreCollections
<1>7. AcceptablePrice(b, o) = IF best > Wrap(0) THEN OrderIntMax ELSE Wrap(best + OrderIntMax)
  <2>1. OrderIntMax - OrderIntMax = 0
    BY WidthAssumption
  <2> QED
    BY <1>1, <1>2, <1>5, <2>1 DEF AcceptablePrice
<1> HIDE DEF best
<1>8. Wrap(0) = 0 /\ Wrap(OrderIntMax) = OrderIntMax
  BY WidthAssumption DEF Wrap
<1>9. best > 0 \/ best + OrderIntMax = OrderIntMax
  BY <1>6, WidthAssumption DEF UInt64
<1> QED
  BY <1>4, <1>7, <1>8, <1>9

\* It does so while its quantities change and the asks leave the book.
LEMMA UnlimitedKept ==
    ASSUME NEW t, NEW b, Unlimited(t, b), NEW t2, NEW b2, t # NoTaker,
           t2.Type = t.Type, t2.Side = t.Side, t2.Slippage = t.Slippage, t2.Price = t.Price,
           HasBest(b2, "asks") => HasBest(b, "asks")
    PROVE  Unlimited(t2, b2)
BY DEF Unlimited, IsMarket, IsBuy, IsSlippage

LEMMA UnlimitedShrinks ==
    ASSUME NEW t, NEW b, Unlimited(t, b), NEW b2, Valid(b), Valid(b2), Shrinks(b, b2)
    PROVE  Unlimited(t, b2)
<1>1. PricesIn(b2, "asks") \subseteq PricesIn(b, "asks")
  BY ShrinksPrices
<1>2. HasBest(b2, "asks") => HasBest(b, "asks")
  BY <1>1, BestOfLevels, SidesAreCollections
<1> QED
  BY <1>2 DEF Unlimited

LEMMA UnlimitedStays ==
    ASSUME Unlimited(taker, book), book' = book, taker' = taker
    PROVE  Unlimited(taker, book)'
OBVIOUS

\* An order of the book is executed.
LEMMA ExecuteRestingUnlimited ==
    ASSUME VolumeFits, IInv, Unlimited(taker, book), NEW id \in DOMAIN book.orders,
           NEW price, NEW quantity \in Nat, NEW frames, ExecuteResting(id, price, quantity, frames)
    PROVE  Unlimited(taker, book)'
<1> DEFINE o == Executed(book.orders[id], quantity)
           b == ReduceOrder(book, o)
<1>1. book' = b /\ taker' = taker
  BY DEF ExecuteResting, ReturnInternal
<1>2. o \in Lessened(book.orders[id], quantity) /\ Valid(book)
  BY DEF Lessened, IInv
<1> HIDE DEF o
<1>3. Valid(b) /\ Shrinks(book, b)
  BY <1>2, ReduceShrinksBook
<1> HIDE DEF b
<1> QED
  BY <1>1, <1>2, <1>3, UnlimitedShrinks

\* The taker is executed.
LEMMA ExecuteTakerUnlimited ==
    ASSUME Unlimited(taker, book), Unlinked(taker), NEW price, NEW quantity, NEW frames,
           ExecuteTaker(price, quantity, frames)
    PROVE  Unlimited(taker, book)'
<1> DEFINE t == Executed(taker, quantity)
           executed == taker.ExecutedQuantity + quantity
           leaves == taker.LeavesQuantity - Lesser(quantity, taker.LeavesQuantity)
<1>1. taker' = t /\ book' = book
  BY DEF ExecuteTaker
<1>2. t = [taker EXCEPT !.ExecutedQuantity = executed, !.LeavesQuantity = leaves]
  BY DEF Executed
<1> HIDE DEF executed, leaves, t
<1>3. /\ t.Type = taker.Type /\ t.Side = taker.Side /\ t.Slippage = taker.Slippage
      /\ t.Price = taker.Price
  BY <1>2 DEF Unlinked, Pending
<1>4. taker # NoTaker
  BY TakerIsSome
<1>5. Unlimited(t, book)
  BY <1>3, <1>4, UnlimitedKept
<1> QED
  BY <1>1, <1>5

LEMMA MatchOrderUnlimited ==
    ASSUME VolumeFits, IInv, Calm, Unlimited(taker, book), MatchOrder
    PROVE  Unlimited(taker, book)'
<1>1. calls # << >> /\ Call.at = "match_order" /\ Valid(book)
  BY DEF MatchOrder, At, IInv
<1>2. ASSUME NEW id \in DOMAIN book.orders, MatchAgainst(id)
      PROVE  Unlimited(taker, book)'
  <2> DEFINE o == book.orders[id]
             quantity == Lesser(o.LeavesQuantity, taker.LeavesQuantity)
  <2>1. ~IsAON(o)
    BY DEF Calm, CalmBook
  <2>2. \E frames : ExecuteResting(id, o.Price, quantity, frames)
    BY <1>2, <2>1 DEF MatchAgainst
  <2>3. quantity \in Nat
    <3>1. o.LeavesQuantity \in 1 .. MaxQuantity /\ taker.LeavesQuantity \in 0 .. MaxQuantity
      BY <1>1, LinkedIsPending, TakerOfCall
    <3> QED
      BY <3>1 DEF Lesser
  <2> HIDE DEF quantity, o
  <2> QED
    BY <2>2, <2>3, ExecuteRestingUnlimited
<1>3. (\E f : Goto(<<FilledFrame, f>>)) => Unlimited(taker, book)'
  BY UnlimitedStays DEF Goto
<1>4. Goto(<< >>) => Unlimited(taker, book)'
  BY UnlimitedStays DEF Goto
<1> QED
  BY <1>2, <1>3, <1>4, MatchOrderCases

LEMMA ChainUnlimited ==
    ASSUME VolumeFits, IInv, Calm, Unlimited(taker, book), ExecuteMatchingChain
    PROVE  Unlimited(taker, book)'
<1>1. calls # << >> /\ Call.at = "chain" /\ Valid(book)
  BY DEF ExecuteMatchingChain, At, IInv
<1>2. ASSUME NEW id \in DOMAIN book.orders, NEW frames,
             ExecuteResting(id, Call.price, Lesser(book.orders[id].LeavesQuantity, Call.volume),
                            frames)
      PROVE  Unlimited(taker, book)'
  <2>1. book.orders[id].LeavesQuantity \in 1 .. MaxQuantity
    BY <1>1, LinkedIsPending
  <2>2. Call \in ChainFrames
    BY <1>1, CallParts, FrameParts
  <2>3. Call.volume \in Nat
    BY <2>2, Numbers DEF ChainFrames
  <2>4. Lesser(book.orders[id].LeavesQuantity, Call.volume) \in Nat
    BY <2>1, <2>3 DEF Lesser
  <2> QED
    BY <1>2, <2>4, ExecuteRestingUnlimited
<1>3. Goto(<< >>) => Unlimited(taker, book)'
  BY UnlimitedStays DEF Goto
<1> QED
  BY <1>2, <1>3, ChainCases

\* The taker's half of an execution, and the end of its call.
LEMMA TakerUnlimited ==
    ASSUME IInv, Unlimited(taker, book), Take \/ Filled \/ Finish
    PROVE  Unlimited(taker, book)'
<1>1. CASE Take
  <2>1. Unlinked(taker) /\ \E price, quantity, frames : ExecuteTaker(price, quantity, frames)
    BY <1>1, TakerOfCall DEF Take, At
  <2> QED
    BY <2>1, ExecuteTakerUnlimited
<1>2. CASE Filled
  <2>1. Unlinked(taker) /\ \E price, quantity, frames : ExecuteTaker(price, quantity, frames)
    BY <1>2, TakerOfCall DEF Filled, At
  <2> QED
    BY <2>1, ExecuteTakerUnlimited
<1>3. CASE Finish
  BY <1>3 DEF Finish, Unlimited
<1> QED
  BY <1>1, <1>2, <1>3

\* The steps of Match leave the book and the taker, or make an order of the book the taker.
LEMMA RoundsUnlimited ==
    ASSUME IInv, Calm, Unlimited(taker, book), Match \/ Stops \/ Round \/ Recalculate
    PROVE  Unlimited(taker, book)'
<1>1. ~Crossed(book)
  BY LessIsNotCrossed DEF IInv, Calm, CalmBook
<1>2. book' = book /\ taker' = taker
  BY <1>1 DEF Match, Stops, Round, Recalculate, Goto, ReturnFromMatch
<1> QED
  BY <1>2, UnlimitedStays

LEMMA ActivateUnlimited ==
    ASSUME VolumeFits, IInv, Calm, Known, Unlimited(taker, book), Activate
    PROVE  Unlimited(taker, book)'
<1> DEFINE id == Call.order
           b == DeleteOrder(book, id)
           o == Activated(book.orders[id])
           t == [Priced(b, o) EXCEPT !.Level = NoLevel]
<1>1. Valid(book)
  BY DEF IInv
<1>2. \/ book' = book /\ taker' = taker
      \/ id \in DOMAIN book.orders /\ book' = b /\ taker' = t
  BY Zenon DEF Activate, Released, Goto, UseAfterRelease
<1>3. CASE id \in DOMAIN book.orders /\ book' = b /\ taker' = t
  <2>1. /\ book.orders[id] \in Pending /\ Plain(book.orders[id])
        /\ book.orders[id].Type # "MARKET"
    BY <1>1, <1>3, LessIsPlain, LinkedKind DEF StopTypes, TrailingTypes
  <2>2. o \in Pending /\ Plain(o)
    BY <2>1, ActivatedIsPending, PlainActivated
  <2>3. Valid(b)
    BY <1>1, <1>3, DeleteShrinks
  <2> HIDE DEF b, o
  <2>4. Unlimited(t, b)
    BY <2>2, <2>3, UnlimitedPriced
  <2> HIDE DEF t
  <2> QED
    BY <1>3, <2>4
<1> QED
  BY <1>2, <1>3, UnlimitedStays

\* An order that is entered.
LEMMA SubmitUnlimited ==
    ASSUME enabled = TRUE, NEW b, Valid(b), NEW o \in Pending, Plain(o), Submit(b, o)
    PROVE  Unlimited(taker, book)'
<1> DEFINE t == [Priced(b, o) EXCEPT !.Level = NoLevel]
<1>1. book' = b /\ taker' = t
  BY DEF Submit
<1>2. Unlimited(t, b)
  BY UnlimitedPriced
<1> HIDE DEF t
<1> QED
  BY <1>1, <1>2

LEMMA SubmitNewUnlimited ==
    ASSUME IInv, enabled = TRUE, NEW o \in Pending, Plain(o), SubmitNew(o)
    PROVE  Unlimited(taker, book)'
<1>1. WithTrailingStop(book, last, o) = o /\ Valid(book)
  BY DEF WithTrailingStop, Plain, IsTrailing, TrailingTypes, IInv
<1>2. \/ Submit(book, o)
      \/ o.Type # "MARKET" /\ Submit(book, Activated(o))
      \/ o.Type # "MARKET" /\ taker' = o
  BY <1>1, Zenon DEF SubmitNew
<1>3. o.Type # "MARKET" => Activated(o) \in Pending /\ Plain(Activated(o))
  BY ActivatedIsPending, PlainActivated
<1>4. CASE o.Type # "MARKET" /\ taker' = o
  BY <1>4 DEF Unlimited, IsMarket
<1> QED
  BY <1>1, <1>2, <1>3, <1>4, SubmitUnlimited

LEMMA StepUnlimited ==
    ASSUME VolumeFits, NoneTrails, IsCapped, IInv, Calm, Known, Unlimited(taker, book), Step
    PROVE  Unlimited(taker, book)'
<1>1. CASE Walk
  <2>1. calls # << >> /\ Call.at = "walk"
    BY <1>1 DEF Walk, At
  <2>2. Call.current = NoLevel
    BY <2>1, CallKnows DEF Knows
  <2> QED
    BY <1>1, <2>2, UnlimitedStays DEF Walk, Goto
<1>2. CASE AddAfterDelete
  <2>1. calls # << >> /\ Call \in AddFrames
    BY <1>2, CallParts, FrameParts DEF AddAfterDelete, At
  <2>2. PICK t \in NewOrders, id \in Ids : Call = AddFrame(MakeOrder(t, id))
    BY <2>1 DEF AddFrames
  <2>3. Call.new = MakeOrder(t, id)
    BY <2>2 DEF AddFrame
  <2>4. SubmitNew(Call.new) \/ (book' = book /\ taker' = taker)
    BY <1>2 DEF AddAfterDelete, Goto
  <2> QED
    BY <2>3, <2>4, NewIsPlain, CalmIsEnabled, SubmitNewUnlimited, UnlimitedStays
<1> QED
  BY <1>1, <1>2, MatchOrderUnlimited, ChainUnlimited, TakerUnlimited, RoundsUnlimited,
     ActivateUnlimited, NoCrossedCalls DEF Step

LEMMA OperationUnlimited ==
    ASSUME VolumeFits, NoneTrails, IsCapped, IInv, Calm, Known, Unlimited(taker, book),
           NEW id \in DOMAIN book.orders, Operation(id)
    PROVE  Unlimited(taker, book)'
<1> DEFINE o == book.orders[id]
           b == DeleteOrder(book, id)
<1>1. /\ enabled = TRUE /\ Valid(book) /\ Valid(b) /\ Shrinks(book, b)
      /\ o \in Pending /\ Plain(o) /\ o.LeavesQuantity \in 1 .. MaxQuantity
  BY CalmIsEnabled, LessIsPlain, DeleteShrinks, LinkedIsPending DEF IInv
<1> HIDE DEF b, o
<1>2. ASSUME NEW b2, Valid(b2), Shrinks(book, b2), book' = b2, taker' = taker
      PROVE  Unlimited(taker, book)'
  BY <1>1, <1>2, UnlimitedShrinks
<1>3. ASSUME NEW quantity \in Nat, NEW p \in Lessened(o, quantity),
             book' = ReduceOrder(book, p), taker' = taker
      PROVE  Unlimited(taker, book)'
  <2>1. Valid(ReduceOrder(book, p)) /\ Shrinks(book, ReduceOrder(book, p))
    BY <1>1, <1>3, ReduceShrinksBook DEF o
  <2> QED
    BY <1>2, <1>3, <2>1
<1>4. ASSUME NEW q \in Quantities, ReduceOrderBy(id, q) PROVE Unlimited(taker, book)'
  <2>1. q \in Nat /\ Reduced(o, q) \in Lessened(o, q)
    BY CallAssumption, Numbers DEF Lessened
  <2>2. book' = ReduceOrder(book, Reduced(o, q)) /\ taker' = taker
    BY <1>4 DEF ReduceOrderBy, Settle, o
  <2> QED
    BY <1>3, <2>1, <2>2
<1>5. ASSUME NEW p \in Prices, NEW q \in Quantities, NEW mitigate \in BOOLEAN,
             ModifyOrder(id, p, q, mitigate)
      PROVE  Unlimited(taker, book)'
  <2> DEFINE new == Modified(o, p, q, mitigate)
  <2>1. Submit(b, new) \/ (book' = b /\ taker' = taker)
    BY <1>5 DEF ModifyOrder, Settle, o, b
  <2>2. new \in Pending
    BY <1>1, ModifiedIsPending
  <2>3. Plain(new)
    BY <1>1 DEF Modified, Plain, Pending, IsCapped
  <2> HIDE DEF new
  <2> QED
    BY <1>1, <1>2, <2>1, <2>2, <2>3, SubmitUnlimited
<1>6. ASSUME NEW newId \in Ids, NEW p \in Prices, NEW q \in Quantities,
             ReplaceOrder(id, newId, p, q)
      PROVE  Unlimited(taker, book)'
  <2> DEFINE new == Replaced(o, newId, p, q)
  <2>1. Submit(b, new)
    BY <1>6 DEF ReplaceOrder, o, b
  <2>2. new \in Pending
    BY <1>1, ReplacedIsPending
  <2>3. Plain(new)
    BY <1>1 DEF Replaced, Plain, Pending, IsCapped
  <2> HIDE DEF new
  <2> QED
    BY <1>1, <2>1, <2>2, <2>3, SubmitUnlimited
<1>7. ASSUME CancelOrder(id) \/ \E t, newId : ReplaceOrderWith(id, t, newId)
      PROVE  Unlimited(taker, book)'
  <2>1. book' = b /\ taker' = taker
    BY <1>7 DEF CancelOrder, ReplaceOrderWith, Settle, b
  <2> QED
    BY <1>1, <1>2, <2>1
<1>8. ASSUME NEW p, NEW q \in Quantities, ExecuteOrder(id, p, q) PROVE Unlimited(taker, book)'
  <2> DEFINE lots == Lesser(q, o.LeavesQuantity)
  <2>1. book' = ReduceOrder(book, Executed(o, lots)) /\ taker' = taker
    BY <1>8 DEF ExecuteOrder, o
  <2>2. lots \in Nat
    <3>1. q \in 1 .. MaxQuantity
      BY CallAssumption
    <3> QED
      BY <1>1, <3>1, LesserType
  <2> HIDE DEF lots
  <2>3. Executed(o, lots) \in Lessened(o, lots)
    BY DEF Lessened
  <2> QED
    BY <1>3, <2>1, <2>2, <2>3
<1> QED
  BY <1>4, <1>5, <1>6, <1>7, <1>8 DEF Operation

LEMMA RequestUnlimited ==
    ASSUME VolumeFits, Automatic, NoneTrails, IsCapped, IInv, Calm, Known,
           Unlimited(taker, book), Request
    PROVE  Unlimited(taker, book)'
<1>1. CASE \E t \in NewOrders, id \in Ids : AddNewOrder(t, id)
  <2>1. PICK t \in NewOrders, id \in Ids : SubmitNew(MakeOrder(t, id))
    BY <1>1 DEF AddNewOrder
  <2> QED
    BY <2>1, NewIsPlain, CalmIsEnabled, SubmitNewUnlimited
<1>2. CASE \E id \in DOMAIN book.orders : Operation(id)
  BY <1>2, OperationUnlimited
<1> QED
  BY <1>1, <1>2 DEF Request, Automatic

\* A market order to buy, a stop order that becomes one included, buys until there are no
\* asks: the price it accepts, computed once in arithmetic that wraps, is never too low.
THEOREM MarketBuyIsFilledHolds ==
    ASSUME VolumeFits, Automatic, NoneIsAON, NoneTrails, IsCapped
    PROVE  Spec => []MarketBuyIsFilled
<1> DEFINE U == Unlimited(taker, book)
<1>1. Init => U
  BY DEF Init, Unlimited
<1>2. IInv /\ Calm /\ Known /\ U /\ [Next]_vars => U'
  <2>1. ASSUME U, UNCHANGED vars PROVE U'
    BY <2>1, UnlimitedStays DEF vars
  <2> QED
    BY <2>1, RequestUnlimited, StepUnlimited DEF Next
<1>3. IInv /\ Calm /\ Known /\ U => MarketBuyIsFilled
  <2> SUFFICES ASSUME IInv, Calm, Known, U, At("finish"), IsMarket(taker), IsBuy(taker),
                      ~IsSlippage(taker), IsIOC(taker), taker.LeavesQuantity > 0,
                      HasBest(book, "asks")
               PROVE  FALSE
    BY DEF MarketBuyIsFilled
  <2>1. calls # << >> /\ Call.at = "finish"
    BY DEF At
  <2>2. Unlinked(taker) /\ taker # NoTaker /\ Valid(book) /\ PlainBook(book)
    BY <2>1, TakerOfCall, TakerIsSome DEF IInv, Known
  <2>3. ~NeedsChain(taker)
    BY <2>2 DEF Calm, CalmTaker, NeedsChain, IsIOC, IsFOK
  <2>4. ~HasReached(book, taker)
    BY <2>1, <2>3, CallersBelow DEF Top, Unmatched, IsMarket
  <2>5. taker.Price = OrderIntMax
    BY <2>2 DEF Unlimited
  <2>6. book.best["asks"] <= OrderIntMax
    BY <2>2, BestOfLevels, SidesAreCollections, CappedAsks
  <2>7. book.best["asks"] \in UInt64
    BY <2>2, BestOfLevels, SidesAreCollections
  <2> QED
    BY <2>4, <2>5, <2>6, <2>7, WidthAssumption DEF HasReached, Reaches, Opposite, UInt64
<1> HIDE DEF U
<1> QED
  BY <1>1, <1>2, <1>3, KnownHolds, PTL DEF Spec

-----------------------------------------------------------------------------
(* Orders that are executed whole or not at all *)

\* Nothing of an order that needs a chain was executed, ...
Intact(o) == NeedsChain(o) => o.ExecutedQuantity = 0

\* ... while it rests, a Fill-Or-Kill order as a stop order only, ...
IntactResting(o) == Intact(o) /\ (IsFOK(o) => ~IsLimit(o))

IntactBook(b) == \A id \in DOMAIN b.orders : IntactResting(b.orders[id])

\* ... or all of it when it is matched.
IntactTaker(t) == t # NoTaker => Intact(t) \/ t.LeavesQuantity = 0

\* The resting orders that a frame goes on to execute.
Mentioned(f) ==
    IF f.at \in {"match_order", "take"} THEN {f.next}
    ELSE IF f.at = "chain" THEN {f.order}
    ELSE IF f.at = "pair" THEN {f.bid, f.ask}
    ELSE IF f.at = "reducing" THEN {f.order, f.bid, f.ask} ELSE {}

Quoted(k) == k[1] \in {"bids", "asks"}

\* A frame executes orders of the quoted levels.  It reduces none that is to be executed
\* whole, and a taker trades in part only if it is not.
Respects(f, b, t) ==
    /\ \A id \in Mentioned(f) \ {NoOrder} : id \in DOMAIN b.orders => IsLimit(b.orders[id])
    /\ f.at \in {"chain", "ask_chain"} /\ f.level # NoLevel => Quoted(f.level)
    /\ f.at = "reducing" /\ f.order \in DOMAIN b.orders => ~IsAON(b.orders[f.order])
    /\ f.at = "take" \/ (f.at = "match_order" /\ f.next # NoOrder) => ~NeedsChain(t)

AllRespect(s, b, t) == \A i \in 1 .. Len(s) : Respects(s[i], b, t)

Whole == /\ IntactBook(book)
         /\ IntactTaker(taker)
         /\ AllRespect(calls, book, taker)

\* An order that was built from another one.
LEMMA IntactAs ==
    ASSUME NEW o, Intact(o), NEW p, p.TimeInForce \in {o.TimeInForce, "IOC"},
           p.ExecutedQuantity = o.ExecutedQuantity
    PROVE  Intact(p) /\ (IsFOK(p) => IsFOK(o))
BY DEF Intact, NeedsChain, IsFOK, IsAON

LEMMA IntactActivated ==
    ASSUME NEW o \in Pending, Intact(o)
    PROVE  Intact(Activated(o))
<1> DEFINE p == Activated(o)
           tif == IF IsFOK(o) THEN "FOK" ELSE "IOC"
<1>1. \/ p = [o EXCEPT !.Type = "MARKET", !.Price = 0, !.StopPrice = 0, !.TimeInForce = tif]
      \/ p = [o EXCEPT !.Type = "LIMIT", !.StopPrice = 0]
  BY DEF Activated
<1>2. tif \in {o.TimeInForce, "IOC"}
  BY DEF IsFOK
<1> HIDE DEF p, tif
<1>3. p.ExecutedQuantity = o.ExecutedQuantity /\ p.TimeInForce \in {o.TimeInForce, tif}
  BY <1>1 DEF Pending
<1> QED
  BY <1>2, <1>3, IntactAs DEF p

LEMMA IntactPriced ==
    ASSUME NEW b, NEW o \in Pending, Intact(o)
    PROVE  Intact([Priced(b, o) EXCEPT !.Level = NoLevel]) /\ Intact([o EXCEPT !.Level = NoLevel])
<1> DEFINE price == AcceptablePrice(b, o)
           q == Priced(b, o)
<1>1. q = [o EXCEPT !.Price = price] \/ q = o
  BY DEF Priced
<1> HIDE DEF price, q
<1>2. /\ [q EXCEPT !.Level = NoLevel].ExecutedQuantity = o.ExecutedQuantity
      /\ [q EXCEPT !.Level = NoLevel].TimeInForce = o.TimeInForce
  BY <1>1 DEF Pending
<1>3. /\ [o EXCEPT !.Level = NoLevel].ExecutedQuantity = o.ExecutedQuantity
      /\ [o EXCEPT !.Level = NoLevel].TimeInForce = o.TimeInForce
  BY DEF Pending
<1>4. Intact([q EXCEPT !.Level = NoLevel])
  BY <1>2 DEF Intact, NeedsChain, IsFOK, IsAON
<1>5. Intact([o EXCEPT !.Level = NoLevel])
  BY <1>3 DEF Intact, NeedsChain, IsFOK, IsAON
<1> QED
  BY <1>4, <1>5 DEF q

LEMMA IntactFollowing ==
    ASSUME NEW b, NEW l, NEW o \in Pending, IntactResting(o)
    PROVE  IntactResting(WithTrailingStop(b, l, o))
<1> DEFINE p == WithTrailingStop(b, l, o)
           stop == CalculateTrailingStopPrice(b, l, o)
           price == Wrap(stop + Wrap(o.Price - o.StopPrice))
<1>1. \/ p = [o EXCEPT !.StopPrice = stop]
      \/ p = [o EXCEPT !.StopPrice = stop, !.Price = price]
      \/ p = o
  BY DEF WithTrailingStop, TrailingTypes
<1> HIDE DEF p, stop, price
<1>2. /\ p.ExecutedQuantity = o.ExecutedQuantity /\ p.TimeInForce = o.TimeInForce
      /\ p.Type = o.Type
  BY <1>1 DEF Pending
<1> QED
  BY <1>2, IntactAs DEF IntactResting, IsFOK, IsLimit, p

LEMMA IntactReplaced ==
    ASSUME NEW o \in Pending, NEW newId, NEW price, NEW quantity
    PROVE  Intact(Replaced(o, newId, price, quantity))
<1>1. Replaced(o, newId, price, quantity).ExecutedQuantity = 0
  BY DEF Replaced, Pending
<1> QED
  BY <1>1 DEF Intact

LEMMA IntactModified ==
    ASSUME NEW o \in Pending, Intact(o), NEW price, NEW quantity, NEW mitigate
    PROVE  Intact(Modified(o, price, quantity, mitigate))
<1> DEFINE leaves == IF ~mitigate THEN quantity
                     ELSE IF quantity > o.ExecutedQuantity
                          THEN quantity - o.ExecutedQuantity ELSE 0
           p == Modified(o, price, quantity, mitigate)
<1>1. p = [o EXCEPT !.Price = price, !.Quantity = quantity, !.LeavesQuantity = leaves]
  BY DEF Modified
<1> HIDE DEF p, leaves
<1>2. p.ExecutedQuantity = o.ExecutedQuantity /\ p.TimeInForce = o.TimeInForce
  BY <1>1 DEF Pending
<1> QED
  BY <1>2, IntactAs DEF p

\* A book without one of its orders, or with less of it.
LEMMA LessIsIntact ==
    ASSUME VolumeFits, NEW b, Valid(b), IntactBook(b), NEW id \in DOMAIN b.orders
    PROVE  /\ IntactBook(DeleteOrder(b, id))
           /\ \A quantity \in Nat : \A o \in Lessened(b.orders[id], quantity) :
                 o.LeavesQuantity = 0 \/ IntactResting(o) => IntactBook(ReduceOrder(b, o))
           /\ b.orders[id] \in Pending /\ IntactResting(b.orders[id])
<1>1. IntactBook(DeleteOrder(b, id))
  <2>1. /\ DOMAIN DeleteOrder(b, id).orders = DOMAIN b.orders \ {id}
        /\ \A i \in DOMAIN b.orders \ {id} : DeleteOrder(b, id).orders[i] = b.orders[i]
    BY DeleteShrinks
  <2> QED
    BY <2>1 DEF IntactBook
<1>2. ASSUME NEW quantity \in Nat, NEW o \in Lessened(b.orders[id], quantity),
             o.LeavesQuantity = 0 \/ IntactResting(o)
      PROVE  IntactBook(ReduceOrder(b, o))
  <2> DEFINE b2 == ReduceOrder(b, o)
  <2>1. /\ o.LeavesQuantity = 0 => b2 = DeleteOrder(b, id)
        /\ o.LeavesQuantity # 0 => DOMAIN b2.orders = DOMAIN b.orders /\ b2.orders[id] = o
        /\ \A i \in DOMAIN b2.orders \ {id} : b2.orders[i] = b.orders[i]
    BY <1>2, ReduceShrinksBook
  <2> HIDE DEF b2
  <2>2. CASE o.LeavesQuantity = 0
    BY <1>1, <2>1, <2>2 DEF b2
  <2>3. CASE o.LeavesQuantity # 0
    BY <1>2, <2>1, <2>3 DEF IntactBook, b2
  <2> QED
    BY <2>2, <2>3
<1>3. b.orders[id] \in Pending /\ IntactResting(b.orders[id])
  BY LinkedIsPending DEF IntactBook
<1> QED
  BY <1>1, <1>2, <1>3

\* A book with an order that is linked into it.
LEMMA MoreIsIntact ==
    ASSUME NEW b, IntactBook(b), NEW o \in Pending, IntactResting(o)
    PROVE  IntactBook(AddOrder(b, o))
<1> DEFINE b2 == AddOrder(b, o)
           p == [o EXCEPT !.Level = KeyOf(o)]
<1>1. /\ DOMAIN b2.orders = DOMAIN b.orders \cup {o.Id}
      /\ \A id \in DOMAIN b.orders \ {o.Id} : b2.orders[id] = b.orders[id]
      /\ b2.orders[o.Id] = p
  BY AddedLevels
<1>2. /\ p.ExecutedQuantity = o.ExecutedQuantity /\ p.TimeInForce = o.TimeInForce
      /\ p.Type = o.Type
  BY DEF Pending
<1> HIDE DEF b2, p
<1>3. IntactResting(p)
  BY <1>2, IntactAs DEF IntactResting, IsFOK, IsLimit
<1> QED
  BY <1>1, <1>3 DEF IntactBook, b2

-----------------------------------------------------------------------------
(* Frames that execute quoted orders *)

LEMMA QuotedOrder ==
    ASSUME NEW b, Valid(b), NEW id \in DOMAIN b.orders
    PROVE  IsLimit(b.orders[id]) <=> Quoted(b.orders[id].Level)
<1> DEFINE o == b.orders[id]
<1>1. /\ o.Level = KeyOf(o)
      /\ IsLimit(o) => KeyOf(o) = <<IF IsBuy(o) THEN "bids" ELSE "asks", o.Price>>
      /\ o.Type \in StopTypes =>
            KeyOf(o) = <<IF IsBuy(o) THEN "buy_stop" ELSE "sell_stop", o.StopPrice>>
      /\ o.Type \in TrailingTypes => KeyOf(o)[1] \in {"trailing_buy_stop", "trailing_sell_stop"}
      /\ o.Type \in {"LIMIT"} \cup StopTypes \cup TrailingTypes
  BY LinkedKind
<1> HIDE DEF o
<1>2. IsLimit(o) => Quoted(KeyOf(o))
  BY <1>1 DEF Quoted
<1>3. ~IsLimit(o) => ~Quoted(KeyOf(o))
  BY <1>1 DEF Quoted, IsLimit
<1> QED
  BY <1>1, <1>2, <1>3 DEF o

LEMMA FirstIsQuoted ==
    ASSUME NEW b, Valid(b), NEW k \in DOMAIN b.levels, Quoted(k)
    PROVE  /\ FirstOrder(b, k) \in DOMAIN b.orders
           /\ IsLimit(b.orders[FirstOrder(b, k)])
BY OrderAtLevel, QuotedOrder

LEMMA NextIsQuoted ==
    ASSUME NEW b, Valid(b), NEW id \in DOMAIN b.orders, IsLimit(b.orders[id]),
           NextOrder(b, id) # NoOrder
    PROVE  IsLimit(b.orders[NextOrder(b, id)])
BY NextAtLevel, QuotedOrder

LEMMA LevelAfterIsQuoted ==
    ASSUME NEW b, NEW k, Quoted(k)
    PROVE  LevelAfter(b, k) # NoLevel => Quoted(LevelAfter(b, k))
BY DEF LevelAfter, Quoted

LEMMA BestIsQuoted ==
    ASSUME NEW b, Valid(b), NEW c \in {"bids", "asks"}, HasBest(b, c)
    PROVE  BestKey(b, c) \in DOMAIN b.levels /\ Quoted(BestKey(b, c))
<1>1. BestKey(b, c) \in DOMAIN b.levels
  BY BestKeyType, SidesAreCollections
<1>2. BestKey(b, c)[1] = c
  BY DEF BestKey
<1> QED
  BY <1>1, <1>2 DEF Quoted

\* A frame that is about to execute nothing.
Passive(f) == /\ f.at \notin {"take", "chain", "pair", "reducing", "ask_chain"}
              /\ f.at = "match_order" => f.next = NoOrder

LEMMA PassiveRespects ==
    ASSUME NEW f, Passive(f)
    PROVE  \A b, t : Respects(f, b, t)
BY DEF Passive, Respects, Mentioned

\* Outer calls and the end of a call are passive.
LEMMA LowIsPassive ==
    ASSUME NEW f, Rank(f) \in {0, 1}
    PROVE  Passive(f)
<1>1. f.at \notin {"chain", "pair", "reducing", "ask_chain"}
  BY DEF Rank
<1>2. f.at \notin {"take", "match_order"}
  BY RankOfLabel
<1> QED
  BY <1>1, <1>2 DEF Passive

\* Orders that leave the book do not matter.
LEMMA RespectsLess ==
    ASSUME NEW b, NEW b2, Shrinks(b, b2), NEW t, NEW f, Respects(f, b, t)
    PROVE  Respects(f, b2, t)
<1>1. \A id \in DOMAIN b2.orders :
         /\ id \in DOMAIN b.orders
         /\ IsLimit(b2.orders[id]) <=> IsLimit(b.orders[id])
         /\ IsAON(b2.orders[id]) <=> IsAON(b.orders[id])
  BY DEF Shrinks, SameKind, IsLimit, IsAON
<1> QED
  BY <1>1 DEF Respects

LEMMA RespectsNone ==
    ASSUME NEW b, NEW t
    PROVE  << >> \in Seq(Frame) /\ AllRespect(<< >>, b, t)
<1>1. Len(<< >>) = 0 /\ << >> \in Seq(Frame)
  OBVIOUS
<1>2. 1 .. 0 = {}
  OBVIOUS
<1> QED
  BY <1>1, <1>2 DEF AllRespect

LEMMA RespectsOne ==
    ASSUME NEW b, NEW t, NEW f \in Frame, Respects(f, b, t)
    PROVE  <<f>> \in Seq(Frame) /\ AllRespect(<<f>>, b, t)
<1> DEFINE s == <<f>>
<1>1. s \in Seq(Frame) /\ Len(s) = 1 /\ s[1] = f
  OBVIOUS
<1> HIDE DEF s
<1>2. AllRespect(s, b, t)
  BY <1>1, Indices DEF AllRespect
<1> QED
  BY <1>1, <1>2 DEF s

LEMMA RespectsTwo ==
    ASSUME NEW b, NEW t, NEW f \in Frame, Respects(f, b, t), NEW g \in Frame, Respects(g, b, t)
    PROVE  <<f, g>> \in Seq(Frame) /\ AllRespect(<<f, g>>, b, t)
<1> DEFINE s == <<f, g>>
<1>1. s \in Seq(Frame) /\ Len(s) = 2 /\ s[1] = f /\ s[2] = g
  OBVIOUS
<1> HIDE DEF s
<1>2. AllRespect(s, b, t)
  BY <1>1, Indices DEF AllRespect
<1> QED
  BY <1>1, <1>2 DEF s

LEMMA RespectsJoin ==
    ASSUME NEW b, NEW t, NEW s \in Seq(Frame), NEW r \in Seq(Frame),
           AllRespect(s, b, t), AllRespect(r, b, t)
    PROVE  s \o r \in Seq(Frame) /\ AllRespect(s \o r, b, t)
<1>1. /\ Len(s \o r) = Len(s) + Len(r) /\ Len(s) \in Nat /\ Len(r) \in Nat
      /\ \A i \in 1 .. Len(s) + Len(r) :
            (s \o r)[i] = IF i <= Len(s) THEN s[i] ELSE r[i - Len(s)]
      /\ s \o r \in Seq(Frame)
  BY ConcatProperties, LenProperties
<1>2. ASSUME NEW i \in 1 .. Len(s) + Len(r)
      PROVE  (i <= Len(s) => i \in 1 .. Len(s)) /\ (~(i <= Len(s)) => i - Len(s) \in 1 .. Len(r))
  BY <1>1
<1> QED
  BY <1>1, <1>2 DEF AllRespect

\* A call with a taker that is priced, matched and linked later.
LEMMA RespectsEntry ==
    ASSUME NEW b2, NEW t, NEW f \in Frame, Passive(f), NEW b, NEW o
    PROVE  LET s == <<f, FinishFrame>> \o Matching(b, o)
           IN s \in Seq(Frame) /\ AllRespect(s, b2, t)
<1> DEFINE g == MatchOrderFrame(NoOrder)
           u == <<f, FinishFrame>>
           r == <<g>>
<1>1. FinishFrame \in Frame /\ g \in Frame /\ Passive(g) /\ Passive(FinishFrame)
  BY DEF Frame, MatchOrderFrame, MatchOrderFrames, AnyOrder, FinishFrame, Passive
<1>2. Matching(b, o) = << >> \/ Matching(b, o) = r
  BY DEF Matching
<1> HIDE DEF g
<1>3. u \in Seq(Frame) /\ AllRespect(u, b2, t)
  BY <1>1, PassiveRespects, RespectsTwo
<1>4. r \in Seq(Frame) /\ AllRespect(r, b2, t)
  BY <1>1, PassiveRespects, RespectsOne
<1> HIDE DEF u, r
<1>5. Matching(b, o) \in Seq(Frame) /\ AllRespect(Matching(b, o), b2, t)
  BY <1>2, <1>4, RespectsNone
<1>6. u \o Matching(b, o) \in Seq(Frame) /\ AllRespect(u \o Matching(b, o), b2, t)
  BY <1>3, <1>5, RespectsJoin
<1> QED
  BY <1>6 DEF u

LEMMA InnermostRespects ==
    ASSUME IInv, Whole, calls # << >>
    PROVE  /\ Call \in Frame /\ Respects(Call, book, taker) /\ Valid(book)
           /\ Callers \in Seq(Frame) /\ AllRespect(Callers, book, taker)
<1>1. /\ Len(calls) \in Nat \ {0} /\ Call \in Frame /\ StackOK(Callers, taker)
  BY CallOf DEF IInv
<1>2. Len(calls) - 1 \in Int /\ Len(calls) - 1 <= Len(calls) /\ Len(calls) \in 1 .. Len(calls)
  BY <1>1
<1>3. \A i \in 1 .. Len(Callers) : i \in 1 .. Len(calls) /\ Callers[i] = calls[i]
  BY <1>2, OuterStack DEF IInv, Callers
<1> QED
  BY <1>1, <1>2, <1>3 DEF Whole, AllRespect, Call, StackOK, IInv

\* The innermost call goes on as frames that respect the book and the taker they find.
\* Outer calls mention no orders; the callers of an execution find less of the same book.
LEMMA ContinueWhole ==
    ASSUME IInv, Whole, calls # << >>, NEW frames \in Seq(Frame), Continue(frames),
           AllRespect(frames, book', taker'), IntactBook(book'), IntactTaker(taker'),
           Rank(Call) # 3 \/ (Shrinks(book, book') /\ taker' = taker)
    PROVE  Whole'
<1>1. /\ Callers \in Seq(Frame) /\ AllRespect(Callers, book, taker)
      /\ \A i \in 1 .. Len(Callers) : Under(Callers[i], Call)
  BY InnermostRespects, CallOf DEF IInv
<1>2. AllRespect(Callers, book', taker')
  <2>1. CASE Rank(Call) # 3
    <3>1. ASSUME NEW i \in 1 .. Len(Callers) PROVE Rank(Callers[i]) \in {0, 1}
      <4>1. Rank(Callers[i]) \in 0 .. 3 /\ Rank(Call) \in 0 .. 3
        BY RankType
      <4> QED
        BY <1>1, <2>1, <4>1 DEF Under
    <3> QED
      BY <3>1, LowIsPassive, PassiveRespects DEF AllRespect
  <2>2. CASE Shrinks(book, book') /\ taker' = taker
    BY <1>1, <2>2, RespectsLess DEF AllRespect
  <2> QED
    BY <2>1, <2>2
<1>3. AllRespect(Callers \o frames, book', taker')
  BY <1>1, <1>2, RespectsJoin
<1>4. AllRespect(calls', book', taker')
  BY <1>3 DEF Continue
<1> QED
  BY <1>4 DEF Whole

LEMMA UseWhole ==
    ASSUME Whole, UseAfterRelease
    PROVE  Whole'
BY DEF UseAfterRelease, Whole

LEMMA GotoWhole ==
    ASSUME IInv, Whole, calls # << >>, NEW frames \in Seq(Frame),
           AllRespect(frames, book, taker), Goto(frames)
    PROVE  Whole'
<1>1. Continue(frames) /\ book' = book /\ taker' = taker
  BY DEF Goto
<1>2. Shrinks(book, book') /\ IntactBook(book') /\ IntactTaker(taker')
  BY <1>1, ShrinksNot DEF Whole
<1>3. AllRespect(frames, book', taker')
  BY <1>1
<1> QED
  BY <1>1, <1>2, <1>3, ContinueWhole

LEMMA ReturnWhole ==
    ASSUME IInv, Whole, calls # << >>, Goto(<< >>)
    PROVE  Whole'
BY RespectsNone, GotoWhole

LEMMA OneWhole ==
    ASSUME IInv, Whole, calls # << >>, NEW f \in Frame, Respects(f, book, taker), Goto(<<f>>)
    PROVE  Whole'
BY RespectsOne, GotoWhole

LEMMA TwoWhole ==
    ASSUME IInv, Whole, calls # << >>, NEW f \in Frame, Respects(f, book, taker),
           NEW g \in Frame, Respects(g, book, taker), Goto(<<f, g>>)
    PROVE  Whole'
BY RespectsTwo, GotoWhole

\* An execution in the book, with the matching that its end nests.
LEMMA ReturnInternalWhole ==
    ASSUME IInv, Whole, calls # << >>, NEW b, Shrinks(book, b), IntactBook(b),
           NEW o, NEW price, NEW f \in Frame, Respects(f, b, taker),
           ReturnInternal(b, o, price, <<f>>), taker' = taker
    PROVE  Whole'
<1> DEFINE nested == enabled /\ Crossed(b)
           g == MatchFrame(TRUE, TRUE)
           r == IF nested THEN <<g>> ELSE << >>
           s == <<f>>
<1>1. book' = b /\ Continue(s \o r)
  BY DEF ReturnInternal
<1> HIDE DEF nested
<1>2. g \in Frame /\ Passive(g)
  BY MatchFrameType DEF MatchFrame, Passive
<1> HIDE DEF g
<1>3. <<g>> \in Seq(Frame) /\ AllRespect(<<g>>, b, taker)
  BY <1>2, PassiveRespects, RespectsOne
<1>4. r \in Seq(Frame) /\ AllRespect(r, b, taker)
  BY <1>3, RespectsNone
<1>5. s \in Seq(Frame) /\ AllRespect(s, b, taker)
  BY RespectsOne
<1> HIDE DEF r, s
<1>6. s \o r \in Seq(Frame) /\ AllRespect(s \o r, b, taker)
  BY <1>4, <1>5, RespectsJoin
<1>7. IntactTaker(taker')
  BY DEF Whole
<1>8. AllRespect(s \o r, book', taker')
  BY <1>1, <1>6
<1> QED
  BY <1>1, <1>6, <1>7, <1>8, ContinueWhole

\* A quoted order is executed in part or whole; one that needs a chain, whole.
LEMMA ExecuteRestingWhole ==
    ASSUME VolumeFits, IInv, Whole, calls # << >>, NEW id \in DOMAIN book.orders,
           IsLimit(book.orders[id]), NEW price, NEW quantity \in Nat,
           IsAON(book.orders[id]) => quantity >= book.orders[id].LeavesQuantity,
           NEW f \in Frame,
           \A b : Shrinks(book, b) => Respects(f, b, taker),
           ExecuteResting(id, price, quantity, <<f>>)
    PROVE  Whole'
<1> DEFINE o == book.orders[id]
           p == Executed(o, quantity)
           b == ReduceOrder(book, p)
<1>1. Valid(book) /\ IntactBook(book)
  BY DEF IInv, Whole
<1>2. ReturnInternal(b, o, price, <<f>>) /\ taker' = taker
  BY DEF ExecuteResting
<1>3. p \in Lessened(o, quantity) /\ o \in OrderNode(OrderIds, MaxQuantity)
  BY <1>1, LinkedIsPending DEF Lessened
<1>4. /\ SameKind(p, o)
      /\ p.LeavesQuantity = IF quantity < o.LeavesQuantity THEN o.LeavesQuantity - quantity ELSE 0
  BY <1>3, LessenedOrder
<1>5. Shrinks(book, b)
  BY <1>1, <1>3, ReduceShrinksBook
<1>6. IntactBook(b)
  <2>1. CASE IsAON(o)
    <3>1. p.LeavesQuantity = 0
      <4>1. o.LeavesQuantity \in Nat
        BY <1>3 DEF OrderNode
      <4> QED
        BY <1>4, <2>1, <4>1
    <3> QED
      BY <1>1, <1>3, <3>1, LessIsIntact
  <2>2. CASE ~IsAON(o)
    <3>1. ~IsFOK(o)
      BY <1>1 DEF IntactBook, IntactResting
    <3>2. IntactResting(p)
      BY <1>4, <2>2, <3>1 DEF SameKind, IntactResting, Intact, NeedsChain, IsFOK, IsAON
    <3> QED
      BY <1>1, <1>3, <3>2, LessIsIntact
  <2> QED
    BY <2>1, <2>2
<1> HIDE DEF b, p
<1>7. Respects(f, b, taker)
  BY <1>5
<1> QED
  BY <1>2, <1>5, <1>6, <1>7, ReturnInternalWhole

LEMMA ExecuteWholeWhole ==
    ASSUME VolumeFits, IInv, Whole, calls # << >>, NEW id \in DOMAIN book.orders, NEW price,
           NEW f \in Frame, \A b : Shrinks(book, b) => Respects(f, b, taker),
           ExecuteWhole(id, price, <<f>>)
    PROVE  Whole'
<1> DEFINE b == DeleteOrder(book, id)
<1>1. Valid(book) /\ IntactBook(book)
  BY DEF IInv, Whole
<1>2. ReturnInternal(b, book.orders[id], price, <<f>>) /\ taker' = taker
  BY DEF ExecuteWhole
<1>3. Shrinks(book, b) /\ IntactBook(b)
  BY <1>1, DeleteShrinks, LessIsIntact
<1> HIDE DEF b
<1> QED
  BY <1>2, <1>3, ReturnInternalWhole

-----------------------------------------------------------------------------
(* Steps of the matching of one order *)

LEMMA MatchAgainstWhole ==
    ASSUME VolumeFits, IInv, Whole, At("match_order"), ~NeedsChain(taker),
           NEW id \in DOMAIN book.orders, IsLimit(book.orders[id]), MatchAgainst(id)
    PROVE  Whole'
<1> DEFINE o == book.orders[id]
           quantity == Lesser(o.LeavesQuantity, taker.LeavesQuantity)
           next == NextOrder(book, id)
           f == TakeFrame(o.Price, quantity, next)
<1>1. calls # << >> /\ Call.at = "match_order" /\ Valid(book)
  BY DEF At, IInv
<1>2. /\ Unlinked(taker) /\ taker.LeavesQuantity \in 1 .. MaxQuantity
  <2>1. Unlinked(taker) /\ taker.LeavesQuantity \in 0 .. MaxQuantity
    BY <1>1, TakerOfCall
  <2>2. taker.LeavesQuantity > 0
    BY <1>1, CallParts, Zenon DEF Serves
  <2> QED
    BY <2>1, <2>2, PositiveType
<1>3. o.LeavesQuantity \in 1 .. MaxQuantity /\ o.Price \in UInt64
  BY <1>1, LinkedIsPending DEF Pending
<1>4. quantity \in 1 .. MaxQuantity /\ quantity <= taker.LeavesQuantity /\ quantity \in Nat
  BY <1>2, <1>3, LesserType
<1>5. next \in AnyOrder /\ (next # NoOrder => IsLimit(book.orders[next]))
  BY <1>1, NextOrderType, NextIsQuoted
<1>6. \/ Goto(<< >>)
      \/ /\ ~IsAON(o) \/ ~(o.LeavesQuantity > taker.LeavesQuantity)
         /\ ExecuteResting(id, o.Price, quantity, <<f>>)
  BY DEF MatchAgainst, ReturnFromMatchOrder, Goto
<1>7. ~(o.LeavesQuantity > taker.LeavesQuantity) => quantity >= o.LeavesQuantity
  <2>1. o.LeavesQuantity \in Nat /\ taker.LeavesQuantity \in Nat
    BY <1>2, <1>3, Numbers
  <2> HIDE DEF o
  <2> QED
    BY <2>1 DEF Lesser
<1> HIDE DEF quantity, next
<1>8. f \in Frame
  BY <1>2, <1>3, <1>4, <1>5, TakeFrameType
<1>9. f.at = "take" /\ f.next = next
  BY DEF TakeFrame
<1> HIDE DEF f
<1>10. Respects(f, book, taker)
  BY <1>5, <1>9 DEF Respects, Mentioned
<1>11. \A b : Shrinks(book, b) => Respects(f, b, taker)
  BY <1>10, RespectsLess
<1> QED
  BY <1>1, <1>4, <1>6, <1>7, <1>8, <1>11, ReturnWhole, ExecuteRestingWhole

LEMMA MatchWholeWhole ==
    ASSUME IInv, Whole, At("match_order"), NEW level \in DOMAIN book.levels, Quoted(level),
           MatchWhole(level)
    PROVE  Whole'
<1> DEFINE chain == ChainForOrder(book, taker, level)
           f == ChainFrame(level, NoOrder, taker.Price, chain)
<1>1. calls # << >> /\ Call.at = "match_order"
  BY DEF At
<1>2. Unlinked(taker) /\ taker.Price \in UInt64
  BY <1>1, TakerOfCall DEF Unlinked, Pending
<1>3. chain \in UInt64
  BY <1>2, ChainForOrderType
<1>4. level \in AnyLevel /\ NoOrder \in AnyOrder
  BY BookInvParts DEF IInv, Valid, BookShape, AnyLevel, AnyOrder
<1>5. \/ Goto(<< >>)
      \/ Goto(<<FilledFrame, f>>)
  BY DEF MatchWhole, ReturnFromMatchOrder, Goto
<1> HIDE DEF chain
<1>6. f \in Frame
  BY <1>2, <1>3, <1>4, ChainFrameType
<1>7. f.at = "chain" /\ f.level = level /\ f.order = NoOrder
  BY DEF ChainFrame
<1> HIDE DEF f
<1>8. Respects(f, book, taker)
  BY <1>7 DEF Respects, Mentioned
<1>9. FilledFrame \in Frame
  BY <1>2, FilledFrameType
<1>10. Respects(FilledFrame, book, taker)
  BY PassiveRespects DEF FilledFrame, Passive
<1> QED
  BY <1>1, <1>5, <1>6, <1>8, <1>9, <1>10, ReturnWhole, TwoWhole

LEMMA MatchOrderWhole ==
    ASSUME VolumeFits, IInv, Whole, MatchOrder
    PROVE  Whole'
<1> DEFINE c == Opposite(taker)
<1>1. At("match_order") /\ calls # << >> /\ Valid(book) /\ Call.at = "match_order"
  BY DEF MatchOrder, At, IInv
<1>2. \/ UseAfterRelease
      \/ Call.next # NoOrder /\ ~Released(Call.next) /\ MatchAgainst(Call.next)
      \/ ReturnFromMatchOrder
      \/ HasBest(book, c) /\ MatchWhole(BestKey(book, c))
      \/ HasBest(book, c) /\ ~NeedsChain(taker) /\ MatchAgainst(FirstOrder(book, BestKey(book, c)))
  BY Zenon DEF MatchOrder
<1>3. Respects(Call, book, taker)
  BY <1>1, InnermostRespects
<1>4. CASE Call.next # NoOrder /\ ~Released(Call.next) /\ MatchAgainst(Call.next)
  <2>1. Call.next \in DOMAIN book.orders
    BY <1>4 DEF Released
  <2>2. IsLimit(book.orders[Call.next]) /\ ~NeedsChain(taker)
    BY <1>1, <1>3, <1>4, <2>1 DEF Respects, Mentioned
  <2> QED
    BY <1>1, <1>4, <2>1, <2>2, MatchAgainstWhole
<1>5. c \in {"bids", "asks"}
  BY DEF Opposite
<1> HIDE DEF c
<1>6. HasBest(book, c) => BestKey(book, c) \in DOMAIN book.levels /\ Quoted(BestKey(book, c))
  BY <1>1, <1>5, BestIsQuoted
<1>7. CASE HasBest(book, c) /\ ~NeedsChain(taker) /\ MatchAgainst(FirstOrder(book, BestKey(book, c)))
  <2> DEFINE id == FirstOrder(book, BestKey(book, c))
  <2>1. id \in DOMAIN book.orders /\ IsLimit(book.orders[id])
    BY <1>1, <1>6, <1>7, FirstIsQuoted
  <2> QED
    BY <1>1, <1>7, <2>1, MatchAgainstWhole
<1>8. CASE ReturnFromMatchOrder
  BY <1>1, <1>8, ReturnWhole DEF ReturnFromMatchOrder, Goto
<1> QED
  BY <1>1, <1>2, <1>4, <1>6, <1>7, <1>8, UseWhole, MatchWholeWhole

LEMMA TakeWhole ==
    ASSUME IInv, Whole, Take
    PROVE  Whole'
<1> DEFINE t == Executed(taker, Call.quantity)
           f == MatchOrderFrame(Call.next)
           frames == IF taker.LeavesQuantity = Call.quantity THEN << >> ELSE <<f>>
<1>1. calls # << >> /\ Call.at = "take" /\ ExecuteTaker(Call.price, Call.quantity, frames)
  BY DEF Take, At
<1>2. Rank(Call) = 2 /\ taker \in Pending
  BY <1>1, TakerOfCall DEF Unlinked
<1>3. Respects(Call, book, taker) /\ Call \in TakeFrames
  BY <1>1, InnermostRespects, CallParts, FrameParts
<1>4. book' = book /\ taker' = t /\ Continue(frames)
  BY <1>1 DEF ExecuteTaker
<1>5. ~NeedsChain(taker) /\ t.TimeInForce = taker.TimeInForce
  BY <1>1, <1>2, <1>3 DEF Respects, Executed, Pending
<1> HIDE DEF t
<1>6. ~NeedsChain(t)
  BY <1>5 DEF NeedsChain, IsFOK, IsAON
<1>7. f \in Frame /\ f.at = "match_order" /\ f.next = Call.next
  BY <1>3 DEF TakeFrames, MatchOrderFrame, MatchOrderFrames, Frame
<1> HIDE DEF f
<1>8. Respects(f, book, t)
  BY <1>1, <1>3, <1>6, <1>7 DEF Respects, Mentioned
<1>9. frames \in Seq(Frame) /\ AllRespect(frames, book, t)
  BY <1>7, <1>8, RespectsOne, RespectsNone
<1> HIDE DEF frames
<1>10. IntactBook(book') /\ IntactTaker(taker') /\ AllRespect(frames, book', taker')
  BY <1>4, <1>6, <1>9 DEF Whole, IntactTaker, Intact
<1>11. Rank(Call) # 3
  BY <1>2
<1> QED
  BY <1>1, <1>4, <1>9, <1>10, <1>11, ContinueWhole

\* The taker of a chain is filled.
LEMMA FilledWhole ==
    ASSUME IInv, Whole, Filled
    PROVE  Whole'
<1> DEFINE t == Executed(taker, taker.LeavesQuantity)
           none == << >>
<1>1. /\ calls # << >> /\ Call.at = "filled"
      /\ ExecuteTaker(taker.Price, taker.LeavesQuantity, none)
  BY DEF Filled, At
<1>2. Rank(Call) = 2 /\ taker \in Pending /\ taker.LeavesQuantity \in Nat
  BY <1>1, TakerOfCall, Numbers DEF Unlinked
<1>3. book' = book /\ taker' = t /\ Continue(none)
  BY <1>1 DEF ExecuteTaker
<1>4. t.LeavesQuantity = 0
  <2> DEFINE leaves == taker.LeavesQuantity - Lesser(taker.LeavesQuantity, taker.LeavesQuantity)
  <2>1. leaves = 0
    BY <1>2 DEF Lesser
  <2> HIDE DEF leaves
  <2>2. \E n : t = [taker EXCEPT !.ExecutedQuantity = n, !.LeavesQuantity = leaves]
    BY DEF Executed, leaves
  <2> HIDE DEF t
  <2> QED
    BY <1>2, <2>1, <2>2 DEF Pending
<1> HIDE DEF t
<1>5. none \in Seq(Frame) /\ AllRespect(none, book', taker')
  BY RespectsNone
<1> HIDE DEF none
<1>6. IntactBook(book') /\ IntactTaker(taker')
  BY <1>3, <1>4 DEF Whole, IntactTaker
<1>7. Rank(Call) # 3
  BY <1>2
<1> QED
  BY <1>1, <1>3, <1>5, <1>6, <1>7, ContinueWhole

\* Only an order that was not executed, or needs no chain, is left to rest.
LEMMA FinishWhole ==
    ASSUME IInv, Whole, Finish
    PROVE  Whole'
<1> DEFINE rests == taker.LeavesQuantity > 0 /\ Resting(taker)
           duplicate == rests /\ taker.Id \in DOMAIN book.orders
           none == << >>
<1>1. /\ calls # << >> /\ Call.at = "finish"
      /\ book' = IF rests /\ ~duplicate THEN AddOrder(book, taker) ELSE book
      /\ calls' = IF duplicate THEN none ELSE Callers
      /\ taker' = NoTaker
  BY DEF Finish, At
<1>2. Rank(Call) = 1 /\ Unlinked(taker) /\ taker \in Pending /\ taker # NoTaker
  BY <1>1, TakerOfCall, TakerIsSome DEF Unlinked
<1>3. IntactBook(book')
  <2>1. CASE rests /\ ~duplicate
    <3>1. taker.LeavesQuantity # 0
      BY <1>2, <2>1, Numbers DEF Pending
    <3>2. IntactResting(taker)
      BY <1>2, <2>1, <3>1
         DEF Whole, IntactTaker, IntactResting, Resting, IsLimit, StopTypes, TrailingTypes
    <3>3. book' = AddOrder(book, taker)
      BY <1>1, <2>1
    <3> QED
      BY <1>2, <3>2, <3>3, MoreIsIntact DEF Whole
  <2>2. CASE ~(rests /\ ~duplicate)
    BY <1>1, <2>2 DEF Whole
  <2> QED
    BY <2>1, <2>2
<1>4. IntactTaker(taker')
  BY <1>1 DEF IntactTaker
<1>5. none \in Seq(Frame) /\ AllRespect(none, book', taker')
  BY RespectsNone
<1>6. Callers \o none = Callers
  BY <1>1, CallParts, ConcatEmptySeq DEF StackOK
<1> HIDE DEF none, duplicate
<1>7. CASE duplicate
  BY <1>1, <1>3, <1>4, <1>5, <1>7 DEF Whole
<1>8. CASE ~duplicate
  <2>1. Continue(none) /\ Rank(Call) # 3
    BY <1>1, <1>2, <1>6, <1>8 DEF Continue
  <2> QED
    BY <1>1, <1>3, <1>4, <1>5, <2>1, ContinueWhole
<1> QED
  BY <1>7, <1>8

\* An All-Or-None order of a chain is executed whole.
LEMMA ChainStepWhole ==
    ASSUME VolumeFits, IInv, Whole, At("chain"), NEW nextLevel \in AnyLevel,
           nextLevel # NoLevel => Quoted(nextLevel),
           NEW id \in DOMAIN book.orders, IsLimit(book.orders[id]), ChainStep(nextLevel, id)
    PROVE  Whole'
<1> DEFINE o == book.orders[id]
           quantity == IF IsAON(o) THEN o.LeavesQuantity
                       ELSE Lesser(o.LeavesQuantity, Call.volume)
           volume == Wrap(Call.volume - quantity)
           next == IF volume > 0 THEN NextOrder(book, id) ELSE NoOrder
           f == ChainFrame(nextLevel, next, Call.price, volume)
<1>1. calls # << >> /\ Call \in ChainFrames /\ Valid(book)
  BY CallParts, FrameParts DEF At
<1>2. Call.price \in UInt64 /\ Call.volume \in UInt64
  BY <1>1 DEF ChainFrames
<1>3. o.LeavesQuantity \in UInt64
  BY <1>1, LinkedIsPending, Numbers
<1>4. quantity \in UInt64
  <2> HIDE DEF o
  <2> QED
    BY <1>2, <1>3 DEF Lesser
<1>5. IF IsAON(o) THEN ExecuteWhole(id, Call.price, <<f>>)
      ELSE ExecuteResting(id, Call.price, quantity, <<f>>)
  BY DEF ChainStep
<1> HIDE DEF quantity
<1>6. volume \in UInt64 /\ quantity \in Nat
  BY <1>2, <1>4, WrapType, Numbers
<1>7. next \in AnyOrder
  BY <1>1, NextOrderType DEF AnyOrder
<1>8. next # NoOrder => IsLimit(book.orders[next])
  BY <1>1, NextIsQuoted
<1> HIDE DEF volume, next
<1>9. f \in Frame
  BY <1>2, <1>6, <1>7, ChainFrameType
<1>10. f.at = "chain" /\ f.order = next /\ f.level = nextLevel
  BY DEF ChainFrame
<1> HIDE DEF f
<1>11. Respects(f, book, taker)
  BY <1>8, <1>10 DEF Respects, Mentioned
<1>12. \A b : Shrinks(book, b) => Respects(f, b, taker)
  BY <1>11, RespectsLess
<1> QED
  BY <1>1, <1>5, <1>6, <1>9, <1>12, ExecuteWholeWhole, ExecuteRestingWhole

LEMMA ChainWhole ==
    ASSUME VolumeFits, IInv, Whole, ExecuteMatchingChain
    PROVE  Whole'
<1>1. At("chain") /\ calls # << >> /\ Call \in ChainFrames /\ Valid(book) /\ Call.at = "chain"
  BY CallParts, FrameParts DEF ExecuteMatchingChain, At
<1>2. \/ UseAfterRelease
      \/ Call.order # NoOrder /\ ~Released(Call.order) /\ ChainStep(Call.level, Call.order)
      \/ ReturnFromMatchOrder
      \/ /\ Call.level \in DOMAIN book.levels /\ Call.level # NoLevel
         /\ ChainStep(LevelAfter(book, Call.level), FirstOrder(book, Call.level))
  BY Zenon DEF ExecuteMatchingChain
<1>3. Respects(Call, book, taker)
  BY <1>1, InnermostRespects
<1>4. Call.level # NoLevel => Quoted(Call.level)
  BY <1>1, <1>3 DEF Respects
<1>5. CASE Call.order # NoOrder /\ ~Released(Call.order) /\ ChainStep(Call.level, Call.order)
  <2>1. Call.order \in DOMAIN book.orders /\ Call.level \in AnyLevel
    BY <1>1, <1>5 DEF Released, ChainFrames
  <2>2. IsLimit(book.orders[Call.order])
    BY <1>1, <1>3, <1>5, <2>1 DEF Respects, Mentioned
  <2> QED
    BY <1>1, <1>4, <1>5, <2>1, <2>2, ChainStepWhole
<1>6. CASE /\ Call.level \in DOMAIN book.levels /\ Call.level # NoLevel
           /\ ChainStep(LevelAfter(book, Call.level), FirstOrder(book, Call.level))
  <2>1. Call.level \in LevelKey /\ Quoted(Call.level)
    BY <1>1, <1>4, <1>6, BookInvParts DEF Valid, BookShape
  <2>2. /\ LevelAfter(book, Call.level) \in AnyLevel
        /\ LevelAfter(book, Call.level) # NoLevel => Quoted(LevelAfter(book, Call.level))
    BY <1>1, <2>1, LevelAfterType, LevelAfterIsQuoted
  <2>3. /\ FirstOrder(book, Call.level) \in DOMAIN book.orders
        /\ IsLimit(book.orders[FirstOrder(book, Call.level)])
    BY <1>1, <1>6, <2>1, FirstIsQuoted
  <2> QED
    BY <1>1, <1>6, <2>2, <2>3, ChainStepWhole
<1>7. CASE ReturnFromMatchOrder
  BY <1>1, <1>7, ReturnWhole DEF ReturnFromMatchOrder, Goto
<1> QED
  BY <1>2, <1>5, <1>6, <1>7, UseWhole

-----------------------------------------------------------------------------
(* Steps of Match, and of the stop orders *)

LEMMA StageRespects ==
    ASSUME IInv, calls # << >>, Call.at \in MatchLabels,
           NEW label \in MatchLabels, Call.internal => label = "match",
           NEW activated \in BOOLEAN, NEW again \in BOOLEAN,
           NEW g, g = [Call EXCEPT !.at = label, !.activated = activated, !.again = again]
    PROVE  g \in Frame /\ \A b, t : Respects(g, b, t)
<1>1. g \in Frame /\ Call \in MatchFrames
  BY StageOfCall, CallParts, FrameParts
<1>2. g.at = label
  BY <1>1 DEF MatchFrames
<1>3. Passive(g)
  BY <1>2 DEF Passive, MatchLabels
<1> QED
  BY <1>1, <1>3, PassiveRespects

LEMMA ReturnFromMatchWhole ==
    ASSUME Whole, NEW frame, NEW callers, AllRespect(callers, book, taker),
           ReturnFromMatch(frame, callers)
    PROVE  Whole'
BY DEF ReturnFromMatch, Whole

LEMMA MatchingWhole ==
    ASSUME IInv, Whole, Match
    PROVE  Whole'
<1>1. calls # << >> /\ Call.at = "match" /\ Call.at \in MatchLabels /\ Valid(book)
  BY DEF Match, At, MatchLabels, IInv
<1>2. CASE Crossed(book)
  <2> DEFINE label == IF Call.internal THEN "match" ELSE "pair_buy_stops"
             g == [Call EXCEPT !.at = label]
             bid == FirstOrder(book, BestKey(book, "bids"))
             ask == FirstOrder(book, BestKey(book, "asks"))
             f == PairFrame(bid, ask)
  <2>1. label \in MatchLabels /\ (Call.internal => label = "match")
    BY DEF MatchLabels
  <2>2. g = [Call EXCEPT !.at = label, !.activated = Call.activated, !.again = Call.again]
    BY <1>1, MatchFields, StageFields
  <2>3. /\ bid \in DOMAIN book.orders /\ IsLimit(book.orders[bid])
        /\ ask \in DOMAIN book.orders /\ IsLimit(book.orders[ask])
    <3>1. HasBest(book, "bids") /\ HasBest(book, "asks")
      BY <1>2 DEF Crossed
    <3> QED
      BY <1>1, <3>1, BestIsQuoted, FirstIsQuoted
  <2>4. Goto(<<g, f>>)
    BY <1>2 DEF Match
  <2>5. bid \in AnyOrder /\ ask \in AnyOrder
    BY <1>1, <2>3, LinkedIsPending, Numbers DEF AnyOrder
  <2> HIDE DEF label, bid, ask
  <2>6. f \in Frame
    BY <2>5, PairFrameType
  <2>7. f.at = "pair" /\ f.bid = bid /\ f.ask = ask
    BY DEF PairFrame
  <2> HIDE DEF g, f
  <2>8. Respects(f, book, taker)
    BY <2>3, <2>7 DEF Respects, Mentioned
  <2>9. g \in Frame /\ \A b, t : Respects(g, b, t)
    BY <1>1, <2>1, <2>2, MatchFields, StageRespects
  <2> QED
    BY <1>1, <2>4, <2>6, <2>8, <2>9, TwoWhole
<1>3. CASE ~Crossed(book) /\ Call.internal
  <2>1. ReturnFromMatch(Call, Callers)
    BY <1>1, <1>3 DEF Match
  <2> QED
    BY <1>1, <2>1, InnermostRespects, ReturnFromMatchWhole
<1>4. CASE ~Crossed(book) /\ ~Call.internal
  <2> DEFINE g == [Call EXCEPT !.at = "buy_stops", !.activated = FALSE, !.again = FALSE]
  <2>1. Goto(<<g>>)
    BY <1>4 DEF Match
  <2>2. "buy_stops" \in MatchLabels
    BY DEF MatchLabels
  <2>3. g \in Frame /\ \A b, t : Respects(g, b, t)
    <3> HIDE DEF g
    <3> QED
      BY <1>1, <1>4, <2>2, StageRespects DEF g
  <2> HIDE DEF g
  <2> QED
    BY <1>1, <2>1, <2>3, OneWhole
<1> QED
  BY <1>2, <1>3, <1>4

\* The chains of a pair are those of quoted levels.
LEMMA PairWholeWhole ==
    ASSUME IInv, Whole, At("pair"), NEW i \in DOMAIN book.orders, NEW j \in DOMAIN book.orders,
           IsLimit(book.orders[i]), IsLimit(book.orders[j]),
           PairWhole(book.orders[i], book.orders[j])
    PROVE  Whole'
<1> DEFINE bid == book.orders[i]
           ask == book.orders[j]
           chain == ChainForPair(book, bid.Level, ask.Level)
           f == AskChainFrame(ask.Level, ask.Id, chain)
           g == ChainFrame(bid.Level, NoOrder, bid.Price, chain)
           outer == SubSeq(calls, 1, Len(calls) - 2)
<1>1. calls # << >> /\ Valid(book)
  BY DEF At, IInv
<1>2. /\ bid.Level \in LevelKey /\ ask.Level \in LevelKey /\ bid.Price \in UInt64
      /\ ask.Id \in Ids /\ bid.Level \in AnyLevel /\ NoOrder \in AnyOrder
  BY <1>1, LinkedIsPending, Numbers DEF Pending, AnyLevel, AnyOrder
<1>3. chain \in UInt64
  BY ChainForPairType
<1>4. \/ ReturnFromMatch(calls[Len(calls) - 1], outer)
      \/ Goto(<<f, g>>)
  BY DEF PairWhole
<1>5. Quoted(bid.Level) /\ Quoted(ask.Level)
  BY <1>1, QuotedOrder
<1> HIDE DEF chain, bid, ask
<1>6. f \in Frame /\ g \in Frame
  BY <1>2, <1>3, AskChainFrameType, ChainFrameType
<1>7. /\ f.at = "ask_chain" /\ f.level = ask.Level
      /\ g.at = "chain" /\ g.level = bid.Level /\ g.order = NoOrder
  BY DEF AskChainFrame, ChainFrame
<1> HIDE DEF f, g
<1>8. Respects(f, book, taker) /\ Respects(g, book, taker)
  BY <1>5, <1>7 DEF Respects, Mentioned
<1>9. AllRespect(outer, book, taker)
  <2>1. StackOK(calls, taker) /\ Len(calls) - 2 \in Int /\ Len(calls) - 2 <= Len(calls)
    BY LenProperties DEF IInv, StackOK
  <2>2. \A n \in 1 .. Len(outer) : n \in 1 .. Len(calls) /\ outer[n] = calls[n]
    BY <2>1, OuterStack
  <2> HIDE DEF outer
  <2> QED
    BY <2>2 DEF Whole, AllRespect
<1> HIDE DEF outer
<1> QED
  BY <1>1, <1>4, <1>6, <1>8, <1>9, TwoWhole, ReturnFromMatchWhole

\* Neither order of a pair that is executed in part is an All-Or-None order.
LEMMA PairStepWhole ==
    ASSUME VolumeFits, IInv, Whole, At("pair"), NEW i \in DOMAIN book.orders,
           NEW j \in DOMAIN book.orders, IsLimit(book.orders[i]), IsLimit(book.orders[j]),
           ~IsAON(book.orders[i]), ~IsAON(book.orders[j]),
           PairStep(book.orders[i], book.orders[j])
    PROVE  Whole'
<1> DEFINE bid == book.orders[i]
           ask == book.orders[j]
           executing == IF bid.LeavesQuantity > ask.LeavesQuantity THEN ask ELSE bid
           reducing == IF bid.LeavesQuantity > ask.LeavesQuantity THEN bid ELSE ask
           f == ReducingFrame(reducing.Id, executing.Price, executing.LeavesQuantity,
                              NextOrder(book, bid.Id), NextOrder(book, ask.Id))
<1>1. calls # << >> /\ Valid(book)
  BY DEF At, IInv
<1>2. \A o \in {bid, ask} :
         /\ o.Id \in DOMAIN book.orders /\ o.Id \in Ids /\ o.Price \in UInt64
         /\ o.LeavesQuantity \in 1 .. MaxQuantity /\ book.orders[o.Id] = o
  <2>1. bid.Id = i /\ ask.Id = j
    BY <1>1, LinkedIsPending
  <2>2. \A o \in {bid, ask} :
           /\ o.Id \in DOMAIN book.orders /\ o.Id \in Ids /\ o.Price \in UInt64
           /\ o.LeavesQuantity \in 1 .. MaxQuantity
    BY <1>1, LinkedIsPending, Numbers, SMTT(30) DEF Pending
  <2> QED
    BY <2>1, <2>2
<1>3. \A o \in {bid, ask} :
         /\ ~IsAON(o) /\ NextOrder(book, o.Id) \in AnyOrder
         /\ NextOrder(book, o.Id) # NoOrder => IsLimit(book.orders[NextOrder(book, o.Id)])
  BY <1>1, <1>2, NextOrderType, NextIsQuoted
<1>4. ExecuteWhole(executing.Id, executing.Price, <<f>>)
  BY DEF PairStep
<1>5. executing \in {bid, ask} /\ reducing \in {bid, ask}
  OBVIOUS
<1> HIDE DEF bid, ask, executing, reducing
<1>6. f \in Frame
  BY <1>2, <1>3, <1>5, ReducingFrameType
<1>7. /\ f.at = "reducing" /\ f.order = reducing.Id
      /\ f.bid = NextOrder(book, bid.Id) /\ f.ask = NextOrder(book, ask.Id)
  BY DEF ReducingFrame
<1> HIDE DEF f
<1>8. ~IsAON(book.orders[f.order])
  BY <1>2, <1>3, <1>5, <1>7
<1>9. \A id \in {f.order, f.bid, f.ask} \ {NoOrder} : IsLimit(book.orders[id])
  <2>1. IsLimit(bid) /\ IsLimit(ask)
    BY DEF bid, ask
  <2> QED
    BY <1>2, <1>3, <1>5, <1>7, <2>1
<1>10. Respects(f, book, taker)
  BY <1>7, <1>8, <1>9 DEF Respects, Mentioned
<1>11. \A b : Shrinks(book, b) => Respects(f, b, taker)
  BY <1>10, RespectsLess
<1>12. executing.Id \in DOMAIN book.orders
  BY <1>2, <1>5
<1> QED
  BY <1>1, <1>4, <1>6, <1>11, <1>12, ExecuteWholeWhole

LEMMA PairingWhole ==
    ASSUME VolumeFits, IInv, Whole, Pair
    PROVE  Whole'
<1>1. At("pair") /\ calls # << >> /\ Call.at = "pair"
  BY DEF Pair, At
<1>2. \/ Goto(<< >>)
      \/ UseAfterRelease
      \/ /\ Call.bid # NoOrder /\ Call.ask # NoOrder
         /\ Call.bid \in DOMAIN book.orders /\ Call.ask \in DOMAIN book.orders
         /\ \/ PairWhole(book.orders[Call.bid], book.orders[Call.ask])
            \/ /\ ~IsAON(book.orders[Call.bid]) /\ ~IsAON(book.orders[Call.ask])
               /\ PairStep(book.orders[Call.bid], book.orders[Call.ask])
  BY Zenon DEF Pair, Released
<1>3. Respects(Call, book, taker)
  BY <1>1, InnermostRespects
<1>4. \A id \in {Call.bid, Call.ask} \ {NoOrder} :
         id \in DOMAIN book.orders => IsLimit(book.orders[id])
  BY <1>1, <1>3 DEF Respects, Mentioned
<1> QED
  BY <1>1, <1>2, <1>4, ReturnWhole, UseWhole, PairWholeWhole, PairStepWhole

LEMMA ReducingWhole ==
    ASSUME VolumeFits, IInv, Whole, Reducing
    PROVE  Whole'
<1> DEFINE f == PairFrame(Call.bid, Call.ask)
<1>1. calls # << >> /\ Call \in ReducingFrames /\ Call.at = "reducing" /\ Valid(book)
  BY CallParts, FrameParts DEF Reducing, At
<1>2. /\ Call.price \in UInt64 /\ Call.quantity \in Nat
      /\ Call.bid \in AnyOrder /\ Call.ask \in AnyOrder /\ Call.order \in Ids
  BY <1>1, Numbers DEF ReducingFrames
<1>3. \/ UseAfterRelease
      \/ /\ Call.order \in DOMAIN book.orders
         /\ ExecuteResting(Call.order, Call.price, Call.quantity, <<f>>)
  BY DEF Reducing, Released
<1>4. Respects(Call, book, taker)
  BY <1>1, InnermostRespects
<1>5. Call.order # NoOrder
  BY <1>2, CallAssumption DEF NoOrder
<1>6. Call.order \in DOMAIN book.orders =>
         IsLimit(book.orders[Call.order]) /\ ~IsAON(book.orders[Call.order])
  BY <1>1, <1>4, <1>5 DEF Respects, Mentioned
<1>7. f \in Frame
  BY <1>2, PairFrameType
<1>8. f.at = "pair" /\ f.bid = Call.bid /\ f.ask = Call.ask
  BY DEF PairFrame
<1> HIDE DEF f
<1>9. Respects(f, book, taker)
  BY <1>1, <1>4, <1>8 DEF Respects, Mentioned
<1>10. \A b : Shrinks(book, b) => Respects(f, b, taker)
  BY <1>9, RespectsLess
<1> QED
  BY <1>1, <1>2, <1>3, <1>6, <1>7, <1>10, UseWhole, ExecuteRestingWhole

LEMMA AskChainWhole ==
    ASSUME IInv, Whole, AskChain
    PROVE  Whole'
<1> DEFINE f == ChainFrame(Call.level, NoOrder, book.orders[Call.order].Price, Call.volume)
<1>1. calls # << >> /\ Call \in AskChainFrames /\ Valid(book) /\ Call.at = "ask_chain"
  BY CallParts, FrameParts DEF AskChain, At
<1>2. \/ UseAfterRelease
      \/ Call.order \in DOMAIN book.orders /\ Goto(<<f>>)
  BY DEF AskChain, Released
<1>3. CASE Call.order \in DOMAIN book.orders /\ Goto(<<f>>)
  <2>1. /\ Call.level \in AnyLevel /\ NoOrder \in AnyOrder /\ Call.volume \in UInt64
    BY <1>1 DEF AskChainFrames, AnyLevel, AnyOrder
  <2>2. book.orders[Call.order].Price \in UInt64
    BY <1>1, <1>3, LinkedIsPending DEF Pending
  <2>3. f \in Frame
    BY <2>1, <2>2, ChainFrameType
  <2>4. f.at = "chain" /\ f.order = NoOrder /\ f.level = Call.level
    BY DEF ChainFrame
  <2> HIDE DEF f
  <2>5. Respects(f, book, taker)
    BY <1>1, <2>4, InnermostRespects DEF Respects, Mentioned
  <2> QED
    BY <1>1, <1>3, <2>3, <2>5, OneWhole
<1> QED
  BY <1>2, <1>3, UseWhole

\* A stage of Match, with the frames of an activation if there is one.
LEMMA ActivationRespects ==
    ASSUME NEW b, NEW t, NEW s \in Seq(Frame), AllRespect(s, b, t), NEW activation,
           \/ activation = << >>
           \/ \E order \in AnyOrder : activation = <<ActivateFrame(order)>>
    PROVE  s \o activation \in Seq(Frame) /\ AllRespect(s \o activation, b, t)
<1>1. activation \in Seq(Frame) /\ AllRespect(activation, b, t)
  <2>1. CASE activation = << >>
    BY <2>1, RespectsNone
  <2>2. CASE \E order \in AnyOrder : activation = <<ActivateFrame(order)>>
    <3>1. PICK order \in AnyOrder : activation = <<ActivateFrame(order)>>
      BY <2>2
    <3> DEFINE h == ActivateFrame(order)
    <3>2. h \in Frame /\ Passive(h)
      BY ActivateFrameType DEF ActivateFrame, Passive
    <3> HIDE DEF h
    <3>3. <<h>> \in Seq(Frame) /\ AllRespect(<<h>>, b, t)
      BY <3>2, PassiveRespects, RespectsOne
    <3> QED
      BY <3>1, <3>3 DEF h
  <2> QED
    BY <2>1, <2>2
<1> QED
  BY <1>1, RespectsJoin

LEMMA PairStopsWhole ==
    ASSUME IInv, Whole, PairStops
    PROVE  Whole'
<1>1. ASSUME NEW label \in {"pair_sell_stops", "match"}, NEW c \in StopCollections,
             calls # << >>, Call.at \in {"pair_buy_stops", "pair_sell_stops"},
             Goto(<<[Call EXCEPT !.at = label]>> \o Activation(c))
      PROVE  Whole'
  <2> DEFINE g == [Call EXCEPT !.at = label]
             s == <<g>>
  <2>1. Call.at \in MatchLabels /\ label \in MatchLabels /\ Call.at # "match" /\ Valid(book)
    BY <1>1 DEF MatchLabels, IInv
  <2>2. ~Call.internal
    BY <1>1, <2>1, MatchFields
  <2>3. g = [Call EXCEPT !.at = label, !.activated = Call.activated, !.again = Call.again]
    BY <1>1, <2>1, MatchFields, StageFields
  <2> HIDE DEF g
  <2>4. g \in Frame /\ \A b, t : Respects(g, b, t)
    BY <1>1, <2>1, <2>2, <2>3, MatchFields, StageRespects
  <2>5. s \in Seq(Frame) /\ AllRespect(s, book, taker)
    BY <2>4, RespectsOne
  <2> HIDE DEF s
  <2>6. s \o Activation(c) \in Seq(Frame) /\ AllRespect(s \o Activation(c), book, taker)
    BY <2>1, <2>5, StopCollectionsType, ActivationType, ActivationRespects
  <2> QED
    BY <1>1, <2>6, GotoWhole DEF s, g
<1>2. \/ /\ calls # << >> /\ Call.at = "pair_buy_stops"
         /\ Goto(<<[Call EXCEPT !.at = "pair_sell_stops"]>> \o Activation("buy_stop"))
      \/ /\ calls # << >> /\ Call.at = "pair_sell_stops"
         /\ Goto(<<[Call EXCEPT !.at = "match"]>> \o Activation("sell_stop"))
  BY DEF PairStops, At
<1>3. "buy_stop" \in StopCollections /\ "sell_stop" \in StopCollections
  BY DEF StopCollections
<1> QED
  BY <1>1, <1>2, <1>3

LEMMA StopsWhole ==
    ASSUME IInv, Whole, Stops
    PROVE  Whole'
<1>1. ASSUME NEW label \in {"sell_stops", "round"}, NEW side \in {"bid", "ask"},
             NEW again \in BOOLEAN, NEW activation, calls # << >>,
             Call.at \in {"buy_stops", "sell_stops"},
             \/ activation = << >>
             \/ \E order \in AnyOrder : activation = <<ActivateFrame(order)>>,
             Goto(<<[Call EXCEPT !.at = label, !.again = again], RecalculateFrame(side)>>
                  \o activation)
      PROVE  Whole'
  <2> DEFINE g == [Call EXCEPT !.at = label, !.again = again]
             f == RecalculateFrame(side)
             s == <<g, f>>
  <2>1. Call.at \in MatchLabels /\ label \in MatchLabels /\ Call.at # "match"
    BY <1>1 DEF MatchLabels
  <2>2. ~Call.internal
    BY <1>1, <2>1, MatchFields
  <2>3. g = [Call EXCEPT !.at = label, !.activated = Call.activated, !.again = again]
    BY <1>1, <2>1, MatchFields, StageFields
  <2>4. f \in Frame /\ Passive(f)
    BY RecalculateFrameType DEF RecalculateFrame, Passive
  <2> HIDE DEF g, f
  <2>5. g \in Frame /\ \A b, t : Respects(g, b, t)
    BY <1>1, <2>1, <2>2, <2>3, MatchFields, StageRespects
  <2>6. s \in Seq(Frame) /\ AllRespect(s, book, taker)
    BY <2>4, <2>5, PassiveRespects, RespectsTwo
  <2> HIDE DEF s
  <2>7. s \o activation \in Seq(Frame) /\ AllRespect(s \o activation, book, taker)
    BY <1>1, <2>6, ActivationRespects
  <2> QED
    BY <1>1, <2>7, GotoWhole DEF s, g, f
<1> DEFINE buy == ActivationOf("buy_stop", "trailing_buy_stop")
           sell == ActivationOf("sell_stop", "trailing_sell_stop")
           more == buy # << >>
           any == Call.again \/ sell # << >>
<1>2. \/ /\ calls # << >> /\ Call.at = "buy_stops"
         /\ Goto(<<[Call EXCEPT !.at = "sell_stops", !.again = more],
                   RecalculateFrame("ask")>> \o buy)
      \/ /\ calls # << >> /\ Call.at = "sell_stops"
         /\ Goto(<<[Call EXCEPT !.at = "round", !.again = any],
                   RecalculateFrame("bid")>> \o sell)
  BY DEF Stops, At
<1>3. Call.again \in BOOLEAN /\ Valid(book)
  BY <1>2, MatchFields DEF MatchLabels, IInv
<1>4. /\ \/ buy = << >>
         \/ \E order \in AnyOrder : buy = <<ActivateFrame(order)>>
      /\ \/ sell = << >>
         \/ \E order \in AnyOrder : sell = <<ActivateFrame(order)>>
  BY <1>3, ActivationOfType DEF StopCollections
<1>5. more \in BOOLEAN /\ any \in BOOLEAN
  BY <1>3
<1> HIDE DEF buy, sell, more, any
<1> QED
  BY <1>1, <1>2, <1>4, <1>5

LEMMA RoundWhole ==
    ASSUME IInv, Whole, Round
    PROVE  Whole'
<1>1. calls # << >> /\ Call.at = "round" /\ Call.at \in MatchLabels
  BY DEF Round, At, MatchLabels
<1>2. /\ Call.activated \in BOOLEAN /\ Call.again \in BOOLEAN /\ ~Call.internal
      /\ Call \in MatchFrames
  BY <1>1, MatchFields
<1>3. \/ Goto(<<[Call EXCEPT !.at = "buy_stops", !.activated = TRUE, !.again = FALSE]>>)
      \/ Goto(<<[Call EXCEPT !.at = "match"]>>)
      \/ ReturnFromMatch(Call, Callers)
  BY Zenon DEF Round
<1>4. CASE Goto(<<[Call EXCEPT !.at = "buy_stops", !.activated = TRUE, !.again = FALSE]>>)
  <2> DEFINE g == [Call EXCEPT !.at = "buy_stops", !.activated = TRUE, !.again = FALSE]
  <2>1. "buy_stops" \in MatchLabels
    BY DEF MatchLabels
  <2>2. g \in Frame /\ \A b, t : Respects(g, b, t)
    <3> HIDE DEF g
    <3> QED
      BY <1>1, <1>2, <2>1, StageRespects DEF g
  <2>3. Goto(<<g>>)
    BY <1>4
  <2> HIDE DEF g
  <2> QED
    BY <1>1, <2>2, <2>3, OneWhole
<1>5. CASE Goto(<<[Call EXCEPT !.at = "match"]>>)
  <2> DEFINE g == [Call EXCEPT !.at = "match"]
  <2>1. g = [Call EXCEPT !.at = "match", !.activated = Call.activated, !.again = Call.again]
    BY <1>2, StageFields
  <2>2. "match" \in MatchLabels
    BY DEF MatchLabels
  <2>3. Goto(<<g>>)
    BY <1>5
  <2> HIDE DEF g
  <2>4. g \in Frame /\ \A b, t : Respects(g, b, t)
    BY <1>1, <1>2, <2>1, <2>2, StageRespects
  <2> QED
    BY <1>1, <2>3, <2>4, OneWhole
<1>6. CASE ReturnFromMatch(Call, Callers)
  BY <1>1, <1>6, InnermostRespects, ReturnFromMatchWhole
<1> QED
  BY <1>3, <1>4, <1>5, <1>6

\* Nothing of an order was executed when it is activated.
LEMMA ActivateWhole ==
    ASSUME VolumeFits, IInv, Whole, Activate
    PROVE  Whole'
<1> DEFINE id == Call.order
           b == DeleteOrder(book, id)
           o == Activated(book.orders[id])
           t == [Priced(b, o) EXCEPT !.Level = NoLevel]
           f == ActivateFrame(NextOrder(book, id))
           frames == <<f, FinishFrame>> \o Matching(b, o)
<1>1. calls # << >> /\ Call.at = "activate" /\ Valid(book) /\ IntactBook(book)
  BY DEF Activate, At, IInv, Whole
<1>2. \/ Goto(<< >>)
      \/ UseAfterRelease
      \/ /\ id \in DOMAIN book.orders
         /\ book' = b /\ taker' = t /\ Continue(frames)
  BY Zenon DEF Activate, Released
<1>3. CASE /\ id \in DOMAIN book.orders
           /\ book' = b /\ taker' = t /\ Continue(frames)
  <2>1. IntactBook(b) /\ book.orders[id] \in Pending /\ Intact(book.orders[id])
    BY <1>1, <1>3, LessIsIntact DEF IntactResting
  <2>2. o \in Pending /\ Intact(o)
    BY <2>1, ActivatedIsPending, IntactActivated
  <2>3. NextOrder(book, id) \in AnyOrder
    BY <1>1, <1>3, NextOrderType
  <2>4. f \in Frame /\ Passive(f)
    BY <2>3, ActivateFrameType DEF ActivateFrame, Passive
  <2> HIDE DEF f, b, o
  <2>5. Intact(t)
    BY <2>2, IntactPriced
  <2> HIDE DEF t
  <2>6. IntactTaker(taker') /\ IntactBook(book')
    BY <1>3, <2>1, <2>5 DEF IntactTaker
  <2>7. frames \in Seq(Frame) /\ AllRespect(frames, book', taker')
    BY <2>4, RespectsEntry
  <2> HIDE DEF frames
  <2>8. Rank(Call) # 3
    BY <1>1 DEF Rank
  <2> QED
    BY <1>1, <1>3, <2>6, <2>7, <2>8, ContinueWhole
<1> QED
  BY <1>1, <1>2, <1>3, ReturnWhole, UseWhole

LEMMA RecalculateWhole ==
    ASSUME IInv, Whole, Recalculate
    PROVE  Whole'
<1>1. calls # << >> /\ Call.at = "recalculate" /\ Valid(book)
  BY DEF Recalculate, At, IInv
<1> DEFINE c == IF Call.side = "ask" THEN "trailing_buy_stop" ELSE "trailing_sell_stop"
           f == WalkFrom(c, NoLevel, FirstLevel(book, c))
           s == <<f>>
           none == << >>
<1>2. \/ Goto(none)
      \/ /\ Continue(s) \/ Continue(none)
         /\ book' = book /\ taker' = taker
  BY DEF Recalculate
<1>3. c \in Collections /\ NoLevel \in AnyLevel
  BY DEF Collections, BidCollections, AskCollections, AnyLevel
<1>4. Passive(f)
  BY DEF WalkFrom, WalkFrame, Passive
<1> HIDE DEF c
<1>5. f \in Frame
  BY <1>1, <1>3, FirstLevelType, WalkFromType
<1> HIDE DEF f
<1>6. s \in Seq(Frame) /\ AllRespect(s, book, taker)
  BY <1>4, <1>5, PassiveRespects, RespectsOne
<1>7. none \in Seq(Frame) /\ AllRespect(none, book, taker)
  BY RespectsNone
<1>8. CASE Goto(none)
  BY <1>1, <1>8, ReturnWhole
<1> HIDE DEF s, none
<1>9. CASE /\ Continue(s) \/ Continue(none)
           /\ book' = book /\ taker' = taker
  <2>1. Rank(Call) # 3 /\ IntactBook(book') /\ IntactTaker(taker')
    BY <1>1, <1>9 DEF Rank, Whole
  <2>2. AllRespect(s, book', taker') /\ AllRespect(none, book', taker')
    BY <1>6, <1>7, <1>9
  <2> QED
    BY <1>1, <1>6, <1>7, <1>9, <2>1, <2>2, ContinueWhole
<1> QED
  BY <1>2, <1>8, <1>9

\* An order that moves keeps what was executed of it.
LEMMA FollowWhole ==
    ASSUME VolumeFits, IInv, Whole, At("walk"), Call.order \in DOMAIN book.orders,
           Follow(Call.order)
    PROVE  Whole'
<1> DEFINE id == Call.order
           old == book.orders[id]
           o == WithTrailingStop(book, last, old)
           moves == o.StopPrice # old.StopPrice
           b == DeleteOrder(book, id)
           f == [Call EXCEPT !.order = NextOrder(book, id),
                             !.recalculated = Call.recalculated \/ moves]
           s == <<f>>
<1>1. /\ calls # << >> /\ Call.at = "walk" /\ Call \in WalkFrames /\ Valid(book)
      /\ IntactBook(book)
  BY CallParts, FrameParts DEF At, Whole
<1>2. /\ book' = IF moves THEN AddOrder(b, o) ELSE book
      /\ Continue(s) /\ taker' = taker
  BY DEF Follow
<1>3. NextOrder(book, id) \in AnyOrder
  BY <1>1, NextOrderType
<1>4. f \in Frame /\ f.at = "walk"
  <2>1. moves \in BOOLEAN
    OBVIOUS
  <2> HIDE DEF moves, id
  <2>2. f \in WalkFrames
    BY <1>1, <1>3, <2>1 DEF WalkFrames
  <2>3. f.at = "walk"
    BY <1>1 DEF WalkFrames
  <2> QED
    BY <2>2, <2>3 DEF Frame
<1> HIDE DEF f
<1>5. IntactBook(book')
  <2>1. CASE moves
    <3>1. IntactBook(b) /\ old \in Pending /\ IntactResting(old)
      BY <1>1, LessIsIntact
    <3>2. last \in MarketPrices
      BY DEF IInv
    <3> HIDE DEF old
    <3>3. o \in Pending /\ IntactResting(o)
      BY <1>1, <3>1, <3>2, FollowingIsPending, IntactFollowing
    <3> HIDE DEF o
    <3>4. book' = AddOrder(b, o)
      BY <1>2, <2>1
    <3> HIDE DEF b
    <3> QED
      BY <3>1, <3>3, <3>4, MoreIsIntact
  <2>2. CASE ~moves
    BY <1>1, <1>2, <2>2
  <2> QED
    BY <2>1, <2>2
<1>6. s \in Seq(Frame) /\ AllRespect(s, book', taker')
  BY <1>4, PassiveRespects, RespectsOne DEF Passive
<1> HIDE DEF s
<1>7. Rank(Call) # 3 /\ IntactTaker(taker')
  BY <1>1, <1>2 DEF Rank, Whole
<1> QED
  BY <1>1, <1>2, <1>5, <1>6, <1>7, ContinueWhole

LEMMA WalkWhole ==
    ASSUME VolumeFits, IInv, Whole, Walk
    PROVE  Whole'
<1>1. At("walk") /\ calls # << >> /\ Call \in WalkFrames /\ Valid(book)
  BY CallParts, FrameParts DEF Walk, At, IInv
<1>2. \/ Goto(<< >>)
      \/ UseAfterRelease
      \/ Call.order \in DOMAIN book.orders /\ Follow(Call.order)
      \/ /\ Call.current # NoLevel
         /\ Call.recalculated => Call.previous \in DOMAIN book.levels \cup {NoLevel}
         /\ Goto(<<NextLevel>>)
  BY <1>1 DEF Walk, Released
<1>3. CASE /\ Call.current # NoLevel
           /\ Call.recalculated => Call.previous \in DOMAIN book.levels \cup {NoLevel}
           /\ Goto(<<NextLevel>>)
  <2>1. NextLevel \in Frame
    BY <1>1, <1>3, NextLevelType
  <2>2. Passive(NextLevel)
    BY DEF NextLevel, WalkFrom, WalkFrame, Passive
  <2> QED
    BY <1>1, <1>3, <2>1, <2>2, PassiveRespects, OneWhole
<1> QED
  BY <1>1, <1>2, <1>3, ReturnWhole, UseWhole, FollowWhole

-----------------------------------------------------------------------------
(* Calls of the manager on orders that are executed whole or not at all *)

LEMMA EndIsPassive ==
    EndOfCall \in Frame /\ Passive(EndOfCall)
<1>1. EndOfCall \in {MatchFrame(FALSE, TRUE), ResetFrame}
  BY DEF EndOfCall
<1>2. Passive(EndOfCall)
  BY <1>1 DEF MatchFrame, ResetFrame, Passive
<1> QED
  BY <1>2, EndOfCallType

LEMMA FinishIsPassive ==
    FinishFrame \in Frame /\ Passive(FinishFrame)
BY DEF FinishFrame, Frame, Passive

LEMMA SubmitWhole ==
    ASSUME NEW b, IntactBook(b), NEW o \in Pending, Intact(o), Submit(b, o)
    PROVE  Whole'
<1> DEFINE t == [(IF enabled THEN Priced(b, o) ELSE o) EXCEPT !.Level = NoLevel]
           s == <<EndOfCall, FinishFrame>>
           r == IF enabled THEN Matching(b, o) ELSE << >>
<1>1. book' = b /\ taker' = t /\ calls' = s \o r
  BY DEF Submit
<1>2. Intact(t)
  BY IntactPriced
<1>3. s \in Seq(Frame) /\ AllRespect(s, b, t)
  <2> HIDE DEF t
  <2> DEFINE e == EndOfCall
  <2>1. e \in Frame /\ Passive(e)
    BY EndIsPassive
  <2> HIDE DEF e
  <2>2. <<e, FinishFrame>> \in Seq(Frame) /\ AllRespect(<<e, FinishFrame>>, b, t)
    BY <2>1, FinishIsPassive, PassiveRespects, RespectsTwo
  <2> QED
    BY <2>2 DEF e
<1>4. << >> \in Seq(Frame) /\ AllRespect(<< >>, b, t)
  BY RespectsNone
<1>5. s \o r \in Seq(Frame) /\ AllRespect(s \o r, b, t)
  <2>1. CASE enabled
    <3>1. r = Matching(b, o)
      BY <2>1
    <3> HIDE DEF t, r
    <3> QED
      BY <3>1, EndIsPassive, RespectsEntry
  <2>2. CASE ~enabled
    <3>1. r = << >>
      BY <2>2
    <3> HIDE DEF t, r, s
    <3> QED
      BY <1>3, <1>4, <3>1, RespectsJoin
  <2> QED
    BY <2>1, <2>2
<1> HIDE DEF s, r, t
<1>6. IntactTaker(t)
  BY <1>2 DEF IntactTaker
<1> QED
  BY <1>1, <1>5, <1>6 DEF Whole

LEMMA SettleWhole ==
    ASSUME Whole, NEW b, IntactBook(b), Settle(b)
    PROVE  Whole'
<1> DEFINE e == EndOfCall
           s == <<e>>
<1>1. book' = b /\ taker' = taker /\ calls' = s
  BY DEF Settle
<1>2. e \in Frame /\ Passive(e)
  BY EndIsPassive
<1> HIDE DEF e
<1>3. AllRespect(s, b, taker)
  BY <1>2, PassiveRespects, RespectsOne
<1> HIDE DEF s
<1> QED
  BY <1>1, <1>3 DEF Whole

LEMMA SubmitNewWhole ==
    ASSUME IInv, Whole, NEW o \in Pending, Intact(o), SubmitNew(o)
    PROVE  Whole'
<1> DEFINE new == WithTrailingStop(book, last, o)
           s == <<EndOfCall, FinishFrame>>
<1>1. Valid(book) /\ IntactBook(book) /\ last \in MarketPrices
  BY DEF IInv, Whole
<1>2. \/ o.Type \in {"MARKET", "LIMIT"} /\ Submit(book, o)
      \/ /\ o.Type \notin {"MARKET", "LIMIT"}
         /\ \/ Submit(book, Activated(new))
            \/ taker' = new /\ calls' = s /\ book' = book
  BY Zenon DEF SubmitNew
<1>3. CASE o.Type \in {"MARKET", "LIMIT"} /\ Submit(book, o)
  BY <1>1, <1>3, SubmitWhole
<1>4. CASE /\ o.Type \notin {"MARKET", "LIMIT"}
           /\ \/ Submit(book, Activated(new))
              \/ taker' = new /\ calls' = s /\ book' = book
  <2>1. IntactResting(o)
    BY <1>4 DEF IntactResting, IsLimit
  <2>2. new \in Pending /\ Intact(new)
    BY <1>1, <2>1, FollowingIsPending, IntactFollowing DEF IntactResting
  <2> HIDE DEF new
  <2>3. Activated(new) \in Pending /\ Intact(Activated(new))
    BY <2>2, ActivatedIsPending, IntactActivated
  <2>4. CASE Submit(book, Activated(new))
    BY <1>1, <2>3, <2>4, SubmitWhole
  <2>5. CASE taker' = new /\ calls' = s /\ book' = book
    <3> DEFINE e == EndOfCall
    <3>1. e \in Frame /\ Passive(e)
      BY EndIsPassive
    <3> HIDE DEF e
    <3>2. AllRespect(<<e, FinishFrame>>, book, new)
      BY <3>1, FinishIsPassive, PassiveRespects, RespectsTwo
    <3>3. AllRespect(s, book, new)
      BY <3>2 DEF e
    <3>4. IntactTaker(new)
      BY <2>2 DEF IntactTaker
    <3> HIDE DEF s
    <3> QED
      BY <1>1, <2>5, <3>3, <3>4 DEF Whole
  <2> QED
    BY <1>4, <2>4, <2>5
<1> QED
  BY <1>2, <1>3, <1>4

LEMMA NewIsIntact ==
    ASSUME NEW t \in NewOrders, NEW id \in Ids
    PROVE  MakeOrder(t, id) \in Pending /\ Intact(MakeOrder(t, id))
<1>1. MakeOrder(t, id).ExecutedQuantity = 0
  BY DEF MakeOrder
<1> QED
  BY <1>1, NewOrderIsUnlinked DEF Unlinked, Intact

LEMMA AddAfterDeleteWhole ==
    ASSUME IInv, Whole, AddAfterDelete
    PROVE  Whole'
<1>1. calls # << >> /\ Call \in AddFrames
  BY CallParts, FrameParts DEF AddAfterDelete, At
<1>2. PICK t \in NewOrders, id \in Ids : Call = AddFrame(MakeOrder(t, id))
  BY <1>1 DEF AddFrames
<1>3. Call.new = MakeOrder(t, id)
  BY <1>2 DEF AddFrame
<1>4. SubmitNew(Call.new) \/ Goto(<< >>)
  BY DEF AddAfterDelete
<1> QED
  BY <1>1, <1>3, <1>4, NewIsIntact, SubmitNewWhole, ReturnWhole

LEMMA ResetWhole ==
    ASSUME IInv, Whole, ResetMatchingPrice
    PROVE  Whole'
<1>1. calls # << >> /\ calls' = Callers /\ book' = book /\ taker' = taker
  BY DEF ResetMatchingPrice, At
<1>2. AllRespect(Callers, book, taker)
  BY <1>1, InnermostRespects
<1> QED
  BY <1>1, <1>2 DEF Whole

LEMMA StepWhole ==
    ASSUME VolumeFits, IInv, Whole, Step
    PROVE  Whole'
BY MatchOrderWhole, TakeWhole, FilledWhole, FinishWhole, ChainWhole, MatchingWhole,
   PairingWhole, ReducingWhole, AskChainWhole, PairStopsWhole, StopsWhole, RoundWhole,
   ActivateWhole, RecalculateWhole, WalkWhole, AddAfterDeleteWhole, ResetWhole
   DEF Step

LEMMA IntactReduced ==
    ASSUME NEW o \in Pending, IntactResting(o), NEW quantity
    PROVE  IntactResting(Reduced(o, quantity))
<1> DEFINE leaves == o.LeavesQuantity - Lesser(quantity, o.LeavesQuantity)
           p == Reduced(o, quantity)
<1>1. p = [o EXCEPT !.LeavesQuantity = leaves]
  BY DEF Reduced
<1> HIDE DEF p, leaves
<1>2. /\ p.ExecutedQuantity = o.ExecutedQuantity /\ p.TimeInForce = o.TimeInForce
      /\ p.Type = o.Type
  BY <1>1 DEF Pending
<1> QED
  BY <1>2, IntactAs DEF IntactResting, IsFOK, IsLimit, p

\* The caller itself executes no order in part.
LEMMA OperationWhole ==
    ASSUME VolumeFits, "execute" \notin Operations, IInv, Whole,
           NEW id \in DOMAIN book.orders, Operation(id)
    PROVE  Whole'
<1> DEFINE o == book.orders[id]
           b == DeleteOrder(book, id)
<1>1. Valid(book) /\ IntactBook(book)
  BY DEF IInv, Whole
<1>2. IntactBook(b) /\ o \in Pending /\ IntactResting(o)
  BY <1>1, LessIsIntact
<1> HIDE DEF b, o
<1>3. Intact(o)
  BY <1>2 DEF IntactResting
<1>4. ASSUME NEW q \in Quantities, ReduceOrderBy(id, q) PROVE Whole'
  <2>1. q \in Nat /\ Reduced(book.orders[id], q) \in Lessened(book.orders[id], q)
    BY CallAssumption, Numbers DEF Lessened
  <2>2. IntactResting(Reduced(book.orders[id], q))
    BY <1>2, IntactReduced DEF o
  <2>3. IntactBook(ReduceOrder(book, Reduced(book.orders[id], q)))
    BY <1>1, <2>1, <2>2, LessIsIntact
  <2> QED
    BY <1>4, <2>3, SettleWhole DEF ReduceOrderBy
<1>5. ASSUME NEW p \in Prices, NEW q \in Quantities, NEW mitigate \in BOOLEAN,
             ModifyOrder(id, p, q, mitigate)
      PROVE  Whole'
  <2> DEFINE new == Modified(o, p, q, mitigate)
  <2>1. Submit(b, new) \/ Settle(b)
    BY <1>5 DEF ModifyOrder, o, b
  <2>2. new \in Pending /\ Intact(new)
    BY <1>2, <1>3, ModifiedIsPending, IntactModified
  <2> HIDE DEF new
  <2> QED
    BY <1>2, <2>1, <2>2, SubmitWhole, SettleWhole
<1>6. ASSUME NEW newId \in Ids, NEW p \in Prices, NEW q \in Quantities,
             ReplaceOrder(id, newId, p, q)
      PROVE  Whole'
  <2> DEFINE new == Replaced(o, newId, p, q)
  <2>1. Submit(b, new)
    BY <1>6 DEF ReplaceOrder, o, b
  <2>2. new \in Pending /\ Intact(new)
    BY <1>2, ReplacedIsPending, IntactReplaced
  <2> HIDE DEF new
  <2> QED
    BY <1>2, <2>1, <2>2, SubmitWhole
<1>7. ASSUME NEW t \in NewOrders, NEW newId \in Ids, ReplaceOrderWith(id, t, newId)
      PROVE  Whole'
  <2> DEFINE f == AddFrame(MakeOrder(t, newId))
             e == EndOfCall
             s == <<f, e>>
  <2>1. book' = b /\ taker' = taker /\ calls' = s
    BY <1>7 DEF ReplaceOrderWith, b
  <2>2. f \in Frame /\ Passive(f)
    BY AddFrameType DEF AddFrame, Passive
  <2>3. e \in Frame /\ Passive(e)
    BY EndIsPassive
  <2> HIDE DEF f, e
  <2>4. AllRespect(s, b, taker)
    BY <2>2, <2>3, PassiveRespects, RespectsTwo
  <2> HIDE DEF s
  <2> QED
    BY <1>2, <2>1, <2>4 DEF Whole
<1>8. ASSUME CancelOrder(id) PROVE Whole'
  BY <1>2, <1>8, SettleWhole DEF CancelOrder, b
<1> QED
  BY <1>4, <1>5, <1>6, <1>7, <1>8 DEF Operation

LEMMA RequestWhole ==
    ASSUME VolumeFits, "execute" \notin Operations, IInv, Whole, Request
    PROVE  Whole'
<1>1. CASE \E t \in NewOrders, id \in Ids : AddNewOrder(t, id)
  BY <1>1, NewIsIntact, SubmitNewWhole DEF AddNewOrder
<1>2. CASE \E id \in DOMAIN book.orders : Operation(id)
  BY <1>2, OperationWhole
<1>3. CASE \E enable \in BOOLEAN : MatchAll(enable)
  <2> DEFINE f == MatchFrame(FALSE, FALSE)
             s == <<f>>
  <2>1. book' = book /\ taker' = taker /\ calls' = s
    BY <1>3 DEF MatchAll
  <2>2. f \in Frame /\ Passive(f)
    BY MatchFrameType DEF MatchFrame, Passive
  <2> HIDE DEF f
  <2>3. AllRespect(s, book, taker)
    BY <2>2, PassiveRespects, RespectsOne
  <2> HIDE DEF s
  <2> QED
    BY <2>1, <2>3 DEF Whole
<1>4. CASE DisableMatching
  BY <1>4 DEF DisableMatching, Whole
<1> QED
  BY <1>1, <1>2, <1>3, <1>4 DEF Request

LEMMA InitWhole ==
    ASSUME Init
    PROVE  Whole
<1>1. book = EmptyBook /\ taker = NoTaker /\ calls = << >>
  BY DEF Init
<1>2. IntactBook(book)
  BY <1>1 DEF IntactBook, EmptyBook
<1>3. AllRespect(calls, book, taker)
  BY <1>1, RespectsNone
<1> QED
  BY <1>1, <1>2, <1>3 DEF Whole, IntactTaker

\* What is executed whole or not at all is an invariant, with the one of matching: also
\* of books with All-Or-None orders, and of manual matching.
THEOREM WholeHolds ==
    ASSUME VolumeFits, "execute" \notin Operations
    PROVE  Spec => [](IInv /\ Whole)
<1>1. Init => Whole
  BY InitWhole
<1>2. IInv /\ Whole /\ [Next]_vars => Whole'
  <2>1. ASSUME Whole, UNCHANGED vars PROVE Whole'
    BY <2>1 DEF vars, Whole
  <2> QED
    BY <2>1, RequestWhole, StepWhole DEF Next
<1> QED
  BY <1>1, <1>2, InvariantHolds, PTL DEF Spec

\* An All-Or-None order that rests was never executed in part, whichever way it was met:
\* by an order that is matched, in the chain of one, or in that of a crossed pair.
THEOREM AllOrNoneHolds ==
    ASSUME VolumeFits, "execute" \notin Operations
    PROVE  Spec => []AllOrNone
<1>1. Whole => AllOrNone
  BY DEF Whole, IntactBook, IntactResting, Intact, NeedsChain, AllOrNone
<1> QED
  BY <1>1, WholeHolds, PTL

\* A Fill-Or-Kill order is executed whole by its call or not at all, stop orders that
\* become one included.
THEOREM FillOrKillHolds ==
    ASSUME VolumeFits, "execute" \notin Operations
    PROVE  Spec => []FillOrKill
<1>1. IInv /\ Whole => FillOrKill
  <2>1. ASSUME IInv, Whole, At("finish"), IsFOK(taker)
        PROVE  taker.ExecutedQuantity = 0 \/ taker.LeavesQuantity = 0
    <3>1. taker # NoTaker
      BY <2>1, TakerOfCall, TakerIsSome DEF At
    <3> QED
      BY <2>1, <3>1 DEF Whole, IntactTaker, Intact, NeedsChain
  <2> QED
    BY <2>1 DEF FillOrKill
<1> QED
  BY <1>1, WholeHolds, PTL
=============================================================================

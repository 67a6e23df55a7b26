---------------------------- MODULE MatchingEngine ----------------------------
(***************************************************************************)
(* Automatic matching: what the operations of MarketManager do to one order *)
(* book after EnableMatching, in source/trader/matching/market_manager.cpp. *)
(*                                                                         *)
(* A call of the caller is not atomic here.  It runs as a sequence of steps *)
(* on an explicit call stack, because matching re-enters itself: Match and  *)
(* MatchOrder execute an order through DeleteOrder or ReduceOrder, which    *)
(* call Match(internal) before they return.  Orders are pointers into       *)
(* memory that these nested calls release; a step that reads an order or a  *)
(* level released meanwhile sets fault, and nothing is known after it.      *)
(*                                                                         *)
(* Calls that fail their checks change nothing and are left to              *)
(* MarketManager.                                                           *)
(***************************************************************************)
EXTENDS BookQueues

CONSTANTS
    NewOrders,     \* the orders the caller may enter, but for their id
    Prices,        \* prices of modify, replace and execute calls
    Quantities,    \* quantities of calls
    Operations,    \* the operations the caller uses besides adding orders
    MaxExecuted    \* bound of the model: orders that executed more are not modified

OperationNames == {"reduce", "modify", "mitigate", "replace", "replace_with", "delete",
                   "execute", "match", "enable", "disable"}

ASSUME CallAssumption ==
    /\ 0 \notin Ids   \* it is the null order pointer
    /\ NewOrders \subseteq Template
    /\ Prices \subseteq UInt64
    /\ Quantities \subseteq 1 .. MaxQuantity
    /\ \A t \in NewOrders : t.Quantity \in 1 .. MaxQuantity
    /\ Operations \subseteq OperationNames
    /\ MaxExecuted \in Nat

VARIABLES
    matching,   \* _matching_bid_price and _matching_ask_price
    last,       \* _last_bid_price and _last_ask_price
    trailing,   \* _trailing_bid_price and _trailing_ask_price
    enabled,    \* _matching
    taker,      \* the order being matched against the book, not linked into it
    calls,      \* the call stack, innermost call last
    trade,      \* what the last step told onExecuteOrder, if it did
    net,        \* the quantity bought less the quantity sold by matching
    fault       \* a released order or level was used

vars == <<book, matching, last, trailing, enabled, taker, calls, trade, net, fault>>

NoOrder == 0
NoTaker == [Id |-> NoOrder]
NoTrade == [order |-> NoTaker]
NoMatchingPrice == [bid |-> 0, ask |-> OrderIntMax]

Opposite(o) == IF IsBuy(o) THEN "asks" ELSE "bids"
PriceSide(o) == IF IsBuy(o) THEN "bid" ELSE "ask"

-----------------------------------------------------------------------------
(* The book as the matching loops read it *)

BestKey(b, c) == <<c, b.best[c]>>

HasBest(b, c) == b.best[c] # NoPrice

\* Mutant: the last order of the level.
LastOrder(b, k) == b.levels[k].OrderList[Len(b.levels[k].OrderList)]

FirstOrder(b, k) == b.levels[k].OrderList[1]

\* order_ptr->next
NextOrder(b, id) ==
    LET list == b.levels[b.orders[id].Level].OrderList
        i == CHOOSE n \in 1 .. Len(list) : list[n] = id
    IN IF i = Len(list) THEN NoOrder ELSE list[i + 1]

\* Mutant: equal prices do not cross.
CrossedStrictly(b) == /\ HasBest(b, "bids")
                      /\ HasBest(b, "asks")
                      /\ b.best["bids"] > b.best["asks"]

\* Check the arbitrage bid/ask prices
Crossed(b) == /\ HasBest(b, "bids")
              /\ HasBest(b, "asks")
              /\ b.best["bids"] >= b.best["asks"]

\* Mutant: off by one.
ReachesNearly(o, p) == IF IsBuy(o) THEN o.Price + 1 >= p ELSE o.Price <= p + 1

\* An order to buy at a price or less, or to sell at a price or more, reaches p.
Reaches(o, p) == IF IsBuy(o) THEN o.Price >= p ELSE o.Price <= p

MarketPriceBid(b, m) == Greater(m.bid, BestPrice(b, "bids", 0))
MarketPriceAsk(b, m) == Lesser(m.ask, BestPrice(b, "asks", OrderIntMax))

\* A stop price the market has reached, for the collection of its level.
Triggered(b, m, c, stop) == IF c \in BidCollections THEN MarketPriceBid(b, m) <= stop
                            ELSE MarketPriceAsk(b, m) >= stop

\* Mutant: a market order trades at the best price only.
BestPriceOnly(b, o) == b.best[Opposite(o)]

\* The price a market order accepts at worst: the best price and the slippage.
AcceptablePrice(b, o) ==
    LET best == b.best[Opposite(o)]
    IN IF IsBuy(o)
       THEN IF best > Wrap(OrderIntMax - o.Slippage) THEN OrderIntMax
            ELSE Wrap(best + o.Slippage)
       ELSE IF best < Wrap(OrderIntMax + o.Slippage) THEN OrderIntMax
            ELSE Wrap(best - o.Slippage)

-----------------------------------------------------------------------------
(* Matching chains of All-Or-None and Fill-Or-Kill orders *)

LevelAfter(b, k) == LET p == NextPrice(b, k) IN IF p = NoPrice THEN NoLevel ELSE <<k[1], p>>

FirstOf(b, k) == IF k = NoLevel THEN NoOrder ELSE FirstOrder(b, k)

\* What an order adds to a chain that still needs a quantity.
Share(o, need) == IF IsAON(o) THEN o.LeavesQuantity ELSE Lesser(o.LeavesQuantity, need)

\* CalculateMatchingChain(level, price, volume): the volume if the orders from
\* level k on, in order, fill it exactly at prices that taker o reaches; else 0.
ChainForOrder(b, o, k) ==
    LET volume == o.LeavesQuantity
        Fill[s \in (LevelKey \cup {NoLevel}) \X Nat \X Nat] ==
            LET level == s[1]
                id == s[2]
                available == s[3] + Share(b.orders[id], volume - s[3])
                following == LevelAfter(b, level)
            IN /\ level # NoLevel
               /\ Reaches(o, level[2])
               /\ available <= volume
               /\ \/ available = volume
                  \/ IF NextOrder(b, id) # NoOrder
                     THEN Fill[<<level, NextOrder(b, id), available>>]
                     ELSE Fill[<<following, FirstOf(b, following), available>>]
    IN IF Fill[<<k, FirstOrder(b, k), 0>>] THEN volume ELSE 0

\* CalculateMatchingChain(bid level, ask level).  The longest order is the one whose
\* quantity is required, the shortest ones make it available.  When they exceed it
\* the orders change roles; the levels do not.  (Quantities are counted here as if
\* uint64_t did not wrap; a chain it has no room for is none.)
ChainForPair(b, bidLevel, askLevel) ==
    LET bid == FirstOrder(b, bidLevel)
        ask == FirstOrder(b, askLevel)
        AskIsLongest == /\ IsAON(b.orders[ask])
                        /\ IsAON(b.orders[bid]) => b.orders[ask].LeavesQuantity
                                                     > b.orders[bid].LeavesQuantity
        Level == LevelKey \cup {NoLevel}
        Fill[s \in [longest : Level, shortest : Level, long : Nat, short : Nat,
                    required : Nat, available : Nat]] ==
            IF s.longest = NoLevel \/ s.shortest = NoLevel THEN 0
            ELSE IF s.long = NoOrder
                 THEN LET following == LevelAfter(b, s.longest)
                          t == [s EXCEPT !.longest = following,
                                         !.long = FirstOf(b, following)]
                      IN IF s.short # NoOrder THEN Fill[t]
                         ELSE LET shorter == LevelAfter(b, s.shortest)
                              IN Fill[[t EXCEPT !.shortest = shorter,
                                                !.short = FirstOf(b, shorter)]]
            ELSE IF s.short = NoOrder
                 THEN LET following == LevelAfter(b, s.shortest)
                      IN Fill[[s EXCEPT !.shortest = following,
                                        !.short = FirstOf(b, following)]]
            ELSE LET available == s.available
                                     + Share(b.orders[s.short], s.required - s.available)
                 IN IF available = s.required THEN s.required
                    ELSE IF available > s.required
                         THEN Fill[[s EXCEPT !.long = s.short, !.short = NextOrder(b, s.long),
                                             !.required = available,
                                             !.available = s.required]]
                    ELSE Fill[[s EXCEPT !.short = NextOrder(b, s.short),
                                        !.available = available]]
        chain ==
            Fill[IF AskIsLongest
                 THEN [longest |-> askLevel, shortest |-> bidLevel, long |-> ask, short |-> bid,
                       required |-> b.orders[ask].LeavesQuantity, available |-> 0]
                 ELSE [longest |-> bidLevel, shortest |-> askLevel, long |-> bid, short |-> ask,
                       required |-> b.orders[bid].LeavesQuantity, available |-> 0]]
    IN IF chain \in UInt64 THEN chain ELSE 0

-----------------------------------------------------------------------------
(* Frames of the call stack *)

\* Match(order_book_ptr, internal), at the head of its loop.  The caller of Match
\* resets the matching prices after it, but for EnableMatching and Match().
MatchFrame(internal, resets) ==
    [at |-> "match", internal |-> internal, resets |-> resets,
     activated |-> FALSE, again |-> FALSE]

\* MatchOrder(taker): the next resting order, or none at the head of its loop.
MatchOrderFrame(next) == [at |-> "match_order", next |-> next]

\* MatchOrder(taker) after the resting order was executed: the taker's half.
TakeFrame(price, quantity, next) ==
    [at |-> "take", price |-> price, quantity |-> quantity, next |-> next]

\* ExecuteMatchingChain: the next order at the current level, or none before the
\* next level is entered.
ChainFrame(nextLevel, order, price, volume) ==
    [at |-> "chain", level |-> nextLevel, order |-> order, price |-> price, volume |-> volume]

\* The crossed pair of Match; then the order to reduce by what the other executed.
PairFrame(bid, ask) == [at |-> "pair", bid |-> bid, ask |-> ask]
ReducingFrame(order, price, quantity, bid, ask) ==
    [at |-> "reducing", order |-> order, price |-> price, quantity |-> quantity,
     bid |-> bid, ask |-> ask]

\* The second ExecuteMatchingChain of a pair, on the asks.
AskChainFrame(level, order, volume) ==
    [at |-> "ask_chain", level |-> level, order |-> order, volume |-> volume]

\* ActivateStopOrders(level): the next order to activate.
ActivateFrame(order) == [at |-> "activate", order |-> order]

\* RecalculateTrailingStopPrice for the best ask or bid, and its walk over the levels
\* of a trailing collection: the next order of the current level.
RecalculateFrame(side) == [at |-> "recalculate", side |-> side]
WalkFrame(c, previous, current, order) ==
    [at |-> "walk", collection |-> c, previous |-> previous, current |-> current,
     order |-> order, recalculated |-> FALSE]

FilledFrame == [at |-> "filled"]     \* MatchOrder after the chain of the taker
FinishFrame == [at |-> "finish"]     \* the taker is linked into the book or deleted
ResetFrame == [at |-> "reset"]       \* ResetMatchingPrice with matching disabled
AddFrame(o) == [at |-> "add", new |-> o]   \* AddOrder after DeleteOrder

EndOfCall == IF enabled THEN MatchFrame(FALSE, TRUE) ELSE ResetFrame

-----------------------------------------------------------------------------
(* Steps of the innermost call *)

Idle == calls = << >>
Call == calls[Len(calls)]
At(label) == calls # << >> /\ ~fault /\ Call.at = label
Callers == SubSeq(calls, 1, Len(calls) - 1)

\* The innermost call goes on as these frames, none if it returns.
Continue(frames) == calls' = Callers \o frames

Silent == trade' = NoTrade /\ UNCHANGED <<last, trailing, net, fault>>

\* The innermost call reads an order or a level that was released.
UseAfterRelease ==
    /\ fault' = TRUE
    /\ trade' = NoTrade
    /\ UNCHANGED <<book, matching, last, trailing, enabled, taker, calls, net>>

Released(id) == id \notin DOMAIN book.orders

\* UpdateLastPrice, UpdateMatchingPrice: the price of the side of an order.
WithPrice(pair, o, price) == [pair EXCEPT ![PriceSide(o)] = price]

\* onExecuteOrder and UpdateLastPrice for an order.
Report(o, price, quantity) ==
    /\ trade' = [order |-> o, price |-> price, quantity |-> quantity]
    /\ net' = net + (IF IsBuy(o) THEN quantity ELSE -quantity)
    /\ last' = WithPrice(last, o, price)
    /\ UNCHANGED <<trailing, fault>>

\* The end of an internal DeleteOrder or ReduceOrder: Match(internal), which only a
\* crossed book keeps busy, then ResetMatchingPrice.
ReturnInternal(b, o, price, frames) ==
    LET nested == enabled /\ Crossed(b)
    IN /\ book' = b
       /\ Continue(frames \o (IF nested THEN <<MatchFrame(TRUE, TRUE)>> ELSE << >>))
       /\ matching' = IF nested THEN WithPrice(matching, o, price) ELSE NoMatchingPrice

\* A resting order is executed and reduced in the book.
ExecuteResting(id, price, quantity, frames) ==
    LET o == book.orders[id]
    IN /\ Report(o, price, quantity)
       /\ ReturnInternal(ReduceOrder(book, Executed(o, quantity)), o, price, frames)
       /\ UNCHANGED <<enabled, taker>>

\* A resting order is executed and deleted whole.
ExecuteWhole(id, price, frames) ==
    LET o == book.orders[id]
    IN /\ Report(o, price, o.LeavesQuantity)
       /\ ReturnInternal(DeleteOrder(book, id), o, price, frames)
       /\ UNCHANGED <<enabled, taker>>

ExecuteTaker(price, quantity, frames) ==
    /\ Report(taker, price, quantity)
    /\ taker' = Executed(taker, quantity)
    /\ matching' = WithPrice(matching, taker, price)
    /\ Continue(frames)
    /\ UNCHANGED <<book, enabled>>

-----------------------------------------------------------------------------
(* MatchOrder, MatchMarket, MatchLimit *)

\* The taker as MatchMarket prices it, and the calls that match it against book b.
Priced(b, o) == IF IsMarket(o) /\ HasBest(b, Opposite(o))
                THEN [o EXCEPT !.Price = AcceptablePrice(b, o)] ELSE o

Matching(b, o) == IF IsMarket(o) /\ ~HasBest(b, Opposite(o)) THEN << >>
                  ELSE <<MatchOrderFrame(NoOrder)>>

\* Special case for 'Fill-Or-Kill'/'All-Or-None' order; the mutant forgets the former.
NeedsChainIfAON(o) == IsAON(o)
NeedsChain(o) == IsFOK(o) \/ IsAON(o)

ReturnFromMatchOrder ==
    /\ Continue(<< >>)
    /\ Silent
    /\ UNCHANGED <<book, matching, enabled, taker>>

\* Mutant: the next order is the one that was just executed.
MatchAgainstAgain(id) ==
    LET o == book.orders[id]
        quantity == Lesser(o.LeavesQuantity, taker.LeavesQuantity)
    IN ExecuteResting(id, o.Price, quantity, <<TakeFrame(o.Price, quantity, id)>>)

\* Mutant: a resting All-Or-None order trades in part.
MatchAgainstPart(id) ==
    LET o == book.orders[id]
        quantity == Lesser(o.LeavesQuantity, taker.LeavesQuantity)
    IN ExecuteResting(id, o.Price, quantity,
                      <<TakeFrame(o.Price, quantity, NextOrder(book, id))>>)

MatchAgainst(id) ==
    LET o == book.orders[id]
        quantity == Lesser(o.LeavesQuantity, taker.LeavesQuantity)
    IN IF IsAON(o) /\ o.LeavesQuantity > taker.LeavesQuantity
       THEN ReturnFromMatchOrder
       ELSE ExecuteResting(id, o.Price, quantity,
                           <<TakeFrame(o.Price, quantity, NextOrder(book, id))>>)

MatchWhole(level) ==
    LET chain == ChainForOrder(book, taker, level)
    IN IF chain = 0 THEN ReturnFromMatchOrder
       ELSE /\ Continue(<<FilledFrame, ChainFrame(level, NoOrder, taker.Price, chain)>>)
            /\ Silent
            /\ UNCHANGED <<book, matching, enabled, taker>>

MatchOrder ==
    /\ At("match_order")
    /\ LET c == Opposite(taker)
       IN IF Call.next # NoOrder
          THEN IF Released(Call.next) THEN UseAfterRelease ELSE MatchAgainst(Call.next)
          ELSE IF ~HasBest(book, c) THEN ReturnFromMatchOrder
          ELSE IF ~Reaches(taker, book.best[c]) THEN ReturnFromMatchOrder
          ELSE IF NeedsChain(taker) THEN MatchWhole(BestKey(book, c))
          ELSE MatchAgainst(FirstOrder(book, BestKey(book, c)))

\* Mutant: the taker trades once.
TakeOnce ==
    /\ At("take")
    /\ ExecuteTaker(Call.price, Call.quantity, << >>)

Take ==
    /\ At("take")
    /\ ExecuteTaker(Call.price, Call.quantity,
                    IF taker.LeavesQuantity = Call.quantity THEN << >>
                    ELSE <<MatchOrderFrame(Call.next)>>)

Filled ==
    /\ At("filled")
    /\ ExecuteTaker(taker.Price, taker.LeavesQuantity, << >>)

\* Mutant: an order that was executed whole is linked as well.
FinishEmpty ==
    /\ At("finish")
    /\ LET duplicate == Resting(taker) /\ taker.Id \in DOMAIN book.orders
       IN /\ book' = IF Resting(taker) /\ ~duplicate THEN AddOrder(book, taker) ELSE book
          /\ calls' = IF duplicate THEN << >> ELSE Callers
    /\ taker' = NoTaker
    /\ Silent
    /\ UNCHANGED <<matching, enabled>>

\* Link what is left of the taker into the book, or delete it.  A duplicate id is
\* noticed only now; the call returns without Match and ResetMatchingPrice.
Finish ==
    /\ At("finish")
    /\ LET rests == taker.LeavesQuantity > 0 /\ Resting(taker)
           duplicate == rests /\ taker.Id \in DOMAIN book.orders
       IN /\ book' = IF rests /\ ~duplicate THEN AddOrder(book, taker) ELSE book
          /\ calls' = IF duplicate THEN << >> ELSE Callers
    /\ taker' = NoTaker
    /\ Silent
    /\ UNCHANGED <<matching, enabled>>

-----------------------------------------------------------------------------
(* ExecuteMatchingChain *)

\* Mutant: the last order of the chain gives all it has left.
ChainStepTakingAll(nextLevel, id) ==
    LET o == book.orders[id]
        quantity == o.LeavesQuantity
        volume == Wrap(Call.volume - quantity)
        next == IF volume > 0 THEN NextOrder(book, id) ELSE NoOrder
    IN ExecuteResting(id, Call.price, quantity,
                      <<ChainFrame(nextLevel, next, Call.price, volume)>>)

ChainStep(nextLevel, id) ==
    LET o == book.orders[id]
        quantity == IF IsAON(o) THEN o.LeavesQuantity
                    ELSE Lesser(o.LeavesQuantity, Call.volume)
        volume == Wrap(Call.volume - quantity)
        next == IF volume > 0 THEN NextOrder(book, id) ELSE NoOrder
        frames == <<ChainFrame(nextLevel, next, Call.price, volume)>>
    IN IF IsAON(o) THEN ExecuteWhole(id, Call.price, frames)
       ELSE ExecuteResting(id, Call.price, quantity, frames)

ExecuteMatchingChain ==
    /\ At("chain")
    /\ IF Call.order # NoOrder
       THEN IF Released(Call.order) THEN UseAfterRelease
            ELSE ChainStep(Call.level, Call.order)
       ELSE IF Call.volume = 0 \/ Call.level = NoLevel
            THEN ReturnFromMatchOrder
       ELSE IF Call.level \notin DOMAIN book.levels THEN UseAfterRelease
       ELSE ChainStep(LevelAfter(book, Call.level), FirstOrder(book, Call.level))

-----------------------------------------------------------------------------
(* Match *)

ReturnFromMatch(frame, callers) ==
    /\ calls' = callers
    /\ matching' = IF frame.resets THEN NoMatchingPrice ELSE matching
    /\ Silent
    /\ UNCHANGED <<book, enabled, taker>>

Goto(frames) == Continue(frames) /\ Silent /\ UNCHANGED <<book, matching, enabled, taker>>

\* The loops of Match: pairs of the best levels while the book is crossed, then, but
\* for internal matching, stop orders.
Match ==
    /\ At("match")
    /\ IF Crossed(book)
       THEN Goto(<<[Call EXCEPT !.at = IF Call.internal THEN "match" ELSE "pair_buy_stops"],
                   PairFrame(FirstOrder(book, BestKey(book, "bids")),
                             FirstOrder(book, BestKey(book, "asks")))>>)
       ELSE IF Call.internal THEN ReturnFromMatch(Call, Callers)
       ELSE Goto(<<[Call EXCEPT !.at = "buy_stops", !.activated = FALSE, !.again = FALSE]>>)

\* Special case for 'All-Or-None' orders: without a chain Match returns at once.
PairWhole(bid, ask) ==
    LET bidLevel == bid.Level
        askLevel == ask.Level
        chain == ChainForPair(book, bidLevel, askLevel)
    IN IF chain = 0
       THEN ReturnFromMatch(calls[Len(calls) - 1], SubSeq(calls, 1, Len(calls) - 2))
       ELSE Goto(<<AskChainFrame(askLevel, ask.Id, chain),
                   ChainFrame(bidLevel, NoOrder, bid.Price, chain)>>)

\* Mutant: the larger order is reduced by all it had left.
PairStepReducingAll(bid, ask) ==
    LET executing == IF bid.LeavesQuantity > ask.LeavesQuantity THEN ask ELSE bid
        reducing == IF bid.LeavesQuantity > ask.LeavesQuantity THEN bid ELSE ask
    IN ExecuteWhole(executing.Id, executing.Price,
                    <<ReducingFrame(reducing.Id, executing.Price, reducing.LeavesQuantity,
                                    NextOrder(book, bid.Id), NextOrder(book, ask.Id))>>)

\* Execute the smaller order of the pair, at its price; the other is reduced next.
PairStep(bid, ask) ==
    LET executing == IF bid.LeavesQuantity > ask.LeavesQuantity THEN ask ELSE bid
        reducing == IF bid.LeavesQuantity > ask.LeavesQuantity THEN bid ELSE ask
    IN ExecuteWhole(executing.Id, executing.Price,
                    <<ReducingFrame(reducing.Id, executing.Price, executing.LeavesQuantity,
                                    NextOrder(book, bid.Id), NextOrder(book, ask.Id))>>)

Pair ==
    /\ At("pair")
    /\ IF Call.bid = NoOrder \/ Call.ask = NoOrder THEN Goto(<< >>)
       ELSE IF Released(Call.bid) \/ Released(Call.ask) THEN UseAfterRelease
       ELSE LET bid == book.orders[Call.bid]
                ask == book.orders[Call.ask]
            IN IF IsAON(bid) \/ IsAON(ask) THEN PairWhole(bid, ask)
               ELSE PairStep(bid, ask)

Reducing ==
    /\ At("reducing")
    /\ IF Released(Call.order) THEN UseAfterRelease
       ELSE ExecuteResting(Call.order, Call.price, Call.quantity,
                           <<PairFrame(Call.bid, Call.ask)>>)

\* The price of the ask order and its level are read after the bids were executed.
AskChain ==
    /\ At("ask_chain")
    /\ IF Released(Call.order) \/ Call.level \notin DOMAIN book.levels THEN UseAfterRelease
       ELSE Goto(<<ChainFrame(Call.level, NoOrder, book.orders[Call.order].Price,
                              Call.volume)>>)

-----------------------------------------------------------------------------
(* Stop orders *)

\* A triggered stop order becomes a market order, a stop-limit order a limit order.
Activated(o) ==
    IF o.Type \in {"STOP", "TRAILING_STOP"}
    THEN [o EXCEPT !.Type = "MARKET", !.Price = 0, !.StopPrice = 0,
                   !.TimeInForce = IF IsFOK(o) THEN "FOK" ELSE "IOC"]
    ELSE [o EXCEPT !.Type = "LIMIT", !.StopPrice = 0]

\* Mutant: the orders of the best level are activated at any price.
ActivationOfBest(c) ==
    IF HasBest(book, c) THEN <<ActivateFrame(FirstOrder(book, BestKey(book, c)))>> ELSE << >>

\* ActivateStopOrders on the best level of a stop collection, if the market has
\* reached it: the activation of its orders, each in turn.
Activation(c) ==
    IF HasBest(book, c) /\ Triggered(book, matching, c, book.best[c])
    THEN <<ActivateFrame(FirstOrder(book, BestKey(book, c)))>> ELSE << >>

\* Trailing stop orders are tried only if no stop order is activated.
ActivationOf(c, trailingCollection) ==
    IF Activation(c) # << >> THEN Activation(c) ELSE Activation(trailingCollection)

\* After a pair of levels: the results of ActivateStopOrders are not used.
PairStops ==
    \/ /\ At("pair_buy_stops")
       /\ Goto(<<[Call EXCEPT !.at = "pair_sell_stops"]>> \o Activation("buy_stop"))
    \/ /\ At("pair_sell_stops")
       /\ Goto(<<[Call EXCEPT !.at = "match"]>> \o Activation("sell_stop"))

\* ActivateStopOrders(order_book_ptr): a round over both sides.
Stops ==
    \/ /\ At("buy_stops")
       /\ LET activation == ActivationOf("buy_stop", "trailing_buy_stop")
          IN Goto(<<[Call EXCEPT !.at = "sell_stops", !.again = activation # << >>],
                    RecalculateFrame("ask")>> \o activation)
    \/ /\ At("sell_stops")
       /\ LET activation == ActivationOf("sell_stop", "trailing_sell_stop")
          IN Goto(<<[Call EXCEPT !.at = "round", !.again = @ \/ activation # << >>],
                    RecalculateFrame("bid")>> \o activation)

\* Mutant: one round.
RoundOnce == At("round") /\ ReturnFromMatch(Call, Callers)

\* Mutant: the rounds have no end.
RoundForever == At("round") /\ Goto(<<[Call EXCEPT !.at = "buy_stops"]>>)

\* Rounds go on until one activates nothing; Match starts over if any did.
Round ==
    /\ At("round")
    /\ IF Call.again
       THEN Goto(<<[Call EXCEPT !.at = "buy_stops", !.activated = TRUE, !.again = FALSE]>>)
       ELSE IF Call.activated THEN Goto(<<[Call EXCEPT !.at = "match"]>>)
       ELSE ReturnFromMatch(Call, Callers)

\* The last order of a trailing level takes the level with it, and DeleteStopOrder
\* erases that from the tree of the stop levels.
ErasesForeignLevel(id) ==
    LET o == book.orders[id] IN IsTrailing(o) /\ o.Level \notin DOMAIN DeleteOrder(book, id).levels

\* ActivateStopOrder, ActivateStopLimitOrder.
Activate ==
    /\ At("activate")
    /\ IF Call.order = NoOrder THEN Goto(<< >>)
       ELSE IF Released(Call.order) \/ ErasesForeignLevel(Call.order) THEN UseAfterRelease
       ELSE LET b == DeleteOrder(book, Call.order)
                o == Activated(book.orders[Call.order])
            IN /\ book' = b
               /\ taker' = [Priced(b, o) EXCEPT !.Level = NoLevel]
               /\ Continue(<<ActivateFrame(NextOrder(book, Call.order)), FinishFrame>>
                           \o Matching(b, o))
               /\ Silent
               /\ UNCHANGED <<matching, enabled>>

-----------------------------------------------------------------------------
(* Trailing stop orders *)

FirstLevel(b, c) == IF HasBest(b, c) THEN BestKey(b, c) ELSE NoLevel

WalkFrom(c, previous, level) == WalkFrame(c, previous, level, FirstOf(book, level))

\* RecalculateTrailingStopPrice: the trailing orders are gone through only if the price
\* they follow is better than it was the last time; it is remembered in either case.
Recalculate ==
    /\ At("recalculate")
    /\ LET isAsk == Call.side = "ask"
           price == IF isAsk THEN MarketTrailingStopPriceAsk(book, last)
                    ELSE MarketTrailingStopPriceBid(book, last)
           improves == IF isAsk THEN price < trailing.ask ELSE price > trailing.bid
           c == IF isAsk THEN "trailing_buy_stop" ELSE "trailing_sell_stop"
       IN IF ~HasBest(book, IF isAsk THEN "asks" ELSE "bids") THEN Goto(<< >>)
          ELSE /\ trailing' = [trailing EXCEPT ![Call.side] = price]
               /\ Continue(IF improves THEN <<WalkFrom(c, NoLevel, FirstLevel(book, c))>>
                           ELSE << >>)
               /\ trade' = NoTrade
               /\ UNCHANGED <<book, matching, last, enabled, taker, net, fault>>

\* An order whose stop price changes goes to the end of another level.
Follow(id) ==
    LET o == WithTrailingStop(book, last, book.orders[id])
        moves == o.StopPrice # book.orders[id].StopPrice
    IN /\ book' = IF moves THEN AddOrder(DeleteOrder(book, id), o) ELSE book
       /\ Continue(<<[Call EXCEPT !.order = NextOrder(book, id),
                                  !.recalculated = @ \/ moves]>>)
       /\ Silent
       /\ UNCHANGED <<matching, enabled, taker>>

\* Mutant: back from the first level there is nothing.
NextLevelWithoutFirst ==
    IF Call.recalculated THEN WalkFrom(Call.collection, Call.previous, Call.previous)
    ELSE WalkFrom(Call.collection, Call.current, LevelAfter(book, Call.current))

\* After the orders of a level: if one of them was moved, which may have released the
\* level, back to the level before, else on to the next one.
NextLevel ==
    LET back == IF Call.previous # NoLevel THEN Call.previous
                ELSE FirstLevel(book, Call.collection)
    IN IF Call.recalculated THEN WalkFrom(Call.collection, Call.previous, back)
       ELSE WalkFrom(Call.collection, Call.current, LevelAfter(book, Call.current))

Walk ==
    /\ At("walk")
    /\ IF Call.current = NoLevel THEN Goto(<< >>)
       ELSE IF Call.order # NoOrder
            THEN IF Released(Call.order) THEN UseAfterRelease ELSE Follow(Call.order)
       ELSE IF Call.recalculated /\ Call.previous \notin DOMAIN book.levels \cup {NoLevel}
            THEN UseAfterRelease
       ELSE Goto(<<NextLevel>>)

-----------------------------------------------------------------------------
(* Calls of the manager *)

\* A call that leaves book b and the order o to be matched with it and linked.
Submit(b, o) ==
    /\ book' = b
    /\ taker' = [(IF enabled THEN Priced(b, o) ELSE o) EXCEPT !.Level = NoLevel]
    /\ calls' = <<EndOfCall, FinishFrame>> \o IF enabled THEN Matching(b, o) ELSE << >>
    /\ Silent
    /\ UNCHANGED <<matching, enabled>>

\* A call that leaves book b, which may now cross or trigger stop orders.
Settle(b) ==
    /\ book' = b
    /\ calls' = <<EndOfCall>>
    /\ Silent
    /\ UNCHANGED <<matching, enabled, taker>>

\* AddLimitOrder and AddMarketOrder match first; AddStopOrder and AddStopLimitOrder
\* only if the market has reached the stop price, which a trailing order gets now.
SubmitNew(o) ==
    LET new == WithTrailingStop(book, last, o)
    IN IF o.Type \in {"MARKET", "LIMIT"} THEN Submit(book, o)
       ELSE IF enabled /\ Triggered(book, matching, CollectionOf(new), new.StopPrice)
            THEN Submit(book, Activated(new))
            ELSE /\ taker' = new
                 /\ calls' = <<EndOfCall, FinishFrame>>
                 /\ Silent
                 /\ UNCHANGED <<book, matching, enabled>>

AddNewOrder(t, id) ==
    /\ Validate(MakeOrder(t, id)) = "OK"
    /\ SubmitNew(MakeOrder(t, id))

ReduceOrderBy(id, quantity) ==
    Settle(ReduceOrder(book, Reduced(book.orders[id], quantity)))

\* ModifyOrder and MitigateOrder match the order as a limit order, whatever its type.
ModifyOrder(id, price, quantity, mitigate) ==
    LET o == Modified(book.orders[id], price, quantity, mitigate)
        b == DeleteOrder(book, id)
    IN /\ book.orders[id].ExecutedQuantity <= MaxExecuted
       /\ IF o.LeavesQuantity > 0 THEN Submit(b, o) ELSE Settle(b)

ReplaceOrder(id, newId, price, quantity) ==
    /\ IsLimit(book.orders[id])
    /\ Submit(DeleteOrder(book, id), Replaced(book.orders[id], newId, price, quantity))

CancelOrder(id) == Settle(DeleteOrder(book, id))

\* ReplaceOrder(id, new_order): DeleteOrder with its matching, then AddOrder.
ReplaceOrderWith(id, t, newId) ==
    /\ book' = DeleteOrder(book, id)
    /\ calls' = <<AddFrame(MakeOrder(t, newId)), EndOfCall>>
    /\ Silent
    /\ UNCHANGED <<matching, enabled, taker>>

AddAfterDelete ==
    /\ At("add")
    /\ IF Validate(Call.new) = "OK" THEN SubmitNew(Call.new)
       ELSE Goto(<< >>)

ExecuteOrder(id, price, quantity) ==
    LET o == book.orders[id]
    IN /\ book' = ReduceOrder(book, Executed(o, Lesser(quantity, o.LeavesQuantity)))
       /\ matching' = WithPrice(matching, o, price)
       /\ last' = WithPrice(last, o, price)
       /\ calls' = <<EndOfCall>>
       /\ trade' = NoTrade
       /\ UNCHANGED <<trailing, enabled, taker, net, fault>>

\* Match(), EnableMatching and DisableMatching.
MatchAll(enable) ==
    /\ enabled' = (enabled \/ enable)
    /\ calls' = <<MatchFrame(FALSE, FALSE)>>
    /\ Silent
    /\ UNCHANGED <<book, matching, taker>>

DisableMatching ==
    /\ enabled' = FALSE
    /\ Silent
    /\ UNCHANGED <<book, matching, taker, calls>>

ResetMatchingPrice ==
    /\ At("reset")
    /\ calls' = Callers
    /\ matching' = NoMatchingPrice
    /\ Silent
    /\ UNCHANGED <<book, enabled, taker>>

Operation(id) ==
    \/ "reduce" \in Operations /\ \E q \in Quantities : ReduceOrderBy(id, q)
    \/ "modify" \in Operations /\
         \E p \in Prices, q \in Quantities : ModifyOrder(id, p, q, FALSE)
    \/ "mitigate" \in Operations /\
         \E p \in Prices, q \in Quantities : ModifyOrder(id, p, q, TRUE)
    \/ "replace" \in Operations /\
         \E newId \in Ids, p \in Prices, q \in Quantities : ReplaceOrder(id, newId, p, q)
    \/ "replace_with" \in Operations /\
         \E t \in NewOrders, newId \in Ids : ReplaceOrderWith(id, t, newId)
    \/ "delete" \in Operations /\ CancelOrder(id)
    \/ "execute" \in Operations /\
         \E p \in Prices \cup {book.orders[id].Price}, q \in Quantities : ExecuteOrder(id, p, q)

\* The caller makes a call when the last one has returned.
Request ==
    /\ Idle
    /\ ~fault
    /\ \/ \E t \in NewOrders, id \in Ids : AddNewOrder(t, id)
       \/ \E id \in DOMAIN book.orders : Operation(id)
       \/ "match" \in Operations /\ MatchAll(FALSE)
       \/ "enable" \in Operations /\ MatchAll(TRUE)
       \/ "disable" \in Operations /\ DisableMatching

\* A step of the call under way.
Step == \/ MatchOrder \/ Take \/ Filled \/ Finish \/ ExecuteMatchingChain
        \/ Match \/ Pair \/ Reducing \/ AskChain
        \/ PairStops \/ Stops \/ Round \/ Activate \/ Recalculate \/ Walk
        \/ AddAfterDelete \/ ResetMatchingPrice

Init == /\ book = EmptyBook
        /\ matching = NoMatchingPrice
        /\ last = NoMatchingPrice
        /\ trailing = NoMatchingPrice
        /\ enabled = (Operations \cap {"match", "enable"} = {})
        /\ taker = NoTaker
        /\ calls = << >>
        /\ trade = NoTrade
        /\ net = 0
        /\ fault = FALSE

Next == Request \/ Step

\* The manager runs on the thread of its caller: a call under way goes on.
Spec == Init /\ [][Next]_vars /\ WF_vars(Step)

-----------------------------------------------------------------------------
(* Properties *)

\* The frames of a call.
MatchLabels == {"match", "pair_buy_stops", "pair_sell_stops", "buy_stops", "sell_stops",
                "round"}
AnyOrder == Ids \cup {NoOrder}
AnyLevel == LevelKey \cup {NoLevel}

MatchFrames == {f \in [at : MatchLabels, internal : BOOLEAN, resets : BOOLEAN,
                       activated : BOOLEAN, again : BOOLEAN] :
                   f.internal => f.at = "match"}
MatchOrderFrames == [at : {"match_order"}, next : AnyOrder]
TakeFrames == [at : {"take"}, price : UInt64, quantity : 1 .. MaxQuantity, next : AnyOrder]
ChainFrames == [at : {"chain"}, level : AnyLevel, order : AnyOrder, price : UInt64,
                volume : UInt64]
PairFrames == [at : {"pair"}, bid : AnyOrder, ask : AnyOrder]
ReducingFrames == [at : {"reducing"}, order : Ids, price : UInt64,
                   quantity : 1 .. MaxQuantity, bid : AnyOrder, ask : AnyOrder]
AskChainFrames == [at : {"ask_chain"}, level : LevelKey, order : Ids, volume : UInt64]
ActivateFrames == [at : {"activate"}, order : AnyOrder]
RecalculateFrames == [at : {"recalculate"}, side : {"bid", "ask"}]
WalkFrames == [at : {"walk"}, collection : Collections, previous : AnyLevel,
               current : AnyLevel, order : AnyOrder, recalculated : BOOLEAN]
AddFrames == {AddFrame(MakeOrder(t, id)) : t \in NewOrders, id \in Ids}

Frame == MatchFrames \cup MatchOrderFrames \cup TakeFrames \cup ChainFrames
         \cup PairFrames \cup ReducingFrames \cup AskChainFrames
         \cup ActivateFrames \cup RecalculateFrames \cup WalkFrames \cup AddFrames
         \cup {FilledFrame, FinishFrame, ResetFrame}

\* The values the variables range over; while a call runs, its taker is an order
\* that is not linked.
TypeOK ==
    /\ IsBook(book, Ids, MaxQuantity)
    /\ {matching, last, trailing} \subseteq [bid : UInt64, ask : UInt64]
    /\ enabled \in BOOLEAN
    /\ taker = NoTaker \/ /\ taker.Id \in Ids
                          /\ taker.LeavesQuantity \in 0 .. MaxQuantity
                          /\ taker.Level = NoLevel
    /\ calls \in Seq(Frame)
    /\ net \in Int
    /\ fault \in BOOLEAN

\* The structure of the book holds between any two steps of a call, nested calls
\* included: links, volumes and best levels agree with the orders.
BookIsConsistent == ~fault => IsConsistent(book)

\* No step of a call uses an order or a level that a nested call has released.  (While
\* nothing rests across the market: without All-Or-None orders, with matching enabled
\* from the start; and without trailing orders, whose activation releases the wrong level.)
NoUseAfterRelease == ~fault

BestBidIsLess(b) == \A bid \in PricesIn(b, "bids"), ask \in PricesIn(b, "asks") : bid < ask

\* "The best bid price guarantied less than the best ask price": once a call has
\* returned, no bid and ask are left that could trade.  (Without All-Or-None orders, at
\* which Match gives up.)
BookIsNotCrossed == Idle => BestBidIsLess(book)

\* Match() leaves no crossed prices although automatic matching is disabled.
MatchUncrosses ==
    [][At("round") /\ calls' = << >> => BestBidIsLess(book)]_vars

\* Matching conserves quantities: over every call, chains included, what was bought was
\* sold.  (Without All-Or-None orders, whose crossed books nested calls match under the
\* chain of an outer one.)
NetIsZero == Idle => net = 0

\* No execution takes more than the order has left, and no order is ever filled beyond
\* its quantity, however matching, modifications with mitigation and nested calls
\* interleave.  (On books that matching keeps uncrossed.)
NotOverfilled ==
    /\ trade # NoTrade => trade.quantity <= trade.order.LeavesQuantity
    /\ \A id \in DOMAIN book.orders :
           LET o == book.orders[id] IN o.ExecutedQuantity + o.LeavesQuantity <= o.Quantity

\* "A buy limit order can only be executed at the limit price or lower, and a sell
\* limit order can only be executed at the limit price or higher."  (Without All-Or-None
\* orders, whose pairs of chains trade at the prices of the first two orders.)
PriceIsAcceptable ==
    trade # NoTrade /\ IsLimit(trade.order) =>
        IF IsBuy(trade.order) THEN trade.price <= trade.order.Price
        ELSE trade.price >= trade.order.Price

\* Price-time priority: an order that rests trades only from the front of the queue
\* of the best level of its side.
TradesAtTheFront ==
    [][LET o == trade'.order
       IN trade' # NoTrade /\ o.Level # NoLevel =>
              /\ \A p \in PricesIn(book, CollectionOf(o)) : ~Better(CollectionOf(o), p, o.Price)
              /\ Head(book.levels[o.Level].OrderList) = o.Id]_vars

\* The volume resting at prices an order reaches.
Available(b, o) ==
    LET c == Opposite(o)
    IN Lots([p \in {q \in PricesIn(b, c) : Reaches(o, q)} |-> b.levels[<<c, p>>].TotalVolume])

\* Nothing tradable is given up: an order is left with a quantity only if no volume
\* it reaches is left, a Fill-Or-Kill order only if there was not enough of it.
\* (Without All-Or-None orders, which may refuse to trade.)
LeftoverIsUntradable ==
    At("finish") /\ enabled /\ IsLimit(taker) /\ taker.LeavesQuantity > 0 =>
        Available(book, taker) < IF IsFOK(taker) THEN taker.LeavesQuantity ELSE 1

\* "An FOK order must be executed immediately in its entirety; otherwise, the entire
\* order will be cancelled."
FillOrKill ==
    At("finish") /\ IsFOK(taker) =>
        taker.ExecutedQuantity = 0 \/ taker.LeavesQuantity = 0

\* "An AON order must be executed in its entirety, or not executed at all": an AON
\* order that rests was never executed in part.
AllOrNone ==
    \A id \in DOMAIN book.orders :
        IsAON(book.orders[id]) => book.orders[id].ExecutedQuantity = 0

\* "Generally, this type of order will be executed immediately": a market order to buy
\* without a slippage limit is left with a quantity only if there are no asks.
MarketBuyIsFilled ==
    At("finish") /\ enabled /\ IsMarket(taker) /\ IsBuy(taker) /\ ~IsSlippage(taker)
    /\ IsIOC(taker) /\ taker.LeavesQuantity > 0 => ~HasBest(book, "asks")

\* When matching has settled, no stop order is left whose price was reached.
StopsAreSettled ==
    [][At("round") /\ calls' = << >> =>
          \A id \in DOMAIN book.orders :
              LET o == book.orders[id]
              IN ~IsLimit(o) => ~Triggered(book, matching, CollectionOf(o), o.StopPrice)]_vars

\* The price of a stop level is checked once for all its orders, but the market is
\* still there when each of them is activated.
ActivationIsDue ==
    At("activate") /\ Call.order # NoOrder =>
        LET o == book.orders[Call.order]
        IN Triggered(book, matching, CollectionOf(o), o.StopPrice)

\* When the trailing stop orders of a side have been gone through, with orders moved
\* from level to level on the way, every one of them is where it is to be: following
\* the market again would move none.
NoTrailingOrderIsMissed ==
    At("walk") /\ Call.current = NoLevel =>
        \A id \in DOMAIN book.orders :
            LET o == book.orders[id]
            IN o.Level[1] = Call.collection =>
                   CalculateTrailingStopPrice(book, last, o) = o.StopPrice

\* Every call returns, however often matching re-enters itself and stop orders
\* activate each other; only the use of released memory ends one otherwise.
CallsReturn == ~Idle ~> Idle \/ fault
=============================================================================

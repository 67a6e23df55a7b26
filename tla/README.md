# CppTrader in TLA+

A model of CppTrader: the matching library (orders, the order book, and the market manager
that processes orders and matches them), the NASDAQ ITCH handler, the optimized managers
that replay a feed, and the matching engine that writes what happens to a kdb+ server. TLC
checks the modules on small instances; TLAPS proves the central invariants of the order book,
of automatic matching, of the ITCH handler and of the optimized managers for every instance.
Paths are relative to `src/`.

## 1. The system

| component | state | operations | interacts with |
|---|---|---|---|
| Orders (`include/trader/matching/order.{h,inl}`, `source/trader/matching/order.cpp`) | fields of `Order`; `OrderNode` adds list links and the cached `Level` | factories, `Validate`, `HiddenQuantity`, `VisibleQuantity` | read and changed by the manager and the book |
| Order book (`order_book.{h,inl,cpp}`, `level.{h,inl}`) | six AVL trees of levels (bids, asks, buy/sell stop, trailing buy/sell stop), a cached best level for each, a list of orders and three volumes per level; last, matching and trailing prices | add, reduce, delete an order of each kind, add and delete levels, next level, market prices, trailing stop price | called by the manager only; returns a `LevelUpdate` |
| Market manager, order processing (`market_manager.{h,inl,cpp}`) | `_orders` by id, symbols, books, pools | add, reduce, modify, mitigate, replace (two kinds), delete, execute (two kinds) | calls the book, then the handler; with matching enabled also matching |
| Market manager, matching (same files) | `_matching`; pointers held in nested calls | `Match`, `MatchMarket`, `MatchLimit`, `MatchOrder`, chains, activation of stop orders, trailing | re-enters itself through `DeleteOrder(id, true)` and `ReduceOrder(id, quantity, true)` |
| Market manager, symbols and books | vectors indexed by symbol id | add and delete symbols and order books | orders outlive a deleted book |
| Market handler (`market_handler.h`) | none (callbacks) | `onAddLevel`, `onUpdateLevel`, `onDeleteLevel`, `onUpdateOrderBook`, order and trade callbacks | implemented by the application |
| ITCH handler (`providers/nasdaq/itch_handler.*`) | cache and length of a partial message | `Process`, `ProcessMessage` and 22 decoders, `Reset` | feeds an application that calls the manager |
| Persisting matching engine (`examples/matching_engine.cpp`) | users, symbols, positions; chunks of rows with their counters | the calls of a market handler, `addUser`, `flush_db` | manager, positions, kdb+ |
| Positions (`risk/position.*`) | side, quantity, prices and P&L | `OrderExecuted`, mark price, funding | persisting matching engine |
| kdb+ and Redis adapters | connection | inserting rows, queries | persisting matching engine |
| Optimized managers (`performance/market_manager_optimized*.cpp`) | arrays of orders, a pool of levels, two sorted vectors per book | add, reduce, modify, replace, delete, execute by reference number | the messages of the ITCH handler |
| CppCommon (not in the repository) | AVL tree, list, hash map, pools | | all of the above |

All classes are documented as not thread-safe. One thread calls the manager, so calls do
not interleave. What makes this code hard is elsewhere:

* **Re-entrance.** Executing an order goes through the public operations in their internal
  form, and these call `Match` again when automatic matching is on. The outer call holds
  pointers to orders and levels that the inner one may release.
* **Redundant state by hand.** The index of orders, lists, cached level pointers, volumes,
  level counts and best levels are updated separately in each of the operations.
* **Plans that are executed later.** Chains for All-Or-None and Fill-Or-Kill orders are computed,
  then executed one order at a time.
* **Failure in the middle.** Duplicate ids are found after matching or after a deletion.
* **Arithmetic at the ends of `uint64_t`,** with the largest value meaning "no limit".
* **Cascades.** A trade activates stop orders, which trade, and moves trailing orders, while
  their levels are being walked.
* **Buffers cut anywhere.** A message of the feed may end in another buffer than it began.
* **State kept twice, written later.** Rows wait in chunks of three parallel vectors; slots of
  levels are named from orders, vectors and a list of free ones.

What makes each component correct:

* book: the redundant state agrees after any sequence of calls (`LinksAgree`,
  `VolumesAgree`, `BestAgrees`); price-time priority;
* order processing: failed calls alter no order; mitigation never overfills; a handler that
  applies all updates has the book;
* matching: no released memory is used; the book is not left crossed; quantities are
  conserved; limits are respected; the front of the best level trades; the times in force
  keep their promises; stop orders are activated when due, trailing orders follow the market;
  calls return;
* ITCH handler: the application gets the messages of the stream, each once and as soon as it
  is complete, with every member from its own bytes, and the handler returns;
* optimized managers: the depth is the sum of the orders that live; a slot is one level's;
* persisting engine: every call becomes one row, in order; positions are the sums of trades;
  flushing leaves nothing behind.

The hazards, each at its line, are listed in `PROJECT.json`.

## 2. The modules

```
Orders <- OrderBook <- BookQueues <- MarketManager  <- MCMarketManager
                                  <- MatchingEngine <- MCMatchingEngine
PriceTimeQueues: abstract specification, implemented by MarketManager and MatchingEngine

Proofs, each extending the ones before it:
all but ITCH:   Sums <- CollectionProofs
OrderBook:      CollectionProofs <- OrderBookProofs
MarketManager:  OrderBookProofs <- MarketManagerProofs
MatchingEngine: OrderBookProofs <- MatchingEngineProofs <- ExecutionProofs
MarketFeed:     CollectionProofs <- MarketFeedProofs
TradingSession: CollectionProofs <- TradingSessionProofs

ITCHMessages <- ITCHHandler <- MCITCHHandler, ITCHHandlerProofs
MessageStream: abstract specification, implemented by ITCHHandler

LevelPool <- AggressiveManager --+
          <- OptimizedManager ---+-> MarketFeed <- MCMarketFeed

MyMarketHandler --+
Registry ---------+-> TradingSession <- MCTradingSession
```

**Orders.** An order is a record of the fields the matching reads, with `Level`, the key of
the level it is linked into. `Validate` and the changes of an order by reduction, execution,
modification and replacement are operators on that record. Unsigned arithmetic wraps at
`UInt64Size`.

**OrderBook.** A book is a value: `orders` (the manager's `_orders`), `levels` (from the key
`<<collection, price>>` to volumes, count and list) and `best`. The three families of
functions for quoted, stop and trailing levels are the same text in the code up to the
collection, so each is one operator here. `AddOrder`, `ReduceOrder` and `DeleteOrder` return
the book after the call, `LevelUpdate` what the function returns. The AVL tree is a set
of prices: where `DeleteLevel` takes the next best level from the `left`, `parent` and
`right` links (`order_book.cpp:106,115`), which is the neighbour as long as the tree is
balanced, the model takes the next price.

**MarketManager.** Automatic matching disabled, as the manager is constructed. Each
operation is one atomic action with its error returns; `result` is the error code and `feed`
what a handler knows of the levels and the best prices. All order types take part.

**MatchingEngine.** Automatic matching. A call is a sequence of steps on an explicit stack:
a frame of `calls` is a C++ activation with the pointers it holds (ids and level keys).
One step runs from one re-entrant call to the next: it executes and reduces one order, pushes
the nested `Match(internal)` if the book is crossed, and leaves the frame that goes on when it
returns. If a frame goes on with an order or a level that is gone, `fault` is set and the
behaviour ends, because nothing is known of the program after that. An order being matched
is not linked: it is the `taker`. `Request` begins a call when the stack is empty.
`enabled` is false at first if the instance has "enable" or "match" among its operations.
`last` and `trailing` are the book's last and trailing prices. A walk handles one order in a step,
and at the end of a level that it moved an order from it goes back to the level before. Activating a trailing order that is
alone on its level sets `fault` (section 3).

| code | frames and actions |
|---|---|
| `Match` | `MatchFrame`, `PairFrame`, `ReducingFrame`, `AskChainFrame`: `Match`, `Pair`, `Reducing`, `AskChain`, `PairStops`, `Stops` |
| `MatchOrder`, `MatchMarket`, `MatchLimit` | `MatchOrderFrame`, `TakeFrame`, `FilledFrame`: `MatchOrder`, `Take`, `Filled` |
| `ExecuteMatchingChain` | `ChainFrame`: `ExecuteMatchingChain` |
| `CalculateMatchingChain` (both) | `ChainForOrder`, `ChainForPair` |
| `ActivateStopOrders` (both), `ActivateStop(Limit)Order` | `Round`, `PairStops`, `Stops`; `ActivateFrame`: `Activate` |
| `RecalculateTrailingStopPrice` | `RecalculateFrame`, `WalkFrame`: `Recalculate`, `Walk` (`Follow`, `NextLevel`) |
| the tail of the add, modify and replace operations | `FinishFrame`, `ResetFrame`, `AddFrame`: `Finish`, `ResetMatchingPrice`, `AddAfterDelete` |

**PriceTimeQueues.** What a book promises without levels, volumes or pointers: queues in
order of arrival; an order enters at the back, shrinks in place, leaves, or leaves and
enters again. Both managers refine it (`KeepsPriceTimePriority`), with the queue of a
level read from its list: `BookQueues` has the book, the constants and the refinement mapping
that they share.

**ITCHMessages.** The 22 messages as sequences of members with their widths (the structs)
and the order in which the decoders read them; `ProcessMessage` chooses by type and refuses
a wrong size. The value of a member is the bytes that it is read from.

**ITCHHandler.** `Process` on the bytes of a stream in frames. A call takes the next bytes, as
many as `BufferSizes` allows; each step is an iteration of the loop, or the half that reads a
size or fills the cache. `position`, `message` and `inStep` are history variables. `Reset` may
be called after a failure.

**MessageStream.** What the application sees: messages one after the other, until one is refused.
ITCHHandler implements it, with the history variables as its state.

**LevelPool, AggressiveManager, OptimizedManager.** The two optimized managers, as operators on
the state of a manager. A slot of the pool is a number, as in the code, and is taken again
from the end of the list of free slots. The aggressive manager stores prices of sell orders
as negative numbers; the other has a side and counts orders for its handler.

**MarketFeed.** Composition: an exchange whose orders allow what an ITCH feed may say (a
reference number is given once, an order that has ended is not named again, no more is
executed or cancelled than is left), and both managers, which get each message. `ModifyOrder` and
the other `ReplaceOrder`, which no message causes, are actions too, at most `MaxCalls` times.

**Registry, MyMarketHandler, TradingSession.** The persisting engine. `MyMarketHandler` has the
handler's members as operators on its state: the rows in chunks, the positions by symbol and
account, the tables of the server as sequences of what was sent. `Registry` has the symbols and
books of the manager. `TradingSession` composes them with a manager that is reduced to the
orders that rest, the incoming order and the calls to the handler in their order: execution of
the resting order, its update or deletion, the level, execution of the incoming one. `log` is
the history of these calls, `executions` that of the executions among them. Whether a level update is said to be at the top of the book
is left open (section 3 says why the flag is not what one expects). Closing a market under
its orders is possible at any time between calls.

## 3. The runs

`OrderIntMax` is 15 and `UInt64Size` 64 (100000 in MM_stops, where percentages multiply a
price by up to 1000): limit and stop prices in the matching runs are at most 4, away from both ends of the arithmetic, and
the default slippage reaches the ends. Three ids are enough for a taker and two orders of
a level or a chain, which is what the runs on books that matching keeps uncrossed are about; the
theorems of section 4 say most of the same for any number. All-Or-None orders leave the book
crossed, and what they can disturb takes four: the pair that stays crossed, an order that an outer
call holds, and the order that this call matches; `ME_aon` has four. Symmetry of ids is not
used: 0 is special, and ids and quantities are numbers.

| run | instance | shows |
|---|---|---|
| MM_limit | 2 ids and the invalid 0; regular, iceberg, hidden, IOC orders at 2 prices; executions up to 1; every operation | `LinksAgree`, `VolumesAgree`, `BestAgrees`, `FeedIsComplete`, `NoMissedImprovement`, `FailureAltersNoOrder` |
| MM_stops | 2 ids; all kinds of stop orders with a limit order to trail; mitigated modifications only; a trailing distance that the market has no room for | `TypeOK`, `NotOverfilled`, `TrailingStopsAreBehind`, `KeepsPriceTimePriority` |
| ME_limit | 3 ids; limit orders on both sides at 2 prices, IOC, FOK and market takers with and without slippage; delete, mitigate, replace with | `NoUseAfterRelease`, `BookIsNotCrossed`, `PriceIsAcceptable`, `NotOverfilled`, `TradesAtTheFront`, `LeftoverIsUntradable`, `MarketBuyIsFilled`, `NetIsZero`, `FillOrKill` |
| ME_stops | 3 ids; stop and stop-limit orders on both sides, buy stops at two prices, and their triggers; delete, execute | `TypeOK`, `ActivationIsDue`, `StopsAreSettled`, `CallsReturn`, `KeepsPriceTimePriority` |
| ME_trailing | 3 ids; trailing orders on both sides with bids and asks at the prices that move the market, one of them an All-Or-None order that the others refuse; executions whole | `NoTrailingOrderIsMissed`, `AllOrNone` |
| ME_manual | 3 ids; a book crossed while matching is off, then `Match()`, `EnableMatching`, `DisableMatching`; reduce, replace, modify (an order that has executed nothing) | `NetIsZero`, `BookIsConsistent`, `MatchUncrosses` |
| ITCH | each message of the protocol once, three empty frames (two of them in a row), an unknown type and two of a wrong size; buffers of 1, 2, 3 or 60 bytes, mixed; any of two types refused | `TypeOK`, `NothingIsHeldBack`, `FieldsAreAtTheirPlace`, `HandlesTheStream`, `CallsReturn` |
| Feed | 2 books, 2 prices, 3 orders of 2 shares, one call that no message makes | `DepthIsExact`, `NoSlotIsShared`, `OrdersAreCounted` |
| Session | 1 symbol, 2 users and an account that is none, 3 orders at 2 prices; chunks of 2 rows, positions in chunks of 3, prices every third update | `RowsAreComplete`, `PositionsAreNet`, `AllIsWritten` |

Why these bounds are enough. Buffers of 1, 2 and 3 bytes cut a frame before, inside and after its
size, and 60 is more than the longest frame; mixing them cuts frames everywhere. Two orders at one
price, one at another and one book beside are what a level, a vector and the shared pool can
confuse; slots are taken and freed within a behaviour. Three orders give two trades, so that
chunks of two rows fill once and leave a rest, and a position turns round.

**Views and symmetry.** The ME runs without trailing orders leave `last` and `trailing` out of
the view: nothing but `WithTrailingStop` and `Recalculate` reads them, and without trailing
orders these change no other variable. The view of Feed leaves out orders that have ended and
the contents of free slots: the exchange names no such order again and a slot is filled in
when it is taken. The properties of these runs read nothing that is left out. Stocks are
symmetric in Feed. Ids are not: 0 is special, and ids are numbers.

`ME_manual` and `ME_trailing` do not check for deadlock: a behaviour ends where a released order
or level is used (see below), and their properties hold up to there. `Feed` and `Session` end
when the orders of the day are used up. In all other passing runs a deadlock would be reported:
a call always has a next step and the caller can always make another call, and the end of the wire is the end of ITCH only if it can be reached by a
buffer of one byte. `MaxExecuted` bounds how much an order executes over its life (a modification may
refill it for ever); it is a guard on executions in MarketManager and on modifications
in MatchingEngine. Calls that fail their checks change nothing and are made in
MarketManager only.

The engine's `NoUseAfterRelease`, `NetIsZero`, `PriceIsAcceptable`, `BookIsNotCrossed` and
`LeftoverIsUntradable` hold without All-Or-None orders, `NotOverfilled` without plain
modifications, which start a new quantity on an order that has executed some, and all of them
with matching enabled from the start. With All-Or-None orders the first four are violated by
two to four additions: `NetIsZero` in `ME_aon`, the others by the sequences below. `AllOrNone` and
`FillOrKill`, which hold, say that no such order is executed in part, not that somebody sold
what it was filled with.

Runs that find the code doing other than a comment or a name says (quotes under `findings` in
`PROJECT.json`):

| run | property | what happens |
|---|---|---|
| ME_activation | `NoUseAfterRelease` | activating a trailing order erases its emptied level from the tree of stop levels, in which it is not, and releases it while it stays in its own (`market_manager.cpp:1383`) |
| ME_aon | `NetIsZero` | 4 ids, All-Or-None orders on both sides, orders are only added. Executing the first order of a Fill-Or-Kill chain on a crossed book runs `Match`, which takes from another order of the chain; the Fill-Or-Kill order is reported filled all the same (`market_manager.cpp:1222-1238`) |
| Session_prices | `PricesAreTheirs` | the prices of a chunk are never cleared, so transactions of later chunks get the prices of the first one (`examples/matching_engine.cpp:630`) |

More was met while modelling. The code's behaviour is in the models, and the properties are
stated so that they hold of it; none of these has a run of its own:

* Volumes wrap: when the quantities of a level add up to 2^64, or a reduction leaves a wrapped
  sum of zero, `ReduceOrder` deletes the "empty" level under its orders
  (`order_book.cpp:175-177`). The theorems exclude it by a hypothesis.
* The top-of-the-book flag is not set when the best level disappears and others remain
  (`order_book.cpp:214`); `NoMissedImprovement` is what does hold.
* `Validate` refuses trailing percentages beyond -1000 (10%), while the documentation allows
  -10000 (`order.h:201-202`, `order.cpp:82-83`).
* A Fill-Or-Kill market order without slippage executes its chain at the price
  `ORDER_INT_MAX` (`market_manager.cpp:1180,1229`).
* A market order to sell gets the highest price as its limit, with slippage or without, and never
  trades (`market_manager.cpp:1191`), although a test expects it to
  (`tests/test_matching_engine.cpp:146`). `MarketBuyIsFilled` is about the other side.
* A stop-limit order that is modified is matched at once, whatever the market
  (`market_manager.cpp:631`).
* Enabling matching on a crossed book: the nested `Match` executes and releases the order that the
  outer one goes on to reduce (`market_manager.cpp:1131,1146`, the assertion in line 469). `fault`
  stops the behaviour there, in ME_manual.
* The same sequence overfills: one bid for 3 crosses two asks of 2. The outer `Match` reads the
  quantity 2 of the first ask and deletes it; the nested one executes the second ask against
  the bid, which has 1 left; the outer one then reports and adds an execution of 2 to it
  (`market_manager.cpp:1115,1134-1144`), and the minimum in `ReduceOrder` (line 480) hides that
  the bid got 4. ME_manual has these quantities and claims no `NotOverfilled`.
* An All-Or-None order that finds no chain leaves the book crossed (`market_manager.cpp:1099`): sell
  2 at 2 and then buy 1 at 3, both All-Or-None. When a bid of 1 at 1 follows, the pair has
  a chain, which executes this bid, too, at the price of the best one, 3
  (`market_manager.cpp:1102`).
* On a book that is crossed in this way an order that matches holds pointers to orders that the
  nested `Match` releases (`market_manager.cpp:1254,1277`): sell 1 at 2; sell 2 at 2, All-Or-None;
  buy 2 at 3, All-Or-None, which finds no chain and rests; buy 3 at 3. The last order executes
  the first one; the `Match` within executes the other two against each other; the last order
  then goes on with the second one, which is gone.
* Without any nested call, the chain of a pair may count orders of one side against each other: when
  an order has more than is still needed, `CalculateMatchingChain` goes on with the orders and
  quantities of the two sides swapped but not their levels (`market_manager.cpp:1534-1541`). Sell
  2 at 1; sell 3 at 1, All-Or-None; buy 3 at 4, All-Or-None, which rests; sell 2 at 2. The chain is
  said to be 5: 5 are sold and 3 are bought. `NetIsZero` is violated here, too.
* When reductions leave a crossed book of All-Or-None orders tradable, the chain on the bids
  re-enters `Match`, which may execute the asks that the second chain starts from
  (`market_manager.cpp:1102-1103`).
* In `Match` both pointers of a pair move on, so on a level of several orders manual matching
  does not respect time priority (`market_manager.cpp:1147`).
* A trailing order that was added while the side it follows had no quotes does not follow when
  the quotes come back at the remembered price or a worse one
  (`market_manager.cpp:1647-1651`).
* ITCH: `ReadTimestamp` takes three of the six bytes of a timestamp and the MPID attribution is
  read into one byte of its four, as `FieldsAreAtTheirPlace` describes them; after a refused
  message `_size` and the cache stay, so that without `Reset` the handler takes the next buffer
  for the contents of that message (`itch_handler.cpp:80-88`).
* Feed: cancelling all that is left of an order leaves its volume in the level of the optimized
  manager (`market_manager_optimized.cpp:450,467`), whose `AddOrder` stores no price either
  (`:424-430`), so that its levels are not the market's depth. `OrdersAreCounted` is what it
  does keep. `DeleteLevel` then does not find a level again that it frees. Neither
  manager tests that a reference number exists or that a book is new.
* Session: no order is ever recorded as `FILLED`, as the handler is called before the quantity is
  taken; an order that was filled is recorded as `CANCELLED`, one that was filled in part
  as `REPLACED` (`examples/matching_engine.cpp:594-613,661-669`). Accounts that are no users share the
  Id 0 in the table of positions and overwrite each other; `AllIsWritten` leaves them out.

**Fairness.** `MatchingEngine` has weak fairness on `Step`: a call that has begun goes on,
since it runs on its caller's thread without waiting for anything. Nothing is assumed of
`Request`. `ITCHHandler` has weak fairness on `Loop` for the same reason, and nothing is
assumed of the caller's buffers. `MarketManager`, `MarketFeed` and `TradingSession` have no
liveness property: their calls are atomic, or end after a bounded number of trades.

## 4. The proofs

`MarketManagerProofs` proves for `MarketManager`, for any ids, orders, prices, quantities and
integer widths allowed by the modules' assumptions:

| theorem | states |
|---|---|
| `InvariantHolds` | `Spec => []IInv` |
| `TypesHold`, `LinksHold`, `VolumesHold`, `BestHolds`, `FeedHolds` | the invariants `TypeOK`, `LinksAgree`, `VolumesAgree`, `BestAgrees`, `FeedIsComplete` |
| `QuotesHold` | the invariant `NoMissedImprovement` |
| `FillsHold` | the invariant `NotOverfilled`, if all modifications are mitigated (`Mitigations \subseteq {TRUE}`) |
| `PriorityHolds` | `Spec => KeepsPriceTimePriority`: the refinement of `PriceTimeQueues`, with a queue for every collection and price (`QueueKeys = LevelKey`) |
| `FailuresHold` | the action property `FailureAltersNoOrder` |

All have the hypothesis `VolumeFits`: the number of ids times the largest quantity is less
than `UInt64Size`; section 3 says what happens otherwise.

The inductive invariant `IInv` is the conjunction of the parts: none is inductive alone. A
level disappears when its total volume is zero, so that no order is left behind needs the
volume to be the sum of positive leaves quantities; that the difference a handler takes off is
right needs the order to hang in exactly the list its `Level` names; that the sum does not wrap
needs the type invariant (leaves quantities in `1 .. MaxQuantity`); and that the best level
moves to the right neighbour needs every level to have a price in the collection. The feed
follows the book because each operation reports the one level that it changed; for the same
reason a quote that became the best is the one reported, and was flagged. That no order is
filled beyond its quantity is kept as a part of `IInv` under the condition on mitigation, since
an execution moves a quantity from what is left to what is executed and nothing else adds.

The argument is in four layers:

* `CollectionProofs`: sums and lists. The sum of the leaves quantities is written without
  recursion, as the cardinality of a union of disjoint sets (`Lots` in `Sums`), so that
  finite-set theorems give what happens when one summand is added, removed or changed. Also:
  elements of a list after something is appended, inserted or removed.
* `OrderBookProofs`, first half: the best price after adding and deleting a level; `AddOrder`,
  `ReduceOrder` and `DeleteOrder` keep a consistent book consistent, split into the level
  operations they are made of, and change one level each.
* `OrderBookProofs`, second half: on a consistent book each of them is a step of `PriceTimeQueues`: one order
  enters at the back of its level, leaves its list, or shrinks at its place. An order that is
  modified or replaced leaves and enters in one step. That the orders of other lists stay
  as they are needs the links of the consistent book.
* `MarketManagerProofs`: every action keeps `IInv`, one lemma per action; what the call builds
  (a new, modified, replaced or reduced order) may enter the book; the theorems by temporal
  logic.

`ITCHHandlerProofs` proves for `ITCHHandler`, for any bytes in frames of any sizes, any buffers
and any messages that the application refuses:

| theorem | states |
|---|---|
| `InvariantHolds` | `Spec => []IInv` |
| `TypesHold`, `NothingHeldBack` | the invariants `TypeOK` and `NothingIsHeldBack` |
| `ImplementsStream` | `Spec => HandlesTheStream`: the refinement of `MessageStream` |
| `FieldsInPlace` | the invariant `FieldsAreAtTheirPlace` |

`IInv` adds to the types where the handler is: while no message was refused, `index` is a place in
the frame after `position`, `size` is unknown or the frame's, and the cache is the bytes of
its size or of its message that lie before `index`. Each is needed for the next: what is
delivered is the message of the frame only if the cache is its beginning, the next
size is read at the right place only if the message ended where the frame does. Out of step
only the types are kept. That every member comes from its own place is a fact on the decoders,
one lemma each: the reads are the members in the order of their declaration, and no two members
have the same name (`InOrder`); by the refinement the message that the application holds is the
decoded body of the frame at `position`.

The two modules on `MatchingEngine` prove, for any ids, orders, prices, quantities, integer
widths and numbers of nested calls:

| module | theorem | states | conditions, besides `VolumeFits` |
|---|---|---|---|
| `MatchingEngineProofs` | `InvariantHolds`, `TypesHold`, `ConsistencyHolds` | `Spec => []IInv`, `TypeOK`, `BookIsConsistent` | none |
| | `PriorityHolds` | `Spec => KeepsPriceTimePriority`: the refinement of `PriceTimeQueues` | `QueueKeys = LevelKey` |
| | `TrackedHolds`, `NoTrailingOrderIsMissedHolds`, `MatchUncrossesHolds` | `Spec => [](IInv /\ Tracked)`, `NoTrailingOrderIsMissed`, the action property `MatchUncrosses` | none |
| | `CalmHolds`, `UncrossedHolds`, `FrontTradesHold` | `Spec => [](IInv /\ Calm)`, `BookIsNotCrossed`, `TradesAtTheFront` | `Automatic`, `NoneIsAON` |
| `ExecutionProofs` | `KnownHolds`, `NothingReleasedIsUsed`, `DueIsActivated`, `NoStopIsLeft`, `MarketBuyIsFilledHolds` | `Spec => [](IInv /\ Calm /\ Known)`, `NoUseAfterRelease`, `ActivationIsDue`, `StopsAreSettled`, `MarketBuyIsFilled` | `Automatic`, `NoneIsAON`, `NoneTrails`, `IsCapped` |
| | `BalancedHolds` | `Spec => [](IInv /\ Calm /\ Balanced)` | `Automatic`, `NoneIsAON` |
| | `NetIsZeroHolds`, `PriceIsAcceptableHolds`, `LeftoverIsUntradableHolds` | `NetIsZero`, `PriceIsAcceptable`, `LeftoverIsUntradable` | `Automatic`, `NoneIsAON`, `NoneIsFOK` |
| | `NotOverfilledHolds` | `NotOverfilled` | `Automatic`, `NoneIsAON`, no "modify" |
| | `WholeHolds`, `AllOrNoneHolds`, `FillOrKillHolds` | `Spec => [](IInv /\ Whole)`, `AllOrNone`, `FillOrKill` | no "execute" |

The conditions are on what the caller uses, and each is there because the code does otherwise
without it (section 3), or because the provers stop there:

* `Automatic`: matching is enabled from the start and is neither switched off nor called. The
  book that is crossed when it is enabled is where the code fails.
* `NoneIsAON`: an All-Or-None order that finds no chain leaves the book crossed, and then
  nested calls execute what the outer call remembers.
* `NoneTrails`: activating a trailing order releases a level that stays in the book.
* `IsCapped`: no price or slippage is above `ORDER_INT_MAX`, which is the code's word for "no
  limit" but is 2^60 - 1 (`order.h:13`), not the largest `uint64_t`; a stop order at a price
  above it would never be reached by a market without quotes.
* no "modify": `ModifyOrder` gives an order a new quantity and keeps what was executed of it;
  `MitigateOrder`, `ReplaceOrder` and the others are in.
* no "execute": `ExecuteOrder` takes a part of any order that the caller names, an All-Or-None
  order too.
* `NoneIsFOK`: the code needs no such condition. That the orders of a chain add up to the
  volume of the chain is a fact on the recursive functions of `ChainForOrder`, over levels and
  lists of any length, which cannot be proved here; `ME_limit` checks it.

The argument goes through the stack of nested calls, one invariant for each thing that a caller
takes for granted when a nested call returns:

* `IInv`: the book is consistent between any two steps, and `StackOK`. Frames have ranks
  (`Rank`): a call that matches an order lies above one that will link what is left of it, and
  calls that take an order from the book to match it, or enter a new one, lie below both
  (`Ordered`). So there is one `taker` at a time, it is not linked while it is matched
  (`Serves`), and what a frame will take of it is there. With this every step is one of the
  operations on a consistent book of `OrderBookProofs`.
* `Tracked`: only the innermost call goes through trailing orders, and what it has passed is where
  the market puts it (`Tracks`): up to the level it would go back to, before the level it is
  at, and in that one up to the next order unless one was moved out of it. A moved order is
  settled because following the market twice changes nothing (`FollowingOrder`), wherever its
  new level is; and the orders before it stay settled because moving trailing orders leaves the
  best bid and ask alone (`SameBestPrices`). That a null level is none of the levels is
  assumed (`LevelAssumption`). For the same reason a call of Match that has
  found the book uncrossed and has activated nothing since (`FoundUncrossed`) ends on such a
  book: only calls about trailing orders are made meanwhile. Nothing is asked of the
  orders or of automatic matching, so this covers manual matching and All-Or-None orders too.
* `Calm`: the book is not crossed. It is inductive only with what it is for: as the book is never
  crossed no step pushes an internal `Match`, so the calls on the stack are strictly nested
  (`Depth`), nothing runs between the frame that found an order in front and the frame that
  trades with it, and so it is still the front (`Top`); and as a taker is linked only when the
  other side is out of its reach, the book stays uncrossed.
* `Known`: a frame of `ActivateStopOrders` remembers the next stop order while the one before it
  is matched. It is still there because matching removes quoted orders only, and still due
  because the orders of a level trade on the same side: a buy order takes asks away, so the ask
  price that has reached the level does not fall below it again. A round in which
  nothing was activated has left no order that is due, because nothing is matched between the
  check of the buy orders and that of the sell orders.
* `Balanced`: while the taker owes the second half of a trade, `net` is what it owes (`Owing`);
  no execution exceeds what was left of its order, nor does what was executed and what is left
  exceed the whole (`Sound`); a limit order trades at its price or better.
* `Whole` needs no uncrossed book: the orders that a frame goes on to execute (`Mentioned`) are
  quoted or gone, whatever nested calls do; the frame that executes by pairs reduces none that
  must trade whole, and a taker that trades order by order needs no chain (`Respects`).

`MarketFeedProofs` proves for `MarketFeed`, for any stocks, prices and sizes (positive numbers),
and any numbers of orders and calls:

| theorem | states |
|---|---|
| `InvariantHolds` | `Spec => []Inv` |
| `DepthHolds`, `SlotsHold`, `CountsHold` | the invariants `DepthIsExact`, `NoSlotIsShared`, `OrdersAreCounted` |

The properties do not hold one without the other. The aggressive manager writes to the slot that
an order names and erases the entry with the price it reads there, so the depth is right only
if each slot is that of one entry (`Shelf`, which has the pool, the vectors and their
order); a slot is freed only when its volume is zero, so that no order is left on it needs the
volume to be the sum of positive shares (`ALevels`); and the scan from the back ends at the entry
of a price, or where it belongs, only in a sorted vector (`ScanFinds`, `InsertKeepsSorted`). The
side that the aggressive manager reads from the sign of a level is the order's because a level
hangs in the vector of its sign (`ASigns`). For the optimized manager the invariant says less, as
the code does less: its volumes are those of the orders or more (`OLevels`), as a cancellation
to nothing leaves its part, and an order is at the price it was noted with, not the one it was
sent with (`OEntry`); this is still enough for its scans to find what they free as long as
the level has been emptied. One lemma for each call of each manager says what it does to the
market it has (`AExecutes`, `AReplaces`, `OModifies`, ...), one for each message that the
three agree again (`KeepsAddOrder`, ...).

`TradingSessionProofs` proves for `TradingSession`, for any symbols, accounts, prices, quantities,
numbers of orders, sizes of chunks and initial values of the counters:

| theorem | states |
|---|---|
| `InvariantHolds` | `Spec => []Inv` |
| `RowsHold`, `PositionsHold`, `WrittenHold` | the invariants `RowsAreComplete`, `PositionsAreNet`, `AllIsWritten` |

The assumptions are those of the module: symbols and accounts are numbers, of which there are
finitely many; prices and quantities are not zero (the program's prices are
9000 or more and its quantities one or more, `examples/matching_engine.cpp:743-784`); a counter that the constructor does not set may hold
any integer, so what is proved does not rest on where chunks are cut. `Inv` says more than the
three properties, because none of them is inductive:

* `IsTold`: what is in a table followed by what is in its chunk is what the handler was told,
  order by order and quantity by quantity. It needs that the vectors of a chunk are cleared
  together: as many quantities as orders, and prices no fewer (`Paired`); the prices are
  not those of their rows (section 3). One lemma for each member of the handler says what it
  adds to that (`AppendsOrder`, `AppendsTransaction`, `Executes`, `TradeTells`).
* `IsNet`: the signed position of every account, of those without one too, is what it bought less
  what it sold. A position is kept as a side and an unsigned quantity; `ExecutedPosition` shows
  that every trade, through zero as well, adds to the signed quantity. The two halves of
  a trade are told one after the other, of opposite sides and the same quantity, because
  `Trade` takes the best order of the other side; that there is a best one among finitely many is
  `BestFound`, by the least number of orders that are better. So longs and shorts balance after
  a trade, though not between its halves (`FollowsExecution`).
* `InOrder`: users get their positions before the first order, else `addUser` would reset them.
* `IsWritten`: after `flush_db` the chunks are empty, and each position was appended last
  (`LastRows`). Nothing changes it, as the session is over.

`addUser`, `mark_price_db` and the sending of positions go through users, symbols and positions one
by one (`FoldSet`). What a fold gives is defined by recursion over finite sets; that the
recursive function exists and stays in any set that its steps stay in is proved once
(`FoldExists` and `FoldStays`, by a smallest size of a set for which it would fail), and
used with the set of handlers whose rows and signed positions have
not changed.

Only model-checked:

* of `MatchingEngine`: `CallsReturn`, which is liveness; `NetIsZero`, `PriceIsAcceptable` and
  `LeftoverIsUntradable` with Fill-Or-Kill orders, whose chains are recursive functions over
  levels (with All-Or-None orders they do not hold); manual matching, except for the invariant, the refinement and what
  `Tracked` and `Whole` say of it;
* of `MarketManager`: `TrailingStopsAreBehind`;
* of `ITCHHandler`: `CallsReturn`, which is liveness;
* of the persisting engine: `PricesAreTheirs`, which the code violates (section 3).

## 5. What is not modelled, and the plan

Modelled so far, in the order of the plan: order processing, matching, stop and trailing orders,
ITCH framing and decoding, the optimized managers on a feed, symbols and books, the persisting
engine. What is left, in this order:

1. **Pairs in Match**: a run that states queue discipline for manual matching.
2. **Composition of MyMarketHandler with MatchingEngine** in place of the manager of
   TradingSession.

Left out:

* The AVL tree of levels and its links. It is CppCommon's, which is not in the repository; a
  model of its rotations would be a guess.
* Text output, the console, random orders.
* Profit and loss, funding and risk figures: floating point.
* Connections and queries of kdb+, and Redis: input and output. Results of inserts are not looked
  at by the code, so a failed insert and a lost row cannot be told apart there.
* A crash before `flush_db`: there is nothing that would be recovered.
* Level and update counters of the optimized manager's handler; its `DeleteSymbol` and
  `DeleteOrderBook`, which nothing calls.
* The resizing of the vectors of symbols and books, whose `symbol.Id + 1` wraps for the
  largest id (`market_manager.cpp:40`).
* The hash function (pure), benchmarks, vendored code and data.

Assertions are taken as compiled out: the error returns that follow them are modelled.

--------------------------- MODULE MCMatchingEngine ---------------------------
(* Instances of MatchingEngine for TLC. *)
EXTENDS MatchingEngine

T(type, side, price, stop, quantity, tif, slippage) ==
    [Type |-> type, Side |-> side, Price |-> price, StopPrice |-> stop,
     Quantity |-> quantity, TimeInForce |-> tif, MaxVisibleQuantity |-> OrderIntMax,
     Slippage |-> slippage, TrailingDistance |-> 0, TrailingStep |-> 0]

Limit(side, price, quantity, tif) ==
    T("LIMIT", side, price, 0, quantity, tif, OrderIntMax)

\* Both sides at two prices; one order to buy is more than one, less than two to sell.
LimitOrders ==
    {Limit("BUY", 1, 1, "GTC"), Limit("BUY", 2, 3, "GTC"),
     Limit("SELL", 1, 2, "GTC"), Limit("SELL", 2, 1, "GTC")}

\* The same with orders that never rest.
MixedOrders ==
    LimitOrders \cup
    {Limit("BUY", 2, 3, "IOC"), Limit("BUY", 2, 3, "FOK"), Limit("SELL", 1, 3, "FOK"),
     T("MARKET", "BUY", 0, 0, 3, "IOC", OrderIntMax), T("MARKET", "BUY", 0, 0, 2, "IOC", 0)}

\* All-Or-None orders on both sides, of sizes for which the others do not make a chain, so
\* that they rest although their prices cross; an order that they refuse; and one whose
\* chain has them in it.
AonOrders ==
    {Limit("SELL", 2, 2, "AON"), Limit("SELL", 2, 2, "GTC"), Limit("BUY", 3, 1, "AON"),
     Limit("BUY", 3, 4, "FOK")}

\* Stop and stop-limit orders on both sides, buy stops at two prices, with the quotes
\* that trigger them.
StopOrders ==
    {Limit("BUY", 1, 1, "GTC"), Limit("SELL", 3, 1, "GTC"), Limit("SELL", 2, 1, "GTC"),
     T("STOP", "BUY", 0, 3, 1, "GTC", OrderIntMax),
     T("STOP_LIMIT", "SELL", 1, 1, 1, "GTC", OrderIntMax),
     T("STOP_LIMIT", "BUY", 3, 4, 1, "IOC", OrderIntMax)}

\* Trailing orders on both sides, to buy at two distances.
Trailing ==
    {[T("TRAILING_STOP", "BUY", 0, 15, 1, "GTC", OrderIntMax) EXCEPT !.TrailingDistance = 1],
     [T("TRAILING_STOP_LIMIT", "BUY", 15, 15, 1, "GTC", OrderIntMax)
         EXCEPT !.TrailingDistance = 2],
     [T("TRAILING_STOP", "SELL", 0, 0, 1, "GTC", OrderIntMax) EXCEPT !.TrailingDistance = 1]}

\* The same with quotes they follow.
TrailingOrders ==
    Trailing \cup {Limit("BUY", 2, 1, "GTC"), Limit("SELL", 3, 1, "GTC"),
                  Limit("SELL", 4, 1, "GTC")}

\* One quote is an All-Or-None order, which refuses what they become and may stay crossed.
TrailingAndAonOrders ==
    Trailing \cup {Limit("BUY", 2, 1, "GTC"), Limit("SELL", 3, 1, "GTC"),
                  Limit("SELL", 4, 2, "AON")}

\* The levels that the orders of StopOrders can be linked into.
QuoteKeys == {<<"bids", 1>>, <<"sell_stop", 1>>, <<"buy_stop", 3>>, <<"buy_stop", 4>>}
             \cup {"asks"} \X {1, 2, 3}

\* Those of LimitOrders.
LimitKeys == {"bids", "asks"} \X {1, 2}

\* The state without last and trailing, which only trailing orders depend on.
View == <<book, matching, enabled, taker, calls, trade, net, fault>>
=============================================================================

--------------------------- MODULE MCMarketManager ---------------------------
(* Instances of MarketManager for TLC. *)
EXTENDS MarketManager

T(type, side, price, stop, quantity, tif, visible, slippage, distance, step) ==
    [Type |-> type, Side |-> side, Price |-> price, StopPrice |-> stop,
     Quantity |-> quantity, TimeInForce |-> tif, MaxVisibleQuantity |-> visible,
     Slippage |-> slippage, TrailingDistance |-> distance, TrailingStep |-> step]

Limit(side, price, quantity, tif, visible) ==
    T("LIMIT", side, price, 0, quantity, tif, visible, OrderIntMax, 0, 0)

\* Both sides at two prices: regular, iceberg and hidden orders; an IOC order is
\* deleted at once.
LimitOrders ==
    {Limit("BUY", 1, 2, "GTC", OrderIntMax), Limit("BUY", 2, 2, "GTC", 1),
     Limit("SELL", 1, 2, "AON", 0), Limit("BUY", 1, 1, "IOC", OrderIntMax)}

LimitKeys == {"bids", "asks"} \X {1, 2}

\* Stop, stop-limit and trailing orders besides the limit orders whose best prices
\* they trail; a market order is deleted at once.
StopOrders ==
    {Limit("BUY", 2, 1, "GTC", OrderIntMax),
     T("STOP", "BUY", 0, 3, 1, "GTC", OrderIntMax, OrderIntMax, 0, 0),
     T("STOP_LIMIT", "SELL", 1, 1, 2, "GTC", 1, OrderIntMax, 0, 0),
     T("TRAILING_STOP", "SELL", 0, 0, 1, "GTC", OrderIntMax, OrderIntMax, 1, 0),
     T("TRAILING_STOP_LIMIT", "BUY", 21, 20, 1, "GTC", OrderIntMax, OrderIntMax, -1000, -1),
     T("MARKET", "SELL", 0, 0, 1, "IOC", OrderIntMax, OrderIntMax, 0, 0)}

\* The levels that the orders of StopOrders can be linked into.
StopKeys == {<<"bids", 2>>, <<"sell_stop", 1>>, <<"buy_stop", 3>>,
             <<"trailing_sell_stop", 0>>, <<"trailing_sell_stop", 1>>,
             <<"trailing_buy_stop", 15>>}
=============================================================================

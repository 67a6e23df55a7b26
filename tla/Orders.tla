------------------------------- MODULE Orders -------------------------------
(***************************************************************************)
(* Orders: include/trader/matching/order.h, order.inl and                  *)
(* source/trader/matching/order.cpp.                                       *)
(*                                                                         *)
(* An order is a record with the fields of struct Order that the matching  *)
(* code reads; Level is the pointer that struct OrderNode adds, modelled as *)
(* the key of the level it points to.  The account, status and pending     *)
(* fields are carried for the persistence examples only and are left out.  *)
(***************************************************************************)
EXTENDS Integers

CONSTANTS
    OrderIntMax,   \* ORDER_INT_MAX, "no limit" for prices, slippage, visible size
    UInt64Size,    \* the number of values of uint64_t: arithmetic wraps at it
    NoLevel        \* the null Level pointer of an order that is not linked

ASSUME WidthAssumption == /\ OrderIntMax \in Nat
                          /\ UInt64Size \in Nat
                          /\ OrderIntMax < UInt64Size

UInt64 == 0 .. UInt64Size - 1

\* Wrap-around of a sum or a difference of two uint64_t values.
Wrap(n) == IF n < 0 THEN n + UInt64Size
           ELSE IF n >= UInt64Size THEN n - UInt64Size ELSE n

-----------------------------------------------------------------------------
(* Order types and parameters *)

OrderSide == {"BUY", "SELL"}
StopTypes == {"STOP", "STOP_LIMIT"}
TrailingTypes == {"TRAILING_STOP", "TRAILING_STOP_LIMIT"}
OrderType == {"MARKET", "LIMIT"} \cup StopTypes \cup TrailingTypes
OrderTimeInForce == {"GTC", "IOC", "FOK", "AON"}

Order == [Id : UInt64, Type : OrderType, Side : OrderSide,
          Price : UInt64, StopPrice : UInt64,
          Quantity : UInt64, ExecutedQuantity : Nat, LeavesQuantity : UInt64,
          TimeInForce : OrderTimeInForce,
          MaxVisibleQuantity : UInt64, Slippage : UInt64,
          TrailingDistance : Int, TrailingStep : Int]

IsMarket(o) == o.Type = "MARKET"
IsLimit(o) == o.Type = "LIMIT"
IsTrailing(o) == o.Type \in TrailingTypes
IsBuy(o) == o.Side = "BUY"
IsIOC(o) == o.TimeInForce = "IOC"
IsFOK(o) == o.TimeInForce = "FOK"
IsAON(o) == o.TimeInForce = "AON"
IsIceberg(o) == o.MaxVisibleQuantity < OrderIntMax
IsSlippage(o) == o.Slippage < OrderIntMax

HiddenQuantity(o) == IF o.LeavesQuantity > o.MaxVisibleQuantity
                     THEN o.LeavesQuantity - o.MaxVisibleQuantity ELSE 0
VisibleQuantity(o) == IF o.LeavesQuantity < o.MaxVisibleQuantity
                      THEN o.LeavesQuantity ELSE o.MaxVisibleQuantity

-----------------------------------------------------------------------------
(* Order::Validate.  In a release build the assertions are compiled out and *)
(* the error code is what the caller sees.                                  *)

TrailingParametersInvalid(o) ==
    LET distance == o.TrailingDistance
        step == o.TrailingStep
    IN \/ distance = 0
       \/ distance > 0 /\ (step < 0 \/ step >= distance)
       \/ distance < 0 /\ (distance < -1000 \/ step > 0 \/ step <= distance)

ParametersInvalid(o) ==
    \/ IsMarket(o) /\ (~(IsIOC(o) \/ IsFOK(o)) \/ IsIceberg(o))
    \/ o.Type \in {"STOP", "TRAILING_STOP"} /\ (IsAON(o) \/ IsIceberg(o))
    \/ o.Type \in {"LIMIT", "STOP_LIMIT", "TRAILING_STOP_LIMIT"} /\ IsSlippage(o)
    \/ IsTrailing(o) /\ TrailingParametersInvalid(o)

Validate(o) ==
    IF o.Id = 0 THEN "ORDER_ID_INVALID"
    ELSE IF o.Quantity < o.LeavesQuantity \/ o.LeavesQuantity = 0
         THEN "ORDER_QUANTITY_INVALID"
    ELSE IF ParametersInvalid(o) THEN "ORDER_PARAMETER_INVALID"
    ELSE "OK"

-----------------------------------------------------------------------------
(* Order values the manager builds *)

\* What a caller chooses of an order.
Template == [Type : OrderType, Side : OrderSide, Price : UInt64, StopPrice : UInt64,
             Quantity : UInt64, TimeInForce : OrderTimeInForce,
             MaxVisibleQuantity : UInt64, Slippage : UInt64,
             TrailingDistance : Int, TrailingStep : Int]

\* The constructor of Order for a template and an id.
MakeOrder(t, id) ==
    [Id |-> id, Type |-> t.Type, Side |-> t.Side, Price |-> t.Price,
     StopPrice |-> t.StopPrice, Quantity |-> t.Quantity, ExecutedQuantity |-> 0,
     LeavesQuantity |-> t.Quantity, TimeInForce |-> t.TimeInForce,
     MaxVisibleQuantity |-> t.MaxVisibleQuantity, Slippage |-> t.Slippage,
     TrailingDistance |-> t.TrailingDistance, TrailingStep |-> t.TrailingStep,
     Level |-> NoLevel]

Lesser(m, n) == IF m < n THEN m ELSE n
Greater(m, n) == IF m > n THEN m ELSE n

\* ReduceOrder: at most the leaves quantity is taken off.
Reduced(o, quantity) ==
    [o EXCEPT !.LeavesQuantity = @ - Lesser(quantity, @)]

\* ExecuteOrder and the matching: what is executed leaves the open quantity.
Executed(o, quantity) ==
    [o EXCEPT !.ExecutedQuantity = @ + quantity, !.LeavesQuantity = @ - Lesser(quantity, @)]

\* Mutant: MitigateOrder does as ModifyOrder.
ModifiedIgnoringExecuted(o, price, quantity, mitigate) ==
    [o EXCEPT !.Price = price, !.Quantity = quantity, !.LeavesQuantity = quantity]

\* ModifyOrder and MitigateOrder: In-Flight Mitigation takes what was executed
\* meanwhile off the new quantity.
Modified(o, price, quantity, mitigate) ==
    [o EXCEPT !.Price = price, !.Quantity = quantity,
              !.LeavesQuantity =
                  IF ~mitigate THEN quantity
                  ELSE IF quantity > o.ExecutedQuantity
                       THEN quantity - o.ExecutedQuantity ELSE 0]

\* ReplaceOrder: a similar order with another id, price and quantity.
Replaced(o, newId, price, quantity) ==
    [o EXCEPT !.Id = newId, !.Price = price, !.Quantity = quantity,
              !.ExecutedQuantity = 0, !.LeavesQuantity = quantity]

\* The entry of an order into the book, if it is not matched: limit orders that may
\* rest and all kinds of stop orders.
Resting(o) == \/ IsLimit(o) /\ ~IsIOC(o) /\ ~IsFOK(o)
              \/ o.Type \in StopTypes \cup TrailingTypes
=============================================================================

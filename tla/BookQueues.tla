----------------------------- MODULE BookQueues -----------------------------
(***************************************************************************)
(* The orders of a book as queues in price-time priority.  Both managers    *)
(* keep one book and are held against the same abstract queues.             *)
(***************************************************************************)
EXTENDS OrderBook

CONSTANTS
    Ids,           \* the ids the caller uses
    MaxQuantity,   \* no order is larger
    QueueKeys      \* the levels the orders can be linked into

ASSUME QueueAssumption ==
    /\ Ids \subseteq UInt64
    /\ IsFiniteSet(Ids)
    /\ MaxQuantity \in UInt64
    /\ QueueKeys \subseteq LevelKey

VARIABLE book     \* the order book with the manager's _orders map

\* The queues of a book: the ids in its lists, with what is left of each order.
QueueAt(b, k) ==
    IF k \notin DOMAIN b.levels THEN << >>
    ELSE [i \in 1 .. Len(b.levels[k].OrderList) |->
             LET id == b.levels[k].OrderList[i]
             IN [id |-> id, leaves |-> b.orders[id].LeavesQuantity]]

QueuesOf(b) == [k \in QueueKeys |-> QueueAt(b, k)]

Queues == INSTANCE PriceTimeQueues WITH
    Ids <- Ids \ {0},
    Keys <- QueueKeys,
    Volumes <- 1 .. MaxQuantity,
    queue <- QueuesOf(book)

\* Orders keep price-time priority: every step of a manager is one step of the queues
\* or none.
KeepsPriceTimePriority == Queues!Spec
=============================================================================

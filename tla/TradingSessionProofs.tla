------------------------ MODULE TradingSessionProofs ------------------------
(***************************************************************************)
(* The rows and the positions of a trading session are what its log of     *)
(* calls says, and flushing leaves nothing behind, for all symbols,        *)
(* accounts, prices, quantities and sizes of chunks.                        *)
(***************************************************************************)
EXTENDS TradingSession, CollectionProofs

-----------------------------------------------------------------------------
(* Folds.  A step of a fold that stays in a set V stays there for all elements. *)

Picks(c, S) == \A T \in SUBSET S : T # {} => c[T] \in T

\* The equations of a fold, up to the sets of n elements.
Layer(S, n) == {T \in SUBSET S : Cardinality(T) <= n}
Solves(h, S, n, base, g, c) ==
    \A T \in Layer(S, n) : h[T] = IF T = {} THEN base ELSE g[c[T]][h[T \ {c[T]}]]

LEMMA LessOne ==
    ASSUME NEW S, IsFiniteSet(S), NEW c, Picks(c, S), NEW T \in SUBSET S, T # {}
    PROVE  /\ T \ {c[T]} \in SUBSET S /\ c[T] \in S
           /\ Cardinality(T) \in Nat /\ Cardinality(T) > 0
           /\ Cardinality(T \ {c[T]}) = Cardinality(T) - 1
<1>1. IsFiniteSet(T)
  BY FS_Subset
<1>2. c[T] \in T
  BY DEF Picks
<1>3. Cardinality(T) \in Nat /\ Cardinality(T) # 0
  BY <1>1, FS_EmptySet, FS_CardinalityType
<1>4. Cardinality(T \ {c[T]}) = Cardinality(T) - 1
  BY <1>1, <1>2, FS_RemoveElement
<1>. QED
  BY <1>2, <1>3, <1>4

LEMMA FoldExists ==
    ASSUME NEW S, IsFiniteSet(S), NEW V, NEW base \in V, NEW g \in [S -> [V -> V]],
           NEW c, Picks(c, S), NEW n \in Nat
    PROVE  \E h \in [Layer(S, n) -> V] : Solves(h, S, n, base, g, c)
<1>. DEFINE Good(m) == \E h \in [Layer(S, m) -> V] : Solves(h, S, m, base, g, c)
            Bad == {m \in Nat : ~Good(m)}
<1>1. SUFFICES ASSUME Bad # {} PROVE FALSE
  OBVIOUS
<1>2. PICK m \in Bad : \A k \in Bad : m <= k
  <2>1. Bad \in SUBSET Nat
    OBVIOUS
  <2>. HIDE DEF Bad
  <2>. QED
    BY <1>1, <2>1, LeastExists
<1>3. Good(0)
  <2>. DEFINE h == [T \in Layer(S, 0) |-> base]
  <2>1. \A T \in Layer(S, 0) : T = {}
    <3>. SUFFICES ASSUME NEW T \in Layer(S, 0), T # {} PROVE FALSE
      OBVIOUS
    <3>1. T \in SUBSET S /\ Cardinality(T) <= 0
      BY DEF Layer
    <3>2. Cardinality(T) \in Nat /\ Cardinality(T) > 0
      BY <3>1, LessOne
    <3>. QED
      BY <3>1, <3>2
  <2>2. h \in [Layer(S, 0) -> V] /\ Solves(h, S, 0, base, g, c)
    BY <2>1 DEF Solves
  <2>. QED
    BY <2>2
<1>4. m \in Nat /\ m # 0 /\ ~Good(m)
  BY <1>3
<1>5. m - 1 \in Nat /\ Good(m - 1)
  <2>1. m - 1 \in Nat /\ ~(m <= m - 1)
    BY <1>4
  <2>. QED
    BY <1>2, <2>1
<1>6. PICK h \in [Layer(S, m - 1) -> V] : Solves(h, S, m - 1, base, g, c)
  BY <1>5
<1>. DEFINE k == [T \in Layer(S, m) |-> IF T = {} THEN base ELSE g[c[T]][h[T \ {c[T]}]]]
<1>7. \A T \in Layer(S, m) : T # {} => c[T] \in S /\ T \ {c[T]} \in Layer(S, m - 1)
  <2>. SUFFICES ASSUME NEW T \in Layer(S, m), T # {}
                PROVE  c[T] \in S /\ T \ {c[T]} \in Layer(S, m - 1)
    OBVIOUS
  <2>. QED
    BY <1>4, LessOne DEF Layer
<1>8. k \in [Layer(S, m) -> V]
  BY <1>7
<1>9. \A T \in Layer(S, m - 1) : T \in Layer(S, m) /\ k[T] = h[T]
  <2>. SUFFICES ASSUME NEW T \in Layer(S, m - 1) PROVE T \in Layer(S, m) /\ k[T] = h[T]
    OBVIOUS
  <2>1. T \in Layer(S, m)
    BY <1>4, FS_Subset, FS_CardinalityType DEF Layer
  <2>2. h[T] = IF T = {} THEN base ELSE g[c[T]][h[T \ {c[T]}]]
    BY <1>6 DEF Solves
  <2>. QED
    BY <2>1, <2>2
<1>10. Solves(k, S, m, base, g, c)
  <2>. SUFFICES ASSUME NEW T \in Layer(S, m)
                PROVE  k[T] = IF T = {} THEN base ELSE g[c[T]][k[T \ {c[T]}]]
    BY DEF Solves
  <2>1. CASE T = {}
    BY <2>1
  <2>2. CASE T # {}
    <3>1. k[T \ {c[T]}] = h[T \ {c[T]}]
      BY <1>7, <1>9, <2>2
    <3>. QED
      BY <2>2, <3>1
  <2>. QED
    BY <2>1, <2>2
<1>. QED
  BY <1>4, <1>8, <1>10

\* A function that solves the equations in V has its values there.
LEMMA FoldStays ==
    ASSUME NEW S, IsFiniteSet(S), NEW V, NEW base \in V, NEW c, Picks(c, S), NEW it,
           it[{}] = base,
           \A T \in SUBSET S : T # {} /\ it[T \ {c[T]}] \in V => it[T] \in V
    PROVE  it[S] \in V
<1>. DEFINE Bad == {n \in Nat : \E T \in SUBSET S : Cardinality(T) = n /\ it[T] \notin V}
<1>1. SUFFICES ASSUME it[S] \notin V PROVE FALSE
  OBVIOUS
<1>2. Cardinality(S) \in Bad
  BY <1>1, FS_CardinalityType
<1>3. PICK m \in Bad : \A k \in Bad : m <= k
  <2>1. Bad \in SUBSET Nat /\ Bad # {}
    BY <1>2
  <2>. HIDE DEF Bad
  <2>. QED
    BY <2>1, LeastExists
<1>4. PICK T \in SUBSET S : Cardinality(T) = m /\ it[T] \notin V
  OBVIOUS
<1>5. T # {}
  BY <1>4
<1>6. /\ T \ {c[T]} \in SUBSET S
      /\ Cardinality(T \ {c[T]}) = m - 1 /\ m - 1 \in Nat /\ ~(m <= m - 1)
  <2>1. /\ T \ {c[T]} \in SUBSET S /\ Cardinality(T) \in Nat /\ Cardinality(T) > 0
        /\ Cardinality(T \ {c[T]}) = Cardinality(T) - 1
    BY <1>4, <1>5, LessOne
  <2>2. m = Cardinality(T)
    BY <1>4
  <2>. HIDE DEF Bad
  <2>. QED
    BY <2>1, <2>2
<1>7. it[T \ {c[T]}] \in V
  BY <1>3, <1>6
<1>. QED
  BY <1>4, <1>5, <1>7

-----------------------------------------------------------------------------
(* The values of the handler. *)

Statuses == {"PENDING", "REPLACED", "CANCELLED", "PARTIALLY_FILLED", "FILLED"}
RowOrder == [Id : Nat, AccountId : Nat, LeavesQuantity : Nat, Status : Statuses]
Row == [order : RowOrder, CurrentExecutedPrice : Int, CurrentExecutedQuantity : Nat]
Position == [Id : Nat, SymbolId : Nat, AccountId : Nat, Side : {"LONG", "SHORT"},
             Quantity : Nat, MarkPrice : Int]
Keys == Symbols \X Accounts
Positions == UNION {[D -> Position] : D \in SUBSET Keys}
Books == [symbol : Symbols, best_bid : Nat, best_ask : Nat]
PriceRow == [book : Books, MarkPrice : Int]
Kdb == [symbols : Seq(Symbols), prices : Seq(PriceRow), orders : Seq(Row),
        transactions : Seq(Row), positions : Seq(Position)]
HandlerType ==
    [count_time : Int, count_orders_chunk : Int, count_transactions_chunk : Int,
     count_positions_chunk : Int, symbols : SUBSET Symbols, users : SUBSET Users,
     usersStats : Positions, positions_chunk : Positions,
     orders_chunk : Seq(RowOrder), transactions_chunk : Seq(RowOrder),
     executedPrice : Seq(Int), executedQuantity : Seq(Nat), kdb : Kdb]

\* The quantities of a chunk are as many as its orders, the prices no fewer.
Paired(h) == /\ Len(h.executedQuantity) = Len(h.transactions_chunk)
             /\ Len(h.transactions_chunk) <= Len(h.executedPrice)

Handlers == {h \in HandlerType : Paired(h)}

\* What was sent and what is still in a chunk.
QuantitiesOf(rows) == [i \in DOMAIN rows |-> rows[i].CurrentExecutedQuantity]
AllOrders(h) == OrdersOf(h.kdb.orders) \o h.orders_chunk
AllTransactions(h) == OrdersOf(h.kdb.transactions) \o h.transactions_chunk
AllQuantities(h) == QuantitiesOf(h.kdb.transactions) \o h.executedQuantity

\* n is a handler with these rows and positions, and the users and tables of h.
After(h, n, orders, transactions, quantities, stats) ==
    /\ n \in Handlers
    /\ AllOrders(n) = orders
    /\ AllTransactions(n) = transactions
    /\ AllQuantities(n) = quantities
    /\ n.usersStats = stats
    /\ n.users = h.users

-----------------------------------------------------------------------------
(* Rows. *)

\* A list that has the elements of one list and then those of another.
LEMMA IsJoin ==
    ASSUME NEW S, NEW x \in Seq(S), NEW y \in Seq(S), NEW z \in Seq(S),
           Len(z) = Len(x) + Len(y),
           \A i \in 1 .. Len(x) : z[i] = x[i],
           \A i \in 1 .. Len(y) : z[Len(x) + i] = y[i]
    PROVE  z = x \o y
<1>1. /\ x \o y \in Seq(S) /\ Len(x \o y) = Len(x) + Len(y)
      /\ \A i \in 1 .. Len(x) + Len(y) : (x \o y)[i] = IF i <= Len(x) THEN x[i] ELSE y[i - Len(x)]
      /\ Len(x) \in Nat /\ Len(y) \in Nat
  BY ConcatProperties, LenProperties
<1>2. ASSUME NEW i \in 1 .. Len(z) PROVE z[i] = (x \o y)[i]
  <2>1. CASE i <= Len(x)
    BY <1>1, <2>1
  <2>2. CASE i > Len(x)
    <3>1. PICK j : j = i - Len(x)
      OBVIOUS
    <3>2. j \in 1 .. Len(y) /\ i = Len(x) + j
      BY <1>1, <2>2, <3>1
    <3>3. z[i] = y[j] /\ (x \o y)[i] = y[i - Len(x)]
      BY <1>1, <2>2, <3>2
    <3>. QED
      BY <3>1, <3>3
  <2>. QED
    BY <1>1, <2>1, <2>2
<1>. QED
  BY <1>1, <1>2, SeqEqual

LEMMA RowsType ==
    ASSUME NEW rows \in Seq(Row)
    PROVE  /\ OrdersOf(rows) \in Seq(RowOrder) /\ Len(OrdersOf(rows)) = Len(rows)
           /\ QuantitiesOf(rows) \in Seq(Nat) /\ Len(QuantitiesOf(rows)) = Len(rows)
           /\ \A i \in 1 .. Len(rows) : /\ OrdersOf(rows)[i] = rows[i].order
                                        /\ QuantitiesOf(rows)[i] = rows[i].CurrentExecutedQuantity
<1>1. Len(rows) \in Nat /\ DOMAIN rows = 1 .. Len(rows)
  BY LenProperties
<1>2. \A i \in 1 .. Len(rows) : rows[i] \in Row
  BY ElementOfSeq
<1>3. \A i \in 1 .. Len(rows) : rows[i].order \in RowOrder /\ rows[i].CurrentExecutedQuantity \in Nat
  BY <1>2 DEF Row
<1>4. OrdersOf(rows) = [i \in 1 .. Len(rows) |-> rows[i].order]
      /\ QuantitiesOf(rows) = [i \in 1 .. Len(rows) |-> rows[i].CurrentExecutedQuantity]
  BY <1>1 DEF OrdersOf, QuantitiesOf
<1>5. OrdersOf(rows) \in Seq(RowOrder) /\ QuantitiesOf(rows) \in Seq(Nat)
  BY <1>1, <1>3, <1>4, IsASeq
<1>6. Len(OrdersOf(rows)) = Len(rows) /\ Len(QuantitiesOf(rows)) = Len(rows)
  BY <1>1, <1>4, <1>5, LenProperties
<1>. QED
  BY <1>4, <1>5, <1>6

\* The orders of tables one after the other.
LEMMA RowsJoin ==
    ASSUME NEW a \in Seq(Row), NEW b \in Seq(Row)
    PROVE  /\ a \o b \in Seq(Row)
           /\ OrdersOf(a \o b) = OrdersOf(a) \o OrdersOf(b)
           /\ QuantitiesOf(a \o b) = QuantitiesOf(a) \o QuantitiesOf(b)
<1>1. /\ a \o b \in Seq(Row) /\ Len(a \o b) = Len(a) + Len(b)
      /\ \A i \in 1 .. Len(a) + Len(b) :
            (a \o b)[i] = IF i <= Len(a) THEN a[i] ELSE b[i - Len(a)]
      /\ Len(a) \in Nat /\ Len(b) \in Nat
  BY ConcatProperties, LenProperties
<1>. DEFINE c == a \o b
<1>. HIDE DEF c
<1>2. /\ OrdersOf(a) \in Seq(RowOrder) /\ Len(OrdersOf(a)) = Len(a)
      /\ OrdersOf(b) \in Seq(RowOrder) /\ Len(OrdersOf(b)) = Len(b)
      /\ QuantitiesOf(a) \in Seq(Nat) /\ Len(QuantitiesOf(a)) = Len(a)
      /\ QuantitiesOf(b) \in Seq(Nat) /\ Len(QuantitiesOf(b)) = Len(b)
  BY RowsType
<1>3. /\ OrdersOf(c) \in Seq(RowOrder) /\ Len(OrdersOf(c)) = Len(a) + Len(b)
      /\ QuantitiesOf(c) \in Seq(Nat) /\ Len(QuantitiesOf(c)) = Len(a) + Len(b)
  BY <1>1, RowsType DEF c
<1>4. ASSUME NEW i \in 1 .. Len(a)
      PROVE  OrdersOf(c)[i] = OrdersOf(a)[i] /\ QuantitiesOf(c)[i] = QuantitiesOf(a)[i]
  <2>1. i \in 1 .. Len(c) /\ c[i] = a[i]
    BY <1>1 DEF c
  <2>. QED
    BY <1>1, <2>1, RowsType DEF c
<1>5. ASSUME NEW i \in 1 .. Len(b), NEW j, j = Len(a) + i
      PROVE  OrdersOf(c)[j] = OrdersOf(b)[i] /\ QuantitiesOf(c)[j] = QuantitiesOf(b)[i]
  <2>1. j \in 1 .. Len(c) /\ c[j] = b[i]
    BY <1>1, <1>5 DEF c
  <2>2. c \in Seq(Row)
    BY <1>1 DEF c
  <2>. QED
    BY <2>1, <2>2, RowsType
<1>6. OrdersOf(c) = OrdersOf(a) \o OrdersOf(b)
  <2>1. PICK x \in Seq(RowOrder), y \in Seq(RowOrder), z \in Seq(RowOrder) :
           x = OrdersOf(a) /\ y = OrdersOf(b) /\ z = OrdersOf(c)
    BY <1>2, <1>3
  <2>2. /\ Len(x) = Len(a) /\ Len(y) = Len(b) /\ Len(z) = Len(x) + Len(y)
        /\ \A i \in 1 .. Len(x) : z[i] = x[i]
        /\ \A i \in 1 .. Len(y) : z[Len(x) + i] = y[i]
    BY <1>2, <1>3, <1>4, <1>5, <2>1
  <2>3. z = x \o y
    BY <2>2, IsJoin
  <2>. QED
    BY <2>1, <2>3
<1>7. QuantitiesOf(c) = QuantitiesOf(a) \o QuantitiesOf(b)
  <2>1. PICK x \in Seq(Nat), y \in Seq(Nat), z \in Seq(Nat) :
           x = QuantitiesOf(a) /\ y = QuantitiesOf(b) /\ z = QuantitiesOf(c)
    BY <1>2, <1>3
  <2>2. /\ Len(x) = Len(a) /\ Len(y) = Len(b) /\ Len(z) = Len(x) + Len(y)
        /\ \A i \in 1 .. Len(x) : z[i] = x[i]
        /\ \A i \in 1 .. Len(y) : z[Len(x) + i] = y[i]
    BY <1>2, <1>3, <1>4, <1>5, <2>1
  <2>3. z = x \o y
    BY <2>2, IsJoin
  <2>. QED
    BY <2>1, <2>3
<1>. QED
  BY <1>1, <1>6, <1>7 DEF c

\* The rows of a chunk.
LEMMA Prepared ==
    ASSUME NEW orders \in Seq(RowOrder), NEW prices \in Seq(Int), NEW quantities \in Seq(Nat),
           Len(orders) <= Len(prices), Len(quantities) = Len(orders),
           NEW rows, rows = order_prep(orders, prices, quantities)
    PROVE  rows \in Seq(Row) /\ OrdersOf(rows) = orders /\ QuantitiesOf(rows) = quantities
<1>1. /\ Len(orders) \in Nat /\ DOMAIN orders = 1 .. Len(orders)
      /\ Len(prices) \in Nat
  BY LenProperties
<1>2. rows = [i \in 1 .. Len(orders) |->
                 [order |-> orders[i], CurrentExecutedPrice |-> prices[i],
                  CurrentExecutedQuantity |-> quantities[i]]]
  BY <1>1 DEF order_prep
<1>3. \A i \in 1 .. Len(orders) : /\ orders[i] \in RowOrder /\ quantities[i] \in Nat
                                  /\ prices[i] \in Int
  <2>. SUFFICES ASSUME NEW i \in 1 .. Len(orders)
                PROVE  orders[i] \in RowOrder /\ quantities[i] \in Nat /\ prices[i] \in Int
    OBVIOUS
  <2>1. i \in 1 .. Len(prices) /\ i \in 1 .. Len(quantities)
    BY <1>1
  <2>. QED
    BY <2>1, ElementOfSeq
<1>4. \A i \in 1 .. Len(orders) : rows[i] \in Row
  BY <1>2, <1>3 DEF Row
<1>5. rows \in Seq(Row) /\ Len(rows) = Len(orders)
  <2>1. rows = [i \in 1 .. Len(orders) |-> rows[i]]
    BY <1>2
  <2>2. rows \in Seq(Row)
    BY <1>1, <1>4, <2>1, IsASeq
  <2>. QED
    BY <1>1, <1>2, <2>2, LenProperties
<1>6. \A i \in 1 .. Len(orders) : /\ rows[i].order = orders[i]
                                  /\ rows[i].CurrentExecutedQuantity = quantities[i]
  BY <1>2
<1>7. /\ OrdersOf(rows) \in Seq(RowOrder) /\ Len(OrdersOf(rows)) = Len(rows)
      /\ QuantitiesOf(rows) \in Seq(Nat) /\ Len(QuantitiesOf(rows)) = Len(rows)
      /\ \A i \in 1 .. Len(rows) : /\ OrdersOf(rows)[i] = rows[i].order
                                   /\ QuantitiesOf(rows)[i] = rows[i].CurrentExecutedQuantity
  BY <1>5, RowsType
<1>8. OrdersOf(rows) = orders
  <2>1. PICK x \in Seq(RowOrder) : x = OrdersOf(rows)
    BY <1>7
  <2>2. Len(x) = Len(orders) /\ \A i \in 1 .. Len(x) : x[i] = orders[i]
    BY <1>5, <1>6, <1>7, <2>1
  <2>3. x = orders
    BY <2>2, SeqEqual
  <2>. QED
    BY <2>1, <2>3
<1>9. QuantitiesOf(rows) = quantities
  <2>1. PICK x \in Seq(Nat) : x = QuantitiesOf(rows)
    BY <1>7
  <2>2. Len(x) = Len(quantities) /\ \A i \in 1 .. Len(x) : x[i] = quantities[i]
    BY <1>5, <1>6, <1>7, <2>1
  <2>3. x = quantities
    BY <2>2, SeqEqual
  <2>. QED
    BY <2>1, <2>3
<1>. QED
  BY <1>5, <1>8, <1>9

LEMMA ZerosType ==
    ASSUME NEW orders \in Seq(RowOrder)
    PROVE  /\ Zeros(orders) \in Seq(Nat) /\ Zeros(orders) \in Seq(Int)
           /\ Len(Zeros(orders)) = Len(orders)
<1>1. Len(orders) \in Nat /\ DOMAIN orders = 1 .. Len(orders)
  BY LenProperties
<1>2. Zeros(orders) = [i \in 1 .. Len(orders) |-> 0]
  BY <1>1 DEF Zeros
<1>3. Zeros(orders) \in Seq(Nat) /\ Zeros(orders) \in Seq(Int)
  BY <1>1, <1>2, IsASeq
<1>. QED
  BY <1>1, <1>2, <1>3, LenProperties

LEMMA SendOrdersSends ==
    ASSUME NEW h \in Handlers, NEW n, n = SendOrders(h)
    PROVE  /\ After(h, n, AllOrders(h), AllTransactions(h), AllQuantities(h), h.usersStats)
           /\ n.orders_chunk = << >>
           /\ n.transactions_chunk = h.transactions_chunk
           /\ n.kdb.positions = h.kdb.positions
<1>. DEFINE chunk == h.orders_chunk
            rows == order_prep(chunk, Zeros(chunk), Zeros(chunk))
            table == h.kdb.orders
<1>1. h \in HandlerType /\ Paired(h)
  BY DEF Handlers
<1>2. chunk \in Seq(RowOrder) /\ table \in Seq(Row) /\ h.kdb \in Kdb
  BY <1>1 DEF HandlerType, Kdb
<1>3. rows \in Seq(Row) /\ OrdersOf(rows) = chunk
  <2>1. /\ Zeros(chunk) \in Seq(Nat) /\ Zeros(chunk) \in Seq(Int)
        /\ Len(Zeros(chunk)) = Len(chunk) /\ Len(chunk) \in Nat
    BY <1>2, ZerosType, LenProperties
  <2>. HIDE DEF chunk
  <2>. QED
    BY <1>2, <2>1, Prepared
<1>. HIDE DEF rows
<1>4. table \o rows \in Seq(Row) /\ OrdersOf(table \o rows) = OrdersOf(table) \o chunk
  BY <1>2, <1>3, RowsJoin
<1>5. n = [h EXCEPT !.kdb = [h.kdb EXCEPT !.orders = table \o rows],
                    !.orders_chunk = << >>, !.count_orders_chunk = 0]
  BY <1>1 DEF SendOrders, insertMultRow, rows, HandlerType
<1>6. PICK all : all = table \o rows
  OBVIOUS
<1>7. PICK kdb : kdb = [h.kdb EXCEPT !.orders = all]
  OBVIOUS
<1>8. /\ kdb \in Kdb /\ kdb.orders = all /\ kdb.transactions = h.kdb.transactions
      /\ kdb.positions = h.kdb.positions
  BY <1>2, <1>4, <1>6, <1>7 DEF Kdb
<1>9. n = [h EXCEPT !.kdb = kdb, !.orders_chunk = << >>, !.count_orders_chunk = 0]
  BY <1>5, <1>6, <1>7
<1>10. PICK none \in Seq(RowOrder) : none = << >>
  BY EmptySeq
<1>11. /\ n \in HandlerType /\ n.kdb = kdb /\ n.orders_chunk = << >>
       /\ n.transactions_chunk = h.transactions_chunk
       /\ n.executedQuantity = h.executedQuantity /\ n.executedPrice = h.executedPrice
       /\ n.usersStats = h.usersStats /\ n.users = h.users
  <2>0. PICK zero \in Int : zero = 0
    OBVIOUS
  <2>1. n = [h EXCEPT !.kdb = kdb, !.orders_chunk = none, !.count_orders_chunk = zero]
    BY <1>9, <1>10, <2>0
  <2>4. h \in HandlerType /\ kdb \in Kdb /\ none \in Seq(RowOrder) /\ zero \in Int
    BY <1>1, <1>8, <1>10
  <2>2. n \in HandlerType /\ n.kdb = kdb /\ n.orders_chunk = none
    BY ONLY <2>1, <2>4 DEF HandlerType
  <2>3. /\ n.transactions_chunk = h.transactions_chunk
        /\ n.executedQuantity = h.executedQuantity /\ n.executedPrice = h.executedPrice
        /\ n.usersStats = h.usersStats /\ n.users = h.users
    BY <1>1, <2>1 DEF HandlerType
  <2>. QED
    BY <1>10, <2>2, <2>3
<1>12. n \in Handlers
  BY <1>1, <1>11 DEF Handlers, Paired
<1>13. AllOrders(n) = AllOrders(h)
  <2>1. OrdersOf(all) \in Seq(RowOrder)
    BY <1>4, <1>6, RowsType
  <2>2. OrdersOf(all) \o << >> = OrdersOf(all)
    BY <2>1, ConcatEmptySeq
  <2>. QED
    BY <1>4, <1>6, <1>8, <1>11, <2>2 DEF AllOrders
<1>. QED
  BY <1>8, <1>11, <1>12, <1>13 DEF After, AllTransactions, AllQuantities

LEMMA SendTransactionsSends ==
    ASSUME NEW h \in Handlers, NEW n, n = SendTransactions(h)
    PROVE  /\ After(h, n, AllOrders(h), AllTransactions(h), AllQuantities(h), h.usersStats)
           /\ n.transactions_chunk = << >>
           /\ n.orders_chunk = h.orders_chunk
           /\ n.kdb.positions = h.kdb.positions
<1>. DEFINE chunk == h.transactions_chunk
            quantities == h.executedQuantity
            rows == order_prep(chunk, h.executedPrice, quantities)
            table == h.kdb.transactions
<1>1. h \in HandlerType /\ Paired(h)
  BY DEF Handlers
<1>2. /\ chunk \in Seq(RowOrder) /\ quantities \in Seq(Nat) /\ h.executedPrice \in Seq(Int)
      /\ table \in Seq(Row) /\ h.kdb \in Kdb
  BY <1>1 DEF HandlerType, Kdb
<1>3. rows \in Seq(Row) /\ OrdersOf(rows) = chunk /\ QuantitiesOf(rows) = quantities
  <2>1. Len(quantities) = Len(chunk) /\ Len(chunk) <= Len(h.executedPrice)
    BY <1>1 DEF Paired
  <2>2. PICK prices \in Seq(Int) : prices = h.executedPrice
    BY <1>2
  <2>3. rows = order_prep(chunk, prices, quantities)
    BY <2>2
  <2>. HIDE DEF chunk, quantities, rows
  <2>. QED
    BY <1>2, <2>1, <2>2, <2>3, Prepared
<1>. HIDE DEF rows
<1>4. /\ table \o rows \in Seq(Row)
      /\ OrdersOf(table \o rows) = OrdersOf(table) \o chunk
      /\ QuantitiesOf(table \o rows) = QuantitiesOf(table) \o quantities
  BY <1>2, <1>3, RowsJoin, ZenonT(30)
<1>5. n = [h EXCEPT !.kdb = [h.kdb EXCEPT !.transactions = table \o rows],
                    !.transactions_chunk = << >>, !.executedQuantity = << >>,
                    !.count_transactions_chunk = 0]
  BY <1>1 DEF SendTransactions, insertMultRow, rows, HandlerType
<1>6. PICK all : all = table \o rows
  OBVIOUS
<1>7. PICK kdb : kdb = [h.kdb EXCEPT !.transactions = all]
  OBVIOUS
<1>8. /\ kdb \in Kdb /\ kdb.transactions = all /\ kdb.orders = h.kdb.orders
      /\ kdb.positions = h.kdb.positions
  BY <1>2, <1>4, <1>6, <1>7 DEF Kdb
<1>9. PICK none : none = << >> /\ none \in Seq(RowOrder) /\ none \in Seq(Nat) /\ Len(none) = 0
  BY EmptySeq
<1>10. PICK zero \in Int : zero = 0
  OBVIOUS
<1>11. /\ n \in HandlerType /\ n.kdb = kdb /\ n.transactions_chunk = none
       /\ n.executedQuantity = none
       /\ n.orders_chunk = h.orders_chunk /\ n.executedPrice = h.executedPrice
       /\ n.usersStats = h.usersStats /\ n.users = h.users
  <2>1. n = [h EXCEPT !.kdb = kdb, !.transactions_chunk = none, !.executedQuantity = none,
                      !.count_transactions_chunk = zero]
    BY <1>5, <1>6, <1>7, <1>9, <1>10
  <2>2. /\ h \in HandlerType /\ kdb \in Kdb /\ none \in Seq(RowOrder) /\ none \in Seq(Nat)
        /\ zero \in Int
    BY <1>1, <1>8, <1>9, <1>10
  <2>3. /\ n \in HandlerType /\ n.kdb = kdb /\ n.transactions_chunk = none
        /\ n.executedQuantity = none
    BY ONLY <2>1, <2>2 DEF HandlerType
  <2>4. /\ n.orders_chunk = h.orders_chunk /\ n.executedPrice = h.executedPrice
        /\ n.usersStats = h.usersStats /\ n.users = h.users
    BY ONLY <2>1, <2>2 DEF HandlerType
  <2>. QED
    BY <2>3, <2>4
<1>12. n \in Handlers
  <2>1. Len(h.executedPrice) \in Nat
    BY <1>2, LenProperties
  <2>. QED
    BY <1>9, <1>11, <2>1 DEF Handlers, Paired
<1>13. AllTransactions(n) = AllTransactions(h) /\ AllQuantities(n) = AllQuantities(h)
  <2>1. OrdersOf(all) \in Seq(RowOrder) /\ QuantitiesOf(all) \in Seq(Nat)
    BY <1>4, <1>6, RowsType
  <2>2. OrdersOf(all) \o << >> = OrdersOf(all) /\ QuantitiesOf(all) \o << >> = QuantitiesOf(all)
    BY <2>1, ConcatEmptySeq
  <2>. QED
    BY <1>4, <1>6, <1>8, <1>9, <1>11, <2>2 DEF AllTransactions, AllQuantities
<1>. QED
  BY <1>8, <1>9, <1>11, <1>12, <1>13 DEF After, AllOrders

\* One more element at the end of what follows a list.
LEMMA JoinAppend ==
    ASSUME NEW S, NEW a \in Seq(S), NEW b \in Seq(S), NEW e \in S
    PROVE  a \o Append(b, e) = Append(a \o b, e)
<1>1. PICK x \in Seq(S) : x = <<e>>
  <2>1. <<e>> \in Seq(S)
    OBVIOUS
  <2>. QED
    BY <2>1
<1>2. Append(b, e) = b \o x /\ Append(a \o b, e) = (a \o b) \o x
  <2>1. a \o b \in Seq(S)
    BY ConcatProperties
  <2>. QED
    BY <1>1, <2>1, AppendIsConcat
<1>. QED
  BY <1>2, ConcatAssociative, SMTT(30)

LEMMA AppendsOrder ==
    ASSUME NEW h \in Handlers, NEW order \in RowOrder, NEW n, n = appendOrdersChunk(h, order)
    PROVE  /\ After(h, n, Append(AllOrders(h), order), AllTransactions(h), AllQuantities(h),
                    h.usersStats)
           /\ n.kdb.positions = h.kdb.positions
<1>. DEFINE m == [h EXCEPT !.orders_chunk = Append(@, order), !.count_orders_chunk = @ + 1]
<1>1. h \in HandlerType /\ Paired(h) /\ h.kdb \in Kdb
  BY DEF Handlers, HandlerType
<1>2. /\ h.orders_chunk \in Seq(RowOrder) /\ h.kdb.orders \in Seq(Row)
      /\ h.count_orders_chunk \in Int
  BY <1>1 DEF HandlerType, Kdb
<1>3. PICK chunk \in Seq(RowOrder) : chunk = Append(h.orders_chunk, order)
  BY <1>2, AppendProperties
<1>4. PICK count \in Int : count = h.count_orders_chunk + 1
  BY <1>2
<1>5. m = [h EXCEPT !.orders_chunk = chunk, !.count_orders_chunk = count]
  BY <1>1, <1>3, <1>4 DEF HandlerType
<1>. HIDE DEF m
<1>6. /\ m \in HandlerType /\ m.orders_chunk = chunk
      /\ m.kdb = h.kdb /\ m.transactions_chunk = h.transactions_chunk
      /\ m.executedQuantity = h.executedQuantity /\ m.executedPrice = h.executedPrice
      /\ m.usersStats = h.usersStats /\ m.users = h.users
  <2>1. h \in HandlerType /\ chunk \in Seq(RowOrder) /\ count \in Int
    BY <1>1
  <2>2. m \in HandlerType /\ m.orders_chunk = chunk
    BY ONLY <1>5, <2>1 DEF HandlerType
  <2>3. /\ m.kdb = h.kdb /\ m.transactions_chunk = h.transactions_chunk
        /\ m.executedQuantity = h.executedQuantity /\ m.executedPrice = h.executedPrice
        /\ m.usersStats = h.usersStats /\ m.users = h.users
    BY ONLY <1>5, <2>1 DEF HandlerType
  <2>. QED
    BY <2>2, <2>3
<1>7. AllOrders(m) = Append(AllOrders(h), order)
  <2>1. PICK a \in Seq(RowOrder), b \in Seq(RowOrder) : a = OrdersOf(h.kdb.orders) /\ b = h.orders_chunk
    BY <1>2, RowsType
  <2>2. a \o Append(b, order) = Append(a \o b, order)
    BY JoinAppend
  <2>. QED
    BY <1>3, <1>6, <2>1, <2>2 DEF AllOrders
<1>8. After(h, m, Append(AllOrders(h), order), AllTransactions(h), AllQuantities(h), h.usersStats)
  BY <1>1, <1>6, <1>7 DEF After, Handlers, Paired, AllTransactions, AllQuantities
<1>9. n = m \/ n = SendOrders(m)
  BY DEF appendOrdersChunk, m
<1>10. CASE n = m
  BY <1>6, <1>8, <1>10
<1>11. CASE n = SendOrders(m)
  <2>1. m \in Handlers
    BY <1>8 DEF After
  <2>2. /\ After(m, n, AllOrders(m), AllTransactions(m), AllQuantities(m), m.usersStats)
        /\ n.kdb.positions = m.kdb.positions
    BY <1>11, <2>1, SendOrdersSends
  <2>. QED
    BY <1>6, <1>8, <2>2 DEF After
<1>. QED
  BY <1>9, <1>10, <1>11

LEMMA AppendsTransaction ==
    ASSUME NEW h \in Handlers, NEW order \in RowOrder, NEW price \in Int, NEW quantity \in Nat,
           NEW n, n = appendTransactionsChunk(h, order, price, quantity)
    PROVE  /\ After(h, n, AllOrders(h), Append(AllTransactions(h), order),
                    Append(AllQuantities(h), quantity), h.usersStats)
           /\ n.kdb.positions = h.kdb.positions
<1>. DEFINE m == [h EXCEPT !.transactions_chunk = Append(@, order),
                           !.executedPrice = Append(@, price),
                           !.executedQuantity = Append(@, quantity),
                           !.count_transactions_chunk = @ + 1]
<1>1. h \in HandlerType /\ Paired(h) /\ h.kdb \in Kdb
  BY DEF Handlers, HandlerType
<1>2. /\ h.transactions_chunk \in Seq(RowOrder) /\ h.kdb.transactions \in Seq(Row)
      /\ h.executedPrice \in Seq(Int) /\ h.executedQuantity \in Seq(Nat)
      /\ h.count_transactions_chunk \in Int
  BY <1>1 DEF HandlerType, Kdb
<1>3. PICK chunk \in Seq(RowOrder), prices \in Seq(Int), quantities \in Seq(Nat) :
         /\ chunk = Append(h.transactions_chunk, order)
         /\ prices = Append(h.executedPrice, price)
         /\ quantities = Append(h.executedQuantity, quantity)
  BY <1>2, AppendProperties
<1>4. PICK count \in Int : count = h.count_transactions_chunk + 1
  BY <1>2
<1>5. m = [h EXCEPT !.transactions_chunk = chunk, !.executedPrice = prices,
                    !.executedQuantity = quantities, !.count_transactions_chunk = count]
  BY <1>1, <1>3, <1>4 DEF HandlerType
<1>. HIDE DEF m
<1>6. /\ m \in HandlerType /\ m.transactions_chunk = chunk
      /\ m.executedPrice = prices /\ m.executedQuantity = quantities
      /\ m.kdb = h.kdb /\ m.orders_chunk = h.orders_chunk
      /\ m.usersStats = h.usersStats /\ m.users = h.users
  <2>1. /\ h \in HandlerType /\ chunk \in Seq(RowOrder) /\ prices \in Seq(Int)
        /\ quantities \in Seq(Nat) /\ count \in Int
    BY <1>1
  <2>2. m \in HandlerType
    BY ONLY <1>5, <2>1, ZenonT(30) DEF HandlerType
  <2>3. /\ m.transactions_chunk = chunk
        /\ m.executedPrice = prices /\ m.executedQuantity = quantities
    BY ONLY <1>5, <2>1, SMTT(30) DEF HandlerType
  <2>4. /\ m.kdb = h.kdb /\ m.orders_chunk = h.orders_chunk
        /\ m.usersStats = h.usersStats /\ m.users = h.users
    BY ONLY <1>5, <2>1, SMTT(30) DEF HandlerType
  <2>. QED
    BY <2>2, <2>3, <2>4
<1>7. AllTransactions(m) = Append(AllTransactions(h), order)
  <2>1. PICK a \in Seq(RowOrder), b \in Seq(RowOrder) :
           a = OrdersOf(h.kdb.transactions) /\ b = h.transactions_chunk
    BY <1>2, RowsType
  <2>2. a \o Append(b, order) = Append(a \o b, order)
    BY JoinAppend, SMTT(30)
  <2>. QED
    BY <1>3, <1>6, <2>1, <2>2 DEF AllTransactions
<1>8. AllQuantities(m) = Append(AllQuantities(h), quantity)
  <2>1. PICK a \in Seq(Nat), b \in Seq(Nat) :
           a = QuantitiesOf(h.kdb.transactions) /\ b = h.executedQuantity
    BY <1>2, RowsType
  <2>2. a \o Append(b, quantity) = Append(a \o b, quantity)
    BY JoinAppend, SMTT(30)
  <2>. QED
    BY <1>3, <1>6, <2>1, <2>2 DEF AllQuantities
<1>9. Paired(m)
  <2>1. /\ Len(chunk) = Len(h.transactions_chunk) + 1
        /\ Len(prices) = Len(h.executedPrice) + 1
        /\ Len(quantities) = Len(h.executedQuantity) + 1
    BY <1>2, <1>3, AppendProperties
  <2>2. Len(h.transactions_chunk) \in Nat /\ Len(h.executedPrice) \in Nat
    BY <1>2, LenProperties
  <2>. QED
    BY <1>1, <1>6, <2>1, <2>2 DEF Paired
<1>10. After(h, m, AllOrders(h), Append(AllTransactions(h), order),
             Append(AllQuantities(h), quantity), h.usersStats)
  BY <1>6, <1>7, <1>8, <1>9 DEF After, Handlers, AllOrders
<1>11. n = m \/ n = SendTransactions(m)
  BY DEF appendTransactionsChunk, m
<1>12. CASE n = m
  BY <1>6, <1>10, <1>12
<1>13. CASE n = SendTransactions(m)
  <2>1. m \in Handlers
    BY <1>10 DEF After
  <2>2. /\ After(m, n, AllOrders(m), AllTransactions(m), AllQuantities(m), m.usersStats)
        /\ n.kdb.positions = m.kdb.positions
    BY <1>13, <2>1, SendTransactionsSends
  <2>. QED
    BY <1>6, <1>10, <2>2 DEF After
<1>. QED
  BY <1>11, <1>12, <1>13

-----------------------------------------------------------------------------
(* Positions. *)

\* The positions of all are those of stats but for one key.
IsPut(all, stats, key, position) ==
    /\ all \in Positions
    /\ At(all, key) = position
    /\ \A other : other # key => At(all, other) = At(stats, other)
    /\ DOMAIN all = DOMAIN stats \cup {key}

LEMMA PutsPosition ==
    ASSUME NEW stats \in Positions, NEW key \in Keys, NEW position \in Position
    PROVE  IsPut(Put(stats, key, position), stats, key, position)
<1>. DEFINE all == Put(stats, key, position)
<1>1. PICK D \in SUBSET Keys : stats \in [D -> Position]
  BY DEF Positions
<1>2. D \cup {key} \in SUBSET Keys /\ all \in [D \cup {key} -> Position]
  BY <1>1 DEF Put
<1>. QED
  BY <1>1, <1>2 DEF IsPut, Positions, Put, At

LEMMA NoPositions == [k \in {} |-> NoPosition] \in Positions
<1>1. [k \in {} |-> NoPosition] \in [{} -> Position] /\ {} \in SUBSET Keys
  OBVIOUS
<1>. QED
  BY <1>1 DEF Positions

LEMMA PositionAt ==
    ASSUME NEW stats \in Positions, NEW key
    PROVE  At(stats, key) \in Position
<1>1. PICK D \in SUBSET Keys : stats \in [D -> Position]
  BY DEF Positions
<1>2. NoPosition \in Position
  BY DEF NoPosition, Position
<1>. QED
  BY <1>1, <1>2 DEF At

\* The positions of a map, as a list.
Lists(rows, map) ==
    /\ rows \in Seq(Position)
    /\ \A i \in 1 .. Len(rows) : \E key \in DOMAIN map : rows[i] = map[key]
    /\ \A key \in DOMAIN map : \E i \in 1 .. Len(rows) : rows[i] = map[key]

LEMMA PositionsListed ==
    ASSUME NEW map \in Positions, NEW rows, rows = PositionsOf(map)
    PROVE  Lists(rows, map)
<1>0. PICK D : D = DOMAIN map
  OBVIOUS
<1>. DEFINE S == {map[key] : key \in D}
<1>1. D \in SUBSET Keys /\ map \in [D -> Position]
  BY <1>0 DEF Positions
<1>2. IsFiniteSet(Keys)
  BY IdsAreNumbers, FS_Product DEF Keys
<1>3. IsFiniteSet(S)
  <2>1. IsFiniteSet(D)
    BY <1>1, <1>2, FS_Subset
  <2>2. map \in Surjection(D, S)
    BY <1>1 DEF Surjection
  <2>. QED
    BY <2>1, <2>2, FS_Surjection
<1>. DEFINE n == Cardinality(S)
<1>4. n \in Nat
  BY <1>3, FS_CardinalityType
<1>. HIDE DEF S
<1>5. rows = SetToSeq(S)
  BY <1>0 DEF PositionsOf, S
<1>6. rows \in Injection(1 .. n, S)
  <2>1. \E f \in [1 .. n -> S] : IsInjective(f)
    BY <1>3, FS_CardinalityType DEF ExistsBijection, Bijection, Injection, n
  <2>. QED
    BY <1>5, <2>1 DEF SetToSeq, Injection, n
<1>7. rows \in Surjection(1 .. n, S)
  <2>1. Cardinality(1 .. n) = n
    BY <1>4, FS_Interval
  <2>. QED
    BY <1>3, <1>6, <2>1, FS_Injection DEF n
<1>8. rows \in [1 .. n -> S] /\ \A x \in S : \E i \in 1 .. n : rows[i] = x
  BY <1>7 DEF Surjection
<1>9. S \subseteq Position /\ (\A x \in S : \E key \in D : x = map[key]) /\ \A key \in D : map[key] \in S
  BY <1>1 DEF S
<1>. HIDE DEF n
<1>10. rows \in Seq(Position) /\ Len(rows) = n
  <2>1. rows = [i \in 1 .. n |-> rows[i]] /\ \A i \in 1 .. n : rows[i] \in Position
    BY <1>8, <1>9
  <2>2. rows \in Seq(Position)
    BY <1>4, <2>1, IsASeq
  <2>3. DOMAIN rows = 1 .. n /\ DOMAIN rows = 1 .. Len(rows) /\ Len(rows) \in Nat
    BY <1>8, <2>2, LenProperties
  <2>. QED
    BY <1>4, <2>2, <2>3
<1>. QED
  BY <1>0, <1>8, <1>9, <1>10 DEF Lists

Order == [Id : Nat, SymbolId : Symbols, AccountId : Accounts, Type : {"LIMIT", "MARKET"},
          Side : {"BUY", "SELL"}, Price : Nat, LeavesQuantity : Nat, Status : {"PENDING"}]

\* What a position holds: positive if it is long.
Holds(position) == Signed(position.Side, "LONG", position.Quantity)

LEMMA CopyType ==
    ASSUME NEW order \in Order, NEW status \in Statuses, NEW copy, copy = Copy(order, status)
    PROVE  copy \in RowOrder /\ copy.Id = order.Id /\ copy.LeavesQuantity = order.LeavesQuantity
<1>1. order.AccountId \in Nat
  BY IdsAreNumbers DEF Order
<1>. QED
  BY <1>1 DEF Copy, Order, RowOrder

LEMMA ExecutedPosition ==
    ASSUME NEW position \in Position, NEW order \in Order, NEW price \in Nat \ {0},
           NEW quantity \in Nat \ {0},
           NEW next, next = OrderExecuted(position, order, price, quantity)
    PROVE  next \in Position /\ Holds(next) = Holds(position) + Signed(order.Side, "BUY", quantity)
<1>1. /\ order.SymbolId \in Nat /\ order.AccountId \in Nat
      /\ position.Quantity \in Nat /\ position.Side \in {"LONG", "SHORT"}
  BY IdsAreNumbers DEF Order, Position
<1>2. PICK all \in Int : all = Signed(order.Side, "BUY", quantity)
                                + Signed(position.Side, "LONG", position.Quantity)
  BY <1>1 DEF Signed
<1>3. PICK distance \in Nat, side \in {"LONG", "SHORT"} :
         distance = Distance(all) /\ side = IF all >= 0 THEN "LONG" ELSE "SHORT"
  BY DEF Distance
<1>4. PICK symbol \in Nat, account \in Nat : symbol = order.SymbolId /\ account = order.AccountId
  BY <1>1
<1>5. next = [position EXCEPT !.SymbolId = symbol, !.AccountId = account,
                              !.Quantity = distance, !.Side = side]
  BY <1>2, <1>3, <1>4 DEF OrderExecuted
<1>6. next \in Position /\ next.Quantity = distance /\ next.Side = side
  BY <1>5 DEF Position
<1>7. Signed(side, "LONG", distance) = all
  BY <1>3 DEF Signed, Distance
<1>8. Holds(next) = all
  BY <1>6, <1>7 DEF Holds
<1>9. Signed(order.Side, "BUY", quantity) \in Int /\ Holds(position) \in Int
  BY <1>1 DEF Signed, Holds
<1>. QED
  BY <1>2, <1>6, <1>8, <1>9 DEF Holds

\* Nothing but the table of positions and what is about them differs.
SameRows(h, n) ==
    /\ After(h, n, AllOrders(h), AllTransactions(h), AllQuantities(h), n.usersStats)
    /\ n.orders_chunk = h.orders_chunk
    /\ n.transactions_chunk = h.transactions_chunk

LEMMA InsertsPositions ==
    ASSUME NEW h \in Handlers, NEW rows \in Seq(Position),
           NEW n, n = insertMultRow(h, "positions", rows)
    PROVE  /\ SameRows(h, n) /\ n.usersStats = h.usersStats
           /\ n.kdb.positions = h.kdb.positions \o rows
           /\ n.count_positions_chunk = h.count_positions_chunk
<1>1. h \in HandlerType /\ Paired(h)
  BY DEF Handlers
<1>2. h.kdb \in Kdb /\ h.kdb.positions \in Seq(Position)
  BY <1>1 DEF HandlerType, Kdb
<1>3. PICK all \in Seq(Position) : all = h.kdb.positions \o rows
  BY <1>2, ConcatProperties
<1>4. PICK kdb : kdb = [h.kdb EXCEPT !.positions = all]
  OBVIOUS
<1>5. /\ kdb \in Kdb /\ kdb.positions = all /\ kdb.orders = h.kdb.orders
      /\ kdb.transactions = h.kdb.transactions
  BY <1>2, <1>4 DEF Kdb
<1>6. n = [h EXCEPT !.kdb = kdb]
  BY <1>1, <1>3, <1>4 DEF insertMultRow, HandlerType
<1>7. n \in HandlerType /\ n.kdb = kdb
  BY <1>1, <1>5, <1>6 DEF HandlerType
<1>8. /\ n.orders_chunk = h.orders_chunk /\ n.transactions_chunk = h.transactions_chunk
      /\ n.executedQuantity = h.executedQuantity /\ n.executedPrice = h.executedPrice
      /\ n.usersStats = h.usersStats /\ n.users = h.users
      /\ n.count_positions_chunk = h.count_positions_chunk
  BY <1>1, <1>6 DEF HandlerType
<1>. QED
  BY <1>1, <1>3, <1>5, <1>7, <1>8
     DEF SameRows, After, Handlers, Paired, AllOrders, AllTransactions, AllQuantities

\* Positions and symbols are not rows.
WithPositions(h, stats, symbols) == [h EXCEPT !.usersStats = stats, !.symbols = symbols]

LEMMA SetsPositions ==
    ASSUME NEW h \in Handlers, NEW stats \in Positions, NEW symbols \in SUBSET Symbols,
           NEW n, n = WithPositions(h, stats, symbols)
    PROVE  /\ SameRows(h, n) /\ n.usersStats = stats /\ n.symbols = symbols
           /\ n.kdb.positions = h.kdb.positions
<1>0. n = [h EXCEPT !.usersStats = stats, !.symbols = symbols]
  BY DEF WithPositions
<1>1. h \in HandlerType /\ Paired(h)
  BY DEF Handlers
<1>2. n \in HandlerType /\ n.usersStats = stats /\ n.symbols = symbols
  BY <1>0, <1>1 DEF HandlerType
<1>3. /\ n.orders_chunk = h.orders_chunk /\ n.transactions_chunk = h.transactions_chunk
      /\ n.executedQuantity = h.executedQuantity /\ n.executedPrice = h.executedPrice
      /\ n.users = h.users /\ n.kdb = h.kdb
  BY <1>0, <1>1 DEF HandlerType
<1>. QED
  BY <1>1, <1>2, <1>3
     DEF SameRows, After, Handlers, Paired, AllOrders, AllTransactions, AllQuantities

\* m has the rows of h, and its positions but for one key.
Moves(h, m, key, position) ==
    /\ SameRows(h, m)
    /\ key \in DOMAIN m.usersStats
    /\ At(m.usersStats, key) = position
    /\ \A other : other # key => At(m.usersStats, other) = At(h.usersStats, other)

LEMMA PutsInHandler ==
    ASSUME NEW h \in Handlers, NEW key \in Keys, NEW position \in Position,
           NEW symbols \in SUBSET Symbols, NEW m,
           m = WithPositions(h, Put(h.usersStats, key, position), symbols)
    PROVE  /\ Moves(h, m, key, position) /\ m \in Handlers
           /\ m.symbols = symbols /\ m.kdb.positions = h.kdb.positions
<1>1. PICK old \in Positions : old = h.usersStats
  BY DEF Handlers, HandlerType
<1>2. PICK stats : stats = Put(old, key, position)
  OBVIOUS
<1>3. IsPut(stats, old, key, position)
  BY <1>2, PutsPosition
<1>4. stats \in Positions /\ m = WithPositions(h, stats, symbols)
  BY <1>1, <1>2, <1>3 DEF IsPut
<1>5. /\ SameRows(h, m) /\ m.usersStats = stats /\ m.symbols = symbols
      /\ m.kdb.positions = h.kdb.positions
  BY <1>4, SetsPositions
<1>. QED
  BY <1>1, <1>3, <1>5 DEF Moves, SameRows, After, IsPut

LEMMA AppendsStats ==
    ASSUME NEW h \in Handlers, NEW key \in DOMAIN h.usersStats,
           NEW n, n = appendUserStatsChunk(h, key)
    PROVE  SameRows(h, n) /\ n.usersStats = h.usersStats
<1>. DEFINE m == [h EXCEPT !.positions_chunk = Put(@, key, h.usersStats[key]),
                           !.count_positions_chunk = @ + 1]
<1>1. h \in HandlerType /\ Paired(h)
  BY DEF Handlers
<1>2. h.usersStats \in Positions /\ h.positions_chunk \in Positions /\ h.count_positions_chunk \in Int
  BY <1>1 DEF HandlerType
<1>3. key \in Keys /\ h.usersStats[key] \in Position
  BY <1>2 DEF Positions
<1>4. PICK chunk \in Positions : chunk = Put(h.positions_chunk, key, h.usersStats[key])
  BY <1>2, <1>3, PutsPosition DEF IsPut
<1>5. PICK count \in Int : count = h.count_positions_chunk + 1
  BY <1>2
<1>6. m = [h EXCEPT !.positions_chunk = chunk, !.count_positions_chunk = count]
  BY <1>1, <1>4, <1>5 DEF HandlerType
<1>. HIDE DEF m
<1>7. m \in HandlerType /\ m.positions_chunk = chunk
  BY <1>1, <1>6 DEF HandlerType
<1>8. /\ m.orders_chunk = h.orders_chunk /\ m.transactions_chunk = h.transactions_chunk
      /\ m.executedQuantity = h.executedQuantity /\ m.executedPrice = h.executedPrice
      /\ m.users = h.users /\ m.kdb = h.kdb /\ m.usersStats = h.usersStats
  BY <1>1, <1>6 DEF HandlerType
<1>9. m \in Handlers /\ SameRows(h, m)
  BY <1>1, <1>7, <1>8
     DEF SameRows, After, Handlers, Paired, AllOrders, AllTransactions, AllQuantities
<1>. DEFINE rows == PositionsOf(m.positions_chunk)
            sent == insertMultRow(m, "positions", rows)
<1>10. rows \in Seq(Position)
  <2>1. m.positions_chunk \in Positions
    BY <1>7
  <2>. QED
    BY <2>1, PositionsListed DEF Lists
<1>. HIDE DEF rows
<1>11. SameRows(m, sent) /\ sent.usersStats = m.usersStats
  BY <1>9, <1>10, InsertsPositions
<1>. HIDE DEF sent
<1>12. \/ n = m
       \/ n = [sent EXCEPT !.positions_chunk = [k \in {} |-> NoPosition],
                           !.count_positions_chunk = 0]
  BY DEF appendUserStatsChunk, m, sent, rows
<1>13. CASE n = m
  BY <1>8, <1>9, <1>13
<1>14. CASE n = [sent EXCEPT !.positions_chunk = [k \in {} |-> NoPosition],
                             !.count_positions_chunk = 0]
  <2>1. PICK none \in Positions : none = [k \in {} |-> NoPosition]
    BY NoPositions
  <2>2. PICK zero \in Int : zero = 0
    OBVIOUS
  <2>3. n = [sent EXCEPT !.positions_chunk = none, !.count_positions_chunk = zero]
    BY <1>14, <2>1, <2>2
  <2>4. sent \in HandlerType /\ Paired(sent)
    BY <1>11 DEF SameRows, After, Handlers
  <2>5. n \in HandlerType
    BY <2>3, <2>4 DEF HandlerType
  <2>6. /\ n.orders_chunk = sent.orders_chunk /\ n.transactions_chunk = sent.transactions_chunk
        /\ n.executedQuantity = sent.executedQuantity /\ n.executedPrice = sent.executedPrice
        /\ n.users = sent.users /\ n.kdb = sent.kdb /\ n.usersStats = sent.usersStats
    BY <2>3, <2>4 DEF HandlerType
  <2>7. SameRows(sent, n)
    BY <2>4, <2>5, <2>6
       DEF SameRows, After, Handlers, Paired, AllOrders, AllTransactions, AllQuantities
  <2>. QED
    BY <1>8, <1>9, <1>11, <2>6, <2>7 DEF SameRows, After
<1>. QED
  BY <1>12, <1>13, <1>14

KeyOf(order) == <<order.SymbolId, order.AccountId>>

\* n has the positions of h, but for what the order changes.
Changes(h, n, order, quantity) ==
    /\ Holds(At(n.usersStats, KeyOf(order))) =
          Holds(At(h.usersStats, KeyOf(order))) + Signed(order.Side, "BUY", quantity)
    /\ \A key \in Keys \ {KeyOf(order)} : At(n.usersStats, key) = At(h.usersStats, key)

\* n has the rows of h and one more of the order.
Tells(h, n, order) ==
    \E copy \in RowOrder :
       /\ copy.Id = order.Id /\ copy.LeavesQuantity = order.LeavesQuantity
       /\ After(h, n, Append(AllOrders(h), copy), AllTransactions(h), AllQuantities(h),
                n.usersStats)

\* n has the rows of h and those of an execution.
TellsExecution(h, n, order, quantity) ==
    \E copy \in RowOrder :
       /\ copy.Id = order.Id /\ copy.LeavesQuantity = order.LeavesQuantity
       /\ After(h, n, Append(AllOrders(h), copy), Append(AllTransactions(h), copy),
                Append(AllQuantities(h), quantity), n.usersStats)

LEMMA Executes ==
    ASSUME NEW h \in Handlers, NEW order \in Order, NEW price \in Nat \ {0},
           NEW quantity \in Nat \ {0}, NEW n, n = onExecuteOrder(h, order, price, quantity)
    PROVE  TellsExecution(h, n, order, quantity) /\ Changes(h, n, order, quantity)
<1>. DEFINE copy == Copy(order, IF order.LeavesQuantity > 0 THEN "PARTIALLY_FILLED" ELSE "FILLED")
            first == appendOrdersChunk(h, copy)
            recorded == appendTransactionsChunk(first, copy, price, quantity)
            key == KeyOf(order)
            position == OrderExecuted(At(h.usersStats, key), order, price, quantity)
            stats == Put(recorded.usersStats, key, position)
            symbols == recorded.symbols \cup {order.SymbolId}
            m == [recorded EXCEPT !.usersStats = stats, !.symbols = symbols]
<1>1. copy \in RowOrder /\ copy.Id = order.Id /\ copy.LeavesQuantity = order.LeavesQuantity
  <2>1. PICK status \in Statuses :
           status = IF order.LeavesQuantity > 0 THEN "PARTIALLY_FILLED" ELSE "FILLED"
    BY DEF Statuses
  <2>2. copy = Copy(order, status)
    BY <2>1
  <2>. HIDE DEF copy
  <2>. QED
    BY <2>2, CopyType
<1>. HIDE DEF copy
<1>2. After(h, first, Append(AllOrders(h), copy), AllTransactions(h), AllQuantities(h), h.usersStats)
  BY <1>1, AppendsOrder
<1>3. first \in Handlers
  BY <1>2 DEF After
<1>. HIDE DEF first
<1>4. After(first, recorded, AllOrders(first), Append(AllTransactions(first), copy),
            Append(AllQuantities(first), quantity), first.usersStats)
  BY <1>1, <1>3, AppendsTransaction
<1>5. /\ After(h, recorded, Append(AllOrders(h), copy), Append(AllTransactions(h), copy),
               Append(AllQuantities(h), quantity), h.usersStats)
      /\ recorded \in HandlerType /\ recorded \in Handlers
  BY <1>2, <1>4 DEF After, Handlers
<1>. HIDE DEF recorded
<1>6. h.usersStats \in Positions /\ recorded.usersStats = h.usersStats
      /\ recorded.symbols \in SUBSET Symbols
  BY <1>5 DEF Handlers, HandlerType, After
<1>7. key \in Keys /\ order.SymbolId \in Symbols
  BY DEF Order, Keys, KeyOf
<1>. HIDE DEF key
<1>8. position \in Position
      /\ Holds(position) = Holds(At(h.usersStats, key)) + Signed(order.Side, "BUY", quantity)
  BY <1>6, PositionAt, ExecutedPosition
<1>. HIDE DEF position
<1>10. symbols \in SUBSET Symbols
  BY <1>6, <1>7
<1>9. Moves(recorded, m, key, position) /\ m \in Handlers
  <2>1. PICK r \in Handlers, k \in Keys, p \in Position, s \in SUBSET Symbols :
           r = recorded /\ k = key /\ p = position /\ s = symbols
    BY <1>5, <1>7, <1>8, <1>10
  <2>2. m = WithPositions(r, Put(r.usersStats, k, p), s)
    BY <2>1 DEF WithPositions
  <2>. HIDE DEF m
  <2>3. Moves(r, m, k, p) /\ m \in Handlers
    BY <2>2, PutsInHandler, SMTT(30)
  <2>. QED
    BY <2>1, <2>3
<1>. HIDE DEF stats, symbols
<1>12. n = appendUserStatsChunk(m, key)
  BY <1>5 DEF onExecuteOrder, m, stats, symbols, recorded, first, position, key, copy, KeyOf,
              HandlerType
<1>. HIDE DEF m
<1>13. SameRows(m, n) /\ n.usersStats = m.usersStats
  <2>1. key \in DOMAIN m.usersStats
    BY <1>9 DEF Moves
  <2>. QED
    BY <1>9, <1>12, <2>1, AppendsStats
<1>14. TellsExecution(h, n, order, quantity)
  BY <1>1, <1>5, <1>9, <1>13 DEF TellsExecution, Moves, SameRows, After
<1>15. Changes(h, n, order, quantity)
  BY <1>5, <1>8, <1>9, <1>13 DEF Changes, Moves, After, key
<1>. QED
  BY <1>14, <1>15

LEMMA Adds ==
    ASSUME NEW h \in Handlers, NEW order \in Order, NEW n,
           n = onAddOrder(h, order) \/ n = onUpdateOrder(h, order) \/ n = onDeleteOrder(h, order)
    PROVE  Tells(h, n, order) /\ n.usersStats = h.usersStats
<1>1. order.Status = "PENDING"
  BY DEF Order
<1>2. PICK status \in Statuses : n = appendOrdersChunk(h, Copy(order, status))
  BY <1>1 DEF onAddOrder, onUpdateOrder, onDeleteOrder, Statuses
<1>3. PICK copy \in RowOrder : /\ copy = Copy(order, status)
                               /\ copy.Id = order.Id /\ copy.LeavesQuantity = order.LeavesQuantity
  BY CopyType
<1>4. After(h, n, Append(AllOrders(h), copy), AllTransactions(h), AllQuantities(h), h.usersStats)
  BY <1>2, <1>3, AppendsOrder
<1>. QED
  BY <1>3, <1>4 DEF Tells, After

-----------------------------------------------------------------------------
(* Prices. *)

\* n differs from h in what tells neither rows nor what the accounts hold.
SameHoldings(h, n) ==
    /\ SameRows(h, n)
    /\ \A key \in Keys : Holds(At(n.usersStats, key)) = Holds(At(h.usersStats, key))

LEMMA HoldingsCompose ==
    ASSUME NEW h, NEW m, NEW n, SameHoldings(h, m), SameHoldings(m, n)
    PROVE  SameHoldings(h, n)
BY DEF SameHoldings, SameRows, After

LEMMA UpdatesPosition ==
    ASSUME NEW h \in Handlers, NEW key \in Keys, NEW mark \in Nat,
           NEW n, n = updatePositions_db(h, key, mark)
    PROVE  SameHoldings(h, n)
<1>1. h \in HandlerType /\ h.usersStats \in Positions /\ h.symbols \in SUBSET Symbols
  BY DEF Handlers, HandlerType
<1>2. PICK last \in Position : last = At(h.usersStats, key)
  BY <1>1, PositionAt
<1>3. PICK position : position = [last EXCEPT !.MarkPrice = mark]
  OBVIOUS
<1>4. position \in Position /\ Holds(position) = Holds(last)
  BY <1>3 DEF Position, Holds
<1>5. PICK symbols \in SUBSET Symbols :
         symbols = IF last.MarkPrice = 0 THEN h.symbols ELSE h.symbols \cup {key[1]}
  BY <1>1 DEF Keys
<1>6. PICK m : m = WithPositions(h, Put(h.usersStats, key, position), symbols)
  OBVIOUS
<1>7. Moves(h, m, key, position) /\ m \in Handlers
  BY <1>4, <1>6, PutsInHandler
<1>8. n = insertMultRow(m, "positions", <<position>>)
  BY <1>1, <1>2, <1>3, <1>5, <1>6
     DEF updatePositions_db, updatePosition, WithPositions, HandlerType
<1>9. PICK rows \in Seq(Position) : rows = <<position>>
  <2>1. <<position>> \in Seq(Position)
    BY <1>4
  <2>. QED
    BY <2>1
<1>10. SameRows(m, n) /\ n.usersStats = m.usersStats
  <2>1. n = insertMultRow(m, "positions", rows)
    BY <1>8, <1>9
  <2>. QED
    BY <1>7, <2>1, InsertsPositions
<1>11. SameRows(h, n)
  BY <1>7, <1>10 DEF Moves, SameRows, After
<1>12. \A other \in Keys : Holds(At(n.usersStats, other)) = Holds(At(h.usersStats, other))
  BY <1>2, <1>4, <1>7, <1>10 DEF Moves
<1>. QED
  BY <1>11, <1>12 DEF SameHoldings

\* The positions of all users get the price.
LEMMA UpdatesPositions ==
    ASSUME NEW h \in Handlers, NEW book \in Books, NEW mark \in Nat, NEW n,
           n = FoldSet(LAMBDA user, next : updatePositions_db(next, <<book.symbol, user>>, mark),
                       h, h.users)
    PROVE  SameHoldings(h, n)
<1>. DEFINE S == h.users
            V == {m \in Handlers : SameHoldings(h, m)}
            g == [user \in S |-> [m \in V |-> updatePositions_db(m, <<book.symbol, user>>, mark)]]
            c == [T \in SUBSET S |-> CHOOSE x \in T : TRUE]
            IsIt(it) == it = [T \in SUBSET S |->
                     IF T = {} THEN h
                     ELSE updatePositions_db(it[T \ {CHOOSE x \in T : TRUE}],
                                             <<book.symbol, CHOOSE x \in T : TRUE>>, mark)]
            result == CHOOSE it : IsIt(it)
<1>1. n = result[S]
  BY DEF FoldSet, MapThenFoldSet
<1>2. S \in SUBSET Accounts /\ IsFiniteSet(S)
  BY UsersTrade, IdsAreNumbers, FS_Subset DEF Handlers, HandlerType
<1>3. h \in V
  BY DEF SameHoldings, SameRows, After
<1>4. \A user \in S, m \in V : updatePositions_db(m, <<book.symbol, user>>, mark) \in V
  <2>. SUFFICES ASSUME NEW user \in S, NEW m \in V
                PROVE  updatePositions_db(m, <<book.symbol, user>>, mark) \in V
    OBVIOUS
  <2>1. PICK key \in Keys : key = <<book.symbol, user>>
    BY <1>2 DEF Keys, Books
  <2>2. PICK r : r = updatePositions_db(m, key, mark)
    OBVIOUS
  <2>3. SameHoldings(m, r)
    BY <2>2, UpdatesPosition
  <2>4. SameHoldings(h, r) /\ r \in Handlers
    BY <2>3, HoldingsCompose DEF SameHoldings, SameRows, After
  <2>. QED
    BY <2>1, <2>2, <2>4
<1>5. Picks(c, S)
  BY DEF Picks
<1>6. g \in [S -> [V -> V]]
  <2>. HIDE DEF V
  <2>. QED
    BY <1>4
<1>7. \E it : IsIt(it)
  <2>1. PICK m \in Nat : m = Cardinality(S)
    BY <1>2, FS_CardinalityType
  <2>. HIDE DEF V, S, c, g
  <2>2. PICK it \in [Layer(S, m) -> V] : Solves(it, S, m, h, g, c)
    BY <1>2, <1>3, <1>5, <1>6, FoldExists
  <2>3. Layer(S, m) = SUBSET S
    BY <1>2, <2>1, FS_Subset DEF Layer
  <2>4. ASSUME NEW T \in SUBSET S, T # {}
        PROVE  it[T] = updatePositions_db(it[T \ {CHOOSE x \in T : TRUE}],
                                          <<book.symbol, CHOOSE x \in T : TRUE>>, mark)
    <3>1. PICK x \in T : x = c[T] /\ x = CHOOSE y \in T : TRUE
      BY <2>4 DEF c
    <3>2. T \ {x} \in SUBSET S /\ x \in S
      OBVIOUS
    <3>3. it[T] = g[x][it[T \ {x}]] /\ it[T \ {x}] \in V
      BY <2>2, <2>3, <2>4, <3>1, <3>2 DEF Solves
    <3>4. g[x][it[T \ {x}]] = updatePositions_db(it[T \ {x}], <<book.symbol, x>>, mark)
      BY <3>2, <3>3 DEF g
    <3>. QED
      BY <3>1, <3>3, <3>4
  <2>5. it[{}] = h
    BY <2>2, <2>3 DEF Solves
  <2>6. IsIt(it)
    <3>1. it \in [SUBSET S -> V]
      BY <2>2, <2>3
    <3>. QED
      BY <2>4, <2>5, <3>1
  <2>. QED
    BY <2>6
<1>8. IsIt(result)
  <2>. HIDE DEF IsIt
  <2>. QED
    BY <1>7
<1>9. result[S] \in V
  <2>1. result[{}] = h
    BY <1>8
  <2>2. \A T \in SUBSET S : T # {} /\ result[T \ {c[T]}] \in V => result[T] \in V
    <3>. SUFFICES ASSUME NEW T \in SUBSET S, T # {}, result[T \ {c[T]}] \in V
                  PROVE  result[T] \in V
      OBVIOUS
    <3>1. PICK x \in T : x = c[T] /\ x = CHOOSE y \in T : TRUE
      OBVIOUS
    <3>2. result[T] = updatePositions_db(result[T \ {x}], <<book.symbol, x>>, mark)
      BY <1>8, <3>1
    <3>. HIDE DEF result, V, c
    <3>3. x \in S /\ result[T \ {x}] \in V
      BY <3>1
    <3>. QED
      BY <1>4, <3>2, <3>3
  <2>. HIDE DEF result, V, c, S
  <2>. QED
    BY <1>2, <1>3, <1>5, <2>1, <2>2, FoldStays
<1>. QED
  BY <1>1, <1>9

\* Rows for the other tables, and the clock.
LEMMA InsertsPrice ==
    ASSUME NEW h \in Handlers, NEW row \in PriceRow, NEW n, n = insertMultRow(h, "prices", <<row>>)
    PROVE  SameHoldings(h, n) /\ n.users = h.users
<1>1. h \in HandlerType /\ Paired(h)
  BY DEF Handlers
<1>2. h.kdb \in Kdb /\ h.kdb.prices \in Seq(PriceRow)
  BY <1>1 DEF HandlerType, Kdb
<1>3. PICK all \in Seq(PriceRow) : all = h.kdb.prices \o <<row>>
  <2>1. <<row>> \in Seq(PriceRow)
    OBVIOUS
  <2>. QED
    BY <1>2, <2>1, ConcatProperties
<1>4. PICK kdb : kdb = [h.kdb EXCEPT !.prices = all]
  OBVIOUS
<1>5. /\ kdb \in Kdb /\ kdb.orders = h.kdb.orders
      /\ kdb.transactions = h.kdb.transactions
  BY <1>2, <1>4 DEF Kdb
<1>6. n = [h EXCEPT !.kdb = kdb]
  BY <1>1, <1>3, <1>4 DEF insertMultRow, HandlerType
<1>7. n \in HandlerType /\ n.kdb = kdb
  BY <1>1, <1>5, <1>6 DEF HandlerType
<1>8. /\ n.orders_chunk = h.orders_chunk /\ n.transactions_chunk = h.transactions_chunk
      /\ n.executedQuantity = h.executedQuantity /\ n.executedPrice = h.executedPrice
      /\ n.usersStats = h.usersStats /\ n.users = h.users
  BY <1>1, <1>6 DEF HandlerType
<1>. QED
  BY <1>1, <1>5, <1>7, <1>8 DEF SameHoldings, SameRows, After, Handlers, Paired, AllOrders,
                                AllTransactions, AllQuantities

LEMMA Counts ==
    ASSUME NEW h \in Handlers, NEW count \in Int, NEW n, n = [h EXCEPT !.count_time = count]
    PROVE  SameHoldings(h, n) /\ n \in Handlers /\ n.users = h.users
<1>1. h \in HandlerType /\ Paired(h)
  BY DEF Handlers
<1>2. n \in HandlerType
  BY <1>1 DEF HandlerType
<1>3. /\ n.orders_chunk = h.orders_chunk /\ n.transactions_chunk = h.transactions_chunk
      /\ n.executedQuantity = h.executedQuantity /\ n.executedPrice = h.executedPrice
      /\ n.usersStats = h.usersStats /\ n.users = h.users /\ n.kdb = h.kdb
  BY <1>1 DEF HandlerType
<1>. QED
  BY <1>1, <1>2, <1>3 DEF SameHoldings, SameRows, After, Handlers, Paired, AllOrders,
                          AllTransactions, AllQuantities

LEMMA MarksPrice ==
    ASSUME NEW h \in Handlers, NEW book \in Books, NEW n, n = mark_price_db(h, book)
    PROVE  SameHoldings(h, n)
<1>. DEFINE counted == [h EXCEPT !.count_time = @ + 1]
            restarted == [h EXCEPT !.count_time = 0]
            mark == calc_mark_price(book)
            row == [book |-> book, MarkPrice |-> mark]
            inserted == insertMultRow(restarted, "prices", <<row>>)
<1>1. mark \in Nat /\ book.symbol \in Symbols
  BY DEF calc_mark_price, Books
<1>2. SameHoldings(h, counted)
  <2>1. PICK count \in Int : count = h.count_time + 1
    BY DEF Handlers, HandlerType
  <2>2. counted = [h EXCEPT !.count_time = count]
    BY <2>1
  <2>. HIDE DEF counted
  <2>. QED
    BY <2>2, Counts
<1>3. SameHoldings(h, restarted) /\ restarted \in Handlers /\ restarted.users = h.users
  <2>1. PICK zero \in Int : zero = 0
    OBVIOUS
  <2>2. restarted = [h EXCEPT !.count_time = zero]
    BY <2>1
  <2>. HIDE DEF restarted
  <2>. QED
    BY <2>2, Counts
<1>4. row \in PriceRow
  BY <1>1 DEF PriceRow
<1>. HIDE DEF restarted, row
<1>5. SameHoldings(restarted, inserted) /\ inserted.users = restarted.users
  BY <1>3, <1>4, InsertsPrice
<1>6. SameHoldings(h, inserted) /\ inserted \in Handlers
  BY <1>3, <1>5, HoldingsCompose DEF SameHoldings, SameRows, After
<1>. HIDE DEF inserted, mark
<1>7. \/ n = counted \/ n = restarted
      \/ n = FoldSet(LAMBDA user, next : updatePositions_db(next, <<book.symbol, user>>, mark),
                     inserted, inserted.users)
  BY <1>5 DEF mark_price_db, restarted, inserted, mark, row
<1>8. CASE n = counted
  BY <1>2, <1>8
<1>9. CASE n = restarted
  BY <1>3, <1>9
<1>10. CASE n = FoldSet(LAMBDA user, next : updatePositions_db(next, <<book.symbol, user>>, mark),
                        inserted, inserted.users)
  <2>1. SameHoldings(inserted, n)
    BY <1>1, <1>6, <1>10, UpdatesPositions
  <2>. QED
    BY <1>6, <2>1, HoldingsCompose
<1>. QED
  BY <1>7, <1>8, <1>9, <1>10

LEMMA TellsLevel ==
    ASSUME NEW h \in Handlers, NEW book \in Books, NEW top,
           NEW n, n = onUpdateLevelAndOrderBook(h, book, top)
    PROVE  SameHoldings(h, n)
<1>1. PICK first : first = IF top THEN mark_price_db(h, book) ELSE h
  OBVIOUS
<1>2. SameHoldings(h, first)
  <2>1. SameHoldings(h, h)
    BY DEF SameHoldings, SameRows, After
  <2>2. first = mark_price_db(h, book) \/ first = h
    BY <1>1
  <2>. QED
    BY <2>1, <2>2, MarksPrice
<1>3. first \in Handlers /\ n = mark_price_db(first, book)
  BY <1>1, <1>2 DEF SameHoldings, SameRows, After, onUpdateLevelAndOrderBook
<1>4. SameHoldings(first, n)
  BY <1>3, MarksPrice
<1>. QED
  BY <1>2, <1>4, HoldingsCompose

-----------------------------------------------------------------------------
(* Users and symbols. *)

\* Nobody holds anything.
IsFlat(h) == \A key \in Keys : Holds(At(h.usersStats, key)) = 0

LEMMA IdsCounted ==
    ASSUME NEW rows \in Seq(Position)
    PROVE  Cardinality({position.Id : position \in ToSet(rows)}) \in Nat
<1>. DEFINE D == 1 .. Len(rows)
            S == {position.Id : position \in ToSet(rows)}
            f == [i \in D |-> rows[i].Id]
<1>1. Len(rows) \in Nat /\ DOMAIN rows = D
  BY LenProperties
<1>2. IsFiniteSet(D)
  BY <1>1, FS_Interval
<1>3. ToSet(rows) = {rows[i] : i \in D}
  BY <1>1 DEF ToSet
<1>4. f \in Surjection(D, S)
  BY <1>3 DEF Surjection
<1>. HIDE DEF f, S
<1>5. IsFiniteSet(S)
  BY <1>2, <1>4, FS_Surjection
<1>. QED
  BY <1>5, FS_CardinalityType DEF S

LEMMA LastIndex ==
    ASSUME NEW h \in Handlers, NEW last, last = last_index(h)
    PROVE  /\ SameHoldings(h, last.handler) /\ last.handler \in Handlers
           /\ last.count \in Nat
<1>1. h \in HandlerType /\ Paired(h)
  BY DEF Handlers
<1>2. PICK zero \in Int : zero = 0
  OBVIOUS
<1>3. PICK n : n = last.handler
  OBVIOUS
<1>4. n = [h EXCEPT !.count_time = zero, !.count_orders_chunk = zero,
                    !.count_transactions_chunk = zero, !.count_positions_chunk = zero]
  BY <1>2, <1>3 DEF last_index
<1>5. n \in HandlerType
  BY <1>1, <1>4 DEF HandlerType
<1>6. /\ n.orders_chunk = h.orders_chunk /\ n.transactions_chunk = h.transactions_chunk
      /\ n.executedQuantity = h.executedQuantity /\ n.executedPrice = h.executedPrice
      /\ n.usersStats = h.usersStats /\ n.users = h.users /\ n.kdb = h.kdb
  BY <1>1, <1>4 DEF HandlerType
<1>7. SameHoldings(h, n) /\ n \in Handlers
  BY <1>1, <1>5, <1>6 DEF SameHoldings, SameRows, After, Handlers, Paired, AllOrders,
                          AllTransactions, AllQuantities
<1>8. last.count \in Nat
  <2>1. h.kdb.positions \in Seq(Position)
    BY <1>1 DEF HandlerType, Kdb
  <2>2. last.count = Cardinality({position.Id : position \in ToSet(h.kdb.positions)})
    BY DEF last_index
  <2>. QED
    BY <2>1, <2>2, IdsCounted
<1>. QED
  BY <1>3, <1>7, <1>8

LEMMA AddsPosition ==
    ASSUME NEW h \in Handlers, IsFlat(h), NEW accountId \in Accounts, NEW symbol \in Symbols,
           NEW n, n = addPosition(h, accountId, symbol)
    PROVE  SameHoldings(h, n)
<1>1. PICK last : last = last_index(h)
  OBVIOUS
<1>2. /\ SameHoldings(h, last.handler) /\ last.handler \in Handlers
      /\ last.count \in Nat
  BY <1>1, LastIndex
<1>3. PICK start \in Handlers, count \in Nat : start = last.handler /\ count = last.count
  BY <1>2
<1>4. PICK key \in Keys : key = <<symbol, accountId>>
  BY DEF Keys
<1>5. PICK position : position = [NoPosition EXCEPT !.Id = count, !.AccountId = accountId,
                                                    !.SymbolId = symbol]
  OBVIOUS
<1>6. position \in Position /\ Holds(position) = 0
  <2>1. accountId \in Nat /\ symbol \in Nat
    BY IdsAreNumbers
  <2>2. NoPosition \in Position /\ NoPosition.Quantity = 0 /\ NoPosition.Side = "LONG"
    BY DEF NoPosition, Position
  <2>3. position \in Position
    BY <1>5, <2>1, <2>2 DEF Position
  <2>4. position.Quantity = 0 /\ position.Side = "LONG"
    BY <1>5, <2>2 DEF Position
  <2>. QED
    BY <2>3, <2>4 DEF Holds, Signed
<1>7. start \in HandlerType /\ start.symbols \in SUBSET Symbols
  BY DEF Handlers, HandlerType
<1>8. PICK m : m = WithPositions(start, Put(start.usersStats, key, position), start.symbols)
  OBVIOUS
<1>9. Moves(start, m, key, position) /\ m \in Handlers
  BY <1>6, <1>7, <1>8, PutsInHandler
<1>10. PICK rows \in Seq(Position) : rows = <<position>>
  <2>1. <<position>> \in Seq(Position)
    BY <1>6
  <2>. QED
    BY <2>1
<1>11. n = insertMultRow(m, "positions", rows)
  BY <1>1, <1>3, <1>4, <1>5, <1>7, <1>8, <1>10
     DEF addPosition, updatePosition, WithPositions, HandlerType
<1>12. SameRows(m, n) /\ n.usersStats = m.usersStats
  BY <1>9, <1>11, InsertsPositions
<1>13. SameRows(start, n)
  BY <1>9, <1>12 DEF Moves, SameRows, After
<1>14. \A other \in Keys : Holds(At(n.usersStats, other)) = Holds(At(start.usersStats, other))
  BY <1>2, <1>3, <1>6, <1>9, <1>12 DEF Moves, SameHoldings, IsFlat
<1>. QED
  BY <1>2, <1>3, <1>13, <1>14, HoldingsCompose DEF SameHoldings

\* n has the rows and the holdings of h, and a user more.
HasUser(h, n, accountId) ==
    /\ n \in Handlers
    /\ n.users = h.users \cup {accountId}
    /\ AllOrders(n) = AllOrders(h)
    /\ AllTransactions(n) = AllTransactions(h)
    /\ AllQuantities(n) = AllQuantities(h)
    /\ \A key \in Keys : Holds(At(n.usersStats, key)) = Holds(At(h.usersStats, key))

LEMMA AddsUser ==
    ASSUME NEW h \in Handlers, IsFlat(h), NEW accountId \in Users, NEW n, n = addUser(h, accountId)
    PROVE  HasUser(h, n, accountId)
<1>. DEFINE S == h.symbols
            base == [h EXCEPT !.users = @ \cup {accountId}]
            V == {m \in Handlers : SameHoldings(base, m)}
            g == [symbol \in S |-> [m \in V |-> addPosition(m, accountId, symbol)]]
            c == [T \in SUBSET S |-> CHOOSE x \in T : TRUE]
            IsIt(it) == it = [T \in SUBSET S |->
                     IF T = {} THEN base
                     ELSE addPosition(it[T \ {CHOOSE x \in T : TRUE}], accountId,
                                      CHOOSE x \in T : TRUE)]
            result == CHOOSE it : IsIt(it)
<1>1. n = result[S]
  BY DEF addUser, FoldSet, MapThenFoldSet
<1>2. S \in SUBSET Symbols /\ IsFiniteSet(S) /\ accountId \in Accounts
  BY UsersTrade, IdsAreNumbers, FS_Subset DEF Handlers, HandlerType
<1>0. h \in HandlerType /\ Paired(h) /\ h.users \in SUBSET Users
  BY DEF Handlers, HandlerType
<1>3. /\ base \in Handlers /\ base.users = h.users \cup {accountId}
      /\ base.usersStats = h.usersStats /\ base.kdb = h.kdb
      /\ base.orders_chunk = h.orders_chunk /\ base.transactions_chunk = h.transactions_chunk
      /\ base.executedQuantity = h.executedQuantity
  <2>1. PICK users \in SUBSET Users : users = h.users \cup {accountId}
    BY <1>0
  <2>2. base = [h EXCEPT !.users = users]
    BY <1>0, <2>1 DEF HandlerType
  <2>. HIDE DEF base
  <2>3. base \in HandlerType /\ base.users = users
    BY <1>0, <2>2 DEF HandlerType
  <2>4. /\ base.usersStats = h.usersStats /\ base.kdb = h.kdb
        /\ base.orders_chunk = h.orders_chunk /\ base.transactions_chunk = h.transactions_chunk
        /\ base.executedQuantity = h.executedQuantity /\ base.executedPrice = h.executedPrice
    BY <1>0, <2>2 DEF HandlerType
  <2>. QED
    BY <1>0, <2>1, <2>3, <2>4 DEF Handlers, Paired
<1>. HIDE DEF base
<1>4. base \in V /\ IsFlat(base)
  BY <1>3 DEF SameHoldings, SameRows, After, IsFlat
<1>5. \A symbol \in S, m \in V : addPosition(m, accountId, symbol) \in V
  <2>. SUFFICES ASSUME NEW symbol \in S, NEW m \in V
                PROVE  addPosition(m, accountId, symbol) \in V
    OBVIOUS
  <2>1. symbol \in Symbols /\ IsFlat(m) /\ m \in Handlers /\ accountId \in Accounts
    BY <1>2, <1>4 DEF IsFlat, SameHoldings
  <2>2. PICK r : r = addPosition(m, accountId, symbol)
    OBVIOUS
  <2>3. SameHoldings(m, r)
    BY <2>1, <2>2, AddsPosition
  <2>4. SameHoldings(base, r) /\ r \in Handlers
    BY <2>3, HoldingsCompose DEF SameHoldings, SameRows, After
  <2>. QED
    BY <2>2, <2>4
<1>6. Picks(c, S)
  BY DEF Picks
<1>7. g \in [S -> [V -> V]]
  <2>. HIDE DEF V
  <2>. QED
    BY <1>5
<1>8. \E it : IsIt(it)
  <2>1. PICK m \in Nat : m = Cardinality(S)
    BY <1>2, FS_CardinalityType
  <2>. HIDE DEF V, S, c, g
  <2>2. PICK it \in [Layer(S, m) -> V] : Solves(it, S, m, base, g, c)
    BY <1>2, <1>4, <1>6, <1>7, FoldExists
  <2>3. Layer(S, m) = SUBSET S
    BY <1>2, <2>1, FS_Subset DEF Layer
  <2>4. ASSUME NEW T \in SUBSET S, T # {}
        PROVE  it[T] = addPosition(it[T \ {CHOOSE x \in T : TRUE}], accountId,
                                   CHOOSE x \in T : TRUE)
    <3>1. PICK x \in T : x = c[T] /\ x = CHOOSE y \in T : TRUE
      BY <2>4 DEF c
    <3>2. T \ {x} \in SUBSET S /\ x \in S
      OBVIOUS
    <3>3. it[T] = g[x][it[T \ {x}]] /\ it[T \ {x}] \in V
      BY <2>2, <2>3, <2>4, <3>1, <3>2 DEF Solves
    <3>4. g[x][it[T \ {x}]] = addPosition(it[T \ {x}], accountId, x)
      BY <3>2, <3>3 DEF g
    <3>. QED
      BY <3>1, <3>3, <3>4
  <2>5. it[{}] = base
    BY <2>2, <2>3 DEF Solves
  <2>6. IsIt(it)
    <3>1. it \in [SUBSET S -> V]
      BY <2>2, <2>3
    <3>. QED
      BY <2>4, <2>5, <3>1
  <2>. QED
    BY <2>6
<1>9. IsIt(result)
  <2>. HIDE DEF IsIt
  <2>. QED
    BY <1>8
<1>10. result[S] \in V
  <2>1. result[{}] = base
    BY <1>9
  <2>2. \A T \in SUBSET S : T # {} /\ result[T \ {c[T]}] \in V => result[T] \in V
    <3>. SUFFICES ASSUME NEW T \in SUBSET S, T # {}, result[T \ {c[T]}] \in V
                  PROVE  result[T] \in V
      OBVIOUS
    <3>1. PICK x \in T : x = c[T] /\ x = CHOOSE y \in T : TRUE
      OBVIOUS
    <3>2. result[T] = addPosition(result[T \ {x}], accountId, x)
      BY <1>9, <3>1
    <3>. HIDE DEF result, V, c
    <3>3. x \in S /\ result[T \ {x}] \in V
      BY <3>1
    <3>. QED
      BY <1>5, <3>2, <3>3
  <2>3. PICK start \in V : start = base
    BY <1>4
  <2>4. result[{}] = start
    BY <2>1, <2>3
  <2>. HIDE DEF result, V, c, S
  <2>. QED
    BY <1>2, <1>6, <2>2, <2>4, FoldStays, SMTT(30)
<1>11. SameHoldings(base, n) /\ n \in Handlers
  BY <1>1, <1>10
<1>. QED
  BY <1>3, <1>11 DEF HasUser, SameHoldings, SameRows, After, AllOrders, AllTransactions,
                     AllQuantities

LEMMA ChangesSymbols ==
    ASSUME NEW h \in Handlers, NEW symbol \in Symbols, NEW n,
           n = onAddSymbol(h, symbol) \/ n = onDeleteSymbol(h, symbol)
    PROVE  SameRows(h, n) /\ n.usersStats = h.usersStats /\ n.kdb.positions = h.kdb.positions
<1>1. h \in HandlerType /\ Paired(h) /\ h.kdb \in Kdb /\ h.kdb.symbols \in Seq(Symbols)
  BY DEF Handlers, HandlerType, Kdb
<1>2. PICK all \in Seq(Symbols) : all = h.kdb.symbols \o <<symbol>>
  <2>1. <<symbol>> \in Seq(Symbols)
    OBVIOUS
  <2>. QED
    BY <1>1, <2>1, ConcatProperties
<1>3. PICK kdb : /\ kdb \in Kdb
                 /\ kdb = [h.kdb EXCEPT !.symbols = all] \/ kdb = h.kdb
                 /\ n.kdb = kdb
                 /\ \E symbols \in SUBSET Symbols : n = [h EXCEPT !.kdb = kdb, !.symbols = symbols]
  <2>1. CASE n = onAddSymbol(h, symbol)
    <3>1. PICK kdb : kdb = [h.kdb EXCEPT !.symbols = all]
      OBVIOUS
    <3>2. kdb \in Kdb
      BY <1>1, <3>1 DEF Kdb
    <3>3. PICK symbols \in SUBSET Symbols : symbols = h.symbols \cup {symbol}
      BY <1>1 DEF HandlerType
    <3>4. n = [h EXCEPT !.kdb = kdb, !.symbols = symbols]
      BY <1>1, <1>2, <2>1, <3>1, <3>3 DEF onAddSymbol, insertMultRow, HandlerType
    <3>5. n.kdb = kdb
      BY <1>1, <3>4 DEF HandlerType
    <3>. QED
      BY <3>1, <3>2, <3>4, <3>5
  <2>2. CASE n = onDeleteSymbol(h, symbol)
    <3>1. PICK symbols \in SUBSET Symbols : symbols = h.symbols \ {symbol}
      BY <1>1 DEF HandlerType
    <3>2. PICK kdb \in Kdb : kdb = h.kdb
      BY <1>1
    <3>3. n = [h EXCEPT !.kdb = kdb, !.symbols = symbols]
      BY <1>1, <2>2, <3>1, <3>2 DEF onDeleteSymbol, HandlerType
    <3>4. n.kdb = kdb
      BY <1>1, <3>3 DEF HandlerType
    <3>. QED
      BY <3>2, <3>3, <3>4
  <2>. QED
    BY <2>1, <2>2
<1>4. PICK symbols \in SUBSET Symbols : n = [h EXCEPT !.kdb = kdb, !.symbols = symbols]
  BY <1>3
<1>5. /\ kdb.orders = h.kdb.orders /\ kdb.transactions = h.kdb.transactions
      /\ kdb.positions = h.kdb.positions
  BY <1>1, <1>3 DEF Kdb
<1>6. n \in HandlerType
  BY <1>1, <1>3, <1>4 DEF HandlerType
<1>7. /\ n.orders_chunk = h.orders_chunk /\ n.transactions_chunk = h.transactions_chunk
      /\ n.executedQuantity = h.executedQuantity /\ n.executedPrice = h.executedPrice
      /\ n.usersStats = h.usersStats /\ n.users = h.users
  BY <1>1, <1>4 DEF HandlerType
<1>. QED
  BY <1>1, <1>3, <1>5, <1>6, <1>7
     DEF SameRows, After, Handlers, Paired, AllOrders, AllTransactions, AllQuantities

-----------------------------------------------------------------------------
(* Flushing. *)

LEMMA Flushes ==
    ASSUME NEW h \in Handlers, NEW n, n = flush_db(h)
    PROVE  /\ After(h, n, AllOrders(h), AllTransactions(h), AllQuantities(h), h.usersStats)
           /\ n.orders_chunk = << >> /\ n.transactions_chunk = << >>
           /\ n.kdb.positions = h.kdb.positions \o PositionsOf(h.usersStats)
<1>1. h.usersStats \in Positions
  BY DEF Handlers, HandlerType
<1>2. PICK rows \in Seq(Position) : rows = PositionsOf(h.usersStats)
  BY <1>1, PositionsListed DEF Lists
<1>3. PICK positions : positions = insertMultRow(h, "positions", rows)
  OBVIOUS
<1>4. /\ SameRows(h, positions) /\ positions.usersStats = h.usersStats
      /\ positions.kdb.positions = h.kdb.positions \o rows
  BY <1>3, InsertsPositions
<1>5. positions \in Handlers
  BY <1>4 DEF SameRows, After
<1>6. PICK orders : orders = IF positions.orders_chunk = << >> THEN positions
                             ELSE SendOrders(positions)
  OBVIOUS
<1>7. /\ After(positions, orders, AllOrders(positions), AllTransactions(positions),
               AllQuantities(positions), positions.usersStats)
      /\ orders.orders_chunk = << >> /\ orders.kdb.positions = positions.kdb.positions
  <2>1. CASE positions.orders_chunk = << >>
    BY <1>5, <1>6, <2>1 DEF After
  <2>2. CASE positions.orders_chunk # << >>
    <3>1. orders = SendOrders(positions)
      BY <1>6, <2>2
    <3>. QED
      BY <1>5, <3>1, SendOrdersSends
  <2>. QED
    BY <2>1, <2>2
<1>8. orders \in Handlers
  BY <1>7 DEF After
<1>9. n = IF orders.transactions_chunk = << >> THEN orders ELSE SendTransactions(orders)
  BY <1>2, <1>3, <1>6 DEF flush_db
<1>10. /\ After(orders, n, AllOrders(orders), AllTransactions(orders), AllQuantities(orders),
                orders.usersStats)
       /\ n.orders_chunk = orders.orders_chunk /\ n.transactions_chunk = << >>
       /\ n.kdb.positions = orders.kdb.positions
  <2>1. CASE orders.transactions_chunk = << >>
    BY <1>8, <1>9, <2>1 DEF After
  <2>2. CASE orders.transactions_chunk # << >>
    <3>1. n = SendTransactions(orders)
      BY <1>9, <2>2
    <3>. QED
      BY <1>8, <3>1, SendTransactionsSends
  <2>. QED
    BY <2>1, <2>2
<1>11. After(h, n, AllOrders(h), AllTransactions(h), AllQuantities(h), h.usersStats)
  BY <1>4, <1>7, <1>10 DEF After, SameRows
<1>. QED
  BY <1>2, <1>4, <1>7, <1>10, <1>11

\* The last row of every position whose Id is not that of another one is that position.
LastRowsAre(rows, stats) ==
    \A key \in DOMAIN stats :
       (\A other \in DOMAIN stats \ {key} : stats[other].Id # stats[key].Id)
          => rows[SelectLastInSeq(rows, LAMBDA position : position.Id = stats[key].Id)] = stats[key]

LEMMA LastRows ==
    ASSUME NEW before \in Seq(Position), NEW stats \in Positions,
           NEW rows, rows = before \o PositionsOf(stats)
    PROVE  LastRowsAre(rows, stats)
<1>. SUFFICES ASSUME NEW key \in DOMAIN stats,
                     \A other \in DOMAIN stats \ {key} : stats[other].Id # stats[key].Id
              PROVE  rows[SelectLastInSeq(rows, LAMBDA position : position.Id = stats[key].Id)]
                        = stats[key]
  BY DEF LastRowsAre
<1>1. PICK added \in Seq(Position) :
         /\ added = PositionsOf(stats)
         /\ \A i \in 1 .. Len(added) : \E k \in DOMAIN stats : added[i] = stats[k]
         /\ \A k \in DOMAIN stats : \E i \in 1 .. Len(added) : added[i] = stats[k]
  <2>1. PICK added : added = PositionsOf(stats)
    OBVIOUS
  <2>2. Lists(added, stats)
    BY <2>1, PositionsListed
  <2>. QED
    BY <2>1, <2>2 DEF Lists
<1>2. /\ rows \in Seq(Position) /\ Len(rows) = Len(before) + Len(added)
      /\ \A i \in 1 .. Len(before) + Len(added) :
            rows[i] = IF i <= Len(before) THEN before[i] ELSE added[i - Len(before)]
      /\ Len(before) \in Nat /\ Len(added) \in Nat
  BY <1>1, ConcatProperties, LenProperties
<1>. DEFINE I == {i \in 1 .. Len(rows) : rows[i].Id = stats[key].Id}
            place == SelectLastInSeq(rows, LAMBDA position : position.Id = stats[key].Id)
<1>3. place = IF I # {} THEN Max(I) ELSE 0
  BY DEF SelectLastInSeq
<1>4. PICK j \in 1 .. Len(added) : added[j] = stats[key]
  BY <1>1
<1>5. PICK k : k = Len(before) + j
  OBVIOUS
<1>6. k \in I /\ k > Len(before)
  <2>1. k \in 1 .. Len(rows) /\ k > Len(before) /\ k - Len(before) = j
    BY <1>2, <1>5
  <2>2. rows[k] = IF k <= Len(before) THEN before[k] ELSE added[k - Len(before)]
    <3>1. k \in 1 .. Len(before) + Len(added)
      BY <1>2, <2>1
    <3>. QED
      BY <1>2, <3>1
  <2>3. rows[k] = added[j]
    BY <1>2, <2>1, <2>2
  <2>. QED
    BY <1>4, <2>1, <2>3
<1>. HIDE DEF place
<1>7. place \in I /\ k <= place
  <2>0. PICK m \in Nat : m = Len(rows)
    BY <1>2
  <2>1. I \in SUBSET (1 .. m) /\ I # {}
    BY <1>6, <2>0
  <2>. HIDE DEF I
  <2>. QED
    BY <1>3, <1>6, <2>1, MaxIsGreatest
<1>8. PICK p \in 1 .. Len(added) : p = place - Len(before)
  BY <1>2, <1>5, <1>6, <1>7
<1>9. rows[place] = added[p] /\ rows[place].Id = stats[key].Id
  BY <1>2, <1>6, <1>7, <1>8
<1>10. PICK other \in DOMAIN stats : added[p] = stats[other]
  BY <1>1
<1>11. other = key
  BY <1>9, <1>10
<1>. QED
  BY <1>9, <1>10, <1>11 DEF place

-----------------------------------------------------------------------------
(* The book. *)

LimitOrder == {order \in Order : order.Type = "LIMIT" /\ order.Price # 0}

\* Orders that rest, with Ids up to n.
RestingOrders(n) ==
    {orders \in UNION {[D -> LimitOrder] : D \in SUBSET (1 .. n)} :
        \A id \in DOMAIN orders : orders[id].Id = id /\ orders[id].LeavesQuantity > 0}

\* Orders of a side of a book are in a strict total order.
LEMMA BetterOrders ==
    ASSUME NEW a \in Order, NEW b \in Order, a.Side = b.Side
    PROVE  /\ a.Id # b.Id => IsBetter(a, b) \/ IsBetter(b, a)
           /\ ~(IsBetter(a, b) /\ IsBetter(b, a))
           /\ ~IsBetter(a, a)
           /\ \A c \in Order : c.Side = a.Side /\ IsBetter(a, b) /\ IsBetter(b, c) => IsBetter(a, c)
BY DEF Order, IsBetter

\* The best order of a side that is not empty.
LEMMA BestFound ==
    ASSUME NEW n \in Nat, NEW orders \in RestingOrders(n), NEW symbol, NEW side,
           OrdersOn(orders, symbol, side) # {}
    PROVE  \E id \in OrdersOn(orders, symbol, side) : Best(orders, symbol, side) = orders[id]
<1>. DEFINE ids == OrdersOn(orders, symbol, side)
            before(id) == {other \in ids : IsBetter(orders[other], orders[id])}
            counts == {Cardinality(before(id)) : id \in ids}
            IsBest(id) == \A other \in ids \ {id} : IsBetter(orders[id], orders[other])
<1>1. /\ DOMAIN orders \in SUBSET (1 .. n)
      /\ \A id \in DOMAIN orders : orders[id] \in Order /\ orders[id].Id = id
  BY DEF RestingOrders, LimitOrder
<1>2. ids \in SUBSET (1 .. n) /\ \A id \in ids : /\ orders[id] \in Order /\ orders[id].Id = id
                                                 /\ orders[id].Side = side
  BY <1>1 DEF OrdersOn
<1>. HIDE DEF ids
<1>3. IsFiniteSet(ids)
  <2>1. IsFiniteSet(1 .. n)
    BY FS_Interval
  <2>. QED
    BY <1>2, <2>1, FS_Subset
<1>4. \A id \in ids : IsFiniteSet(before(id)) /\ Cardinality(before(id)) \in Nat
  <2>. SUFFICES ASSUME NEW id \in ids
                PROVE  IsFiniteSet(before(id)) /\ Cardinality(before(id)) \in Nat
    OBVIOUS
  <2>1. before(id) \in SUBSET ids
    OBVIOUS
  <2>. HIDE DEF before
  <2>. QED
    BY <1>3, <2>1, FS_Subset, FS_CardinalityType
<1>5. PICK count \in counts : \A other \in counts : count <= other
  <2>1. counts \in SUBSET Nat /\ counts # {}
    BY <1>4 DEF ids
  <2>. HIDE DEF counts
  <2>. QED
    BY <2>1, LeastExists
<1>6. PICK id \in ids : \A other \in ids : Cardinality(before(id)) <= Cardinality(before(other))
  BY <1>5
<1>7. ASSUME NEW other \in ids, IsBetter(orders[other], orders[id]) PROVE FALSE
  <2>1. before(other) \in SUBSET before(id)
    <3>. SUFFICES ASSUME NEW o \in ids, IsBetter(orders[o], orders[other])
                  PROVE  IsBetter(orders[o], orders[id])
      OBVIOUS
    <3>1. PICK a \in Order, b \in Order, c \in Order :
             a = orders[o] /\ b = orders[other] /\ c = orders[id]
      BY <1>2
    <3>. QED
      BY <1>2, <1>7, <3>1, BetterOrders
  <2>2. other \in before(id) /\ other \notin before(other)
    <3>1. PICK a \in Order : a = orders[other]
      BY <1>2
    <3>. QED
      BY <1>7, <3>1, BetterOrders
  <2>. HIDE DEF before
  <2>3. Cardinality(before(other)) <= Cardinality(before(id)) /\ Cardinality(before(other)) # Cardinality(before(id))
    BY <1>4, <2>1, <2>2, FS_Subset
  <2>. QED
    BY <1>4, <1>6, <2>3
<1>8. IsBest(id)
  <2>. SUFFICES ASSUME NEW other \in ids \ {id} PROVE IsBetter(orders[id], orders[other])
    OBVIOUS
  <2>1. PICK a \in Order, b \in Order : a = orders[id] /\ b = orders[other]
    BY <1>2
  <2>2. a.Id # b.Id /\ a.Side = b.Side
    BY <1>2, <2>1
  <2>. QED
    BY <1>7, <2>1, <2>2, BetterOrders
<1>9. Best(orders, symbol, side) = orders[CHOOSE i \in ids : IsBest(i)]
  BY DEF Best, ids
<1>. HIDE DEF IsBest
<1>10. (CHOOSE i \in ids : IsBest(i)) \in ids
  BY <1>8
<1>. QED
  BY <1>9, <1>10 DEF ids

LEMMA BestType ==
    ASSUME NEW n \in Nat, NEW orders \in RestingOrders(n), NEW symbol, NEW side,
           NEW best, best = Best(orders, symbol, side), best # NoOrder
    PROVE  /\ best \in LimitOrder /\ best.LeavesQuantity > 0
           /\ best.SymbolId = symbol /\ best.Side = side
           /\ best.Id \in DOMAIN orders /\ best = orders[best.Id]
<1>1. OrdersOn(orders, symbol, side) # {}
  BY DEF Best
<1>2. PICK id \in OrdersOn(orders, symbol, side) : best = orders[id]
  BY <1>1, BestFound
<1>3. id \in DOMAIN orders /\ orders[id].SymbolId = symbol /\ orders[id].Side = side
  BY <1>2 DEF OrdersOn
<1>4. orders[id] \in LimitOrder /\ orders[id].Id = id /\ orders[id].LeavesQuantity > 0
  BY <1>3 DEF RestingOrders
<1>. QED
  BY <1>2, <1>3, <1>4

LEMMA BookType ==
    ASSUME NEW n \in Nat, NEW orders \in RestingOrders(n), NEW symbol \in Symbols
    PROVE  Book(orders, symbol) \in Books
<1>1. ASSUME NEW side PROVE BestPrice(orders, symbol, side) \in Nat
  <2>1. PICK best : best = Best(orders, symbol, side)
    OBVIOUS
  <2>2. best # NoOrder => best \in LimitOrder
    BY <2>1, BestType
  <2>. QED
    BY <2>1, <2>2 DEF BestPrice, LimitOrder, Order
<1>. QED
  BY <1>1 DEF Book, Books

-----------------------------------------------------------------------------
(* The log. *)

Call == [call : {"add", "execute", "update", "delete"}, order : Order, price : Nat,
         quantity : Nat]

\* Rows are those of the calls on orders.
AreTold(copies, calls) ==
    /\ Len(copies) = Len(calls)
    /\ \A i \in 1 .. Len(calls) : /\ copies[i].Id = calls[i].order.Id
                                  /\ copies[i].LeavesQuantity = calls[i].order.LeavesQuantity

AreCounted(quantities, calls) ==
    /\ Len(quantities) = Len(calls)
    /\ \A i \in 1 .. Len(calls) : quantities[i] = calls[i].quantity

IsTold(h, calls, executed) ==
    /\ AreTold(AllOrders(h), calls)
    /\ AreTold(AllTransactions(h), executed)
    /\ AreCounted(AllQuantities(h), executed)

LEMMA ViewsType ==
    ASSUME NEW h \in Handlers
    PROVE  /\ AllOrders(h) \in Seq(RowOrder)
           /\ AllTransactions(h) \in Seq(RowOrder)
           /\ AllQuantities(h) \in Seq(Nat)
<1>1. /\ h.kdb.orders \in Seq(Row) /\ h.kdb.transactions \in Seq(Row)
      /\ h.orders_chunk \in Seq(RowOrder) /\ h.transactions_chunk \in Seq(RowOrder)
      /\ h.executedQuantity \in Seq(Nat)
  BY DEF Handlers, HandlerType, Kdb
<1>2. PICK a \in Seq(RowOrder), b \in Seq(RowOrder), c \in Seq(Nat) :
         /\ a = OrdersOf(h.kdb.orders) /\ b = OrdersOf(h.kdb.transactions)
         /\ c = QuantitiesOf(h.kdb.transactions)
  BY <1>1, RowsType
<1>. QED
  BY <1>1, <1>2, ConcatProperties DEF AllOrders, AllTransactions, AllQuantities

\* t is s, of length n, and one more element.
IsAppended(t, s, n, e) ==
    /\ Len(t) = n + 1
    /\ \A i \in 1 .. n + 1 : t[i] = IF i = n + 1 THEN e ELSE s[i]

LEMMA AppendedAt ==
    ASSUME NEW S, NEW s \in Seq(S), NEW e \in S, NEW t, t = Append(s, e)
    PROVE  IsAppended(t, s, Len(s), e)
<1>1. PICK n \in Nat : n = Len(s)
  BY LenProperties
<1>2. /\ t \in Seq(S) /\ Len(t) = n + 1 /\ t[n + 1] = e
      /\ \A i \in 1 .. n : t[i] = s[i]
  BY <1>1, AppendProperties
<1>3. \A i \in 1 .. n + 1 : i # n + 1 => i \in 1 .. n
  BY <1>1
<1>. QED
  BY <1>1, <1>2, <1>3 DEF IsAppended

LEMMA ToldAppend ==
    ASSUME NEW copies \in Seq(RowOrder), NEW calls \in Seq(Call), AreTold(copies, calls),
           NEW copy \in RowOrder, NEW call \in Call,
           copy.Id = call.order.Id, copy.LeavesQuantity = call.order.LeavesQuantity
    PROVE  AreTold(Append(copies, copy), Append(calls, call))
<1>1. PICK n \in Nat : n = Len(calls) /\ n = Len(copies)
  BY LenProperties DEF AreTold
<1>2. PICK a \in Seq(RowOrder), b \in Seq(Call) : a = Append(copies, copy) /\ b = Append(calls, call)
  BY AppendProperties
<1>3. /\ Len(a) = n + 1 /\ \A i \in 1 .. n + 1 : a[i] = IF i = n + 1 THEN copy ELSE copies[i]
      /\ Len(b) = n + 1 /\ \A i \in 1 .. n + 1 : b[i] = IF i = n + 1 THEN call ELSE calls[i]
  <2>1. IsAppended(a, copies, Len(copies), copy)
    BY <1>2, AppendedAt
  <2>2. IsAppended(b, calls, Len(calls), call)
    BY <1>2, AppendedAt
  <2>. QED
    BY <1>1, <2>1, <2>2 DEF IsAppended
<1>4. \A i \in 1 .. n : /\ copies[i].Id = calls[i].order.Id
                        /\ copies[i].LeavesQuantity = calls[i].order.LeavesQuantity
  BY <1>1 DEF AreTold
<1>5. AreTold(a, b)
  <2>. SUFFICES ASSUME NEW i \in 1 .. n + 1
                PROVE  a[i].Id = b[i].order.Id /\ a[i].LeavesQuantity = b[i].order.LeavesQuantity
    BY <1>3 DEF AreTold
  <2>1. CASE i = n + 1
    BY <1>3, <2>1
  <2>2. CASE i # n + 1
    <3>1. i \in 1 .. n /\ a[i] = copies[i] /\ b[i] = calls[i]
      BY <1>3, <2>2
    <3>. QED
      BY <1>4, <3>1
  <2>. QED
    BY <2>1, <2>2
<1>. QED
  BY <1>2, <1>5

LEMMA CountedAppend ==
    ASSUME NEW quantities \in Seq(Nat), NEW calls \in Seq(Call), AreCounted(quantities, calls),
           NEW call \in Call
    PROVE  AreCounted(Append(quantities, call.quantity), Append(calls, call))
<1>1. PICK n \in Nat : n = Len(calls) /\ n = Len(quantities)
  BY LenProperties DEF AreCounted
<1>0. PICK quantity \in Nat : quantity = call.quantity
  BY DEF Call
<1>2. PICK a \in Seq(Nat), b \in Seq(Call) : a = Append(quantities, quantity) /\ b = Append(calls, call)
  BY AppendProperties
<1>3. /\ Len(a) = n + 1
      /\ \A i \in 1 .. n + 1 : a[i] = IF i = n + 1 THEN quantity ELSE quantities[i]
      /\ Len(b) = n + 1 /\ \A i \in 1 .. n + 1 : b[i] = IF i = n + 1 THEN call ELSE calls[i]
  <2>1. IsAppended(a, quantities, Len(quantities), quantity)
    BY <1>2, AppendedAt
  <2>2. IsAppended(b, calls, Len(calls), call)
    BY <1>2, AppendedAt
  <2>. QED
    BY <1>1, <2>1, <2>2 DEF IsAppended
<1>4. \A i \in 1 .. n : quantities[i] = calls[i].quantity
  BY <1>1 DEF AreCounted
<1>5. AreCounted(a, b)
  <2>. SUFFICES ASSUME NEW i \in 1 .. n + 1 PROVE a[i] = b[i].quantity
    BY <1>3 DEF AreCounted
  <2>1. CASE i = n + 1
    BY <1>0, <1>3, <2>1
  <2>2. CASE i # n + 1
    <3>1. i \in 1 .. n /\ a[i] = quantities[i] /\ b[i] = calls[i]
      BY <1>3, <2>2
    <3>. QED
      BY <1>4, <3>1
  <2>. QED
    BY <2>1, <2>2
<1>. QED
  BY <1>0, <1>2, <1>5

\* One more call and one more row of it.
LEMMA TellsOne ==
    ASSUME NEW h \in Handlers, NEW calls \in Seq(Call), NEW executed \in Seq(Call),
           IsTold(h, calls, executed), NEW call \in Call, NEW n, Tells(h, n, call.order)
    PROVE  IsTold(n, Append(calls, call), executed)
<1>1. PICK copy \in RowOrder :
         /\ copy.Id = call.order.Id /\ copy.LeavesQuantity = call.order.LeavesQuantity
         /\ After(h, n, Append(AllOrders(h), copy), AllTransactions(h), AllQuantities(h),
                  n.usersStats)
  BY DEF Tells
<1>2. AllOrders(h) \in Seq(RowOrder)
  BY ViewsType
<1>3. AreTold(Append(AllOrders(h), copy), Append(calls, call))
  BY <1>1, <1>2, ToldAppend DEF IsTold
<1>. QED
  BY <1>1, <1>3 DEF IsTold, After

LEMMA TellsTwo ==
    ASSUME NEW h \in Handlers, NEW calls \in Seq(Call), NEW executed \in Seq(Call),
           IsTold(h, calls, executed), NEW call \in Call, NEW n,
           TellsExecution(h, n, call.order, call.quantity)
    PROVE  IsTold(n, Append(calls, call), Append(executed, call))
<1>1. PICK copy \in RowOrder :
         /\ copy.Id = call.order.Id /\ copy.LeavesQuantity = call.order.LeavesQuantity
         /\ After(h, n, Append(AllOrders(h), copy), Append(AllTransactions(h), copy),
                  Append(AllQuantities(h), call.quantity), n.usersStats)
  BY DEF TellsExecution
<1>2. AllOrders(h) \in Seq(RowOrder) /\ AllTransactions(h) \in Seq(RowOrder)
      /\ AllQuantities(h) \in Seq(Nat)
  BY ViewsType
<1>3. AreTold(Append(AllOrders(h), copy), Append(calls, call))
      /\ AreTold(Append(AllTransactions(h), copy), Append(executed, call))
  BY <1>1, <1>2, ToldAppend DEF IsTold
<1>4. AreCounted(Append(AllQuantities(h), call.quantity), Append(executed, call))
  BY <1>2, CountedAppend DEF IsTold
<1>. QED
  BY <1>1, <1>3, <1>4 DEF IsTold, After

\* The rows that a session promises are these.
LEMMA ToldIsComplete ==
    ASSUME handler \in Handlers, log \in Seq(Call), executions \in Seq(Call),
           IsTold(handler, log, executions)
    PROVE  RowsAreComplete
<1>1. ASSUME NEW copies \in Seq(RowOrder), NEW calls \in Seq(Call), AreTold(copies, calls)
      PROVE  IdsAndLeaves(copies) = IdsAndLeaves(OrdersOf(calls))
  <2>1. DOMAIN copies = 1 .. Len(calls) /\ DOMAIN calls = 1 .. Len(calls)
    BY <1>1, LenProperties DEF AreTold
  <2>2. OrdersOf(calls) = [i \in 1 .. Len(calls) |-> calls[i].order]
    BY <2>1 DEF OrdersOf
  <2>3. IdsAndLeaves(OrdersOf(calls)) =
           [i \in 1 .. Len(calls) |-> <<calls[i].order.Id, calls[i].order.LeavesQuantity>>]
    BY <2>2 DEF IdsAndLeaves
  <2>4. IdsAndLeaves(copies) = [i \in 1 .. Len(calls) |-> <<copies[i].Id, copies[i].LeavesQuantity>>]
    BY <2>1 DEF IdsAndLeaves
  <2>. QED
    BY <1>1, <2>3, <2>4 DEF AreTold
<1>2. ASSUME NEW quantities \in Seq(Nat), NEW calls \in Seq(Call), AreCounted(quantities, calls)
      PROVE  quantities = [i \in DOMAIN calls |-> calls[i].quantity]
  <2>1. /\ DOMAIN quantities = 1 .. Len(calls) /\ DOMAIN calls = 1 .. Len(calls)
        /\ quantities = [i \in DOMAIN quantities |-> quantities[i]]
    BY <1>2, LenProperties DEF AreCounted
  <2>. QED
    BY <1>2, <2>1 DEF AreCounted
<1>3. /\ AllOrders(handler) \in Seq(RowOrder) /\ AllTransactions(handler) \in Seq(RowOrder)
      /\ AllQuantities(handler) \in Seq(Nat)
  BY ViewsType
<1>4. /\ IdsAndLeaves(AllOrders(handler)) = IdsAndLeaves(OrdersOf(log))
      /\ IdsAndLeaves(AllTransactions(handler)) = IdsAndLeaves(OrdersOf(executions))
  BY <1>1, <1>3 DEF IsTold
<1>5. AllQuantities(handler) = [i \in DOMAIN executions |-> executions[i].quantity]
  BY <1>2, <1>3 DEF IsTold
<1>. QED
  BY <1>4, <1>5 DEF RowsAreComplete, AllOrders, AllTransactions, AllQuantities, QuantitiesOf

-----------------------------------------------------------------------------
(* What is held and what was traded. *)

TradedIn(calls, key, side) ==
    Lots([i \in DOMAIN calls |->
             IF KeyOf(calls[i].order) = key /\ calls[i].order.Side = side
             THEN calls[i].quantity ELSE 0])

\* What a call adds to that.
Adding(call, key, side) ==
    IF KeyOf(call.order) = key /\ call.order.Side = side THEN call.quantity ELSE 0

LEMMA AddingType == \A call \in Call : \A key, side : Adding(call, key, side) \in Nat
BY DEF Call, Adding

\* g is f without x, which R leaves out of S.
IsWithout(g, f, x, R, S) ==
    /\ IsFiniteSet(S) /\ x \in S /\ R = S \ {x}
    /\ f \in [S -> Nat] /\ g \in [R -> Nat] /\ \A y \in R : g[y] = f[y]

LEMMA LotsWithout ==
    \A g, f, x, R, S : IsWithout(g, f, x, R, S) => Lots(f) = f[x] + Lots(g) /\ Lots(g) \in Nat
<1>. SUFFICES ASSUME NEW g, NEW f, NEW x, NEW R, NEW S, IsWithout(g, f, x, R, S)
              PROVE  Lots(f) = f[x] + Lots(g) /\ Lots(g) \in Nat
  OBVIOUS
<1>1. /\ IsFiniteSet(S) /\ x \in S /\ f \in [S -> Nat]
      /\ g \in [S \ {x} -> Nat] /\ \A y \in S \ {x} : g[y] = f[y]
  BY DEF IsWithout
<1>2. Lots(f) = f[x] + Lots(g)
  BY <1>1, LotsSplit
<1>3. IsFiniteSet(R) /\ g \in [R -> Nat]
  BY FS_RemoveElement DEF IsWithout
<1>. QED
  BY <1>2, <1>3, LotsType

LEMMA LotsGrow ==
    ASSUME NEW n \in Nat, NEW f \in [1 .. n + 1 -> Nat], NEW g \in [1 .. n -> Nat],
           \A i \in 1 .. n : g[i] = f[i]
    PROVE  Lots(f) = f[n + 1] + Lots(g) /\ Lots(g) \in Nat
<1>1. IsFiniteSet(1 .. n + 1)
  BY FS_Interval
<1>2. IsWithout(g, f, n + 1, 1 .. n, 1 .. n + 1)
  <2>1. n + 1 \in 1 .. n + 1 /\ 1 .. n = (1 .. n + 1) \ {n + 1}
    OBVIOUS
  <2>. QED
    BY <1>1, <2>1 DEF IsWithout
<1>. QED
  BY <1>2, LotsWithout

\* all trades what calls do, and the call.
TradesMore(all, calls, call) ==
    \A key, side :
       /\ TradedIn(calls, key, side) \in Nat
       /\ TradedIn(all, key, side) = TradedIn(calls, key, side) + Adding(call, key, side)

LEMMA TradesAppend ==
    ASSUME NEW calls \in Seq(Call), NEW call \in Call, NEW all, all = Append(calls, call)
    PROVE  TradesMore(all, calls, call)
<1>. SUFFICES ASSUME NEW key, NEW side
              PROVE  /\ TradedIn(calls, key, side) \in Nat
                     /\ TradedIn(all, key, side) = TradedIn(calls, key, side) + Adding(call, key, side)
  BY DEF TradesMore
<1>1. PICK n \in Nat : n = Len(calls)
  BY LenProperties
<1>2. IsAppended(all, calls, n, call)
  BY <1>1, AppendedAt
<1>3. all \in Seq(Call)
  BY AppendProperties
<1>. DEFINE f == [i \in 1 .. n + 1 |-> Adding(all[i], key, side)]
            g == [i \in 1 .. n |-> Adding(calls[i], key, side)]
<1>4. TradedIn(all, key, side) = Lots(f) /\ TradedIn(calls, key, side) = Lots(g)
  <2>1. DOMAIN all = 1 .. n + 1 /\ DOMAIN calls = 1 .. n
    BY <1>1, <1>2, <1>3, LenProperties DEF IsAppended
  <2>. QED
    BY <2>1 DEF TradedIn, Adding
<1>5. \A i \in 1 .. n : calls[i] \in Call /\ all[i] = calls[i]
  <2>1. \A i \in 1 .. n : i \in 1 .. n + 1 /\ i # n + 1
    OBVIOUS
  <2>2. \A i \in 1 .. n : calls[i] \in Call
    BY <1>1, ElementOfSeq
  <2>. QED
    BY <1>2, <2>1, <2>2 DEF IsAppended
<1>6. all[n + 1] = call
  BY <1>2 DEF IsAppended
<1>7. /\ f \in [1 .. n + 1 -> Nat] /\ g \in [1 .. n -> Nat]
      /\ f[n + 1] = Adding(call, key, side) /\ \A i \in 1 .. n : g[i] = f[i]
  <2>1. \A i \in 1 .. n : Adding(calls[i], key, side) \in Nat /\ Adding(all[i], key, side) = Adding(calls[i], key, side)
    BY <1>5, AddingType
  <2>2. \A i \in 1 .. n + 1 : i = n + 1 \/ i \in 1 .. n
    OBVIOUS
  <2>3. Adding(all[n + 1], key, side) \in Nat /\ n + 1 \in 1 .. n + 1
    BY <1>6, AddingType
  <2>4. f \in [1 .. n + 1 -> Nat]
    BY <2>1, <2>2, <2>3
  <2>5. g \in [1 .. n -> Nat]
    BY <2>1
  <2>6. f[n + 1] = Adding(call, key, side)
    BY <1>6, <2>3
  <2>7. \A i \in 1 .. n : g[i] = f[i]
    <3>1. \A i \in 1 .. n : i \in 1 .. n + 1
      OBVIOUS
    <3>. QED
      BY <2>1, <3>1
  <2>. QED
    BY <2>4, <2>5, <2>6, <2>7
<1>. HIDE DEF f, g
<1>10. Lots(f) = f[n + 1] + Lots(g) /\ Lots(g) \in Nat
  <2>1. PICK first \in [1 .. n + 1 -> Nat], second \in [1 .. n -> Nat] : first = f /\ second = g
    BY <1>7
  <2>2. \A i \in 1 .. n : second[i] = first[i]
    BY <1>7, <2>1
  <2>3. Lots(first) = first[n + 1] + Lots(second) /\ Lots(second) \in Nat
    BY <2>2, LotsGrow
  <2>. QED
    BY <2>1, <2>3
<1>12. Adding(call, key, side) \in Nat
  BY AddingType
<1>. QED
  BY <1>4, <1>7, <1>10, <1>12

\* What is held long and short by all.
Long(f) == [key \in DOMAIN f |-> IF f[key] > 0 THEN f[key] ELSE 0]
Short(f) == [key \in DOMAIN f |-> IF f[key] < 0 THEN -f[key] ELSE 0]
Balance(f) == Lots(Long(f)) - Lots(Short(f))

LEMMA BalanceMoves ==
    ASSUME NEW f \in [Keys -> Int], NEW g \in [Keys -> Int], NEW k \in Keys,
           \A key \in Keys \ {k} : g[key] = f[key]
    PROVE  Balance(f) \in Int /\ Balance(g) = Balance(f) + g[k] - f[k]
<1>. DEFINE rest == Keys \ {k}
            long == [key \in rest |-> IF f[key] > 0 THEN f[key] ELSE 0]
            short == [key \in rest |-> IF f[key] < 0 THEN -f[key] ELSE 0]
<1>1. IsFiniteSet(Keys) /\ IsFiniteSet(rest)
  <2>1. IsFiniteSet(Keys)
    BY IdsAreNumbers, FS_Product DEF Keys
  <2>. QED
    BY <2>1, FS_Subset
<1>2. /\ Long(f) \in [Keys -> Nat] /\ Short(f) \in [Keys -> Nat]
      /\ Long(g) \in [Keys -> Nat] /\ Short(g) \in [Keys -> Nat]
  BY DEF Long, Short
<1>3. /\ long \in [rest -> Nat] /\ short \in [rest -> Nat]
      /\ \A key \in rest : /\ long[key] = Long(f)[key] /\ short[key] = Short(f)[key]
                           /\ long[key] = Long(g)[key] /\ short[key] = Short(g)[key]
  BY DEF Long, Short
<1>4. /\ Long(f)[k] - Short(f)[k] = f[k] /\ Long(g)[k] - Short(g)[k] = g[k]
      /\ Long(f)[k] \in Nat /\ Short(f)[k] \in Nat /\ Long(g)[k] \in Nat /\ Short(g)[k] \in Nat
      /\ f[k] \in Int /\ g[k] \in Int
  BY DEF Long, Short
<1>5. PICK a \in [Keys -> Nat], b \in [Keys -> Nat], c \in [Keys -> Nat], d \in [Keys -> Nat] :
         a = Long(f) /\ b = Short(f) /\ c = Long(g) /\ d = Short(g)
  BY <1>2
<1>. HIDE DEF long, short
<1>6. Lots(a) = a[k] + Lots(long)
  BY <1>1, <1>3, <1>5, LotsSplit
<1>7. Lots(b) = b[k] + Lots(short)
  BY <1>1, <1>3, <1>5, LotsSplit
<1>8. Lots(c) = c[k] + Lots(long)
  BY <1>1, <1>3, <1>5, LotsSplit
<1>9. Lots(d) = d[k] + Lots(short)
  BY <1>1, <1>3, <1>5, LotsSplit
<1>10. Lots(long) \in Nat /\ Lots(short) \in Nat
  BY <1>1, <1>3, LotsType
<1>. QED
  BY <1>4, <1>5, <1>6, <1>7, <1>8, <1>9, <1>10 DEF Balance

HoldingsOf(h) == [key \in Keys |-> Holds(At(h.usersStats, key))]

\* Every account holds what it bought and did not sell.
Follows(h, executed) ==
    \A key \in Keys :
       Holds(At(h.usersStats, key)) = TradedIn(executed, key, "BUY") - TradedIn(executed, key, "SELL")

IsNet(h, executed) == Follows(h, executed) /\ Balance(HoldingsOf(h)) = 0

LEMMA HoldingsType ==
    ASSUME NEW h \in Handlers
    PROVE  HoldingsOf(h) \in [Keys -> Int]
<1>1. h.usersStats \in Positions
  BY DEF Handlers, HandlerType
<1>2. \A key \in Keys : Holds(At(h.usersStats, key)) \in Int
  <2>. SUFFICES ASSUME NEW key \in Keys PROVE Holds(At(h.usersStats, key)) \in Int
    OBVIOUS
  <2>1. PICK position \in Position : position = At(h.usersStats, key)
    BY <1>1, PositionAt
  <2>2. Holds(position) \in Int
    BY DEF Position, Holds, Signed
  <2>. QED
    BY <2>1, <2>2
<1>. QED
  BY <1>2 DEF HoldingsOf

\* An execution moves the position of one account, and the balance by as much.
FollowsMore(h, n, all, call) ==
    /\ Follows(n, all)
    /\ Balance(HoldingsOf(h)) \in Int
    /\ Balance(HoldingsOf(n)) =
          Balance(HoldingsOf(h)) + Signed(call.order.Side, "BUY", call.quantity)

LEMMA FollowsExecution ==
    ASSUME NEW h \in Handlers, NEW n \in Handlers, NEW calls \in Seq(Call), NEW call \in Call,
           NEW all, all = Append(calls, call),
           Follows(h, calls), Changes(h, n, call.order, call.quantity)
    PROVE  FollowsMore(h, n, all, call)
<1>. DEFINE k == KeyOf(call.order)
            moved == Signed(call.order.Side, "BUY", call.quantity)
<1>0. TradesMore(all, calls, call)
  BY TradesAppend
<1>1. /\ k \in Keys /\ call.quantity \in Nat /\ moved \in Int
      /\ call.order.Side \in {"BUY", "SELL"}
  BY DEF Call, Order, KeyOf, Keys, Signed
<1>2. HoldingsOf(h) \in [Keys -> Int] /\ HoldingsOf(n) \in [Keys -> Int]
  BY HoldingsType
<1>3. /\ Holds(At(n.usersStats, k)) = Holds(At(h.usersStats, k)) + moved
      /\ \A key \in Keys \ {k} : At(n.usersStats, key) = At(h.usersStats, key)
  BY DEF Changes
<1>4. Follows(n, all)
  <2>. SUFFICES ASSUME NEW key \in Keys
                PROVE  Holds(At(n.usersStats, key)) =
                          TradedIn(all, key, "BUY") - TradedIn(all, key, "SELL")
    BY DEF Follows
  <2>1. PICK bought \in Nat, sold \in Nat :
           bought = TradedIn(calls, key, "BUY") /\ sold = TradedIn(calls, key, "SELL")
    BY <1>0 DEF TradesMore
  <2>2. /\ TradedIn(all, key, "BUY") = bought + Adding(call, key, "BUY")
        /\ TradedIn(all, key, "SELL") = sold + Adding(call, key, "SELL")
    BY <1>0, <2>1 DEF TradesMore
  <2>3. Holds(At(h.usersStats, key)) = bought - sold
    BY <2>1 DEF Follows
  <2>4. CASE key = k
    <3>1. Adding(call, key, "BUY") - Adding(call, key, "SELL") = moved
          /\ Adding(call, key, "BUY") \in Nat /\ Adding(call, key, "SELL") \in Nat
      BY <1>1, <2>4 DEF Adding, Signed
    <3>2. Holds(At(n.usersStats, key)) = bought - sold + moved
      BY <1>3, <2>3, <2>4
    <3>3. PICK a \in Nat, b \in Nat : a = Adding(call, key, "BUY") /\ b = Adding(call, key, "SELL")
      BY <3>1
    <3>4. Holds(At(n.usersStats, key)) = (bought + a) - (sold + b)
      BY <3>1, <3>2, <3>3
    <3>. QED
      BY <2>2, <3>3, <3>4
  <2>5. CASE key # k
    <3>1. Adding(call, key, "BUY") = 0 /\ Adding(call, key, "SELL") = 0
      BY <2>5 DEF Adding
    <3>2. Holds(At(n.usersStats, key)) = bought - sold
      BY <1>3, <2>3, <2>5
    <3>. QED
      BY <2>2, <3>1, <3>2
  <2>. QED
    BY <2>4, <2>5
<1>5. PICK f \in [Keys -> Int], g \in [Keys -> Int] : f = HoldingsOf(h) /\ g = HoldingsOf(n)
  BY <1>2
<1>6. g[k] = f[k] + moved /\ \A key \in Keys \ {k} : g[key] = f[key]
  BY <1>1, <1>3, <1>5 DEF HoldingsOf
<1>7. Balance(f) \in Int /\ Balance(g) = Balance(f) + g[k] - f[k]
  <2>1. PICK x \in Keys : x = k
    BY <1>1
  <2>2. \A key \in Keys \ {x} : g[key] = f[key]
    BY <1>6, <2>1
  <2>3. Balance(f) \in Int /\ Balance(g) = Balance(f) + g[x] - f[x]
    BY <2>2, BalanceMoves
  <2>. QED
    BY <2>1, <2>3
<1>8. f[k] \in Int
  BY <1>1
<1>9. Balance(g) = Balance(f) + moved
  BY <1>1, <1>6, <1>7, <1>8
<1>. QED
  BY <1>4, <1>5, <1>7, <1>9 DEF FollowsMore

LEMMA FollowsSame ==
    ASSUME NEW h, NEW n, NEW calls, SameHoldings(h, n)
    PROVE  /\ HoldingsOf(n) = HoldingsOf(h)
           /\ Follows(h, calls) => Follows(n, calls)
           /\ IsNet(h, calls) => IsNet(n, calls)
BY DEF SameHoldings, HoldingsOf, Follows, IsNet

\* Before the first execution nobody holds anything.
LEMMA NothingTraded ==
    \A key, side : TradedIn(<< >>, key, side) = 0
<1>. SUFFICES ASSUME NEW key, NEW side PROVE TradedIn(<< >>, key, side) = 0
  OBVIOUS
<1>1. PICK f : f = [i \in DOMAIN << >> |->
                       IF KeyOf(<< >>[i].order) = key /\ << >>[i].order.Side = side
                       THEN << >>[i].quantity ELSE 0]
  OBVIOUS
<1>2. DOMAIN f = {}
  BY <1>1
<1>. QED
  BY <1>1, <1>2, LotsEmpty DEF TradedIn

LEMMA FlatAtFirst ==
    ASSUME NEW h, Follows(h, << >>)
    PROVE  IsFlat(h)
BY NothingTraded DEF Follows, IsFlat

LEMMA FlatIsNet ==
    ASSUME NEW h \in Handlers, IsFlat(h)
    PROVE  IsNet(h, << >>)
<1>1. Follows(h, << >>)
  BY NothingTraded DEF Follows, IsFlat
<1>2. PICK f \in [Keys -> Int] : f = HoldingsOf(h)
  BY HoldingsType
<1>3. \A key \in Keys : f[key] = 0
  BY <1>2 DEF HoldingsOf, IsFlat
<1>4. Long(f) = Short(f) /\ Long(f) \in [Keys -> Nat]
  BY <1>3 DEF Long, Short
<1>5. IsFiniteSet(Keys)
  BY IdsAreNumbers, FS_Product DEF Keys
<1>6. Lots(Long(f)) \in Nat
  BY <1>4, <1>5, LotsType
<1>. QED
  BY <1>1, <1>2, <1>4, <1>6 DEF IsNet, Balance

\* The positions that a session promises are these.
LEMMA NetIsPromised ==
    ASSUME handler \in Handlers, IsNet(handler, executions)
    PROVE  PositionsAreNet
<1>1. handler.usersStats \in Positions
  BY DEF Handlers, HandlerType
<1>2. DOMAIN handler.usersStats \subseteq Keys
  BY <1>1 DEF Positions
<1>3. ASSUME NEW key \in Keys
      PROVE  /\ Held(key, "LONG") = Long(HoldingsOf(handler))[key]
             /\ Held(key, "SHORT") = Short(HoldingsOf(handler))[key]
             /\ Held(key, "LONG") - Held(key, "SHORT") = Holds(At(handler.usersStats, key))
  <2>1. PICK position \in Position : position = At(handler.usersStats, key)
    BY <1>1, PositionAt
  <2>2. /\ Held(key, "LONG") = IF position.Side = "LONG" THEN position.Quantity ELSE 0
        /\ Held(key, "SHORT") = IF position.Side = "SHORT" THEN position.Quantity ELSE 0
    BY <2>1 DEF Held
  <2>3. HoldingsOf(handler)[key] = Holds(position) /\ DOMAIN HoldingsOf(handler) = Keys
    BY <2>1 DEF HoldingsOf
  <2>4. /\ Long(HoldingsOf(handler))[key] = IF Holds(position) > 0 THEN Holds(position) ELSE 0
        /\ Short(HoldingsOf(handler))[key] = IF Holds(position) < 0 THEN -Holds(position) ELSE 0
    BY <2>3 DEF Long, Short
  <2>5. position.Side \in {"LONG", "SHORT"} /\ position.Quantity \in Nat
    BY DEF Position
  <2>. QED
    BY <2>1, <2>2, <2>4, <2>5 DEF Holds, Signed
<1>4. ASSUME NEW key, NEW side PROVE Traded(key, side) = TradedIn(executions, key, side)
  BY DEF Traded, TradedIn, KeyOf
<1>5. ASSUME NEW key \in Keys
      PROVE  Held(key, "LONG") - Held(key, "SHORT") = Traded(key, "BUY") - Traded(key, "SELL")
  BY <1>3, <1>4 DEF IsNet, Follows
<1>6. /\ [key \in Keys |-> Held(key, "LONG")] = Long(HoldingsOf(handler))
      /\ [key \in Keys |-> Held(key, "SHORT")] = Short(HoldingsOf(handler))
  <2>1. /\ Long(HoldingsOf(handler)) = [key \in Keys |-> Long(HoldingsOf(handler))[key]]
        /\ Short(HoldingsOf(handler)) = [key \in Keys |-> Short(HoldingsOf(handler))[key]]
    BY DEF Long, Short, HoldingsOf
  <2>. QED
    BY <1>3, <2>1
<1>7. Lots(Long(HoldingsOf(handler))) = Lots(Short(HoldingsOf(handler)))
  <2>1. PICK f \in [Keys -> Int] : f = HoldingsOf(handler)
    BY HoldingsType
  <2>2. Long(f) \in [Keys -> Nat] /\ Short(f) \in [Keys -> Nat]
    BY DEF Long, Short
  <2>3. IsFiniteSet(Keys)
    BY IdsAreNumbers, FS_Product DEF Keys
  <2>4. Lots(Long(f)) \in Nat /\ Lots(Short(f)) \in Nat
    BY <2>2, <2>3, LotsType
  <2>5. Lots(Long(f)) - Lots(Short(f)) = 0
    BY <2>1 DEF IsNet, Balance
  <2>. QED
    BY <2>1, <2>4, <2>5
<1>. QED
  BY <1>2, <1>5, <1>6, <1>7 DEF PositionsAreNet, Keys

-----------------------------------------------------------------------------
(* The invariant. *)

IncomingOrder(n) ==
    {order \in Order : order.Id \in 1 .. n /\ (order.Type = "LIMIT" => order.Price # 0)}

TypeInv ==
    /\ market \in [symbols : SUBSET Symbols, order_books : SUBSET Symbols]
    /\ resting \in RestingOrders(lastId)
    /\ incoming = NoOrder \/ incoming \in IncomingOrder(lastId)
    /\ lastId \in 0 .. MaxOrders
    /\ handler \in Handlers
    /\ log \in Seq(Call)
    /\ executions \in Seq(Call)
    /\ flushed \in BOOLEAN

\* Users are added before orders are sent, and no order is sent after the flush.
InOrder ==
    /\ lastId = 0 => incoming = NoOrder /\ executions = << >>
    /\ flushed => incoming = NoOrder /\ handler.users = Users

IsWritten(h) ==
    /\ h.orders_chunk = << >>
    /\ h.transactions_chunk = << >>
    /\ LastRowsAre(h.kdb.positions, h.usersStats)

Inv ==
    /\ TypeInv
    /\ InOrder
    /\ IsTold(handler, log, executions)
    /\ IsNet(handler, executions)
    /\ flushed => IsWritten(handler)

LEMMA ToldSame ==
    ASSUME NEW h, NEW n, NEW calls, NEW executed, IsTold(h, calls, executed), SameRows(h, n)
    PROVE  IsTold(n, calls, executed)
BY DEF IsTold, SameRows, After

LEMMA WrittenSame ==
    ASSUME NEW h, NEW n, IsWritten(h), SameRows(h, n), n.usersStats = h.usersStats,
           n.kdb.positions = h.kdb.positions
    PROVE  IsWritten(n)
BY DEF IsWritten, SameRows

LEMMA InitInv ==
    ASSUME Init
    PROVE  Inv
<1>1. PICK garbage \in Garbage : handler = NewHandler(garbage)
  BY DEF Init
<1>2. garbage \in Int
  BY GarbageIsCount
<1>3. PICK none \in Positions : none = [key \in {} |-> NoPosition]
  BY NoPositions
<1>4. << >> \in Seq(RowOrder) /\ << >> \in Seq(Int) /\ << >> \in Seq(Nat) /\ Len(<< >>) = 0
  BY EmptySeq
<1>5. Tables \in Kdb /\ Tables.orders = << >> /\ Tables.transactions = << >>
  <2>1. /\ << >> \in Seq(Symbols) /\ << >> \in Seq(PriceRow) /\ << >> \in Seq(Row)
        /\ << >> \in Seq(Position)
    BY EmptySeq
  <2>. QED
    BY <2>1 DEF Tables, Kdb
<1>6. /\ handler.orders_chunk = << >> /\ handler.transactions_chunk = << >>
      /\ handler.executedPrice = << >> /\ handler.executedQuantity = << >>
      /\ handler.kdb = Tables /\ handler.usersStats = none
  BY <1>1, <1>3 DEF NewHandler
<1>7. handler \in Handlers
  <2>0. PICK tables \in Kdb : tables = Tables
    BY <1>5
  <2>1. PICK empty : empty = << >>
    OBVIOUS
  <2>2. handler = [count_time |-> garbage, count_orders_chunk |-> garbage,
                   count_transactions_chunk |-> garbage, count_positions_chunk |-> garbage,
                   symbols |-> {}, users |-> {}, usersStats |-> none, positions_chunk |-> none,
                   orders_chunk |-> empty, transactions_chunk |-> empty,
                   executedPrice |-> empty, executedQuantity |-> empty, kdb |-> tables]
    BY <1>1, <1>3, <2>0, <2>1 DEF NewHandler
  <2>3. empty \in Seq(RowOrder) /\ empty \in Seq(Int) /\ empty \in Seq(Nat)
    BY <1>4, <2>1
  <2>4. handler \in HandlerType
    BY <1>2, <2>2, <2>3 DEF HandlerType
  <2>5. Paired(handler)
    BY <1>4, <1>6 DEF Paired
  <2>. QED
    BY <2>4, <2>5 DEF Handlers
<1>8. TypeInv
  <2>1. market \in [symbols : SUBSET Symbols, order_books : SUBSET Symbols]
    BY DEF Init, NewRegistry
  <2>2. resting \in RestingOrders(lastId)
    <3>1. resting = [id \in {} |-> NoOrder]
      BY DEF Init
    <3>2. resting \in [{} -> LimitOrder] /\ {} \in SUBSET (1 .. lastId) /\ DOMAIN resting = {}
      BY <3>1
    <3>. QED
      BY <3>2 DEF RestingOrders
  <2>3. << >> \in Seq(Call)
    BY EmptySeq
  <2>4. 0 \in 0 .. MaxOrders
    BY IdsAreNumbers
  <2>. QED
    BY <1>7, <2>1, <2>2, <2>3, <2>4 DEF Init, TypeInv
<1>9. IsTold(handler, log, executions)
  <2>1. << >> \in Seq(Row)
    BY EmptySeq
  <2>2. OrdersOf(<< >>) = << >> /\ QuantitiesOf(<< >>) = << >>
    <3>1. /\ OrdersOf(<< >>) \in Seq(RowOrder) /\ Len(OrdersOf(<< >>)) = 0
          /\ QuantitiesOf(<< >>) \in Seq(Nat) /\ Len(QuantitiesOf(<< >>)) = 0
      BY <1>4, <2>1, RowsType
    <3>. QED
      BY <3>1, EmptySeq
  <2>3. << >> \o << >> = << >>
    BY <1>4, ConcatEmptySeq
  <2>4. AllOrders(handler) = << >> /\ AllTransactions(handler) = << >> /\ AllQuantities(handler) = << >>
    BY <1>5, <1>6, <2>2, <2>3 DEF AllOrders, AllTransactions, AllQuantities
  <2>. QED
    BY <1>4, <2>4 DEF Init, IsTold, AreTold, AreCounted
<1>10. IsNet(handler, executions)
  <2>1. \A key : At(none, key) = NoPosition
    BY <1>3 DEF At
  <2>2. Holds(NoPosition) = 0
    BY DEF NoPosition, Holds, Signed
  <2>3. IsFlat(handler)
    BY <1>6, <2>1, <2>2 DEF IsFlat
  <2>. QED
    BY <1>7, <2>3, FlatIsNet DEF Init
<1>. QED
  BY <1>8, <1>9, <1>10 DEF Init, Inv, InOrder

LEMMA AddSymbolPreserves ==
    ASSUME Inv, NEW symbol \in Symbols, AddSymbolAndBook(symbol)
    PROVE  Inv'
<1>1. handler \in Handlers /\ market \in [symbols : SUBSET Symbols, order_books : SUBSET Symbols]
  BY DEF Inv, TypeInv
<1>2. UNCHANGED <<resting, incoming, lastId, log, executions, flushed>>
  BY DEF AddSymbolAndBook
<1>3. market' \in [symbols : SUBSET Symbols, order_books : SUBSET Symbols]
  <2>1. PICK added : added = AddSymbol(market, symbol).market
    OBVIOUS
  <2>2. added \in [symbols : SUBSET Symbols, order_books : SUBSET Symbols]
    BY <1>1, <2>1 DEF AddSymbol, Refuse, OK
  <2>3. market' = AddOrderBook(added, symbol).market
    BY <2>1 DEF AddSymbolAndBook
  <2>. QED
    BY <2>2, <2>3 DEF AddOrderBook, Refuse, OK
<1>4. handler' = onAddSymbol(handler, symbol) \/ handler' = handler
  BY DEF AddSymbolAndBook
<1>5. SameRows(handler, handler') /\ handler'.usersStats = handler.usersStats
      /\ handler'.kdb.positions = handler.kdb.positions
  <2>1. CASE handler' = onAddSymbol(handler, symbol)
    BY <1>1, <2>1, ChangesSymbols
  <2>2. CASE handler' = handler
    BY <1>1, <2>2 DEF SameRows, After
  <2>. QED
    BY <1>4, <2>1, <2>2
<1>6. SameHoldings(handler, handler') /\ handler' \in Handlers /\ handler'.users = handler.users
  BY <1>5 DEF SameHoldings, SameRows, After
<1>7. TypeInv'
  BY <1>2, <1>3, <1>6 DEF Inv, TypeInv
<1>8. InOrder'
  BY <1>2, <1>6 DEF Inv, InOrder
<1>9. IsTold(handler', log', executions')
  BY <1>2, <1>5, ToldSame DEF Inv
<1>10. IsNet(handler', executions')
  BY <1>2, <1>6, FollowsSame DEF Inv
<1>11. flushed' => IsWritten(handler')
  BY <1>2, <1>5, WrittenSame DEF Inv
<1>. QED
  BY <1>7, <1>8, <1>9, <1>10, <1>11 DEF Inv

LEMMA CloseSymbolPreserves ==
    ASSUME Inv, NEW symbol \in Symbols, CloseSymbol(symbol)
    PROVE  Inv'
<1>1. handler \in Handlers /\ market \in [symbols : SUBSET Symbols, order_books : SUBSET Symbols]
  BY DEF Inv, TypeInv
<1>2. UNCHANGED <<resting, incoming, lastId, log, executions, flushed>>
  BY DEF CloseSymbol
<1>3. market' \in [symbols : SUBSET Symbols, order_books : SUBSET Symbols]
  BY <1>1 DEF CloseSymbol, DeleteSymbol, Refuse, OK
<1>4. handler' = onDeleteSymbol(handler, symbol) \/ handler' = handler
  BY DEF CloseSymbol
<1>5. SameRows(handler, handler') /\ handler'.usersStats = handler.usersStats
      /\ handler'.kdb.positions = handler.kdb.positions
  <2>1. CASE handler' = onDeleteSymbol(handler, symbol)
    BY <1>1, <2>1, ChangesSymbols
  <2>2. CASE handler' = handler
    BY <1>1, <2>2 DEF SameRows, After
  <2>. QED
    BY <1>4, <2>1, <2>2
<1>6. SameHoldings(handler, handler') /\ handler' \in Handlers /\ handler'.users = handler.users
  BY <1>5 DEF SameHoldings, SameRows, After
<1>7. TypeInv'
  BY <1>2, <1>3, <1>6 DEF Inv, TypeInv
<1>8. InOrder'
  BY <1>2, <1>6 DEF Inv, InOrder
<1>9. IsTold(handler', log', executions')
  BY <1>2, <1>5, ToldSame DEF Inv
<1>10. IsNet(handler', executions')
  BY <1>2, <1>6, FollowsSame DEF Inv
<1>11. flushed' => IsWritten(handler')
  BY <1>2, <1>5, WrittenSame DEF Inv
<1>. QED
  BY <1>7, <1>8, <1>9, <1>10, <1>11 DEF Inv

LEMMA CloseBookPreserves ==
    ASSUME Inv, NEW symbol \in Symbols, CloseBook(symbol)
    PROVE  Inv'
<1>1. UNCHANGED <<resting, incoming, lastId, handler, log, executions, flushed>>
  BY DEF CloseBook
<1>2. market' \in [symbols : SUBSET Symbols, order_books : SUBSET Symbols]
  <2>1. market \in [symbols : SUBSET Symbols, order_books : SUBSET Symbols]
    BY DEF Inv, TypeInv
  <2>. QED
    BY <2>1 DEF CloseBook, DeleteOrderBook, Refuse, OK
<1>. QED
  BY <1>1, <1>2 DEF Inv, TypeInv, InOrder

LEMMA AddUserPreserves ==
    ASSUME Inv, NEW accountId \in Users, AddUser(accountId)
    PROVE  Inv'
<1>1. handler \in Handlers /\ handler' = addUser(handler, accountId)
  BY DEF Inv, TypeInv, AddUser
<1>2. UNCHANGED <<market, resting, incoming, lastId, log, executions, flushed>>
  BY DEF AddUser
<1>3. executions = << >> /\ ~flushed
  BY DEF Inv, InOrder, AddUser
<1>4. IsFlat(handler)
  BY <1>3, FlatAtFirst DEF Inv, IsNet
<1>5. HasUser(handler, handler', accountId)
  BY <1>1, <1>4, AddsUser
<1>6. handler' \in Handlers /\ IsFlat(handler')
  BY <1>4, <1>5 DEF HasUser, IsFlat
<1>7. IsNet(handler', executions')
  BY <1>2, <1>3, <1>6, FlatIsNet
<1>8. IsTold(handler', log', executions')
  BY <1>2, <1>5 DEF Inv, IsTold, HasUser
<1>9. TypeInv'
  BY <1>2, <1>6 DEF Inv, TypeInv
<1>. QED
  BY <1>2, <1>3, <1>7, <1>8, <1>9 DEF Inv, InOrder

LEMMA RestingMore ==
    ASSUME NEW n \in Nat, NEW orders \in RestingOrders(n)
    PROVE  orders \in RestingOrders(n + 1)
<1>1. PICK D \in SUBSET (1 .. n) : orders \in [D -> LimitOrder]
  BY DEF RestingOrders
<1>2. D \in SUBSET (1 .. n + 1)
  BY <1>1
<1>3. \A id \in DOMAIN orders : orders[id].Id = id /\ orders[id].LeavesQuantity > 0
  BY DEF RestingOrders
<1>. QED
  BY <1>1, <1>2, <1>3 DEF RestingOrders

LEMMA EntryType ==
    ASSUME NEW call \in {"add", "execute", "update", "delete"}, NEW order \in Order,
           NEW price \in Nat, NEW quantity \in Nat,
           NEW entry, entry = Entry(call, order, price, quantity)
    PROVE  entry \in Call /\ entry.order = order /\ entry.quantity = quantity
BY DEF Entry, Call

LEMMA AddOrderPreserves ==
    ASSUME Inv, NEW symbol \in Symbols, NEW accountId \in Accounts,
           NEW type \in {"LIMIT", "MARKET"}, NEW side \in {"BUY", "SELL"},
           NEW price \in Nat, type = "LIMIT" => price # 0, NEW quantity \in Nat,
           AddOrder(symbol, accountId, type, side, price, quantity)
    PROVE  Inv'
<1>1. /\ handler \in Handlers /\ log \in Seq(Call) /\ executions \in Seq(Call)
      /\ lastId \in 0 .. MaxOrders /\ lastId < MaxOrders /\ lastId' = lastId + 1
      /\ lastId' \in 1 .. MaxOrders /\ lastId \in Nat /\ incoming = NoOrder /\ ~flushed
  BY IdsAreNumbers DEF Inv, TypeInv, AddOrder
<1>2. UNCHANGED <<market, resting, executions, flushed>>
  BY DEF AddOrder
<1>3. PICK order : order = [Id |-> lastId + 1, SymbolId |-> symbol, AccountId |-> accountId,
                            Type |-> type, Side |-> side, Price |-> price,
                            LeavesQuantity |-> quantity, Status |-> "PENDING"]
  OBVIOUS
<1>4. order \in Order /\ order.Id = lastId + 1 /\ (order.Type = "LIMIT" => order.Price # 0)
  <2>1. PICK id \in Nat : id = lastId + 1
    BY <1>1
  <2>2. order = [Id |-> id, SymbolId |-> symbol, AccountId |-> accountId, Type |-> type,
                 Side |-> side, Price |-> price, LeavesQuantity |-> quantity,
                 Status |-> "PENDING"]
    BY <1>3, <2>1
  <2>. QED
    BY <2>1, <2>2 DEF Order
<1>5. order \in IncomingOrder(lastId')
  BY <1>1, <1>4 DEF IncomingOrder
<1>6. resting' \in RestingOrders(lastId')
  <2>1. resting \in RestingOrders(lastId)
    BY DEF Inv, TypeInv
  <2>. QED
    BY <1>1, <1>2, <2>1, RestingMore
<1>7. CASE symbol \in market.order_books
  <2>1. /\ incoming' = order /\ handler' = onAddOrder(handler, order)
        /\ log' = Append(log, Entry("add", order, 0, 0))
    BY <1>3, <1>7 DEF AddOrder
  <2>2. PICK call \in Call : call = Entry("add", order, 0, 0) /\ call.order = order
    BY <1>4, EntryType
  <2>3. Tells(handler, handler', order) /\ handler'.usersStats = handler.usersStats
    BY <1>1, <1>4, <2>1, Adds
  <2>4. handler' \in Handlers
    BY <2>3 DEF Tells, After
  <2>5. log' \in Seq(Call)
    BY <1>1, <2>1, <2>2, AppendProperties
  <2>6. IsTold(handler', log', executions')
    <3>1. IsTold(handler', Append(log, call), executions)
      <4>1. IsTold(handler, log, executions)
        BY DEF Inv
      <4>2. Tells(handler, handler', call.order)
        BY <2>2, <2>3
      <4>. QED
        BY <1>1, <4>1, <4>2, TellsOne
    <3>. QED
      BY <1>2, <2>1, <2>2, <3>1
  <2>7. IsNet(handler', executions')
    BY <1>2, <2>3 DEF Inv, IsNet, Follows, HoldingsOf
  <2>8. TypeInv'
    BY <1>1, <1>2, <1>5, <1>6, <2>1, <2>4, <2>5 DEF Inv, TypeInv
  <2>9. InOrder' /\ ~flushed'
    BY <1>1, <1>2 DEF InOrder
  <2>. QED
    BY <2>6, <2>7, <2>8, <2>9 DEF Inv
<1>8. CASE symbol \notin market.order_books
  <2>1. UNCHANGED <<incoming, handler, log>>
    BY <1>8 DEF AddOrder
  <2>2. TypeInv'
    BY <1>1, <1>2, <1>6, <2>1 DEF Inv, TypeInv
  <2>3. InOrder' /\ ~flushed'
    BY <1>1, <1>2 DEF InOrder
  <2>. QED
    BY <1>2, <2>1, <2>2, <2>3 DEF Inv
<1>. QED
  BY <1>7, <1>8

LEMMA DropPreserves ==
    ASSUME Inv, Drop
    PROVE  Inv'
<1>1. /\ handler \in Handlers /\ log \in Seq(Call) /\ executions \in Seq(Call)
      /\ incoming \in Order /\ ~flushed
  BY DEF Inv, TypeInv, InOrder, Drop, IncomingOrder
<1>2. /\ UNCHANGED <<market, resting, lastId, executions, flushed>>
      /\ incoming' = NoOrder /\ handler' = onDeleteOrder(handler, incoming)
      /\ log' = Append(log, Entry("delete", incoming, 0, 0))
  BY DEF Drop
<1>3. PICK call \in Call : call = Entry("delete", incoming, 0, 0) /\ call.order = incoming
  BY <1>1, EntryType
<1>4. Tells(handler, handler', incoming) /\ handler'.usersStats = handler.usersStats
  BY <1>1, <1>2, Adds
<1>5. handler' \in Handlers
  BY <1>4 DEF Tells, After
<1>6. log' \in Seq(Call)
  BY <1>1, <1>2, <1>3, AppendProperties
<1>7. IsTold(handler', log', executions')
  <2>1. IsTold(handler, log, executions)
    BY DEF Inv
  <2>2. Tells(handler, handler', call.order)
    BY <1>3, <1>4
  <2>3. IsTold(handler', Append(log, call), executions)
    BY <1>1, <2>1, <2>2, TellsOne
  <2>. QED
    BY <1>2, <1>3, <2>3
<1>8. IsNet(handler', executions')
  BY <1>2, <1>4 DEF Inv, IsNet, Follows, HoldingsOf
<1>9. TypeInv'
  BY <1>2, <1>5, <1>6 DEF Inv, TypeInv
<1>10. InOrder' /\ ~flushed'
  BY <1>1, <1>2 DEF Inv, InOrder
<1>. QED
  BY <1>7, <1>8, <1>9, <1>10 DEF Inv

LEMMA RestPreserves ==
    ASSUME Inv, NEW top \in BOOLEAN, Rest(top)
    PROVE  Inv'
<1>1. /\ handler \in Handlers /\ lastId \in Nat /\ resting \in RestingOrders(lastId)
      /\ incoming \in LimitOrder /\ incoming.LeavesQuantity > 0 /\ incoming.Id \in 1 .. lastId
      /\ incoming.SymbolId \in Symbols /\ ~flushed
  BY IdsAreNumbers DEF Inv, TypeInv, InOrder, Rest, IncomingOrder, LimitOrder, Order
<1>2. /\ UNCHANGED <<market, lastId, log, executions, flushed>>
      /\ incoming' = NoOrder /\ resting' = Put(resting, incoming.Id, incoming)
      /\ handler' = onUpdateLevelAndOrderBook(handler, Book(resting', incoming.SymbolId), top)
  BY DEF Rest
<1>3. resting' \in RestingOrders(lastId)
  <2>1. PICK D \in SUBSET (1 .. lastId) : resting \in [D -> LimitOrder]
    BY <1>1 DEF RestingOrders
  <2>2. PICK E \in SUBSET (1 .. lastId) : E = D \cup {incoming.Id}
    BY <1>1
  <2>3. resting' = [id \in E |-> IF id = incoming.Id THEN incoming ELSE resting[id]]
    BY <1>2, <2>1, <2>2 DEF Put
  <2>4. resting' \in [E -> LimitOrder]
    BY <1>1, <2>1, <2>2, <2>3
  <2>5. \A id \in D : resting[id].Id = id /\ resting[id].LeavesQuantity > 0
    BY <1>1, <2>1 DEF RestingOrders
  <2>6. \A id \in E : resting'[id].Id = id /\ resting'[id].LeavesQuantity > 0
    BY <1>1, <2>2, <2>3, <2>5
  <2>. QED
    BY <2>4, <2>6 DEF RestingOrders
<1>4. PICK book \in Books : book = Book(resting', incoming.SymbolId)
  BY <1>1, <1>3, BookType
<1>5. SameHoldings(handler, handler')
  BY <1>1, <1>2, <1>4, TellsLevel
<1>6. SameRows(handler, handler') /\ handler' \in Handlers
  BY <1>5 DEF SameHoldings, SameRows, After
<1>7. TypeInv'
  BY <1>2, <1>3, <1>6 DEF Inv, TypeInv
<1>8. InOrder' /\ ~flushed'
  BY <1>1, <1>2 DEF Inv, InOrder
<1>9. IsTold(handler', log', executions')
  BY <1>2, <1>6, ToldSame DEF Inv
<1>10. IsNet(handler', executions')
  BY <1>2, <1>5, FollowsSame DEF Inv
<1>. QED
  BY <1>7, <1>8, <1>9, <1>10 DEF Inv

LEMMA FlushPreserves ==
    ASSUME Inv, Flush
    PROVE  Inv'
<1>1. handler \in Handlers /\ handler.users = Users /\ incoming = NoOrder
  BY DEF Inv, TypeInv, Flush
<1>2. /\ UNCHANGED <<market, resting, incoming, lastId, log, executions>>
      /\ flushed' = TRUE /\ handler' = flush_db(handler)
  BY DEF Flush
<1>3. /\ After(handler, handler', AllOrders(handler), AllTransactions(handler),
               AllQuantities(handler), handler.usersStats)
      /\ handler'.orders_chunk = << >> /\ handler'.transactions_chunk = << >>
      /\ handler'.kdb.positions = handler.kdb.positions \o PositionsOf(handler.usersStats)
  BY <1>1, <1>2, Flushes
<1>4. handler' \in Handlers /\ handler'.usersStats = handler.usersStats
      /\ handler'.users = handler.users
  BY <1>3 DEF After
<1>5. IsWritten(handler')
  <2>1. handler.usersStats \in Positions /\ handler.kdb.positions \in Seq(Position)
    BY <1>1 DEF Handlers, HandlerType, Kdb
  <2>2. LastRowsAre(handler'.kdb.positions, handler.usersStats)
    BY <1>3, <2>1, LastRows
  <2>. QED
    BY <1>3, <1>4, <2>2 DEF IsWritten
<1>6. IsTold(handler', log', executions')
  BY <1>2, <1>3 DEF Inv, IsTold, After
<1>7. IsNet(handler', executions')
  BY <1>2, <1>4 DEF Inv, IsNet, Follows, HoldingsOf
<1>8. TypeInv'
  BY <1>2, <1>4 DEF Inv, TypeInv
<1>9. InOrder'
  BY <1>1, <1>2, <1>4 DEF Inv, InOrder
<1>. QED
  BY <1>5, <1>6, <1>7, <1>8, <1>9 DEF Inv

\* The book after a trade: the rest of the order, if any, stays where it was.
LEMMA TradedBook ==
    ASSUME NEW n \in Nat, NEW orders \in RestingOrders(n), NEW order \in LimitOrder,
           order.Id \in DOMAIN orders, NEW left \in LimitOrder, left.Id = order.Id,
           NEW after,
           after = IF left.LeavesQuantity > 0 THEN [orders EXCEPT ![order.Id] = left]
                   ELSE [id \in DOMAIN orders \ {order.Id} |-> orders[id]]
    PROVE  after \in RestingOrders(n)
<1>1. PICK D \in SUBSET (1 .. n) : orders \in [D -> LimitOrder]
  BY DEF RestingOrders
<1>2. \A id \in D : orders[id].Id = id /\ orders[id].LeavesQuantity > 0
  BY <1>1 DEF RestingOrders
<1>3. CASE left.LeavesQuantity > 0
  <2>1. after = [orders EXCEPT ![order.Id] = left]
    BY <1>3
  <2>2. after \in [D -> LimitOrder]
    BY <1>1, <2>1
  <2>3. \A id \in D : after[id].Id = id /\ after[id].LeavesQuantity > 0
    BY <1>1, <1>2, <1>3, <2>1
  <2>. QED
    BY <2>2, <2>3 DEF RestingOrders
<1>4. CASE ~(left.LeavesQuantity > 0)
  <2>1. PICK E \in SUBSET (1 .. n) : E = D \ {order.Id}
    OBVIOUS
  <2>2. after = [id \in E |-> orders[id]]
    BY <1>1, <1>4, <2>1
  <2>3. after \in [E -> LimitOrder]
    BY <1>1, <2>1, <2>2
  <2>4. \A id \in E : after[id].Id = id /\ after[id].LeavesQuantity > 0
    BY <1>2, <2>1, <2>2
  <2>. QED
    BY <2>3, <2>4 DEF RestingOrders
<1>. QED
  BY <1>3, <1>4

LEMMA ReducedOrder ==
    ASSUME NEW order \in Order, NEW quantity \in Nat, quantity <= order.LeavesQuantity,
           NEW left, left = Reduce(order, quantity)
    PROVE  /\ left \in Order /\ left.Id = order.Id /\ left.Type = order.Type
           /\ left.Price = order.Price /\ left.SymbolId = order.SymbolId
<1>1. PICK leaves \in Nat : leaves = order.LeavesQuantity - quantity
  BY DEF Order
<1>2. left = [order EXCEPT !.LeavesQuantity = leaves]
  BY <1>1 DEF Reduce, Order
<1>. QED
  BY <1>2 DEF Order

\* n is h after the two executions of a trade, a and c, and what is told of the first order, b.
IsTrade(h, n, a, b, c) ==
    \E first, changed, level :
    \E price \in Nat \ {0}, quantity \in Nat \ {0}, book \in Books, top \in BOOLEAN :
       /\ a.quantity = quantity /\ c.quantity = quantity
       /\ {a.order.Side, c.order.Side} = {"BUY", "SELL"}
       /\ first = onExecuteOrder(h, a.order, price, quantity)
       /\ changed = onUpdateOrder(first, b.order) \/ changed = onDeleteOrder(first, b.order)
       /\ level = onUpdateLevelAndOrderBook(changed, book, top)
       /\ n = onExecuteOrder(level, c.order, price, quantity)

LEMMA TradeTells ==
    ASSUME NEW h \in Handlers, NEW calls \in Seq(Call), NEW executed \in Seq(Call),
           IsTold(h, calls, executed), IsNet(h, executed),
           NEW a \in Call, NEW b \in Call, NEW c \in Call, NEW n, IsTrade(h, n, a, b, c)
    PROVE  /\ n \in Handlers /\ n.users = h.users
           /\ IsTold(n, Append(Append(Append(calls, a), b), c), Append(Append(executed, a), c))
           /\ IsNet(n, Append(Append(executed, a), c))
<1>1. PICK first, changed, level :
    \E price \in Nat \ {0}, quantity \in Nat \ {0}, book \in Books, top \in BOOLEAN :
       /\ a.quantity = quantity /\ c.quantity = quantity
       /\ {a.order.Side, c.order.Side} = {"BUY", "SELL"}
       /\ first = onExecuteOrder(h, a.order, price, quantity)
       /\ changed = onUpdateOrder(first, b.order) \/ changed = onDeleteOrder(first, b.order)
       /\ level = onUpdateLevelAndOrderBook(changed, book, top)
       /\ n = onExecuteOrder(level, c.order, price, quantity)
  BY DEF IsTrade
<1>2. PICK price \in Nat \ {0}, quantity \in Nat \ {0}, book \in Books, top \in BOOLEAN :
       /\ a.quantity = quantity /\ c.quantity = quantity
       /\ {a.order.Side, c.order.Side} = {"BUY", "SELL"}
       /\ first = onExecuteOrder(h, a.order, price, quantity)
       /\ changed = onUpdateOrder(first, b.order) \/ changed = onDeleteOrder(first, b.order)
       /\ level = onUpdateLevelAndOrderBook(changed, book, top)
       /\ n = onExecuteOrder(level, c.order, price, quantity)
  BY <1>1
<1>. DEFINE order == a.order
            other == c.order
<1>3. order \in Order /\ b.order \in Order /\ other \in Order
  BY DEF Call
<1>4. TellsExecution(h, first, a.order, a.quantity) /\ Changes(h, first, a.order, a.quantity)
  BY <1>2, <1>3, Executes
<1>5. first \in Handlers /\ first.users = h.users
  BY <1>4 DEF TellsExecution, After
<1>6. Tells(first, changed, b.order) /\ changed.usersStats = first.usersStats
  BY <1>2, <1>3, <1>5, Adds
<1>7. changed \in Handlers /\ changed.users = first.users
  BY <1>6 DEF Tells, After
<1>8. SameHoldings(changed, level)
  BY <1>2, <1>7, TellsLevel
<1>9. level \in Handlers /\ level.users = changed.users /\ SameRows(changed, level)
  BY <1>8 DEF SameHoldings, SameRows, After
<1>10. TellsExecution(level, n, c.order, c.quantity) /\ Changes(level, n, c.order, c.quantity)
  BY <1>2, <1>3, <1>9, Executes
<1>11. n \in Handlers /\ n.users = level.users
  BY <1>10 DEF TellsExecution, After
<1>12. PICK calls1 \in Seq(Call), executed1 \in Seq(Call) :
         calls1 = Append(calls, a) /\ executed1 = Append(executed, a)
  BY AppendProperties
<1>13. PICK calls2 \in Seq(Call) : calls2 = Append(calls1, b)
  BY AppendProperties
<1>14. IsTold(first, calls1, executed1)
  BY <1>4, <1>12, TellsTwo
<1>15. IsTold(changed, calls2, executed1)
  BY <1>5, <1>6, <1>13, <1>14, TellsOne
<1>16. IsTold(level, calls2, executed1)
  BY <1>9, <1>15, ToldSame
<1>17. IsTold(n, Append(calls2, c), Append(executed1, c))
  BY <1>9, <1>10, <1>16, TellsTwo
<1>18. Follows(h, executed) /\ Balance(HoldingsOf(h)) = 0
  BY DEF IsNet
<1>19. FollowsMore(h, first, executed1, a)
  BY <1>4, <1>5, <1>12, <1>18, FollowsExecution
<1>20. Follows(level, executed1) /\ HoldingsOf(level) = HoldingsOf(first)
  <2>1. Follows(changed, executed1) /\ HoldingsOf(changed) = HoldingsOf(first)
    BY <1>6, <1>19 DEF FollowsMore, Follows, HoldingsOf
  <2>. QED
    BY <1>8, <2>1, FollowsSame
<1>21. PICK executed2 : executed2 = Append(executed1, c)
  OBVIOUS
<1>22. FollowsMore(level, n, executed2, c)
  BY <1>9, <1>10, <1>11, <1>20, <1>21, FollowsExecution
<1>23. Balance(HoldingsOf(n)) = 0
  <2>1. Balance(HoldingsOf(n)) =
           Signed(order.Side, "BUY", quantity) + Signed(other.Side, "BUY", quantity)
    BY <1>2, <1>18, <1>19, <1>20, <1>22 DEF FollowsMore, Signed
  <2>2. Signed(order.Side, "BUY", quantity) + Signed(other.Side, "BUY", quantity) = 0
    <3>1. \/ order.Side = "BUY" /\ other.Side = "SELL"
          \/ order.Side = "SELL" /\ other.Side = "BUY"
      BY <1>2, <1>3 DEF Order
    <3>. QED
      BY <3>1 DEF Signed
  <2>. QED
    BY <2>1, <2>2
<1>. QED
  BY <1>5, <1>7, <1>9, <1>11, <1>12, <1>13, <1>17, <1>21, <1>22, <1>23 DEF IsNet, FollowsMore

\* Calls one after the other at the end of a list.
LEMMA JoinThree ==
    ASSUME NEW S, NEW s \in Seq(S), NEW a \in S, NEW b \in S, NEW c \in S
    PROVE  /\ s \o <<a, c>> = Append(Append(s, a), c)
           /\ s \o <<a, b, c>> = Append(Append(Append(s, a), b), c)
<1>1. <<a>> \in Seq(S) /\ <<a, b>> \in Seq(S) /\ << >> \in Seq(S)
  BY EmptySeq
<1>2. <<a, c>> = Append(<<a>>, c) /\ <<a, b, c>> = Append(<<a, b>>, c)
      /\ <<a, b>> = Append(<<a>>, b)
  OBVIOUS
<1>3. s \o <<a>> = Append(s, a)
  BY AppendIsConcat
<1>4. s \o <<a, c>> = Append(s \o <<a>>, c)
  BY <1>1, <1>2, JoinAppend
<1>5. s \o <<a, b>> = Append(s \o <<a>>, b)
  BY <1>1, <1>2, JoinAppend
<1>6. s \o <<a, b, c>> = Append(s \o <<a, b>>, c)
  BY <1>1, <1>2, JoinAppend
<1>. QED
  BY <1>3, <1>4, <1>5, <1>6

LEMMA TradePreserves ==
    ASSUME Inv, NEW top \in BOOLEAN, Trade(top)
    PROVE  Inv'
<1>1. /\ handler \in Handlers /\ log \in Seq(Call) /\ executions \in Seq(Call)
      /\ lastId \in Nat /\ resting \in RestingOrders(lastId)
      /\ incoming \in IncomingOrder(lastId) /\ incoming \in Order
      /\ incoming.LeavesQuantity > 0 /\ incoming # NoOrder /\ ~flushed /\ lastId # 0
  BY IdsAreNumbers DEF Inv, TypeInv, InOrder, Trade, IsMatched, IncomingOrder
<1>2. UNCHANGED <<market, lastId, flushed>>
  BY DEF Trade
<1>3. PICK order : order = Counterpart
  OBVIOUS
<1>4. /\ order \in LimitOrder /\ order.LeavesQuantity > 0 /\ order.Id \in DOMAIN resting
      /\ order.Side = Opposite(incoming.Side)
  <2>1. order = Best(resting, incoming.SymbolId, Opposite(incoming.Side)) /\ order # NoOrder
    BY <1>3 DEF Trade, IsMatched, Counterpart
  <2>. QED
    BY <1>1, <2>1, BestType
<1>5. /\ order \in Order /\ order.Price \in Nat \ {0} /\ order.LeavesQuantity \in Nat
      /\ order.SymbolId \in Symbols /\ incoming.LeavesQuantity \in Nat
      /\ {order.Side, incoming.Side} = {"BUY", "SELL"}
  BY <1>1, <1>4 DEF LimitOrder, Order, Opposite
<1>6. PICK quantity \in Nat \ {0} :
         /\ quantity = IF order.LeavesQuantity < incoming.LeavesQuantity
                       THEN order.LeavesQuantity ELSE incoming.LeavesQuantity
         /\ quantity <= order.LeavesQuantity /\ quantity <= incoming.LeavesQuantity
  BY <1>1, <1>4, <1>5
<1>7. PICK left : left = Reduce(order, quantity)
  OBVIOUS
<1>8. /\ left \in Order /\ left.Id = order.Id /\ left.Type = order.Type
      /\ left.Price = order.Price /\ left.SymbolId = order.SymbolId
  BY <1>5, <1>6, <1>7, ReducedOrder
<1>9. left \in LimitOrder
  BY <1>4, <1>8 DEF LimitOrder
<1>10. PICK price \in Nat \ {0} : price = order.Price
  BY <1>5
<1>11. PICK first : first = onExecuteOrder(handler, order, price, quantity)
  OBVIOUS
<1>12. PICK changed : changed = IF left.LeavesQuantity > 0 THEN onUpdateOrder(first, left)
                                ELSE onDeleteOrder(first, left)
  OBVIOUS
<1>13. PICK verb \in {"update", "delete"} :
          verb = IF left.LeavesQuantity > 0 THEN "update" ELSE "delete"
  OBVIOUS
<1>14. /\ resting' = IF left.LeavesQuantity > 0 THEN [resting EXCEPT ![order.Id] = left]
                     ELSE [id \in DOMAIN resting \ {order.Id} |-> resting[id]]
       /\ incoming' = Reduce(incoming, quantity)
       /\ handler' = onExecuteOrder(
                        onUpdateLevelAndOrderBook(changed, Book(resting', order.SymbolId), top),
                        incoming, price, quantity)
       /\ log' = log \o <<Entry("execute", order, price, quantity), Entry(verb, left, 0, 0),
                          Entry("execute", incoming, price, quantity)>>
       /\ executions' = executions \o <<Entry("execute", order, price, quantity),
                                        Entry("execute", incoming, price, quantity)>>
  BY <1>3, <1>6, <1>7, <1>10, <1>11, <1>12, <1>13 DEF Trade
<1>15. resting' \in RestingOrders(lastId)
  BY <1>1, <1>4, <1>8, <1>9, <1>14, TradedBook
<1>16. incoming' \in IncomingOrder(lastId)
  <2>1. PICK rest : rest = Reduce(incoming, quantity)
    OBVIOUS
  <2>2. rest \in Order /\ rest.Id = incoming.Id /\ rest.Type = incoming.Type /\ rest.Price = incoming.Price
    BY <1>1, <1>6, <2>1, ReducedOrder
  <2>. QED
    BY <1>1, <1>14, <2>1, <2>2 DEF IncomingOrder
<1>17. PICK a \in Call : a = Entry("execute", order, price, quantity) /\ a.order = order
                         /\ a.quantity = quantity
  BY <1>5, EntryType
<1>18. PICK b \in Call : b = Entry(verb, left, 0, 0) /\ b.order = left
  BY <1>8, EntryType
<1>19. PICK c \in Call : c = Entry("execute", incoming, price, quantity) /\ c.order = incoming
                         /\ c.quantity = quantity
  <2>1. PICK other \in Order : other = incoming
    BY <1>1
  <2>2. PICK verb2 \in {"add", "execute", "update", "delete"} : verb2 = "execute"
    OBVIOUS
  <2>3. PICK c \in Call : c = Entry(verb2, other, price, quantity) /\ c.order = other
                          /\ c.quantity = quantity
    BY EntryType
  <2>. QED
    BY <2>1, <2>2, <2>3
<1>20. /\ log' = Append(Append(Append(log, a), b), c)
       /\ executions' = Append(Append(executions, a), c)
  BY <1>1, <1>14, <1>17, <1>18, <1>19, JoinThree
<1>21. PICK book \in Books : book = Book(resting', order.SymbolId)
  BY <1>1, <1>5, <1>15, BookType
<1>22. PICK level : level = onUpdateLevelAndOrderBook(changed, book, top)
  OBVIOUS
<1>23. handler' = onExecuteOrder(level, incoming, price, quantity)
  BY <1>14, <1>21, <1>22
<1>24. changed = onUpdateOrder(first, left) \/ changed = onDeleteOrder(first, left)
  BY <1>12
<1>25. /\ handler' \in Handlers /\ handler'.users = handler.users
       /\ IsTold(handler', log', executions') /\ IsNet(handler', executions')
  <2>1. PICK h \in Handlers, calls \in Seq(Call), executed \in Seq(Call) :
           h = handler /\ calls = log /\ executed = executions
    BY <1>1
  <2>2. PICK other \in Order : other = incoming
    BY <1>1
  <2>3. PICK n : n = handler'
    OBVIOUS
  <2>4. IsTold(h, calls, executed) /\ IsNet(h, executed)
    BY <2>1 DEF Inv
  <2>5. IsTrade(h, n, a, b, c)
    <3>1. {a.order.Side, c.order.Side} = {"BUY", "SELL"}
      BY <1>5, <1>17, <1>19
    <3>2. /\ first = onExecuteOrder(h, a.order, price, quantity)
          /\ changed = onUpdateOrder(first, b.order) \/ changed = onDeleteOrder(first, b.order)
          /\ n = onExecuteOrder(level, c.order, price, quantity)
      BY <1>11, <1>17, <1>18, <1>19, <1>23, <1>24, <2>1, <2>3
    <3>. QED
      BY <1>17, <1>19, <1>22, <3>1, <3>2 DEF IsTrade
  <2>6. /\ n \in Handlers /\ n.users = h.users
        /\ IsTold(n, Append(Append(Append(calls, a), b), c), Append(Append(executed, a), c))
        /\ IsNet(n, Append(Append(executed, a), c))
    BY <2>4, <2>5, TradeTells
  <2>. QED
    BY <1>20, <2>1, <2>3, <2>6
<1>26. log' \in Seq(Call) /\ executions' \in Seq(Call)
  <2>1. PICK calls1 \in Seq(Call), calls2 \in Seq(Call) :
           calls1 = Append(log, a) /\ calls2 = Append(calls1, b)
    BY <1>1, AppendProperties
  <2>2. PICK executed1 \in Seq(Call) : executed1 = Append(executions, a)
    BY <1>1, AppendProperties
  <2>3. Append(calls2, c) \in Seq(Call) /\ Append(executed1, c) \in Seq(Call)
    BY AppendProperties
  <2>. QED
    BY <1>20, <2>1, <2>2, <2>3
<1>27. TypeInv'
  BY <1>2, <1>15, <1>16, <1>25, <1>26 DEF Inv, TypeInv
<1>28. InOrder' /\ ~flushed'
  BY <1>1, <1>2 DEF InOrder
<1>. QED
  BY <1>25, <1>27, <1>28 DEF Inv

LEMMA NextPreserves ==
    ASSUME Inv, Next
    PROVE  Inv'
<1>1. CASE \E symbol \in Symbols : AddSymbolAndBook(symbol)
  BY <1>1, AddSymbolPreserves
<1>2. CASE \E symbol \in Symbols : CloseBook(symbol)
  BY <1>2, CloseBookPreserves
<1>3. CASE \E symbol \in Symbols : CloseSymbol(symbol)
  BY <1>3, CloseSymbolPreserves
<1>4. ASSUME NEW symbol \in Symbols, NEW accountId \in Accounts, NEW side \in {"BUY", "SELL"},
             NEW quantity \in Quantities,
             \/ \E price \in Prices : AddOrder(symbol, accountId, "LIMIT", side, price, quantity)
             \/ AddOrder(symbol, accountId, "MARKET", side, 0, quantity)
      PROVE  Inv'
  <2>1. quantity \in Nat
    BY OrdersAreReal
  <2>2. CASE \E price \in Prices : AddOrder(symbol, accountId, "LIMIT", side, price, quantity)
    <3>1. PICK price \in Prices : AddOrder(symbol, accountId, "LIMIT", side, price, quantity)
      BY <2>2
    <3>2. price \in Nat /\ price # 0
      BY OrdersAreReal
    <3>3. PICK type \in {"LIMIT", "MARKET"} : type = "LIMIT"
      OBVIOUS
    <3>4. AddOrder(symbol, accountId, type, side, price, quantity)
      BY <3>1, <3>3
    <3>. QED
      BY <2>1, <3>2, <3>4, AddOrderPreserves
  <2>3. CASE AddOrder(symbol, accountId, "MARKET", side, 0, quantity)
    <3>1. PICK type \in {"LIMIT", "MARKET"}, price \in Nat : type = "MARKET" /\ price = 0
      OBVIOUS
    <3>2. AddOrder(symbol, accountId, type, side, price, quantity)
      BY <2>3, <3>1
    <3>3. type = "LIMIT" => price # 0
      BY <3>1
    <3>. QED
      BY <2>1, <3>2, <3>3, AddOrderPreserves
  <2>. QED
    BY <1>4, <2>2, <2>3
<1>5. CASE \E accountId \in Users : AddUser(accountId)
  BY <1>5, AddUserPreserves
<1>6. CASE \E top \in BOOLEAN : Trade(top)
  BY <1>6, TradePreserves
<1>7. CASE \E top \in BOOLEAN : Rest(top)
  BY <1>7, RestPreserves
<1>8. CASE Drop
  BY <1>8, DropPreserves
<1>9. CASE Flush
  BY <1>9, FlushPreserves
<1>. QED
  BY <1>1, <1>2, <1>3, <1>4, <1>5, <1>6, <1>7, <1>8, <1>9 DEF Next

LEMMA StutterPreserves ==
    ASSUME Inv, UNCHANGED vars
    PROVE  Inv'
BY DEF vars, Inv, TypeInv, InOrder

\* The invariant holds in every session.
THEOREM InvariantHolds == Spec => []Inv
<1>1. Inv /\ [Next]_vars => Inv'
  BY NextPreserves, StutterPreserves
<1>. QED
  BY <1>1, InitInv, PTL DEF Spec

\* The tables and the chunks together have one row for each call on an order, in the order
\* of the calls, and one transaction with its own quantity for each execution; whatever the
\* counters of the chunks start from and wherever the chunks are cut.
THEOREM RowsHold == Spec => []RowsAreComplete
<1>1. Inv => RowsAreComplete
  BY ToldIsComplete DEF Inv, TypeInv
<1>. QED
  BY <1>1, InvariantHolds, PTL

\* The position of every account is what its executions add up to, also when a trade takes
\* it through zero or the account is no user, and as much is held long as short.
THEOREM PositionsHold == Spec => []PositionsAreNet
<1>1. Inv => PositionsAreNet
  BY NetIsPromised DEF Inv, TypeInv
<1>. QED
  BY <1>1, InvariantHolds, PTL

\* When flush_db has returned no chunk holds a row, and the last row of a position in the
\* table is the position in memory if no other has its Id.
THEOREM WrittenHold == Spec => []AllIsWritten
<1>1. Inv => AllIsWritten
  <2>. SUFFICES ASSUME Inv, flushed PROVE AllIsWritten
    BY DEF AllIsWritten
  <2>1. IsWritten(handler)
    BY DEF Inv
  <2>. QED
    BY <2>1 DEF IsWritten, AllIsWritten, LastRowsAre, LastRow, SelectLastInSeq
<1>. QED
  BY <1>1, InvariantHolds, PTL
=============================================================================

--------------------------- MODULE OrderBookProofs ---------------------------
(***************************************************************************)
(* AddOrder, DeleteOrder and ReduceOrder keep a book consistent: links,     *)
(* lists, volumes and best prices, whatever the collection; and they are    *)
(* steps of the queues: an order enters at the back of its level, leaves,   *)
(* or shrinks in place.                                                     *)
(***************************************************************************)
EXTENDS BookQueues, CollectionProofs

-----------------------------------------------------------------------------
(* The list of orders of a level *)

\* Unlink takes one element out and keeps the others in order.
LEMMA UnlinkElements ==
    ASSUME NEW S, NEW s \in Seq(S), NEW e \in Elements(s), Distinct(s)
    PROVE  /\ Unlink(s, e) \in Seq(S)
           /\ Len(Unlink(s, e)) = Len(s) - 1
           /\ Elements(Unlink(s, e)) = Elements(s) \ {e}
           /\ Distinct(Unlink(s, e))
<1> DEFINE i == CHOOSE n \in 1 .. Len(s) : s[n] = e
           t == Unlink(s, e)
<1>1. i \in 1 .. Len(s) /\ s[i] = e
  BY DEF Elements
<1> HIDE DEF i
<1>2. Len(s) \in Nat
  OBVIOUS
<1>3. t = RemoveAt(s, i)
  BY DEF Unlink, i
<1>6. /\ t \in Seq(S)
      /\ Len(t) = Len(s) - 1
      /\ \A n \in 1 .. Len(s) - 1 : t[n] = IF n < i THEN s[n] ELSE s[n + 1]
  BY <1>1, <1>3, RemoveAtProperties
<1> HIDE DEF t
<1>7. Elements(t) = Elements(s) \ {e}
  <2>1. ASSUME NEW x \in Elements(t) PROVE x \in Elements(s) \ {e}
    BY <1>1, <1>2, <1>6 DEF Elements, Distinct
  <2>2. ASSUME NEW x \in Elements(s), x # e PROVE x \in Elements(t)
    <3>1. PICK n \in 1 .. Len(s) : s[n] = x
      BY DEF Elements
    <3>2. CASE n < i
      <4>1. n \in 1 .. Len(s) - 1 /\ t[n] = s[n]
        BY <1>1, <1>2, <1>6, <3>2
      <4> QED
        BY <1>6, <3>1, <4>1 DEF Elements
    <3>3. CASE n > i
      <4>1. n - 1 \in 1 .. Len(s) - 1 /\ t[n - 1] = s[n]
        BY <1>1, <1>2, <1>6, <3>3
      <4> QED
        BY <1>6, <3>1, <4>1 DEF Elements
    <3> QED
      BY <1>1, <2>2, <3>1, <3>2, <3>3
  <2> QED
    BY <2>1, <2>2
<1>8. Distinct(t)
  <2> SUFFICES ASSUME NEW m \in 1 .. Len(s) - 1, NEW n \in 1 .. Len(s) - 1, t[m] = t[n]
               PROVE  m = n
    BY <1>6 DEF Distinct
  <2> DEFINE Old(p) == IF p < i THEN p ELSE p + 1
  <2>1. Old(m) \in 1 .. Len(s) /\ Old(n) \in 1 .. Len(s)
    BY <1>1, <1>2
  <2>2. t[m] = s[Old(m)] /\ t[n] = s[Old(n)]
    BY <1>6
  <2>3. Old(m) = Old(n)
    BY <2>1, <2>2 DEF Distinct
  <2> QED
    BY <1>1, <2>3
<1> QED
  BY <1>6, <1>7, <1>8 DEF t

-----------------------------------------------------------------------------
(* The best price *)

\* A bounded set of naturals has a greatest element.
LEMMA GreatestExists ==
    ASSUME NEW T \in SUBSET UInt64, T # {}
    PROVE  \E m \in T : \A n \in T : m >= n
<1> DEFINE Below == {UInt64Size - n : n \in T}
<1>1. Below \in SUBSET Nat /\ Below # {}
  <2>1. \A n \in T : n \in Int /\ UInt64Size - n \in Nat
    BY WidthAssumption DEF UInt64
  <2> QED
    BY <2>1
<1>2. PICK d \in Below : \A e \in Below : d <= e
  <2> HIDE DEF Below
  <2> QED
    BY <1>1, LeastExists
<1>3. PICK m \in T : d = UInt64Size - m
  OBVIOUS
<1>4. ASSUME NEW n \in T PROVE m >= n
  <2>1. d <= UInt64Size - n
    BY <1>2
  <2>2. m \in Int /\ n \in Int /\ UInt64Size \in Int
    BY WidthAssumption DEF UInt64
  <2> HIDE DEF Below
  <2> QED
    BY <1>3, <2>1, <2>2
<1> QED
  BY <1>4

\* Among prices of a collection one is better than all others.
LEMMA BestExists ==
    ASSUME NEW c, NEW T \in SUBSET UInt64, T # {}
    PROVE  \E p \in T : \A q \in T \ {p} : Better(c, p, q)
<1>1. T \in SUBSET Nat
  BY DEF UInt64
<1>2. CASE c \in BidCollections
  <2>1. PICK m \in T : \A n \in T : m >= n
    BY GreatestExists
  <2> QED
    BY <1>1, <1>2, <2>1 DEF Better
<1>3. CASE c \notin BidCollections
  <2>1. PICK m \in T : \A n \in T : m <= n
    BY <1>1, LeastExists
  <2> QED
    BY <1>1, <1>3, <2>1 DEF Better
<1> QED
  BY <1>2, <1>3

\* The prices of a collection are those of its levels.
LEMMA PricesInMember ==
    ASSUME NEW b, DOMAIN b.levels \subseteq LevelKey, NEW c, NEW p
    PROVE  /\ p \in PricesIn(b, c) <=> <<c, p>> \in DOMAIN b.levels
           /\ PricesIn(b, c) \subseteq UInt64
BY DEF PricesIn, LevelKey

\* The types of the best prices.
Bests == [Collections -> UInt64 \cup {NoPrice}]

LEMMA NoPriceIsNone == NoPrice \notin UInt64
BY NullAssumption, WidthAssumption DEF UInt64

\* The best of one collection, for a set of prices.
IsBestOf(c, T, best) ==
    IF T = {} THEN best = NoPrice ELSE best \in T /\ \A p \in T : ~Better(c, p, best)

LEMMA BestIsBestOf ==
    ASSUME NEW b
    PROVE  BestIsBest(b) <=> \A c \in Collections : IsBestOf(c, PricesIn(b, c), b.best[c])
BY DEF BestIsBest, IsBestOf

\* BestAfterAdd keeps the best prices when a level is created.
LEMMA AddLevelKeepsBest ==
    ASSUME NEW b, NEW b2, NEW k \in LevelKey,
           DOMAIN b.levels \subseteq LevelKey, b.best \in Bests, BestIsBest(b),
           DOMAIN b2.levels = DOMAIN b.levels \cup {k}, b2.best = BestAfterAdd(b, k)
    PROVE  b2.best \in Bests /\ BestIsBest(b2)
<1>1. k[1] \in Collections /\ k[2] \in UInt64 /\ k = <<k[1], k[2]>>
  BY DEF LevelKey
<1>2. b2.best \in Bests
  BY <1>1 DEF BestAfterAdd, Bests
<1>3. ASSUME NEW c \in Collections
      PROVE  IsBestOf(c, PricesIn(b2, c), b2.best[c])
  <2>1. /\ IsBestOf(c, PricesIn(b, c), b.best[c])
        /\ PricesIn(b, c) \subseteq UInt64
    BY BestIsBestOf, PricesInMember
  <2>2. ASSUME NEW p
        PROVE  p \in PricesIn(b2, c) <=> p \in PricesIn(b, c) \/ (c = k[1] /\ p = k[2])
    <3>1. DOMAIN b2.levels \subseteq LevelKey
      OBVIOUS
    <3>2. p \in PricesIn(b2, c) <=> <<c, p>> \in DOMAIN b2.levels
      BY <3>1, PricesInMember
    <3>3. p \in PricesIn(b, c) <=> <<c, p>> \in DOMAIN b.levels
      BY PricesInMember
    <3> QED
      BY <1>1, <3>2, <3>3
  <2>3. CASE c # k[1]
    <3>1. b2.best[c] = b.best[c]
      BY <2>3 DEF BestAfterAdd, Bests
    <3>2. PricesIn(b2, c) = PricesIn(b, c)
      BY <2>2, <2>3
    <3> QED
      BY <2>1, <3>1, <3>2
  <2>4. CASE c = k[1]
    <3>1. PricesIn(b2, c) = PricesIn(b, c) \cup {k[2]}
      BY <2>2, <2>4
    <3>2. b2.best[c] = IF b.best[c] = NoPrice THEN k[2]
                       ELSE IF Better(c, k[2], b.best[c]) THEN k[2] ELSE b.best[c]
      BY <2>4 DEF BestAfterAdd, Bests
    <3>3. CASE b.best[c] = NoPrice
      <4>1. PricesIn(b, c) = {}
        BY <2>1, <3>3, NoPriceIsNone DEF IsBestOf
      <4>2. ~Better(c, k[2], k[2])
        BY <1>1 DEF Better, UInt64
      <4> QED
        BY <3>1, <3>2, <3>3, <4>1, <4>2 DEF IsBestOf
    <3>4. CASE b.best[c] # NoPrice
      <4>1. b.best[c] \in PricesIn(b, c) /\ \A p \in PricesIn(b, c) : ~Better(c, p, b.best[c])
        BY <2>1, <3>4 DEF IsBestOf
      <4>2. b.best[c] \in Int /\ k[2] \in Int /\ PricesIn(b, c) \subseteq Int
        BY <1>1, <2>1, <4>1 DEF UInt64
      <4>3. \A p \in PricesIn(b2, c) : ~Better(c, p, b2.best[c])
        BY <3>1, <3>2, <3>4, <4>1, <4>2 DEF Better
      <4>4. b2.best[c] \in PricesIn(b2, c)
        BY <3>1, <3>2, <3>4, <4>1
      <4> QED
        BY <4>3, <4>4 DEF IsBestOf
    <3> QED
      BY <3>3, <3>4
  <2> QED
    BY <2>3, <2>4
<1> QED
  BY <1>2, <1>3, BestIsBestOf

\* DeleteLevel keeps the best prices: the next price on the worse side takes over.
LEMMA DeleteLevelKeepsBest ==
    ASSUME NEW b, NEW b2, NEW k \in DOMAIN b.levels,
           DOMAIN b.levels \subseteq LevelKey, b.best \in Bests, BestIsBest(b),
           DOMAIN b2.levels = DOMAIN b.levels \ {k},
           b2.best = [b.best EXCEPT ![k[1]] = IF @ = k[2] THEN NextPrice(b, k) ELSE @]
    PROVE  b2.best \in Bests /\ BestIsBest(b2)
<1> DEFINE worse == {p \in PricesIn(b, k[1]) : Better(k[1], k[2], p)}
           next == NextPrice(b, k)
<1>1. k[1] \in Collections /\ k[2] \in UInt64 /\ k = <<k[1], k[2]>>
  BY DEF LevelKey
<1>2. worse \subseteq UInt64
  BY PricesInMember
<1>3. /\ worse = {} => next = NoPrice
      /\ worse # {} => next \in worse /\ \A q \in worse \ {next} : Better(k[1], next, q)
  <2>1. CASE worse = {}
    BY <2>1 DEF NextPrice
  <2>2. CASE worse # {}
    <3>1. \E p \in worse : \A q \in worse \ {p} : Better(k[1], p, q)
      <4> HIDE DEF worse
      <4> QED
        BY <1>2, <2>2, BestExists
    <3>2. next = CHOOSE p \in worse : \A q \in worse \ {p} : Better(k[1], p, q)
      BY <2>2 DEF NextPrice
    <3> HIDE DEF worse, next
    <3> QED
      BY <2>2, <3>1, <3>2
  <2> QED
    BY <2>1, <2>2
<1> HIDE DEF next
<1>4. b2.best \in Bests
  BY <1>1, <1>2, <1>3 DEF Bests, next
<1>5. ASSUME NEW c \in Collections
      PROVE  IsBestOf(c, PricesIn(b2, c), b2.best[c])
  <2>1. /\ IsBestOf(c, PricesIn(b, c), b.best[c])
        /\ PricesIn(b, c) \subseteq UInt64
    BY BestIsBestOf, PricesInMember
  <2>2. ASSUME NEW p
        PROVE  p \in PricesIn(b2, c) <=> p \in PricesIn(b, c) /\ ~(c = k[1] /\ p = k[2])
    <3>1. DOMAIN b2.levels \subseteq LevelKey
      OBVIOUS
    <3>2. p \in PricesIn(b2, c) <=> <<c, p>> \in DOMAIN b2.levels
      BY <3>1, PricesInMember
    <3>3. p \in PricesIn(b, c) <=> <<c, p>> \in DOMAIN b.levels
      BY PricesInMember
    <3> QED
      BY <1>1, <3>2, <3>3
  <2>3. CASE c # k[1]
    <3>1. b2.best[c] = b.best[c]
      BY <2>3 DEF Bests
    <3>2. PricesIn(b2, c) = PricesIn(b, c)
      BY <2>2, <2>3
    <3> QED
      BY <2>1, <3>1, <3>2
  <2>4. CASE c = k[1]
    <3>1. PricesIn(b2, c) = PricesIn(b, c) \ {k[2]}
      BY <2>2, <2>4
    <3>2. b2.best[c] = IF b.best[c] = k[2] THEN next ELSE b.best[c]
      BY <2>4 DEF Bests, next
    <3>3. k[2] \in PricesIn(b, c)
      BY <1>1, <2>4, PricesInMember
    <3>4. b.best[c] \in PricesIn(b, c) /\ \A p \in PricesIn(b, c) : ~Better(c, p, b.best[c])
      BY <2>1, <3>3 DEF IsBestOf
    <3>5. PricesIn(b, c) \subseteq Int /\ k[2] \in Int
      BY <1>1, <2>1 DEF UInt64
    <3>6. CASE b.best[c] = k[2]
      <4>1. worse = PricesIn(b2, c)
        BY <2>4, <3>1, <3>4, <3>5, <3>6 DEF Better
      <4>2. \A p, q \in Int : Better(c, p, q) => ~Better(c, q, p)
        BY DEF Better
      <4>3. ASSUME worse # {}
            PROVE  next \in worse /\ \A p \in worse : ~Better(c, p, next)
        <5>1. \A p \in Int : ~Better(c, p, p)
          BY DEF Better
        <5> HIDE DEF worse
        <5> QED
          BY <1>2, <1>3, <2>4, <4>1, <4>2, <4>3, <5>1, <3>1, <3>5
      <4> HIDE DEF worse
      <4> QED
        BY <1>3, <3>2, <3>6, <4>1, <4>3 DEF IsBestOf
    <3>7. CASE b.best[c] # k[2]
      BY <3>1, <3>2, <3>4, <3>7 DEF IsBestOf
    <3> QED
      BY <3>6, <3>7
  <2> QED
    BY <2>3, <2>4
<1> QED
  BY <1>4, <1>5, BestIsBestOf

-----------------------------------------------------------------------------
(* Volumes: the arithmetic on uint64_t does not wrap if all orders fit *)

\* All orders together fit the volume of a level.
VolumesFit(ids, max) ==
    IsFiniteSet(ids) /\ max \in Nat /\ Cardinality(ids) * max < UInt64Size

\* A sum over orders with these ids is a uint64_t.
LEMMA SumFits ==
    ASSUME NEW ids, NEW max, VolumesFit(ids, max), NEW D \in SUBSET ids,
           NEW f \in [D -> 0 .. max]
    PROVE  IsFiniteSet(D) /\ f \in [D -> Nat] /\ Lots(f) \in UInt64
<1>1. IsFiniteSet(D)
  BY FS_Subset DEF VolumesFit
<1>2. f \in [D -> Nat] /\ \A x \in D : f[x] <= max
  BY DEF VolumesFit
<1>3. Lots(f) \in Nat
  BY <1>1, <1>2, LotsType
<1>4. Lots(f) <= Cardinality(ids) * max
  BY <1>2, LotsBound DEF VolumesFit
<1>5. Cardinality(ids) * max \in Nat
  BY FS_CardinalityType DEF VolumesFit
<1> QED
  BY <1>1, <1>2, <1>3, <1>4, <1>5, WidthAssumption DEF UInt64, VolumesFit

\* Adding a summand.
LEMMA SumAfterAdd ==
    ASSUME NEW ids, NEW max, VolumesFit(ids, max), NEW D \in SUBSET ids,
           NEW x \in ids \ D, NEW f \in [D -> 0 .. max], NEW g \in [D \cup {x} -> 0 .. max],
           \A y \in D : g[y] = f[y]
    PROVE  Wrap(Lots(f) + g[x]) = Lots(g) /\ g[x] <= Lots(g) /\ Lots(g) \in UInt64
<1>1. /\ IsFiniteSet(D \cup {x}) /\ g \in [D \cup {x} -> Nat] /\ Lots(g) \in UInt64
      /\ f \in [D -> Nat] /\ Lots(f) \in UInt64
  BY SumFits
<1>2. (D \cup {x}) \ {x} = D
  OBVIOUS
<1>3. Lots(g) = g[x] + Lots(f)
  BY <1>1, <1>2, LotsSplit
<1> QED
  BY <1>1, <1>3, WidthAssumption DEF Wrap, UInt64

\* Taking a summand away.
LEMMA SumAfterRemove ==
    ASSUME NEW ids, NEW max, VolumesFit(ids, max), NEW D \in SUBSET ids,
           NEW x \in D, NEW f \in [D -> 0 .. max], NEW g \in [D \ {x} -> 0 .. max],
           \A y \in D \ {x} : g[y] = f[y]
    PROVE  Wrap(Lots(f) - f[x]) = Lots(g) /\ Lots(g) \in UInt64
<1>1. /\ IsFiniteSet(D) /\ f \in [D -> Nat] /\ Lots(f) \in UInt64
      /\ g \in [D \ {x} -> Nat] /\ Lots(g) \in UInt64
  BY SumFits
<1>2. Lots(f) = f[x] + Lots(g)
  <2> DEFINE h == [y \in D \ {x} |-> f[y]]
  <2>1. h \in [D \ {x} -> Nat] /\ \A y \in D \ {x} : h[y] = f[y]
    BY <1>1
  <2>2. h = g
    BY <1>1, <2>1
  <2> HIDE DEF h
  <2>3. Lots(f) = f[x] + Lots(h)
    BY <1>1, <2>1, LotsSplit
  <2> QED
    BY <2>2, <2>3
<1> QED
  BY <1>1, <1>2, WidthAssumption DEF Wrap, UInt64

\* Making a summand smaller.
LEMMA SumAfterChange ==
    ASSUME NEW ids, NEW max, VolumesFit(ids, max), NEW D \in SUBSET ids,
           NEW x \in D, NEW f \in [D -> 0 .. max], NEW g \in [D -> 0 .. max],
           \A y \in D \ {x} : g[y] = f[y], g[x] <= f[x]
    PROVE  /\ Wrap(Lots(f) - (f[x] - g[x])) = Lots(g)
           /\ Wrap(Lots(f) - Wrap(f[x] - g[x])) = Lots(g)
           /\ Lots(g) \in UInt64
<1> DEFINE h == [y \in D \ {x} |-> f[y]]
<1>1. /\ IsFiniteSet(D) /\ f \in [D -> Nat] /\ Lots(f) \in UInt64
      /\ g \in [D -> Nat] /\ Lots(g) \in UInt64
  BY SumFits
<1>2. h \in [D \ {x} -> Nat] /\ \A y \in D \ {x} : h[y] = f[y] /\ h[y] = g[y]
  BY <1>1
<1> HIDE DEF h
<1>3. Lots(f) = f[x] + Lots(h) /\ Lots(g) = g[x] + Lots(h)
  BY <1>1, <1>2, LotsSplit
<1>4. IsFiniteSet(D \ {x})
  BY <1>1, FS_RemoveElement
<1>5. Lots(h) \in Nat
  BY <1>2, <1>4, LotsType
<1>6. f[x] \in Nat /\ g[x] \in Nat
  BY <1>1
<1> QED
  BY <1>1, <1>3, <1>5, <1>6, WidthAssumption DEF Wrap, UInt64

-----------------------------------------------------------------------------
(* Consistent books *)

\* The invariant of a book of orders with these ids, none larger than max.
BookInv(b, ids, max) == IsBook(b, ids, max) /\ IsConsistent(b)

-----------------------------------------------------------------------------
(* The invariant, order by order and level by level *)

LeavesIn(b, D) == [id \in D |-> b.orders[id].LeavesQuantity]
HiddenIn(b, D) == [id \in D |-> HiddenQuantity(b.orders[id])]
VisibleIn(b, D) == [id \in D |-> VisibleQuantity(b.orders[id])]

OrderOK(b, id, ids, max) ==
    LET o == b.orders[id]
    IN /\ o \in OrderNode(ids, max)
       /\ o.Id = id
       /\ o.Level = KeyOf(o)
       /\ o.Level \in DOMAIN b.levels
       /\ id \in Elements(b.levels[o.Level].OrderList)

LevelOK(b, k, ids) ==
    LET level == b.levels[k]
        D == Elements(level.OrderList)
    IN /\ level \in LevelNode(ids)
       /\ \A id \in D : id \in DOMAIN b.orders /\ b.orders[id].Level = k
       /\ Distinct(level.OrderList)
       /\ level.Orders = Len(level.OrderList)
       /\ level.TotalVolume > 0
       /\ level.TotalVolume = Lots(LeavesIn(b, D))
       /\ level.HiddenVolume = Lots(HiddenIn(b, D))
       /\ level.VisibleVolume = Lots(VisibleIn(b, D))

IsFunction(f) == f = [x \in DOMAIN f |-> f[x]]

BookShape(b, ids) ==
    /\ b = [orders |-> b.orders, levels |-> b.levels, best |-> b.best]
    /\ IsFunction(b.orders) /\ DOMAIN b.orders \subseteq ids
    /\ IsFunction(b.levels) /\ DOMAIN b.levels \subseteq LevelKey

\* The invariant says the same of every order and every level.
LEMMA BookInvParts ==
    ASSUME NEW b, NEW ids, NEW max
    PROVE  BookInv(b, ids, max) <=>
              /\ BookShape(b, ids)
              /\ \A id \in DOMAIN b.orders : OrderOK(b, id, ids, max)
              /\ \A k \in DOMAIN b.levels : LevelOK(b, k, ids)
              /\ b.best \in Bests
              /\ BestIsBest(b)
<1>1. \A level : OrdersOf(level) = Elements(level.OrderList)
  BY DEF OrdersOf, Elements
<1>2. IsBook(b, ids, max) <=>
         /\ BookShape(b, ids)
         /\ \A id \in DOMAIN b.orders : b.orders[id] \in OrderNode(ids, max)
         /\ \A k \in DOMAIN b.levels : b.levels[k] \in LevelNode(ids)
         /\ b.best \in Bests
  BY DEF IsBook, IsMap, BookShape, IsFunction, Bests
<1>3. OrdersAreLinked(b) <=>
         \A id \in DOMAIN b.orders :
            /\ b.orders[id].Id = id
            /\ b.orders[id].Level = KeyOf(b.orders[id])
            /\ b.orders[id].Level \in DOMAIN b.levels
            /\ id \in Elements(b.levels[b.orders[id].Level].OrderList)
  BY <1>1 DEF OrdersAreLinked
<1>4. ListsAreSound(b) <=>
         \A k \in DOMAIN b.levels :
            /\ \A id \in Elements(b.levels[k].OrderList) :
                  id \in DOMAIN b.orders /\ b.orders[id].Level = k
            /\ Distinct(b.levels[k].OrderList)
            /\ b.levels[k].Orders = Len(b.levels[k].OrderList)
  BY <1>1 DEF ListsAreSound, Distinct
<1>5. VolumesAreSums(b) <=>
         \A k \in DOMAIN b.levels :
            LET D == Elements(b.levels[k].OrderList)
            IN /\ b.levels[k].TotalVolume > 0
               /\ b.levels[k].TotalVolume = Lots(LeavesIn(b, D))
               /\ b.levels[k].HiddenVolume = Lots(HiddenIn(b, D))
               /\ b.levels[k].VisibleVolume = Lots(VisibleIn(b, D))
  BY <1>1 DEF VolumesAreSums, LeavesIn, HiddenIn, VisibleIn
<1>6. (\A id \in DOMAIN b.orders : OrderOK(b, id, ids, max)) <=>
         /\ \A id \in DOMAIN b.orders : b.orders[id] \in OrderNode(ids, max)
         /\ OrdersAreLinked(b)
  BY <1>3 DEF OrderOK
<1>7. (\A k \in DOMAIN b.levels : LevelOK(b, k, ids)) <=>
         /\ \A k \in DOMAIN b.levels : b.levels[k] \in LevelNode(ids)
         /\ ListsAreSound(b)
         /\ VolumesAreSums(b)
  BY <1>4, <1>5 DEF LevelOK
<1> QED
  BY <1>2, <1>6, <1>7 DEF BookInv, IsConsistent

\* The quantities of an order, visible and hidden, are bounded by the largest order.
LEMMA QuantitiesFit ==
    ASSUME NEW ids, NEW max, max \in Nat, NEW o \in OrderNode(ids, max)
    PROVE  /\ o.LeavesQuantity \in 1 .. max
           /\ HiddenQuantity(o) \in 0 .. max
           /\ VisibleQuantity(o) \in 0 .. max
<1>1. o.LeavesQuantity \in 1 .. max /\ o.MaxVisibleQuantity \in Nat
  BY DEF OrderNode, UInt64
<1> QED
  BY <1>1 DEF HiddenQuantity, VisibleQuantity

\* The summands of the volumes of a level.
LEMMA SummandTypes ==
    ASSUME NEW b, NEW ids, NEW max, max \in Nat, NEW D \in SUBSET DOMAIN b.orders,
           \A id \in D : b.orders[id] \in OrderNode(ids, max)
    PROVE  /\ LeavesIn(b, D) \in [D -> 0 .. max]
           /\ HiddenIn(b, D) \in [D -> 0 .. max]
           /\ VisibleIn(b, D) \in [D -> 0 .. max]
<1>1. \A id \in D : /\ b.orders[id].LeavesQuantity \in 0 .. max
                    /\ HiddenQuantity(b.orders[id]) \in 0 .. max
                    /\ VisibleQuantity(b.orders[id]) \in 0 .. max
  BY QuantitiesFit
<1> QED
  BY <1>1 DEF LeavesIn, HiddenIn, VisibleIn

\* A change elsewhere in the book does not disturb a level.
LEMMA LevelUndisturbed ==
    ASSUME NEW b, NEW b2, NEW k, NEW ids, LevelOK(b, k, ids),
           b2.levels[k] = b.levels[k],
           \A id \in Elements(b.levels[k].OrderList) :
              id \in DOMAIN b2.orders /\ b2.orders[id] = b.orders[id]
    PROVE  LevelOK(b2, k, ids)
<1> DEFINE D == Elements(b.levels[k].OrderList)
<1>1. /\ LeavesIn(b2, D) = LeavesIn(b, D)
      /\ HiddenIn(b2, D) = HiddenIn(b, D)
      /\ VisibleIn(b2, D) = VisibleIn(b, D)
  BY DEF LeavesIn, HiddenIn, VisibleIn
<1> QED
  BY <1>1 DEF LevelOK

-----------------------------------------------------------------------------
(* AddOrder *)

\* An order before it is linked.
Entrant(ids, max) ==
    [Id : ids, Type : OrderType \ {"MARKET"}, Side : OrderSide,
     Price : UInt64, StopPrice : UInt64,
     Quantity : 1 .. max, ExecutedQuantity : Nat, LeavesQuantity : 1 .. max,
     TimeInForce : OrderTimeInForce, MaxVisibleQuantity : UInt64, Slippage : UInt64,
     TrailingDistance : Int, TrailingStep : Int, Level : LevelKey \cup {NoLevel}]

\* An order is linked into the level of its type, side and price.
LEMMA LinkedOrder ==
    ASSUME NEW ids, NEW max, NEW o \in Entrant(ids, max)
    PROVE  LET linked == [o EXCEPT !.Level = KeyOf(o)]
           IN /\ KeyOf(o) \in LevelKey
              /\ linked \in OrderNode(ids, max)
              /\ linked.Id = o.Id
              /\ linked.Level = KeyOf(o)
              /\ KeyOf(linked) = KeyOf(o)
              /\ linked.LeavesQuantity = o.LeavesQuantity
              /\ HiddenQuantity(linked) = HiddenQuantity(o)
              /\ VisibleQuantity(linked) = VisibleQuantity(o)
<1> DEFINE linked == [o EXCEPT !.Level = KeyOf(o)]
<1>1. CollectionOf(o) \in Collections
  <2>1. o.Type \in {"LIMIT"} \cup StopTypes \cup TrailingTypes
    BY DEF Entrant, OrderType
  <2> QED
    BY <2>1 DEF CollectionOf, IsLimit, IsTrailing, StopTypes, TrailingTypes, Collections,
                BidCollections, AskCollections
<1>2. KeyOf(o) \in LevelKey
  BY <1>1 DEF KeyOf, Entrant, LevelKey
<1>3. linked \in OrderNode(ids, max)
  BY <1>2 DEF Entrant, OrderNode
<1>4. /\ linked.Id = o.Id /\ linked.Level = KeyOf(o)
      /\ linked.Type = o.Type /\ linked.Side = o.Side
      /\ linked.Price = o.Price /\ linked.StopPrice = o.StopPrice
      /\ linked.LeavesQuantity = o.LeavesQuantity
      /\ linked.MaxVisibleQuantity = o.MaxVisibleQuantity
  BY DEF Entrant
<1> HIDE DEF linked
<1>5. CollectionOf(linked) = CollectionOf(o)
  BY <1>4 DEF CollectionOf, IsLimit, IsTrailing, IsBuy
<1>6. /\ KeyOf(linked) = KeyOf(o)
      /\ HiddenQuantity(linked) = HiddenQuantity(o)
      /\ VisibleQuantity(linked) = VisibleQuantity(o)
  BY <1>4, <1>5 DEF KeyOf, IsLimit, HiddenQuantity, VisibleQuantity
<1> QED
  BY <1>2, <1>3, <1>4, <1>6 DEF linked

\* The volumes of a level after an order was linked, created or not.
LEMMA LevelPlusKeepsLevel ==
    ASSUME NEW ids, NEW max, VolumesFit(ids, max), NEW b, NEW b2,
           NEW k, NEW level, NEW o \in Entrant(ids, max),
           DOMAIN b.orders \subseteq ids,
           \A id \in DOMAIN b.orders : OrderOK(b, id, ids, max),
           o.Id \notin DOMAIN b.orders,
           \/ level = EmptyLevel
           \/ level = b.levels[k] /\ LevelOK(b, k, ids),
           k = KeyOf(o),
           b2.orders = Put(b.orders, o.Id, [o EXCEPT !.Level = k]),
           b2.levels[k] = LevelPlus(level, o)
    PROVE  /\ LevelOK(b2, k, ids)
           /\ o.Id \in Elements(b2.levels[k].OrderList)
<1> DEFINE D == Elements(level.OrderList)
           new == Elements(b2.levels[k].OrderList)
           linked == [o EXCEPT !.Level = k]
<1>1. /\ linked \in OrderNode(ids, max) /\ linked.Level = k
      /\ linked.LeavesQuantity = o.LeavesQuantity
      /\ HiddenQuantity(linked) = HiddenQuantity(o)
      /\ VisibleQuantity(linked) = VisibleQuantity(o)
  BY LinkedOrder
<1>2. o.Id \in ids
  BY DEF Entrant
<1> HIDE DEF linked
<1>3. /\ level \in LevelNode(ids)
      /\ D \subseteq DOMAIN b.orders
      /\ \A id \in D : b.orders[id].Level = k
      /\ Distinct(level.OrderList)
      /\ level.Orders = Len(level.OrderList)
      /\ level.TotalVolume = Lots(LeavesIn(b, D))
      /\ level.HiddenVolume = Lots(HiddenIn(b, D))
      /\ level.VisibleVolume = Lots(VisibleIn(b, D))
  <2>1. CASE level = EmptyLevel
    <3>1. /\ level.OrderList = << >> /\ level.Orders = 0 /\ level.TotalVolume = 0
          /\ level.HiddenVolume = 0 /\ level.VisibleVolume = 0
      BY <2>1 DEF EmptyLevel
    <3>2. Len(level.OrderList) = 0 /\ D = {}
      BY <3>1 DEF Elements
    <3>3. 0 \in UInt64
      BY WidthAssumption DEF UInt64
    <3>4. level \in LevelNode(ids)
      BY <2>1, <3>3 DEF EmptyLevel, LevelNode
    <3>5. /\ Lots(LeavesIn(b, D)) = 0
          /\ Lots(HiddenIn(b, D)) = 0
          /\ Lots(VisibleIn(b, D)) = 0
      BY <3>2, LotsEmpty DEF LeavesIn, HiddenIn, VisibleIn
    <3>6. Distinct(level.OrderList)
      BY <3>2 DEF Distinct
    <3> QED
      BY <3>1, <3>2, <3>4, <3>5, <3>6
  <2>2. CASE level = b.levels[k] /\ LevelOK(b, k, ids)
    BY <2>2 DEF LevelOK
  <2> QED
    BY <2>1, <2>2
<1>4. /\ DOMAIN b2.orders = DOMAIN b.orders \cup {o.Id}
      /\ b2.orders[o.Id] = linked
      /\ \A id \in DOMAIN b.orders : b2.orders[id] = b.orders[id]
  BY DEF Put, linked
<1>5. /\ level.OrderList \in Seq(ids)
      /\ b2.levels[k].OrderList = Append(level.OrderList, o.Id)
      /\ b2.levels[k].Orders = level.Orders + 1
      /\ b2.levels[k].TotalVolume = Wrap(level.TotalVolume + o.LeavesQuantity)
      /\ b2.levels[k].HiddenVolume = Wrap(level.HiddenVolume + HiddenQuantity(o))
      /\ b2.levels[k].VisibleVolume = Wrap(level.VisibleVolume + VisibleQuantity(o))
  BY <1>3 DEF LevelNode, LevelPlus
<1>6. /\ Append(level.OrderList, o.Id) \in Seq(ids)
      /\ Len(Append(level.OrderList, o.Id)) = Len(level.OrderList) + 1
      /\ new = D \cup {o.Id}
      /\ Distinct(Append(level.OrderList, o.Id))
  BY <1>2, <1>3, <1>5, AppendElements
<1> HIDE DEF D, new
<1>7. max \in Nat
  BY DEF VolumesFit
<1>8. D \in SUBSET ids /\ o.Id \in ids \ D
  BY <1>2, <1>3
<1>9. /\ LeavesIn(b, D) \in [D -> 0 .. max]
      /\ HiddenIn(b, D) \in [D -> 0 .. max]
      /\ VisibleIn(b, D) \in [D -> 0 .. max]
  BY <1>3, <1>7, SummandTypes DEF OrderOK
<1>10. /\ LeavesIn(b2, D \cup {o.Id}) \in [D \cup {o.Id} -> 0 .. max]
       /\ HiddenIn(b2, D \cup {o.Id}) \in [D \cup {o.Id} -> 0 .. max]
       /\ VisibleIn(b2, D \cup {o.Id}) \in [D \cup {o.Id} -> 0 .. max]
  <2>1. D \cup {o.Id} \in SUBSET DOMAIN b2.orders
    BY <1>3, <1>4
  <2>2. \A id \in D \cup {o.Id} : b2.orders[id] \in OrderNode(ids, max)
    BY <1>1, <1>3, <1>4 DEF OrderOK
  <2> QED
    BY <1>7, <2>1, <2>2, SummandTypes
<1>11. /\ Wrap(level.TotalVolume + o.LeavesQuantity) = Lots(LeavesIn(b2, new))
       /\ o.LeavesQuantity <= Lots(LeavesIn(b2, new))
       /\ Lots(LeavesIn(b2, new)) \in UInt64
  <2>1. /\ \A id \in D : LeavesIn(b2, D \cup {o.Id})[id] = LeavesIn(b, D)[id]
        /\ LeavesIn(b2, D \cup {o.Id})[o.Id] = o.LeavesQuantity
    BY <1>1, <1>3, <1>4 DEF LeavesIn
  <2> DEFINE f == LeavesIn(b, D)
             g == LeavesIn(b2, D \cup {o.Id})
  <2>2. f \in [D -> 0 .. max] /\ g \in [D \cup {o.Id} -> 0 .. max]
    BY <1>9, <1>10
  <2>3. \A id \in D : g[id] = f[id]
    BY <2>1
  <2> HIDE DEF f, g
  <2>4. Wrap(Lots(f) + g[o.Id]) = Lots(g) /\ g[o.Id] <= Lots(g) /\ Lots(g) \in UInt64
    BY <1>8, <2>2, <2>3, SumAfterAdd
  <2> QED
    BY <1>3, <1>6, <2>1, <2>4 DEF f, g
<1>12. /\ Wrap(level.HiddenVolume + HiddenQuantity(o)) = Lots(HiddenIn(b2, new))
       /\ Lots(HiddenIn(b2, new)) \in UInt64
  <2>1. /\ \A id \in D : HiddenIn(b2, D \cup {o.Id})[id] = HiddenIn(b, D)[id]
        /\ HiddenIn(b2, D \cup {o.Id})[o.Id] = HiddenQuantity(o)
    BY <1>1, <1>3, <1>4 DEF HiddenIn
  <2> DEFINE f == HiddenIn(b, D)
             g == HiddenIn(b2, D \cup {o.Id})
  <2>2. f \in [D -> 0 .. max] /\ g \in [D \cup {o.Id} -> 0 .. max]
    BY <1>9, <1>10
  <2>3. \A id \in D : g[id] = f[id]
    BY <2>1
  <2> HIDE DEF f, g
  <2>4. Wrap(Lots(f) + g[o.Id]) = Lots(g) /\ g[o.Id] <= Lots(g) /\ Lots(g) \in UInt64
    BY <1>8, <2>2, <2>3, SumAfterAdd
  <2> QED
    BY <1>3, <1>6, <2>1, <2>4 DEF f, g
<1>13. /\ Wrap(level.VisibleVolume + VisibleQuantity(o)) = Lots(VisibleIn(b2, new))
       /\ Lots(VisibleIn(b2, new)) \in UInt64
  <2>1. /\ \A id \in D : VisibleIn(b2, D \cup {o.Id})[id] = VisibleIn(b, D)[id]
        /\ VisibleIn(b2, D \cup {o.Id})[o.Id] = VisibleQuantity(o)
    BY <1>1, <1>3, <1>4 DEF VisibleIn
  <2> DEFINE f == VisibleIn(b, D)
             g == VisibleIn(b2, D \cup {o.Id})
  <2>2. f \in [D -> 0 .. max] /\ g \in [D \cup {o.Id} -> 0 .. max]
    BY <1>9, <1>10
  <2>3. \A id \in D : g[id] = f[id]
    BY <2>1
  <2> HIDE DEF f, g
  <2>4. Wrap(Lots(f) + g[o.Id]) = Lots(g) /\ g[o.Id] <= Lots(g) /\ Lots(g) \in UInt64
    BY <1>8, <2>2, <2>3, SumAfterAdd
  <2> QED
    BY <1>3, <1>6, <2>1, <2>4 DEF f, g
<1>14. b2.levels[k] \in LevelNode(ids)
  <2>1. Len(level.OrderList) \in Nat
    BY <1>5, LenProperties
  <2>2. b2.levels[k] =
          [TotalVolume |-> Lots(LeavesIn(b2, new)), HiddenVolume |-> Lots(HiddenIn(b2, new)),
           VisibleVolume |-> Lots(VisibleIn(b2, new)), Orders |-> level.Orders + 1,
           OrderList |-> Append(level.OrderList, o.Id)]
    BY <1>11, <1>12, <1>13 DEF LevelPlus
  <2> QED
    BY <1>3, <1>6, <1>11, <1>12, <1>13, <2>1, <2>2 DEF LevelNode
<1>15. o.LeavesQuantity > 0 /\ o.LeavesQuantity \in Int
  BY DEF Entrant
<1>16. Lots(LeavesIn(b2, new)) > 0
  BY <1>11, <1>15 DEF UInt64
<1>17. \A id \in new : id \in DOMAIN b2.orders /\ b2.orders[id].Level = k
  BY <1>1, <1>3, <1>4, <1>6
<1> QED
  BY <1>3, <1>5, <1>6, <1>11, <1>12, <1>13, <1>14, <1>16, <1>17 DEF LevelOK, new

\* AddOrder keeps the invariant for an order that is not in the book.
LEMMA AddOrderKeepsBook ==
    ASSUME NEW ids, NEW max, VolumesFit(ids, max), NEW b, BookInv(b, ids, max),
           NEW o \in Entrant(ids, max), o.Id \notin DOMAIN b.orders
    PROVE  BookInv(AddOrder(b, o), ids, max)
<1> DEFINE k == KeyOf(o)
           b2 == AddOrder(b, o)
           linked == [o EXCEPT !.Level = k]
           isNew == k \notin DOMAIN b.levels
           level == IF isNew THEN EmptyLevel ELSE b.levels[k]
<1>1. /\ BookShape(b, ids)
      /\ \A id \in DOMAIN b.orders : OrderOK(b, id, ids, max)
      /\ \A l \in DOMAIN b.levels : LevelOK(b, l, ids)
      /\ b.best \in Bests
      /\ BestIsBest(b)
  BY BookInvParts
<1>2. /\ k \in LevelKey
      /\ linked \in OrderNode(ids, max)
      /\ linked.Id = o.Id
      /\ linked.Level = k
      /\ KeyOf(linked) = k
  BY LinkedOrder
<1>3. o.Id \in ids
  BY DEF Entrant
<1>4. /\ b2.orders = Put(b.orders, o.Id, linked)
      /\ b2.levels = Put(b.levels, k, LevelPlus(level, o))
      /\ b2.best = IF isNew THEN BestAfterAdd(b, k) ELSE b.best
      /\ b2 = [orders |-> b2.orders, levels |-> b2.levels, best |-> b2.best]
  BY DEF AddOrder
<1> HIDE DEF b2, k, linked
<1>5. /\ DOMAIN b2.orders = DOMAIN b.orders \cup {o.Id}
      /\ b2.orders[o.Id] = linked
      /\ \A id \in DOMAIN b.orders : b2.orders[id] = b.orders[id]
      /\ DOMAIN b2.levels = DOMAIN b.levels \cup {k}
      /\ b2.levels[k] = LevelPlus(level, o)
      /\ \A l \in DOMAIN b.levels \ {k} : b2.levels[l] = b.levels[l]
  BY <1>4 DEF Put
<1>6. BookShape(b2, ids)
  BY <1>1, <1>2, <1>3, <1>4, <1>5 DEF BookShape, IsFunction, Put
<1>7. LevelOK(b2, k, ids) /\ o.Id \in Elements(b2.levels[k].OrderList)
  <2>1. \/ level = EmptyLevel
        \/ level = b.levels[k] /\ LevelOK(b, k, ids)
    BY <1>1
  <2>2. DOMAIN b.orders \subseteq ids
    BY <1>1 DEF BookShape
  <2> HIDE DEF level
  <2> QED
    BY <1>1, <1>4, <1>5, <2>1, <2>2, LevelPlusKeepsLevel DEF k, linked
<1>8. ASSUME NEW l \in DOMAIN b2.levels PROVE LevelOK(b2, l, ids)
  <2>1. CASE l = k
    BY <1>7, <2>1
  <2>2. CASE l # k
    <3>1. l \in DOMAIN b.levels /\ LevelOK(b, l, ids) /\ b2.levels[l] = b.levels[l]
      BY <1>1, <1>5, <2>2
    <3>2. \A id \in Elements(b.levels[l].OrderList) : id \in DOMAIN b.orders
      BY <3>1 DEF LevelOK
    <3> QED
      BY <1>5, <3>1, <3>2, LevelUndisturbed
  <2> QED
    BY <2>1, <2>2
<1>9. ASSUME NEW id \in DOMAIN b2.orders PROVE OrderOK(b2, id, ids, max)
  <2>1. CASE id = o.Id
    BY <1>2, <1>5, <1>7, <2>1 DEF OrderOK
  <2>2. CASE id # o.Id
    <3>1. id \in DOMAIN b.orders /\ OrderOK(b, id, ids, max) /\ b2.orders[id] = b.orders[id]
      BY <1>1, <1>5, <2>2
    <3> DEFINE l == b.orders[id].Level
    <3>2. l \in DOMAIN b.levels /\ id \in Elements(b.levels[l].OrderList)
      BY <3>1 DEF OrderOK
    <3>3. id \in Elements(b2.levels[l].OrderList)
      <4>1. CASE l # k
        BY <1>5, <3>2, <4>1
      <4>2. CASE l = k
        <5>1. level = b.levels[k]
          BY <3>2, <4>2
        <5>2. b.levels[k].OrderList \in Seq(ids)
          BY <1>1, <3>2, <4>2 DEF LevelOK, LevelNode
        <5>3. b2.levels[k].OrderList = Append(b.levels[k].OrderList, o.Id)
          BY <1>5, <5>1 DEF LevelPlus
        <5> QED
          BY <1>3, <3>2, <4>2, <5>2, <5>3, AppendElements
      <4> QED
        BY <4>1, <4>2
    <3> QED
      BY <1>5, <3>1, <3>2, <3>3 DEF OrderOK
  <2> QED
    BY <2>1, <2>2
<1>10. b2.best \in Bests /\ BestIsBest(b2)
  <2>1. DOMAIN b.levels \subseteq LevelKey
    BY <1>1 DEF BookShape
  <2>2. CASE isNew
    BY <1>1, <1>2, <1>4, <1>5, <2>1, <2>2, AddLevelKeepsBest
  <2>3. CASE ~isNew
    <3>1. DOMAIN b2.levels = DOMAIN b.levels /\ b2.best = b.best
      BY <1>4, <1>5, <2>3
    <3>2. \A c : PricesIn(b2, c) = PricesIn(b, c)
      BY <3>1 DEF PricesIn
    <3> QED
      BY <1>1, <3>1, <3>2 DEF BestIsBest
  <2> QED
    BY <2>2, <2>3
<1> QED
  BY <1>6, <1>8, <1>9, <1>10, BookInvParts DEF b2

-----------------------------------------------------------------------------
(* DeleteOrder *)

\* The level that DeleteOrder leaves behind, before it is stored or deleted.
LevelAfterDelete(b, id) ==
    LET o == b.orders[id]
    IN LevelWithout(LevelMinus(b.levels[o.Level], o.LeavesQuantity,
                               HiddenQuantity(o), VisibleQuantity(o)), id)

\* The fields of a level after its volumes were reduced.
LEMMA LevelMinusFields ==
    ASSUME NEW ids, NEW level \in LevelNode(ids), NEW total, NEW hidden, NEW visible
    PROVE  LET less == LevelMinus(level, total, hidden, visible)
           IN /\ less.TotalVolume = Wrap(level.TotalVolume - total)
              /\ less.HiddenVolume = Wrap(level.HiddenVolume - hidden)
              /\ less.VisibleVolume = Wrap(level.VisibleVolume - visible)
              /\ less.Orders = level.Orders
              /\ less.OrderList = level.OrderList
              /\ {less.TotalVolume, less.HiddenVolume, less.VisibleVolume} \subseteq UInt64
                    => less \in LevelNode(ids)
BY DEF LevelNode, LevelMinus

\* The fields of a level after an order was unlinked.
LEMMA LevelWithoutFields ==
    ASSUME NEW ids, NEW total, NEW hidden, NEW visible, NEW level, NEW id,
           NEW old \in LevelNode(ids), level = LevelMinus(old, total, hidden, visible)
    PROVE  LET rest == LevelWithout(level, id)
           IN /\ rest.TotalVolume = Wrap(old.TotalVolume - total)
              /\ rest.HiddenVolume = Wrap(old.HiddenVolume - hidden)
              /\ rest.VisibleVolume = Wrap(old.VisibleVolume - visible)
              /\ rest.Orders = old.Orders - 1
              /\ rest.OrderList = Unlink(old.OrderList, id)
              /\ /\ {rest.TotalVolume, rest.HiddenVolume, rest.VisibleVolume} \subseteq UInt64
                 /\ rest.Orders \in Nat
                 /\ rest.OrderList \in Seq(ids)
                 => rest \in LevelNode(ids)
BY DEF LevelNode, LevelMinus, LevelWithout

\* It has the other orders and their volumes; it is empty when its volume is zero.
LEMMA LevelWithoutKeepsLevel ==
    ASSUME NEW ids, NEW max, VolumesFit(ids, max), NEW b, BookInv(b, ids, max),
           NEW id \in DOMAIN b.orders
    PROVE  LET k == b.orders[id].Level
               level == LevelAfterDelete(b, id)
               D == Elements(level.OrderList)
           IN /\ level \in LevelNode(ids)
              /\ D = Elements(b.levels[k].OrderList) \ {id}
              /\ Distinct(level.OrderList)
              /\ level.Orders = Len(level.OrderList)
              /\ level.TotalVolume = Lots(LeavesIn(b, D))
              /\ level.HiddenVolume = Lots(HiddenIn(b, D))
              /\ level.VisibleVolume = Lots(VisibleIn(b, D))
              /\ level.TotalVolume = 0 => D = {}
<1> DEFINE k == b.orders[id].Level
           o == b.orders[id]
           old == b.levels[k]
           level == LevelAfterDelete(b, id)
           E == Elements(old.OrderList)
           D == Elements(level.OrderList)
<1>1. /\ BookShape(b, ids)
      /\ \A i \in DOMAIN b.orders : OrderOK(b, i, ids, max)
      /\ k \in DOMAIN b.levels /\ id \in E
      /\ LevelOK(b, k, ids)
  BY BookInvParts DEF OrderOK
<1>2. /\ old \in LevelNode(ids) /\ old.OrderList \in Seq(ids)
      /\ E \subseteq DOMAIN b.orders
      /\ Distinct(old.OrderList) /\ old.Orders = Len(old.OrderList)
      /\ old.TotalVolume = Lots(LeavesIn(b, E))
      /\ old.HiddenVolume = Lots(HiddenIn(b, E))
      /\ old.VisibleVolume = Lots(VisibleIn(b, E))
  BY <1>1 DEF LevelOK, LevelNode
<1>3. /\ level.TotalVolume = Wrap(old.TotalVolume - o.LeavesQuantity)
      /\ level.HiddenVolume = Wrap(old.HiddenVolume - HiddenQuantity(o))
      /\ level.VisibleVolume = Wrap(old.VisibleVolume - VisibleQuantity(o))
      /\ level.Orders = old.Orders - 1
      /\ level.OrderList = Unlink(old.OrderList, id)
      /\ /\ {level.TotalVolume, level.HiddenVolume, level.VisibleVolume} \subseteq UInt64
         /\ level.Orders \in Nat
         /\ level.OrderList \in Seq(ids)
         => level \in LevelNode(ids)
  <2> DEFINE total == o.LeavesQuantity
             hidden == HiddenQuantity(o)
             visible == VisibleQuantity(o)
             less == LevelMinus(old, total, hidden, visible)
  <2>1. level = LevelWithout(less, id)
    BY DEF LevelAfterDelete
  <2>2. old \in LevelNode(ids) /\ less = LevelMinus(old, total, hidden, visible)
    BY <1>2
  <2> HIDE DEF old, less, total, hidden, visible, level
  <2>3. /\ level.TotalVolume = Wrap(old.TotalVolume - total)
        /\ level.HiddenVolume = Wrap(old.HiddenVolume - hidden)
        /\ level.VisibleVolume = Wrap(old.VisibleVolume - visible)
        /\ level.Orders = old.Orders - 1
        /\ level.OrderList = Unlink(old.OrderList, id)
        /\ /\ {level.TotalVolume, level.HiddenVolume, level.VisibleVolume} \subseteq UInt64
           /\ level.Orders \in Nat
           /\ level.OrderList \in Seq(ids)
           => level \in LevelNode(ids)
    BY <2>1, <2>2, LevelWithoutFields
  <2> QED
    BY <2>3 DEF total, hidden, visible
<1>4. /\ level.OrderList = Unlink(old.OrderList, id)
      /\ level.OrderList \in Seq(ids)
      /\ Len(level.OrderList) = Len(old.OrderList) - 1
      /\ D = E \ {id}
      /\ Distinct(level.OrderList)
  <2> DEFINE s == old.OrderList
             t == Unlink(s, id)
  <2>1. s \in Seq(ids) /\ id \in Elements(s) /\ Distinct(s)
    BY <1>1, <1>2
  <2>2. level.OrderList = t
    BY <1>3
  <2> HIDE DEF s, level, k
  <2>3. t \in Seq(ids) /\ Len(t) = Len(s) - 1 /\ Elements(t) = Elements(s) \ {id} /\ Distinct(t)
    BY <2>1, UnlinkElements
  <2> QED
    BY <2>2, <2>3 DEF s
<1> HIDE DEF level, D, E, old, o
<1>5. max \in Nat /\ id \in E
  BY <1>1 DEF VolumesFit
<1>6. E \in SUBSET ids /\ D \in SUBSET ids /\ IsFiniteSet(D)
  <2>1. E \in SUBSET ids
    BY <1>1, <1>2 DEF BookShape
  <2> QED
    BY <1>4, <2>1, FS_Subset DEF VolumesFit
<1>7. \A i \in E : b.orders[i] \in OrderNode(ids, max)
  BY <1>1, <1>2 DEF OrderOK
<1>8. /\ LeavesIn(b, E) \in [E -> 0 .. max] /\ LeavesIn(b, D) \in [D -> 0 .. max]
      /\ HiddenIn(b, E) \in [E -> 0 .. max] /\ HiddenIn(b, D) \in [D -> 0 .. max]
      /\ VisibleIn(b, E) \in [E -> 0 .. max] /\ VisibleIn(b, D) \in [D -> 0 .. max]
  <2>1. /\ E \in SUBSET DOMAIN b.orders /\ D \in SUBSET DOMAIN b.orders
        /\ \A i \in D : b.orders[i] \in OrderNode(ids, max)
    BY <1>2, <1>4, <1>7
  <2> QED
    BY <1>5, <1>7, <2>1, SummandTypes
<1>9. level.TotalVolume = Lots(LeavesIn(b, D)) /\ Lots(LeavesIn(b, D)) \in UInt64
  <2> DEFINE f == LeavesIn(b, E)
             g == LeavesIn(b, D)
  <2>1. f[id] = o.LeavesQuantity /\ \A i \in E \ {id} : g[i] = f[i]
    BY <1>1, <1>4 DEF LeavesIn, o
  <2>2. f \in [E -> 0 .. max] /\ g \in [E \ {id} -> 0 .. max]
    BY <1>4, <1>8
  <2> HIDE DEF f, g
  <2>3. Wrap(Lots(f) - f[id]) = Lots(g) /\ Lots(g) \in UInt64
    BY <1>5, <1>6, <2>1, <2>2, SumAfterRemove
  <2> QED
    BY <1>2, <1>3, <2>1, <2>3 DEF f, g
<1>10. level.HiddenVolume = Lots(HiddenIn(b, D)) /\ Lots(HiddenIn(b, D)) \in UInt64
  <2> DEFINE f == HiddenIn(b, E)
             g == HiddenIn(b, D)
  <2>1. f[id] = HiddenQuantity(o) /\ \A i \in E \ {id} : g[i] = f[i]
    BY <1>1, <1>4 DEF HiddenIn, o
  <2>2. f \in [E -> 0 .. max] /\ g \in [E \ {id} -> 0 .. max]
    BY <1>4, <1>8
  <2> HIDE DEF f, g
  <2>3. Wrap(Lots(f) - f[id]) = Lots(g) /\ Lots(g) \in UInt64
    BY <1>5, <1>6, <2>1, <2>2, SumAfterRemove
  <2> QED
    BY <1>2, <1>3, <2>1, <2>3 DEF f, g
<1>11. level.VisibleVolume = Lots(VisibleIn(b, D)) /\ Lots(VisibleIn(b, D)) \in UInt64
  <2> DEFINE f == VisibleIn(b, E)
             g == VisibleIn(b, D)
  <2>1. f[id] = VisibleQuantity(o) /\ \A i \in E \ {id} : g[i] = f[i]
    BY <1>1, <1>4 DEF VisibleIn, o
  <2>2. f \in [E -> 0 .. max] /\ g \in [E \ {id} -> 0 .. max]
    BY <1>4, <1>8
  <2> HIDE DEF f, g
  <2>3. Wrap(Lots(f) - f[id]) = Lots(g) /\ Lots(g) \in UInt64
    BY <1>5, <1>6, <2>1, <2>2, SumAfterRemove, SMTT(30)
  <2> QED
    BY <1>2, <1>3, <2>1, <2>3 DEF f, g
<1>12. level.Orders = Len(level.OrderList) /\ level.Orders \in Nat
  <2>1. Len(level.OrderList) \in Nat
    BY <1>4, LenProperties
  <2> QED
    BY <1>2, <1>3, <1>4, <2>1
<1>13. level \in LevelNode(ids)
  BY <1>3, <1>4, <1>9, <1>10, <1>11, <1>12 DEF LevelNode
<1>14. ASSUME level.TotalVolume = 0 PROVE D = {}
  <2> SUFFICES ASSUME NEW i \in D PROVE FALSE
    OBVIOUS
  <2> DEFINE g == LeavesIn(b, D)
  <2>1. g[i] \in 1 .. max
    <3>1. b.orders[i] \in OrderNode(ids, max)
      BY <1>4, <1>7
    <3> QED
      BY <1>5, <3>1, QuantitiesFit DEF LeavesIn
  <2>2. g \in [D -> Nat]
    BY <1>8
  <2> HIDE DEF g
  <2>3. Lots(g) >= g[i]
    BY <1>6, <2>2, LotsAtLeast
  <2> QED
    BY <1>5, <1>9, <1>14, <2>1, <2>3 DEF g
<1> QED
  BY <1>4, <1>9, <1>10, <1>11, <1>12, <1>13, <1>14 DEF level, D, E, old

-----------------------------------------------------------------------------
(* Storing the level of an order that was removed or changed *)

\* The orders after the removal, or a change in place, of order id.
OnlyChanged(b, os, id, ids, max) ==
    /\ IsFunction(os)
    /\ DOMAIN os \subseteq DOMAIN b.orders
    /\ \A i \in DOMAIN b.orders \ {id} : i \in DOMAIN os /\ os[i] = b.orders[i]
    /\ id \in DOMAIN os =>
          /\ os[id] \in OrderNode(ids, max)
          /\ os[id].Id = id
          /\ os[id].Level = b.orders[id].Level
          /\ KeyOf(os[id]) = b.orders[id].Level

\* The level of order id, with volumes that are those of the orders left in it.
LevelFollows(b1, k, level, old, ids) ==
    LET D == Elements(level.OrderList)
    IN /\ level \in LevelNode(ids)
       /\ D = Elements(old.OrderList) \cap DOMAIN b1.orders
       /\ Distinct(level.OrderList)
       /\ level.Orders = Len(level.OrderList)
       /\ level.TotalVolume = Lots(LeavesIn(b1, D))
       /\ level.HiddenVolume = Lots(HiddenIn(b1, D))
       /\ level.VisibleVolume = Lots(VisibleIn(b1, D))
       /\ level.TotalVolume = 0 => D = {}

\* SetLevel restores the invariant: it deletes the level only when no order is in it.
LEMMA SetLevelKeepsBook ==
    ASSUME NEW ids, NEW max, NEW b, BookInv(b, ids, max),
           NEW id \in DOMAIN b.orders, NEW os, OnlyChanged(b, os, id, ids, max),
           NEW b1, b1 = [b EXCEPT !.orders = os],
           NEW k, k = b.orders[id].Level,
           NEW level, LevelFollows(b1, k, level, b.levels[k], ids)
    PROVE  BookInv(SetLevel(b1, k, level), ids, max)
<1> DEFINE b2 == SetLevel(b1, k, level)
           E == Elements(b.levels[k].OrderList)
           D == Elements(level.OrderList)
<1>1. /\ BookShape(b, ids)
      /\ \A i \in DOMAIN b.orders : OrderOK(b, i, ids, max)
      /\ \A l \in DOMAIN b.levels : LevelOK(b, l, ids)
      /\ b.best \in Bests
      /\ BestIsBest(b)
  BY BookInvParts
<1>2. /\ b1.orders = os /\ b1.levels = b.levels /\ b1.best = b.best
      /\ b1 = [orders |-> b1.orders, levels |-> b1.levels, best |-> b1.best]
  BY <1>1 DEF BookShape
<1>3. /\ k \in DOMAIN b.levels /\ k \in LevelKey
      /\ id \in E
      /\ \A i \in E : i \in DOMAIN b.orders /\ b.orders[i].Level = k
  BY <1>1 DEF OrderOK, LevelOK, BookShape
<1>4. /\ IsFunction(os)
      /\ DOMAIN os \subseteq DOMAIN b.orders
      /\ \A i \in DOMAIN b.orders \ {id} : i \in DOMAIN os /\ os[i] = b.orders[i]
      /\ id \in DOMAIN os =>
            /\ os[id] \in OrderNode(ids, max) /\ os[id].Id = id
            /\ os[id].Level = k /\ KeyOf(os[id]) = k
  BY DEF OnlyChanged
<1>5. /\ level \in LevelNode(ids)
      /\ D = E \cap DOMAIN os
      /\ Distinct(level.OrderList)
      /\ level.Orders = Len(level.OrderList)
      /\ level.TotalVolume = Lots(LeavesIn(b1, D))
      /\ level.HiddenVolume = Lots(HiddenIn(b1, D))
      /\ level.VisibleVolume = Lots(VisibleIn(b1, D))
      /\ level.TotalVolume = 0 => D = {}
  BY <1>2 DEF LevelFollows
<1>6. \* The other levels hold other orders.
      ASSUME NEW l \in DOMAIN b.levels, l # k
      PROVE  /\ LevelOK(b, l, ids)
             /\ \A i \in Elements(b.levels[l].OrderList) : i \in DOMAIN os /\ os[i] = b.orders[i]
  <2>1. LevelOK(b, l, ids)
    BY <1>1
  <2>2. \A i \in Elements(b.levels[l].OrderList) : i \in DOMAIN b.orders /\ b.orders[i].Level = l
    BY <2>1 DEF LevelOK
  <2> QED
    BY <1>4, <1>6, <2>1, <2>2
<1>7. \* The orders left are those of the book before, at their levels.
      ASSUME NEW i \in DOMAIN os
      PROVE  /\ os[i] \in OrderNode(ids, max) /\ os[i].Id = i
             /\ os[i].Level = KeyOf(os[i])
             /\ os[i].Level = b.orders[i].Level
             /\ os[i].Level \in DOMAIN b.levels
             /\ os[i].Level # k => i \in Elements(b.levels[os[i].Level].OrderList)
             /\ os[i].Level = k => i \in D
  <2>1. OrderOK(b, i, ids, max)
    BY <1>1, <1>4
  <2>2. CASE i = id
    BY <1>3, <1>4, <1>5, <2>2
  <2>3. CASE i # id
    BY <1>4, <1>5, <2>1, <2>3 DEF OrderOK
  <2> QED
    BY <2>2, <2>3
<1> HIDE DEF D, E
<1>8. CASE level.TotalVolume = 0
  <2>1. D = {}
    BY <1>5, <1>8
  <2>2. b2 = DeleteLevel(b1, k)
    BY <1>8 DEF SetLevel
  <2>3. /\ b2.orders = os
        /\ b2.levels = Drop(b.levels, k)
        /\ b2.best = [b.best EXCEPT ![k[1]] = IF @ = k[2] THEN NextPrice(b, k) ELSE @]
        /\ b2 = [orders |-> b2.orders, levels |-> b2.levels, best |-> b2.best]
    <3>1. NextPrice(b1, k) = NextPrice(b, k)
      BY <1>2 DEF NextPrice, PricesIn
    <3> QED
      BY <1>2, <2>2, <3>1, SMTT(30) DEF DeleteLevel
  <2> HIDE DEF b2
  <2>4. /\ DOMAIN b2.levels = DOMAIN b.levels \ {k}
        /\ \A l \in DOMAIN b.levels \ {k} : b2.levels[l] = b.levels[l]
    BY <2>3 DEF Drop
  <2>5. BookShape(b2, ids)
    BY <1>1, <1>4, <2>3, <2>4, SMTT(30) DEF BookShape, IsFunction, Drop
  <2>6. ASSUME NEW l \in DOMAIN b2.levels PROVE LevelOK(b2, l, ids)
    BY <1>6, <2>3, <2>4, LevelUndisturbed
  <2>7. ASSUME NEW i \in DOMAIN b2.orders PROVE OrderOK(b2, i, ids, max)
    <3>1. i \in DOMAIN os /\ b2.orders[i] = os[i]
      BY <2>3
    <3>2. os[i].Level # k /\ i \in Elements(b.levels[os[i].Level].OrderList)
      BY <1>7, <2>1, <3>1
    <3>3. os[i].Level \in DOMAIN b2.levels /\ b2.levels[os[i].Level] = b.levels[os[i].Level]
      BY <1>7, <2>4, <3>1, <3>2
    <3> QED
      BY <1>7, <3>1, <3>2, <3>3 DEF OrderOK
  <2>8. b2.best \in Bests /\ BestIsBest(b2)
    <3>1. DOMAIN b.levels \subseteq LevelKey
      BY <1>1 DEF BookShape
    <3> QED
      BY <1>1, <1>3, <2>3, <2>4, <3>1, DeleteLevelKeepsBest
  <2> QED
    BY <2>5, <2>6, <2>7, <2>8, BookInvParts DEF b2
<1>9. CASE level.TotalVolume # 0
  <2>1. b2 = [b1 EXCEPT !.levels = Put(@, k, level)]
    BY <1>9 DEF SetLevel
  <2>2. /\ b2.orders = os
        /\ b2.levels = Put(b.levels, k, level)
        /\ b2.best = b.best
        /\ b2 = [orders |-> b2.orders, levels |-> b2.levels, best |-> b2.best]
    BY <1>2, <2>1
  <2> HIDE DEF b2
  <2>3. /\ DOMAIN b2.levels = DOMAIN b.levels
        /\ b2.levels[k] = level
        /\ \A l \in DOMAIN b.levels \ {k} : b2.levels[l] = b.levels[l]
    BY <1>3, <2>2 DEF Put
  <2>4. BookShape(b2, ids)
    BY <1>1, <1>4, <2>2, <2>3 DEF BookShape, IsFunction, Put
  <2>5. LevelOK(b2, k, ids)
    <3>1. /\ LeavesIn(b2, D) = LeavesIn(b1, D)
          /\ HiddenIn(b2, D) = HiddenIn(b1, D)
          /\ VisibleIn(b2, D) = VisibleIn(b1, D)
      BY <1>2, <2>2 DEF LeavesIn, HiddenIn, VisibleIn
    <3>2. \A i \in D : i \in DOMAIN b2.orders /\ b2.orders[i].Level = k
      BY <1>3, <1>5, <1>7, <2>2
    <3>3. level.TotalVolume > 0
      BY <1>5, <1>9 DEF LevelNode, UInt64
    <3> QED
      BY <1>5, <2>3, <3>1, <3>2, <3>3 DEF LevelOK, D
  <2>6. ASSUME NEW l \in DOMAIN b2.levels PROVE LevelOK(b2, l, ids)
    <3>1. CASE l = k
      BY <2>5, <3>1
    <3>2. CASE l # k
      BY <1>6, <2>2, <2>3, <3>2, LevelUndisturbed
    <3> QED
      BY <3>1, <3>2
  <2>7. ASSUME NEW i \in DOMAIN b2.orders PROVE OrderOK(b2, i, ids, max)
    BY <1>7, <2>2, <2>3 DEF OrderOK, D
  <2>8. b2.best \in Bests /\ BestIsBest(b2)
    <3>1. \A c : PricesIn(b2, c) = PricesIn(b, c)
      BY <2>3 DEF PricesIn
    <3> QED
      BY <1>1, <2>2, <3>1 DEF BestIsBest
  <2> QED
    BY <2>4, <2>6, <2>7, <2>8, BookInvParts DEF b2
<1> QED
  BY <1>8, <1>9 DEF LevelNode

\* Dropping an order from the index.
LEMMA DroppedOrder ==
    ASSUME NEW ids, NEW max, NEW b, BookInv(b, ids, max), NEW id \in DOMAIN b.orders
    PROVE  LET os == Drop(b.orders, id)
           IN /\ OnlyChanged(b, os, id, ids, max)
              /\ DOMAIN os = DOMAIN b.orders \ {id}
<1> DEFINE os == Drop(b.orders, id)
<1>1. /\ DOMAIN os = DOMAIN b.orders \ {id}
      /\ \A i \in DOMAIN b.orders \ {id} : os[i] = b.orders[i]
      /\ IsFunction(os)
  BY DEF Drop, IsFunction
<1> HIDE DEF os
<1>2. OnlyChanged(b, os, id, ids, max)
  BY <1>1 DEF OnlyChanged
<1> QED
  BY <1>1, <1>2 DEF os

\* DeleteOrder keeps the invariant.
LEMMA DeleteOrderKeepsBook ==
    ASSUME NEW ids, NEW max, VolumesFit(ids, max), NEW b, BookInv(b, ids, max),
           NEW id \in DOMAIN b.orders
    PROVE  /\ BookInv(DeleteOrder(b, id), ids, max)
           /\ DeleteOrder(b, id).orders = Drop(b.orders, id)
<1> DEFINE k == b.orders[id].Level
           os == Drop(b.orders, id)
           b1 == [b EXCEPT !.orders = os]
           level == LevelAfterDelete(b, id)
           D == Elements(level.OrderList)
<1>1. DeleteOrder(b, id) = SetLevel(b1, k, level)
  BY DEF DeleteOrder, LevelAfterDelete
<1>2. OnlyChanged(b, os, id, ids, max) /\ DOMAIN os = DOMAIN b.orders \ {id}
  BY DroppedOrder
<1>3. /\ level \in LevelNode(ids)
      /\ D = Elements(b.levels[k].OrderList) \ {id}
      /\ Distinct(level.OrderList)
      /\ level.Orders = Len(level.OrderList)
      /\ level.TotalVolume = Lots(LeavesIn(b, D))
      /\ level.HiddenVolume = Lots(HiddenIn(b, D))
      /\ level.VisibleVolume = Lots(VisibleIn(b, D))
      /\ level.TotalVolume = 0 => D = {}
  BY LevelWithoutKeepsLevel
<1>4. \A i \in Elements(b.levels[k].OrderList) : i \in DOMAIN b.orders
  <2>1. OrderOK(b, id, ids, max) /\ \A l \in DOMAIN b.levels : LevelOK(b, l, ids)
    BY BookInvParts
  <2> QED
    BY <2>1 DEF OrderOK, LevelOK
<1>5. b1.orders = os
  BY BookInvParts DEF BookShape
<1> HIDE DEF level, os, b1, k
<1>6. \A i \in D : os[i] = b.orders[i]
  BY <1>2, <1>3, <1>4 DEF OnlyChanged
<1>7. /\ LeavesIn(b1, D) = LeavesIn(b, D)
      /\ HiddenIn(b1, D) = HiddenIn(b, D)
      /\ VisibleIn(b1, D) = VisibleIn(b, D)
  BY <1>5, <1>6 DEF LeavesIn, HiddenIn, VisibleIn
<1>8. D = Elements(b.levels[k].OrderList) \cap DOMAIN b1.orders
  BY <1>2, <1>3, <1>4, <1>5
<1>9. LevelFollows(b1, k, level, b.levels[k], ids)
  BY <1>3, <1>7, <1>8 DEF LevelFollows
<1>10. BookInv(SetLevel(b1, k, level), ids, max)
  BY <1>2, <1>9, SetLevelKeepsBook DEF b1, k
<1>11. SetLevel(b1, k, level).orders = os
  BY <1>5, BookInvParts DEF SetLevel, DeleteLevel, BookShape, b1
<1> QED
  BY <1>1, <1>10, <1>11 DEF os

-----------------------------------------------------------------------------
(* ReduceOrder *)

\* A quantity of an order fits uint64_t.
LEMMA QuantityFits ==
    ASSUME NEW ids, NEW max, VolumesFit(ids, max), NEW id \in ids, NEW n \in 0 .. max
    PROVE  n \in UInt64
<1> DEFINE f == [i \in {id} |-> n]
<1>1. {id} \in SUBSET ids /\ f \in [{id} -> 0 .. max] /\ f[id] = n
  OBVIOUS
<1> HIDE DEF f
<1>2. IsFiniteSet({id}) /\ f \in [{id} -> Nat] /\ Lots(f) \in UInt64
  BY <1>1, SumFits
<1>3. Lots(f) >= f[id]
  BY <1>2, LotsAtLeast
<1> QED
  BY <1>1, <1>2, <1>3, WidthAssumption DEF UInt64

\* The same order with a smaller leaves quantity, zero included.
IsReduced(o, old, ids, max) ==
    /\ o.Id = old.Id /\ o.Level = old.Level
    /\ o.Type = old.Type /\ o.Side = old.Side
    /\ o.Price = old.Price /\ o.StopPrice = old.StopPrice
    /\ o.MaxVisibleQuantity = old.MaxVisibleQuantity
    /\ o.LeavesQuantity \in 0 .. old.LeavesQuantity
    /\ o.LeavesQuantity > 0 => o \in OrderNode(ids, max)

\* Its hidden and visible parts are no larger.
LEMMA ReducedParts ==
    ASSUME NEW ids, NEW max, max \in Nat, NEW old \in OrderNode(ids, max),
           NEW o, IsReduced(o, old, ids, max)
    PROVE  /\ KeyOf(o) = KeyOf(old)
           /\ HiddenQuantity(o) \in 0 .. HiddenQuantity(old)
           /\ VisibleQuantity(o) \in 0 .. VisibleQuantity(old)
           /\ o.LeavesQuantity = 0 => HiddenQuantity(o) = 0 /\ VisibleQuantity(o) = 0
<1>1. KeyOf(o) = KeyOf(old)
  <2>1. CollectionOf(o) = CollectionOf(old)
    BY DEF IsReduced, CollectionOf, IsLimit, IsTrailing, IsBuy
  <2> QED
    BY <2>1 DEF IsReduced, KeyOf, IsLimit
<1>2. /\ old.MaxVisibleQuantity \in Nat /\ old.LeavesQuantity \in Nat
      /\ o.MaxVisibleQuantity = old.MaxVisibleQuantity
      /\ o.LeavesQuantity \in 0 .. old.LeavesQuantity
  BY DEF IsReduced, OrderNode, UInt64
<1> QED
  BY <1>1, <1>2 DEF HiddenQuantity, VisibleQuantity

\* A reduction to nothing is a deletion.
LEMMA ReduceToNothing ==
    ASSUME NEW ids, NEW max, VolumesFit(ids, max), NEW b, BookInv(b, ids, max),
           NEW id \in DOMAIN b.orders, NEW o, IsReduced(o, b.orders[id], ids, max),
           o.LeavesQuantity = 0
    PROVE  ReduceOrder(b, o) = DeleteOrder(b, id)
<1> DEFINE old == b.orders[id]
<1>1. /\ old \in OrderNode(ids, max) /\ old.Id = id /\ id \in ids /\ max \in Nat
  BY BookInvParts DEF OrderOK, BookShape, VolumesFit
<1>2. o.Id = id
  BY <1>1 DEF IsReduced
<1>3. HiddenQuantity(o) = 0 /\ VisibleQuantity(o) = 0
  BY <1>1, ReducedParts
<1>4. /\ old.LeavesQuantity \in 1 .. max
      /\ HiddenQuantity(old) \in 0 .. max
      /\ VisibleQuantity(old) \in 0 .. max
  BY <1>1, QuantitiesFit
<1>5. HiddenQuantity(old) \in UInt64 /\ VisibleQuantity(old) \in UInt64
  BY <1>1, <1>4, QuantityFits
<1>6. /\ old.LeavesQuantity - 0 = old.LeavesQuantity
      /\ Wrap(HiddenQuantity(old) - 0) = HiddenQuantity(old)
      /\ Wrap(VisibleQuantity(old) - 0) = VisibleQuantity(old)
  BY <1>4, <1>5, WidthAssumption DEF Wrap, UInt64
<1> QED
  BY <1>2, <1>3, <1>6 DEF ReduceOrder, DeleteOrder

\* The level of an order that was reduced in place.
LevelAfterReduce(b, o) ==
    LET old == b.orders[o.Id]
    IN LevelMinus(b.levels[old.Level], old.LeavesQuantity - o.LeavesQuantity,
                  Wrap(HiddenQuantity(old) - HiddenQuantity(o)),
                  Wrap(VisibleQuantity(old) - VisibleQuantity(o)))

\* ReduceOrder keeps the invariant; the order stays exactly if something is left.
LEMMA ReduceOrderKeepsBook ==
    ASSUME NEW ids, NEW max, VolumesFit(ids, max), NEW b, BookInv(b, ids, max),
           NEW id \in DOMAIN b.orders, NEW o, IsReduced(o, b.orders[id], ids, max)
    PROVE  /\ BookInv(ReduceOrder(b, o), ids, max)
           /\ ReduceOrder(b, o).orders =
                 IF o.LeavesQuantity = 0 THEN Drop(b.orders, id) ELSE Put(b.orders, id, o)
<1> DEFINE old == b.orders[id]
           k == old.Level
           L == b.levels[k]
           E == Elements(L.OrderList)
           os == Put(b.orders, id, o)
           b1 == [b EXCEPT !.orders = os]
           level == LevelAfterReduce(b, o)
<1>1. /\ BookShape(b, ids)
      /\ \A i \in DOMAIN b.orders : OrderOK(b, i, ids, max)
      /\ OrderOK(b, id, ids, max)
      /\ k \in DOMAIN b.levels /\ LevelOK(b, k, ids)
  BY BookInvParts DEF OrderOK
<1>2. /\ old \in OrderNode(ids, max) /\ old.Id = id /\ id \in E /\ max \in Nat
      /\ o.Id = id /\ old.Level = KeyOf(old)
  BY <1>1 DEF OrderOK, IsReduced, VolumesFit
<1>3. CASE o.LeavesQuantity = 0
  BY <1>3, ReduceToNothing, DeleteOrderKeepsBook
<1>4. CASE o.LeavesQuantity # 0
  <2>1. ReduceOrder(b, o) = SetLevel(b1, k, level)
    BY <1>2, <1>4 DEF ReduceOrder, LevelAfterReduce
  <2>2. o.LeavesQuantity > 0 /\ o \in OrderNode(ids, max) /\ o.Level = k /\ KeyOf(o) = k
    <3>1. o.LeavesQuantity \in 0 .. old.LeavesQuantity /\ old.LeavesQuantity \in 1 .. max
      BY <1>2, QuantitiesFit DEF IsReduced
    <3> QED
      BY <1>2, <1>4, <3>1, ReducedParts DEF IsReduced
  <2>3. /\ DOMAIN os = DOMAIN b.orders
        /\ os[id] = o
        /\ \A i \in DOMAIN b.orders \ {id} : os[i] = b.orders[i]
        /\ IsFunction(os)
    BY DEF Put, IsFunction
  <2>4. b1.orders = os
    BY <1>1 DEF BookShape
  <2>5. /\ L \in LevelNode(ids)
        /\ E \subseteq DOMAIN b.orders
        /\ Distinct(L.OrderList) /\ L.Orders = Len(L.OrderList)
        /\ L.TotalVolume = Lots(LeavesIn(b, E))
        /\ L.HiddenVolume = Lots(HiddenIn(b, E))
        /\ L.VisibleVolume = Lots(VisibleIn(b, E))
    BY <1>1 DEF LevelOK
  <2>6. /\ level.TotalVolume = Wrap(L.TotalVolume - (old.LeavesQuantity - o.LeavesQuantity))
        /\ level.HiddenVolume = Wrap(L.HiddenVolume - Wrap(HiddenQuantity(old) - HiddenQuantity(o)))
        /\ level.VisibleVolume = Wrap(L.VisibleVolume - Wrap(VisibleQuantity(old) - VisibleQuantity(o)))
        /\ level.Orders = L.Orders
        /\ level.OrderList = L.OrderList
        /\ {level.TotalVolume, level.HiddenVolume, level.VisibleVolume} \subseteq UInt64
              => level \in LevelNode(ids)
    <3> DEFINE total == old.LeavesQuantity - o.LeavesQuantity
               hidden == Wrap(HiddenQuantity(old) - HiddenQuantity(o))
               visible == Wrap(VisibleQuantity(old) - VisibleQuantity(o))
    <3>1. level = LevelMinus(L, total, hidden, visible)
      BY <1>2 DEF LevelAfterReduce
    <3> HIDE DEF total, hidden, visible, level, L
    <3>2. /\ level.TotalVolume = Wrap(L.TotalVolume - total)
          /\ level.HiddenVolume = Wrap(L.HiddenVolume - hidden)
          /\ level.VisibleVolume = Wrap(L.VisibleVolume - visible)
          /\ level.Orders = L.Orders
          /\ level.OrderList = L.OrderList
          /\ {level.TotalVolume, level.HiddenVolume, level.VisibleVolume} \subseteq UInt64
                => level \in LevelNode(ids)
      BY <2>5, <3>1, LevelMinusFields
    <3> QED
      BY <3>2 DEF total, hidden, visible
  <2> HIDE DEF b1, level, os, E, L, old, k
  <2>7. E \in SUBSET ids /\ E \in SUBSET DOMAIN b.orders /\ E \in SUBSET DOMAIN os
    BY <1>1, <2>3, <2>5 DEF BookShape
  <2>8. /\ \A i \in E : b.orders[i] \in OrderNode(ids, max)
        /\ \A i \in E : os[i] \in OrderNode(ids, max)
    <3>1. \A i \in E : b.orders[i] \in OrderNode(ids, max)
      BY <1>1, <2>5 DEF OrderOK
    <3> QED
      BY <2>2, <2>3, <2>5, <3>1
  <2>9. /\ LeavesIn(b, E) \in [E -> 0 .. max] /\ LeavesIn(b1, E) \in [E -> 0 .. max]
        /\ HiddenIn(b, E) \in [E -> 0 .. max] /\ HiddenIn(b1, E) \in [E -> 0 .. max]
        /\ VisibleIn(b, E) \in [E -> 0 .. max] /\ VisibleIn(b1, E) \in [E -> 0 .. max]
    BY <1>2, <2>4, <2>7, <2>8, SummandTypes
  <2>10. /\ HiddenQuantity(o) \in 0 .. HiddenQuantity(old)
         /\ VisibleQuantity(o) \in 0 .. VisibleQuantity(old)
         /\ o.LeavesQuantity \in 0 .. old.LeavesQuantity
         /\ old.LeavesQuantity \in 1 .. max
         /\ HiddenQuantity(old) \in 0 .. max
         /\ VisibleQuantity(old) \in 0 .. max
    BY <1>2, ReducedParts, QuantitiesFit DEF IsReduced, old
  <2>11. level.TotalVolume = Lots(LeavesIn(b1, E)) /\ Lots(LeavesIn(b1, E)) \in UInt64
    <3> DEFINE f == LeavesIn(b, E)
               g == LeavesIn(b1, E)
    <3>1. f[id] = old.LeavesQuantity /\ g[id] = o.LeavesQuantity
      BY <1>2, <2>3, <2>4 DEF LeavesIn, old
    <3>2. \A i \in E \ {id} : g[i] = f[i]
      BY <2>3, <2>4, <2>5 DEF LeavesIn
    <3>3. f \in [E -> 0 .. max] /\ g \in [E -> 0 .. max] /\ g[id] <= f[id]
      BY <2>9, <2>10, <3>1
    <3> HIDE DEF f, g
    <3>4. Wrap(Lots(f) - (f[id] - g[id])) = Lots(g) /\ Lots(g) \in UInt64
      BY <1>2, <2>7, <3>2, <3>3, SumAfterChange
    <3> QED
      BY <2>5, <2>6, <3>1, <3>4 DEF f, g
  <2>12. level.HiddenVolume = Lots(HiddenIn(b1, E)) /\ Lots(HiddenIn(b1, E)) \in UInt64
    <3> DEFINE f == HiddenIn(b, E)
               g == HiddenIn(b1, E)
    <3>1. f[id] = HiddenQuantity(old) /\ g[id] = HiddenQuantity(o)
      BY <1>2, <2>3, <2>4 DEF HiddenIn, old
    <3>2. \A i \in E \ {id} : g[i] = f[i]
      BY <2>3, <2>4, <2>5 DEF HiddenIn
    <3>3. f \in [E -> 0 .. max] /\ g \in [E -> 0 .. max] /\ g[id] <= f[id]
      BY <2>9, <2>10, <3>1
    <3> HIDE DEF f, g
    <3>4. Wrap(Lots(f) - Wrap(f[id] - g[id])) = Lots(g) /\ Lots(g) \in UInt64
      BY <1>2, <2>7, <3>2, <3>3, SumAfterChange
    <3> QED
      BY <2>5, <2>6, <3>1, <3>4 DEF f, g
  <2>13. level.VisibleVolume = Lots(VisibleIn(b1, E)) /\ Lots(VisibleIn(b1, E)) \in UInt64
    <3> DEFINE f == VisibleIn(b, E)
               g == VisibleIn(b1, E)
    <3>1. f[id] = VisibleQuantity(old) /\ g[id] = VisibleQuantity(o)
      BY <1>2, <2>3, <2>4 DEF VisibleIn, old
    <3>2. \A i \in E \ {id} : g[i] = f[i]
      BY <2>3, <2>4, <2>5 DEF VisibleIn
    <3>3. f \in [E -> 0 .. max] /\ g \in [E -> 0 .. max] /\ g[id] <= f[id]
      BY <2>9, <2>10, <3>1
    <3> HIDE DEF f, g
    <3>4. Wrap(Lots(f) - Wrap(f[id] - g[id])) = Lots(g) /\ Lots(g) \in UInt64
      BY <1>2, <2>7, <3>2, <3>3, SumAfterChange
    <3> QED
      BY <2>5, <2>6, <3>1, <3>4 DEF f, g
  <2>14. level.TotalVolume # 0
    <3> DEFINE g == LeavesIn(b1, E)
    <3>1. g[id] = o.LeavesQuantity
      BY <1>2, <2>3, <2>4 DEF LeavesIn
    <3>2. g \in [E -> Nat] /\ IsFiniteSet(E)
      BY <2>7, <2>9, SumFits
    <3> HIDE DEF g
    <3>3. Lots(g) >= g[id]
      BY <1>2, <3>2, LotsAtLeast
    <3> QED
      BY <2>2, <2>10, <2>11, <3>1, <3>3 DEF g, UInt64
  <2>15. Elements(level.OrderList) = E
    BY <2>6 DEF E, Elements
  <2>16. LevelFollows(b1, k, level, L, ids)
    BY <2>3, <2>4, <2>5, <2>6, <2>11, <2>12, <2>13, <2>14, <2>15 DEF LevelFollows, E
  <2>17. OnlyChanged(b, os, id, ids, max)
    BY <1>2, <2>2, <2>3 DEF OnlyChanged, k, old
  <2>18. BookInv(SetLevel(b1, k, level), ids, max)
    BY <2>16, <2>17, SetLevelKeepsBook DEF b1, k, L, old
  <2>19. SetLevel(b1, k, level).orders = os
    BY <1>1, <2>4, <2>14 DEF SetLevel, BookShape, b1
  <2> QED
    BY <1>4, <2>1, <2>18, <2>19 DEF os
<1> QED
  BY <1>3, <1>4
-----------------------------------------------------------------------------
(* Each of the three changes one level only *)

\* Only level k differs, and it is or was there.
OnlyLevelChanged(b, b2, k) ==
    /\ k \in DOMAIN b.levels \cup DOMAIN b2.levels
    /\ DOMAIN b.levels \ {k} = DOMAIN b2.levels \ {k}
    /\ \A l \in DOMAIN b.levels \ {k} : b2.levels[l] = b.levels[l]

\* A call of DeleteOrder, ReduceOrder or AddOrder changes one level only.
LEMMA SetLevelElsewhere ==
    ASSUME NEW ids, NEW b, BookShape(b, ids), NEW os, NEW b1, b1 = [b EXCEPT !.orders = os],
           NEW k \in DOMAIN b.levels, NEW level
    PROVE  OnlyLevelChanged(b, SetLevel(b1, k, level), k)
<1> DEFINE b2 == SetLevel(b1, k, level)
<1>1. b1.levels = b.levels /\ b1 = [orders |-> b1.orders, levels |-> b1.levels, best |-> b1.best]
  BY DEF BookShape
<1>2. b2.levels \in {Drop(b.levels, k), Put(b.levels, k, level)}
  BY <1>1 DEF SetLevel, DeleteLevel
<1> HIDE DEF b2
<1>3. /\ \A l \in DOMAIN b.levels \ {k} : l \in DOMAIN b2.levels /\ b2.levels[l] = b.levels[l]
      /\ DOMAIN b2.levels \subseteq DOMAIN b.levels \cup {k}
  BY <1>2 DEF Drop, Put
<1> QED
  BY <1>3 DEF OnlyLevelChanged, b2

LEMMA AddChangesOneLevel ==
    ASSUME NEW b, NEW o
    PROVE  OnlyLevelChanged(b, AddOrder(b, o), KeyOf(o))
<1> DEFINE k == KeyOf(o)
           b2 == AddOrder(b, o)
<1>1. \E level : b2.levels = Put(b.levels, k, level)
  BY DEF AddOrder
<1> HIDE DEF b2, k
<1>2. /\ DOMAIN b2.levels = DOMAIN b.levels \cup {k}
      /\ \A l \in DOMAIN b.levels \ {k} : b2.levels[l] = b.levels[l]
  BY <1>1 DEF Put
<1> QED
  BY <1>2 DEF OnlyLevelChanged, b2, k

LEMMA DeleteChangesOneLevel ==
    ASSUME NEW ids, NEW max, NEW b, BookInv(b, ids, max), NEW id \in DOMAIN b.orders
    PROVE  OnlyLevelChanged(b, DeleteOrder(b, id), b.orders[id].Level)
<1> DEFINE k == b.orders[id].Level
           b2 == DeleteOrder(b, id)
<1>1. k \in DOMAIN b.levels /\ BookShape(b, ids)
  BY BookInvParts DEF OrderOK
<1>2. \E os, b1, level : b1 = [b EXCEPT !.orders = os] /\ b2 = SetLevel(b1, k, level)
  BY DEF DeleteOrder
<1> HIDE DEF b2, k
<1>3. OnlyLevelChanged(b, b2, k)
  BY <1>1, <1>2, SetLevelElsewhere
<1> QED
  BY <1>3 DEF b2, k

LEMMA ReduceChangesOneLevel ==
    ASSUME NEW ids, NEW max, NEW b, BookInv(b, ids, max), NEW id \in DOMAIN b.orders,
           NEW o, o.Id = id
    PROVE  OnlyLevelChanged(b, ReduceOrder(b, o), b.orders[id].Level)
<1> DEFINE k == b.orders[id].Level
           b2 == ReduceOrder(b, o)
<1>1. k \in DOMAIN b.levels /\ BookShape(b, ids)
  BY BookInvParts DEF OrderOK
<1>2. \E os, b1, level : b1 = [b EXCEPT !.orders = os] /\ b2 = SetLevel(b1, k, level)
  BY DEF ReduceOrder
<1> HIDE DEF b2, k
<1>3. OnlyLevelChanged(b, b2, k)
  BY <1>1, <1>2, SetLevelElsewhere
<1> QED
  BY <1>3 DEF b2, k

-----------------------------------------------------------------------------
(* Queues *)

\* The ids an order can have, and the assumption that the volume of all orders
\* together does not overflow; when it does, a level can be deleted under its orders.
OrderIds == Ids \ {0}

VolumeFits == VolumesFit(OrderIds, MaxQuantity)

\* A book whose orders are the caller's.
Valid(b) == BookInv(b, OrderIds, MaxQuantity)

\* Every level has a queue.
AllKeys == QueueKeys = LevelKey

EntryOf(b, id) == [id |-> id, leaves |-> b.orders[id].LeavesQuantity]

-----------------------------------------------------------------------------
(* The queues of a valid book *)

LEMMA EntryType ==
    ASSUME NEW b, Valid(b), NEW id \in DOMAIN b.orders
    PROVE  EntryOf(b, id) \in Queues!Entry
<1>1. id \in OrderIds /\ b.orders[id] \in OrderNode(OrderIds, MaxQuantity)
  BY BookInvParts DEF Valid, BookShape, OrderOK
<1>2. b.orders[id].LeavesQuantity \in 1 .. MaxQuantity
  BY <1>1 DEF OrderNode
<1> QED
  BY <1>1, <1>2 DEF EntryOf, Queues!Entry, OrderIds

\* A queue has the orders of the list of its level.
LEMMA QueueOfLevel ==
    ASSUME NEW b, Valid(b), NEW k \in DOMAIN b.levels
    PROVE  LET list == b.levels[k].OrderList
               q == QueueAt(b, k)
           IN /\ list \in Seq(OrderIds) /\ Len(list) \in Nat /\ Distinct(list)
              /\ \A i \in 1 .. Len(list) :
                    list[i] \in DOMAIN b.orders /\ b.orders[list[i]].Level = k
              /\ q \in Seq(Queues!Entry) /\ Len(q) = Len(list)
              /\ \A i \in 1 .. Len(list) : q[i] = EntryOf(b, list[i])
<1> DEFINE list == b.levels[k].OrderList
           q == QueueAt(b, k)
<1>1. /\ list \in Seq(OrderIds) /\ Distinct(list)
      /\ \A id \in Elements(list) : id \in DOMAIN b.orders /\ b.orders[id].Level = k
  BY BookInvParts DEF Valid, LevelOK, LevelNode
<1>2. q = [i \in 1 .. Len(list) |-> EntryOf(b, list[i])]
  BY DEF QueueAt, EntryOf
<1> HIDE DEF list, q
<1>3. Len(list) \in Nat
  BY <1>1
<1>4. \A i \in 1 .. Len(list) : list[i] \in DOMAIN b.orders /\ b.orders[list[i]].Level = k
  BY <1>1 DEF Elements
<1>5. \A i \in 1 .. Len(list) : EntryOf(b, list[i]) \in Queues!Entry
  BY <1>4, EntryType
<1>6. q \in [1 .. Len(list) -> Queues!Entry]
  BY <1>2, <1>5
<1>7. q \in Seq(Queues!Entry)
  BY <1>3, <1>6, SeqDef
<1>8. Len(q) = Len(list)
  BY <1>3, <1>6, <1>7, LenProperties
<1> QED
  BY <1>1, <1>2, <1>3, <1>4, <1>7, <1>8 DEF list, q

\* Without a level there is no queue.
LEMMA QueueOfNoLevel ==
    ASSUME NEW b, NEW k, k \notin DOMAIN b.levels
    PROVE  QueueAt(b, k) = << >>
BY DEF QueueAt

LEMMA QueueType ==
    ASSUME NEW b, Valid(b), NEW k
    PROVE  QueueAt(b, k) \in Seq(Queues!Entry)
<1>1. CASE k \in DOMAIN b.levels
  BY <1>1, QueueOfLevel
<1>2. CASE k \notin DOMAIN b.levels
  BY <1>2, QueueOfNoLevel, EmptySeq
<1> QED
  BY <1>1, <1>2

\* An order is queued exactly if the book has it.
LEMMA QueuedOrders ==
    ASSUME NEW b, Valid(b), NEW id, Queues!Queued(QueuesOf(b), id)
    PROVE  id \in DOMAIN b.orders
<1> DEFINE q == QueuesOf(b)
<1>1. PICK place \in Queues!Places(q) : q[place[1]][place[2]].id = id
  BY DEF Queues!Queued
<1>2. PICK k \in QueueKeys : place \in {k} \X (1 .. Len(q[k]))
  BY DEF Queues!Places
<1> DEFINE i == place[2]
<1>3. i \in 1 .. Len(QueueAt(b, k)) /\ QueueAt(b, k)[i].id = id
  BY <1>1, <1>2 DEF QueuesOf
<1>4. k \in DOMAIN b.levels
  BY <1>3, QueueOfNoLevel, EmptySeq
<1> DEFINE list == b.levels[k].OrderList
<1>5. /\ i \in 1 .. Len(list) /\ list[i] \in DOMAIN b.orders
      /\ QueueAt(b, k)[i] = EntryOf(b, list[i])
  BY <1>3, <1>4, QueueOfLevel
<1> QED
  BY <1>3, <1>5 DEF EntryOf

\* The place of an order, at its level.
LEMMA PlaceOfOrder ==
    ASSUME NEW b, Valid(b), NEW id \in DOMAIN b.orders
    PROVE  LET k == b.orders[id].Level
               list == b.levels[k].OrderList
               i == CHOOSE n \in 1 .. Len(list) : list[n] = id
           IN /\ k \in DOMAIN b.levels /\ k \in LevelKey
              /\ i \in 1 .. Len(list) /\ list[i] = id
              /\ AllKeys => <<k, i>> \in Queues!Places(QueuesOf(b))
              /\ AllKeys => QueuesOf(b)[k] = QueueAt(b, k)
<1> DEFINE k == b.orders[id].Level
           list == b.levels[k].OrderList
           i == CHOOSE n \in 1 .. Len(list) : list[n] = id
<1>1. /\ k \in DOMAIN b.levels /\ k \in LevelKey
      /\ id \in Elements(list)
  BY BookInvParts DEF Valid, BookShape, OrderOK
<1>2. i \in 1 .. Len(list) /\ list[i] = id
  BY <1>1 DEF Elements
<1>3. Len(QueueAt(b, k)) = Len(list)
  BY <1>1, QueueOfLevel
<1> HIDE DEF k, list, i
<1>4. AllKeys => QueuesOf(b)[k] = QueueAt(b, k)
  BY <1>1 DEF AllKeys, QueuesOf
<1>5. AllKeys => <<k, i>> \in Queues!Places(QueuesOf(b))
  BY <1>1, <1>2, <1>3, <1>4 DEF AllKeys, Queues!Places
<1> QED
  BY <1>1, <1>2, <1>4, <1>5 DEF k, list, i

\* A change of one level, and of orders of that level, disturbs no other queue.
LEMMA OtherQueuesKept ==
    ASSUME NEW b, Valid(b), NEW b2, NEW k, OnlyLevelChanged(b, b2, k),
           \A id \in DOMAIN b.orders :
              b.orders[id].Level # k => b2.orders[id] = b.orders[id],
           NEW l, l # k
    PROVE  QueueAt(b2, l) = QueueAt(b, l)
<1>1. CASE l \notin DOMAIN b.levels
  <2>1. l \notin DOMAIN b2.levels
    BY <1>1 DEF OnlyLevelChanged
  <2> QED
    BY <1>1, <2>1, QueueOfNoLevel
<1>2. CASE l \in DOMAIN b.levels
  <2> DEFINE list == b.levels[l].OrderList
  <2>1. l \in DOMAIN b2.levels /\ b2.levels[l].OrderList = list
    BY <1>2 DEF OnlyLevelChanged
  <2>2. \A i \in 1 .. Len(list) : b2.orders[list[i]] = b.orders[list[i]]
    BY <1>2, QueueOfLevel
  <2> HIDE DEF list
  <2> QED
    BY <1>2, <2>1, <2>2 DEF QueueAt, list
<1> QED
  BY <1>1, <1>2

-----------------------------------------------------------------------------
(* The operations *)

\* AddOrder: the order enters at the back of its level's queue.
LEMMA AddEnters ==
    ASSUME VolumeFits, AllKeys, NEW b, Valid(b),
           NEW o \in Entrant(OrderIds, MaxQuantity), o.Id \notin DOMAIN b.orders
    PROVE  \E k \in QueueKeys, entry \in Queues!Entry :
              Queues!Enter(QueuesOf(b), QueuesOf(AddOrder(b, o)), k, entry)
<1> DEFINE k == KeyOf(o)
           b2 == AddOrder(b, o)
           linked == [o EXCEPT !.Level = k]
           old == IF k \notin DOMAIN b.levels THEN << >> ELSE b.levels[k].OrderList
           entry == [id |-> o.Id, leaves |-> o.LeavesQuantity]
           q == QueueAt(b, k)
           r == QueueAt(b2, k)
<1>1. Valid(b2)
  BY AddOrderKeepsBook DEF Valid, VolumeFits
<1>2. k \in LevelKey /\ linked.LeavesQuantity = o.LeavesQuantity
  BY LinkedOrder DEF Entrant
<1>3. entry \in Queues!Entry /\ entry.id = o.Id /\ o.Id \in OrderIds
  BY DEF Entrant, Queues!Entry, OrderIds
<1>4. OnlyLevelChanged(b, b2, k)
  BY AddChangesOneLevel
<1>5. /\ b2.orders = Put(b.orders, o.Id, linked)
      /\ b2.levels = Put(b.levels, k, LevelPlus(IF k \notin DOMAIN b.levels THEN EmptyLevel
                                                ELSE b.levels[k], o))
  BY DEF AddOrder
<1>6. k \in DOMAIN b2.levels /\ b2.levels[k].OrderList = Append(old, o.Id)
  BY <1>5, SMTT(30) DEF Put, LevelPlus, EmptyLevel
<1>7. /\ b2.orders[o.Id] = linked
      /\ \A id \in DOMAIN b.orders : b2.orders[id] = b.orders[id]
  BY <1>5 DEF Put
<1>8. /\ old \in Seq(OrderIds) /\ q \in Seq(Queues!Entry) /\ Len(q) = Len(old)
      /\ \A i \in 1 .. Len(old) : old[i] \in DOMAIN b.orders /\ q[i] = EntryOf(b, old[i])
  <2>1. CASE k \notin DOMAIN b.levels
    <3>1. old = << >> /\ q = << >>
      BY <2>1, QueueOfNoLevel
    <3> HIDE DEF old, q
    <3>2. 1 .. Len(old) = {}
      BY <3>1
    <3> QED
      BY <3>1, <3>2, EmptySeq
  <2>2. CASE k \in DOMAIN b.levels
    BY <2>2, QueueOfLevel
  <2> QED
    BY <2>1, <2>2
<1> HIDE DEF b2, k, linked, old, entry, q
<1>9. /\ Append(old, o.Id) \in Seq(OrderIds) /\ Len(Append(old, o.Id)) = Len(old) + 1
      /\ \A i \in 1 .. Len(old) : Append(old, o.Id)[i] = old[i]
      /\ Append(old, o.Id)[Len(old) + 1] = o.Id
      /\ Len(old) \in Nat
  BY <1>3, <1>8, AppendProperties, LenProperties
<1>10. /\ Append(q, entry) \in Seq(Queues!Entry) /\ Len(Append(q, entry)) = Len(q) + 1
       /\ \A i \in 1 .. Len(q) : Append(q, entry)[i] = q[i]
       /\ Append(q, entry)[Len(q) + 1] = entry
  BY <1>3, <1>8, AppendProperties
<1>11. /\ r \in Seq(Queues!Entry) /\ Len(r) = Len(old) + 1
       /\ \A i \in 1 .. Len(old) + 1 : r[i] = EntryOf(b2, Append(old, o.Id)[i])
  <2> DEFINE list == b2.levels[k].OrderList
  <2>1. /\ r \in Seq(Queues!Entry) /\ Len(r) = Len(list)
        /\ \A i \in 1 .. Len(list) : r[i] = EntryOf(b2, list[i])
    BY <1>1, <1>6, QueueOfLevel, SMTT(30)
  <2>2. list = Append(old, o.Id)
    BY <1>6
  <2> HIDE DEF list, r
  <2> QED
    BY <1>9, <2>1, <2>2
<1> HIDE DEF r
<1>12. r = Append(q, entry)
  <2>1. ASSUME NEW i \in 1 .. Len(old) + 1 PROVE r[i] = Append(q, entry)[i]
    <3>1. CASE i = Len(old) + 1
      <4>1. EntryOf(b2, o.Id) = entry
        BY <1>2, <1>7 DEF EntryOf, entry
      <4> QED
        BY <1>8, <1>9, <1>10, <1>11, <3>1, <4>1
    <3>2. CASE i # Len(old) + 1
      <4>1. i \in 1 .. Len(old)
        BY <1>9, <3>2
      <4>2. EntryOf(b2, old[i]) = EntryOf(b, old[i])
        BY <1>7, <1>8, <4>1 DEF EntryOf
      <4> QED
        BY <1>8, <1>9, <1>10, <1>11, <4>1, <4>2
    <3> QED
      BY <3>1, <3>2
  <2> QED
    BY <1>8, <1>9, <1>10, <1>11, <2>1, SeqEqual
<1>13. \A l : l # k => QueueAt(b2, l) = QueueAt(b, l)
  BY <1>4, <1>7, OtherQueuesKept
<1>14. QueuesOf(b2) = Queues!Entered(QueuesOf(b), k, entry)
  BY <1>2, <1>12, <1>13 DEF AllKeys, QueuesOf, Queues!Entered, q, r
<1>15. ~Queues!Queued(QueuesOf(b), entry.id)
  BY <1>3, QueuedOrders
<1> QED
  BY <1>2, <1>3, <1>14, <1>15 DEF AllKeys, Queues!Enter, b2

\* DeleteOrder: the order leaves, wherever it stands.
LEMMA DeleteLeaves ==
    ASSUME VolumeFits, AllKeys, NEW b, Valid(b), NEW id \in DOMAIN b.orders
    PROVE  \E place \in Queues!Places(QueuesOf(b)) :
              Queues!Leave(QueuesOf(b), QueuesOf(DeleteOrder(b, id)), place)
<1> DEFINE k == b.orders[id].Level
           b2 == DeleteOrder(b, id)
           list == b.levels[k].OrderList
           i == CHOOSE n \in 1 .. Len(list) : list[n] = id
           level == LevelAfterDelete(b, id)
           rest == level.OrderList
           q == QueueAt(b, k)
           r == QueueAt(b2, k)
<1>1. Valid(b2) /\ b2.orders = Drop(b.orders, id)
  BY DeleteOrderKeepsBook DEF Valid, VolumeFits
<1>2. /\ k \in DOMAIN b.levels /\ k \in LevelKey
      /\ i \in 1 .. Len(list) /\ list[i] = id
      /\ <<k, i>> \in Queues!Places(QueuesOf(b)) /\ QueuesOf(b)[k] = q
  BY PlaceOfOrder
<1>3. /\ list \in Seq(OrderIds) /\ Len(list) \in Nat /\ Distinct(list)
      /\ \A n \in 1 .. Len(list) : list[n] \in DOMAIN b.orders
      /\ q \in Seq(Queues!Entry) /\ Len(q) = Len(list)
      /\ \A n \in 1 .. Len(list) : q[n] = EntryOf(b, list[n])
  <2> HIDE DEF k, i
  <2> QED
    BY <1>2, QueueOfLevel
<1>4. /\ OnlyLevelChanged(b, b2, k)
      /\ \A j \in DOMAIN b.orders \ {id} : b2.orders[j] = b.orders[j]
  BY <1>1, DeleteChangesOneLevel DEF Valid, Drop
<1>5. rest = RemoveAt(list, i)
  <2>1. b.levels[k] \in LevelNode(OrderIds)
    BY <1>2, BookInvParts DEF Valid, LevelOK
  <2>2. rest = Unlink(list, id)
    BY <2>1, LevelWithoutFields DEF LevelAfterDelete
  <2> HIDE DEF rest, list
  <2> QED
    BY <2>2 DEF Unlink, i
<1>6. level.TotalVolume = 0 => Elements(rest) = {}
  BY LevelWithoutKeepsLevel DEF Valid, VolumeFits
<1>7. IF level.TotalVolume = 0 THEN k \notin DOMAIN b2.levels
      ELSE k \in DOMAIN b2.levels /\ b2.levels[k] = level
  <2> DEFINE b1 == [b EXCEPT !.orders = Drop(@, id)]
  <2>1. b2 = SetLevel(b1, k, level)
    BY DEF DeleteOrder, LevelAfterDelete
  <2>2. b1.levels = b.levels /\ b1 = [orders |-> b1.orders, levels |-> b1.levels, best |-> b1.best]
    BY BookInvParts DEF Valid, BookShape
  <2> HIDE DEF b1, b2, level
  <2>3. CASE level.TotalVolume = 0
    BY <2>1, <2>2, <2>3 DEF SetLevel, DeleteLevel, Drop
  <2>4. CASE level.TotalVolume # 0
    <3>1. b2.levels = Put(b.levels, k, level)
      BY <2>1, <2>2, <2>4 DEF SetLevel
    <3> QED
      BY <2>4, <3>1 DEF Put
  <2> QED
    BY <2>3, <2>4
<1>8. /\ rest \in Seq(OrderIds) /\ Len(rest) = Len(list) - 1
      /\ \A n \in 1 .. Len(list) - 1 : rest[n] = IF n < i THEN list[n] ELSE list[n + 1]
  <2>1. list \in Seq(OrderIds) /\ i \in 1 .. Len(list)
    BY <1>2, <1>3
  <2> HIDE DEF rest, i, list
  <2> QED
    BY ONLY <1>5, <2>1, RemoveAtProperties
<1>9. /\ RemoveAt(q, i) \in Seq(Queues!Entry) /\ Len(RemoveAt(q, i)) = Len(q) - 1
      /\ \A n \in 1 .. Len(q) - 1 : RemoveAt(q, i)[n] = IF n < i THEN q[n] ELSE q[n + 1]
  <2> HIDE DEF q, i, list
  <2> QED
    BY <1>2, <1>3, RemoveAtProperties
<1>10. /\ r \in Seq(Queues!Entry) /\ Len(r) = Len(rest)
       /\ \A n \in 1 .. Len(rest) : r[n] = EntryOf(b2, rest[n])
  <2>1. CASE level.TotalVolume = 0
    <3>1. Len(rest) = 0
      <4> HIDE DEF rest, list, i, level
      <4>1. Len(rest) \in Nat
        BY <1>8
      <4>2. Len(rest) > 0 => rest[1] \in Elements(rest)
        BY <4>1 DEF Elements
      <4> QED
        BY <1>6, <2>1, <4>1, <4>2
    <3>2. r = << >>
      BY <1>7, <2>1, QueueOfNoLevel
    <3> HIDE DEF r, rest
    <3> QED
      BY <3>1, <3>2, EmptySeq
  <2>2. CASE level.TotalVolume # 0
    <3>1. k \in DOMAIN b2.levels /\ b2.levels[k].OrderList = rest
      BY <1>7, <2>2
    <3> HIDE DEF b2, rest, level, k
    <3> QED
      BY <1>1, <3>1, QueueOfLevel
  <2> QED
    BY <2>1, <2>2
<1> HIDE DEF k, b2, list, i, level, rest, q, r
<1>11. r = RemoveAt(q, i)
  <2>1. ASSUME NEW n \in 1 .. Len(list) - 1 PROVE r[n] = RemoveAt(q, i)[n]
    <3> DEFINE m == IF n < i THEN n ELSE n + 1
    <3>1. m \in 1 .. Len(list) /\ m # i
      BY <1>2, <1>3
    <3>2. rest[n] = list[m] /\ RemoveAt(q, i)[n] = q[m]
      BY <1>3, <1>8, <1>9
    <3> HIDE DEF m
    <3>3. list[m] # id /\ list[m] \in DOMAIN b.orders
      BY <1>2, <1>3, <3>1 DEF Distinct
    <3>4. EntryOf(b2, list[m]) = EntryOf(b, list[m])
      BY <1>4, <3>3 DEF EntryOf
    <3> QED
      BY <1>3, <1>8, <1>10, <3>1, <3>2, <3>4
  <2> QED
    BY <1>3, <1>8, <1>9, <1>10, <2>1, SeqEqual
<1>12. \A l : l # k => QueueAt(b2, l) = QueueAt(b, l)
  <2>1. \A j \in DOMAIN b.orders : b.orders[j].Level # k => b2.orders[j] = b.orders[j]
    BY <1>4 DEF k
  <2> QED
    BY <1>4, <2>1, OtherQueuesKept
<1>13. QueuesOf(b2) = Queues!Left(QueuesOf(b), <<k, i>>)
  <2> DEFINE f == QueuesOf(b)
             place == <<k, i>>
             t == RemoveAt(f[k], i)
  <2>1. place[1] = k /\ place[2] = i
    OBVIOUS
  <2>2. /\ f = [l \in QueueKeys |-> QueueAt(b, l)]
        /\ k \in QueueKeys /\ QueueAt(b2, k) = t
    BY <1>2, <1>11 DEF AllKeys, QueuesOf, q, r
  <2>3. QueuesOf(b2) = [l \in QueueKeys |-> IF l = k THEN t ELSE QueueAt(b, l)]
    BY <1>12, <2>2 DEF QueuesOf
  <2> HIDE DEF f, place
  <2>4. Queues!Left(f, place) = [f EXCEPT ![k] = t]
    BY <2>1 DEF Queues!Left, Queues!RemoveAt, RemoveAt
  <2> HIDE DEF t
  <2>5. [f EXCEPT ![k] = t] = [l \in QueueKeys |-> IF l = k THEN t ELSE QueueAt(b, l)]
    BY <2>2
  <2> QED
    BY <2>3, <2>4, <2>5 DEF f, place
<1> QED
  BY <1>2, <1>13 DEF Queues!Leave, b2

\* ReduceOrder: the order leaves, or shrinks where it stands.
LEMMA ReduceShrinks ==
    ASSUME VolumeFits, AllKeys, NEW b, Valid(b), NEW id \in DOMAIN b.orders,
           NEW o, IsReduced(o, b.orders[id], OrderIds, MaxQuantity)
    PROVE  LET q == QueuesOf(b)
               r == QueuesOf(ReduceOrder(b, o))
           IN \/ r = q
              \/ \E place \in Queues!Places(q) :
                    \/ Queues!Leave(q, r, place)
                    \/ \E leaves \in 1 .. MaxQuantity : Queues!Shrink(q, r, place, leaves)
<1>1. CASE o.LeavesQuantity = 0
  <2>1. ReduceOrder(b, o) = DeleteOrder(b, id)
    BY <1>1, ReduceToNothing DEF Valid, VolumeFits
  <2> QED
    BY <2>1, DeleteLeaves
<1>2. CASE o.LeavesQuantity # 0
  <2> DEFINE old == b.orders[id]
             k == old.Level
             b2 == ReduceOrder(b, o)
             list == b.levels[k].OrderList
             i == CHOOSE n \in 1 .. Len(list) : list[n] = id
             q == QueueAt(b, k)
             r == QueueAt(b2, k)
  <2>1. Valid(b2) /\ b2.orders = Put(b.orders, id, o)
    BY <1>2, ReduceOrderKeepsBook DEF Valid, VolumeFits
  <2>2. /\ k \in DOMAIN b.levels /\ k \in LevelKey
        /\ i \in 1 .. Len(list) /\ list[i] = id
        /\ <<k, i>> \in Queues!Places(QueuesOf(b)) /\ QueuesOf(b)[k] = q
    BY PlaceOfOrder
  <2>3. old \in OrderNode(OrderIds, MaxQuantity) /\ old.Id = id
    BY BookInvParts DEF Valid, OrderOK
  <2>4. /\ o.Id = id /\ o.Level = k
        /\ o.LeavesQuantity \in 0 .. old.LeavesQuantity /\ old.LeavesQuantity \in 1 .. MaxQuantity
        /\ MaxQuantity \in Nat
    BY <2>3, QueueAssumption, WidthAssumption DEF IsReduced, OrderNode, UInt64
  <2>5. k \in DOMAIN b2.levels
    <3>1. id \in DOMAIN b2.orders /\ b2.orders[id] = o
      BY <2>1 DEF Put
    <3>2. OrderOK(b2, id, OrderIds, MaxQuantity)
      BY <2>1, <3>1, BookInvParts DEF Valid
    <3> QED
      BY <2>4, <3>1, <3>2 DEF OrderOK
  <2>6. b2.levels[k].OrderList = list
    <3> DEFINE level == LevelAfterReduce(b, o)
               b1 == [b EXCEPT !.orders = Put(@, id, o)]
    <3>1. b2 = SetLevel(b1, k, level)
      BY <1>2, <2>4 DEF ReduceOrder, LevelAfterReduce
    <3>2. b1.levels = b.levels /\ b1 = [orders |-> b1.orders, levels |-> b1.levels, best |-> b1.best]
      BY BookInvParts DEF Valid, BookShape
    <3>3. level.OrderList = list
      <4>1. b.levels[k] \in LevelNode(OrderIds)
        BY <2>2, BookInvParts DEF Valid, LevelOK
      <4> QED
        BY <2>4, <4>1, LevelMinusFields DEF LevelAfterReduce
    <3> HIDE DEF b1, b2, level, list, k
    <3>4. b2.levels \in {Drop(b.levels, k), Put(b.levels, k, level)}
      BY <3>1, <3>2 DEF SetLevel, DeleteLevel
    <3> QED
      BY <2>5, <3>3, <3>4 DEF Drop, Put
  <2>7. /\ list \in Seq(OrderIds) /\ Len(list) \in Nat /\ Distinct(list)
        /\ \A n \in 1 .. Len(list) : list[n] \in DOMAIN b.orders
        /\ q \in Seq(Queues!Entry) /\ Len(q) = Len(list)
        /\ \A n \in 1 .. Len(list) : q[n] = EntryOf(b, list[n])
    <3> HIDE DEF k, i
    <3> QED
      BY <2>2, QueueOfLevel
  <2>8. /\ r \in Seq(Queues!Entry) /\ Len(r) = Len(list)
        /\ \A n \in 1 .. Len(list) : r[n] = EntryOf(b2, list[n])
    <3> HIDE DEF b2, k, list
    <3> QED
      BY <2>1, <2>5, <2>6, QueueOfLevel
  <2>9. /\ b2.orders[id] = o
        /\ \A j \in DOMAIN b.orders \ {id} : b2.orders[j] = b.orders[j]
    BY <2>1 DEF Put
  <2>10. \A l : l # k => QueueAt(b2, l) = QueueAt(b, l)
    <3>1. OnlyLevelChanged(b, b2, k)
      BY <2>4, ReduceChangesOneLevel DEF Valid
    <3>2. \A j \in DOMAIN b.orders : b.orders[j].Level # k => b2.orders[j] = b.orders[j]
      BY <2>9
    <3> HIDE DEF b2, k
    <3> QED
      BY <3>1, <3>2, OtherQueuesKept
  <2>11. /\ r[i] = [id |-> id, leaves |-> o.LeavesQuantity]
         /\ q[i] = [id |-> id, leaves |-> old.LeavesQuantity]
         /\ \A n \in 1 .. Len(list) \ {i} : r[n] = q[n]
    <3> HIDE DEF b2, k, list, i, q, r
    <3>1. r[i] = EntryOf(b2, id) /\ q[i] = EntryOf(b, id)
      BY <2>2, <2>7, <2>8
    <3>2. ASSUME NEW n \in 1 .. Len(list) \ {i} PROVE r[n] = q[n]
      <4>1. list[n] # id /\ list[n] \in DOMAIN b.orders
        BY <2>2, <2>7 DEF Distinct
      <4>2. EntryOf(b2, list[n]) = EntryOf(b, list[n])
        BY <2>9, <4>1 DEF EntryOf
      <4>3. r[n] = EntryOf(b2, list[n]) /\ q[n] = EntryOf(b, list[n])
        BY <2>7, <2>8
      <4> QED
        BY <4>2, <4>3
    <3> QED
      BY <2>9, <3>1, <3>2 DEF EntryOf
  <2> HIDE DEF k, b2, list, i, q, r
  <2>12. CASE o.LeavesQuantity = old.LeavesQuantity
    <3>1. \A n \in 1 .. Len(list) : r[n] = q[n]
      BY <2>11, <2>12
    <3>2. r = q
      BY <2>7, <2>8, <3>1, SeqEqual
    <3>3. QueuesOf(b2) = QueuesOf(b)
      BY <2>10, <3>2 DEF QueuesOf, q, r
    <3> QED
      BY <3>3 DEF b2
  <2>13. CASE o.LeavesQuantity # old.LeavesQuantity
    <3> DEFINE leaves == o.LeavesQuantity
               f == QueuesOf(b)
               t == [q EXCEPT ![i].leaves = leaves]
               place == <<k, i>>
    <3>1. leaves \in 1 .. MaxQuantity /\ leaves < old.LeavesQuantity
      BY <1>2, <2>4, <2>13
    <3>2. r = t
      <4> DEFINE e == [id |-> id, leaves |-> leaves]
      <4>1. t = [q EXCEPT ![i] = e]
        <5>1. e = [q[i] EXCEPT !.leaves = leaves]
          BY <2>11
        <5> HIDE DEF e, leaves
        <5> QED
          BY <5>1
      <4>2. e \in Queues!Entry
        BY <2>2, <2>8, <2>11, ElementOfSeq
      <4> HIDE DEF e, t
      <4>3. /\ t \in Seq(Queues!Entry) /\ Len(t) = Len(q)
            /\ \A n \in 1 .. Len(q) : t[n] = IF n = i THEN e ELSE q[n]
        BY <2>2, <2>7, <4>1, <4>2, ExceptSeq
      <4>4. \A n \in 1 .. Len(list) : r[n] = t[n]
        BY <2>7, <2>11, <4>3 DEF e
      <4> QED
        BY <2>7, <2>8, <4>3, <4>4, SeqEqual
    <3>3. place[1] = k /\ place[2] = i
      OBVIOUS
    <3>4. /\ f = [l \in QueueKeys |-> QueueAt(b, l)] /\ f[k] = q
          /\ k \in QueueKeys /\ QueueAt(b2, k) = t
      BY <2>2, <3>2 DEF AllKeys, QueuesOf, r
    <3>5. QueuesOf(b2) = [l \in QueueKeys |-> IF l = k THEN t ELSE QueueAt(b, l)]
      BY <2>10, <3>4 DEF QueuesOf
    <3> HIDE DEF f, place, leaves
    <3>6. [f EXCEPT ![place[1]][place[2]].leaves = leaves] = [f EXCEPT ![k] = t]
      BY <3>3, <3>4
    <3> HIDE DEF t
    <3>7. [f EXCEPT ![k] = t] = [l \in QueueKeys |-> IF l = k THEN t ELSE QueueAt(b, l)]
      BY <3>4
    <3>8. leaves < f[place[1]][place[2]].leaves
      BY <2>11, <3>1, <3>3, <3>4
    <3>9. Queues!Shrink(f, QueuesOf(b2), place, leaves)
      BY <3>5, <3>6, <3>7, <3>8 DEF Queues!Shrink
    <3> QED
      BY <2>2, <3>1, <3>9 DEF f, place, b2
  <2> QED
    BY <2>12, <2>13
<1> QED
  BY <1>1, <1>2

-----------------------------------------------------------------------------
(* Prices and books *)

\* A trailing stop price is a price whatever the distance.
LEMMA TrailingStopPriceType ==
    ASSUME NEW b, b.best \in Bests, NEW l \in [bid : UInt64, ask : UInt64],
           NEW o, o.StopPrice \in UInt64, o.TrailingDistance \in Int, o.TrailingStep \in Int
    PROVE  CalculateTrailingStopPrice(b, l, o) \in UInt64
<1> DEFINE market == IF IsBuy(o) THEN MarketTrailingStopPriceAsk(b, l)
                     ELSE MarketTrailingStopPriceBid(b, l)
           Absolute(n) == IF o.TrailingDistance < 0
                          THEN ((-n * market) % UInt64Size) \div 10000 ELSE n
           distance == Absolute(o.TrailingDistance)
           step == Absolute(o.TrailingStep)
           up == IF market < Wrap(OrderIntMax - distance) THEN Wrap(market + distance)
                 ELSE OrderIntMax
           down == IF market > distance THEN market - distance ELSE 0
<1>1. UInt64 \subseteq Nat /\ 0 \in UInt64 /\ OrderIntMax \in UInt64 /\ UInt64Size \in Nat \ {0}
  BY WidthAssumption DEF UInt64
<1>2. market \in UInt64
  <2>1. b.best["bids"] \in UInt64 \cup {NoPrice} /\ b.best["asks"] \in UInt64 \cup {NoPrice}
    BY DEF Bests, Collections, BidCollections, AskCollections
  <2> QED
    BY <1>1, <2>1 DEF MarketTrailingStopPriceAsk, MarketTrailingStopPriceBid, BestPrice
<1>3. distance \in Nat
  <2>1. CASE o.TrailingDistance >= 0
    BY <2>1
  <2>2. CASE o.TrailingDistance < 0
    <3> DEFINE product == -o.TrailingDistance * market
    <3>1. product \in Int
      <4> DEFINE d == -o.TrailingDistance
      <4> HIDE DEF market
      <4>1. d \in Int
        OBVIOUS
      <4>2. market \in Int
        BY <1>1, <1>2
      <4> HIDE DEF d
      <4> QED
        BY <4>1, <4>2 DEF d
    <3> HIDE DEF product, market
    <3>2. product % UInt64Size \in Nat
      BY <1>1, <3>1
    <3>3. (product % UInt64Size) \div 10000 \in Nat
      BY <3>2
    <3> QED
      BY <2>2, <3>3 DEF product
  <2> QED
    BY <2>1, <2>2
<1>4. CalculateTrailingStopPrice(b, l, o) =
         IF IsBuy(o)
         THEN IF up < o.StopPrice /\ o.StopPrice - up >= step THEN up ELSE o.StopPrice
         ELSE IF down > o.StopPrice /\ down - o.StopPrice >= step THEN down ELSE o.StopPrice
  BY DEF CalculateTrailingStopPrice
<1> HIDE DEF market, distance, step
<1>5. up \in Nat
  BY <1>1, <1>2, <1>3 DEF Wrap, UInt64
<1>6. down \in UInt64
  BY <1>1, <1>2, <1>3 DEF UInt64
<1> HIDE DEF up, down
<1>7. up < o.StopPrice => up \in UInt64
  BY <1>1, <1>5 DEF UInt64
<1> QED
  BY <1>4, <1>6, <1>7

\* A new book is valid.
LEMMA EmptyBookIsValid ==
    Valid(EmptyBook) /\ DOMAIN EmptyBook.orders = {}
<1>1. /\ EmptyBook.orders = [id \in {} |-> 0]
      /\ EmptyBook.levels = [k \in {} |-> EmptyLevel]
      /\ EmptyBook.best = [c \in Collections |-> NoPrice]
      /\ EmptyBook = [orders |-> EmptyBook.orders, levels |-> EmptyBook.levels,
                      best |-> EmptyBook.best]
  BY DEF EmptyBook
<1>2. BookShape(EmptyBook, OrderIds)
  BY <1>1 DEF BookShape, IsFunction
<1>3. /\ \A id \in DOMAIN EmptyBook.orders : OrderOK(EmptyBook, id, OrderIds, MaxQuantity)
      /\ \A k \in DOMAIN EmptyBook.levels : LevelOK(EmptyBook, k, OrderIds)
  BY <1>1
<1>4. EmptyBook.best \in Bests
  BY <1>1 DEF Bests
<1>5. BestIsBest(EmptyBook)
  BY <1>1 DEF BestIsBest, PricesIn
<1> QED
  BY <1>1, <1>2, <1>3, <1>4, <1>5, BookInvParts DEF Valid

-----------------------------------------------------------------------------
(* Steps of the queues *)

\* From book b to book b2 an order enters.
Enters(b, b2) ==
    \E k \in QueueKeys, entry \in Queues!Entry :
        Queues!Enter(QueuesOf(b), QueuesOf(b2), k, entry)

\* From book b to book b2 the queues stay or take one step.
QueueStep(b, b2) ==
    AllKeys => \/ QueuesOf(b2) = QueuesOf(b)
               \/ Queues!Step(QueuesOf(b), QueuesOf(b2))

LEMMA EnterIsStep ==
    ASSUME NEW b, NEW b2, AllKeys => b2 = b \/ Enters(b, b2)
    PROVE  QueueStep(b, b2)
BY DEF Enters, QueueStep, Queues!Step

LEMMA DeleteIsStep ==
    ASSUME VolumeFits, NEW b, Valid(b), NEW id \in DOMAIN b.orders
    PROVE  QueueStep(b, DeleteOrder(b, id))
BY DeleteLeaves DEF QueueStep, Queues!Step

LEMMA ReduceIsStep ==
    ASSUME VolumeFits, NEW b, Valid(b), NEW id \in DOMAIN b.orders,
           NEW o, IsReduced(o, b.orders[id], OrderIds, MaxQuantity)
    PROVE  QueueStep(b, ReduceOrder(b, o))
<1> SUFFICES ASSUME AllKeys
             PROVE  \/ QueuesOf(ReduceOrder(b, o)) = QueuesOf(b)
                    \/ Queues!Step(QueuesOf(b), QueuesOf(ReduceOrder(b, o)))
  BY DEF QueueStep
<1>1. CASE QueuesOf(ReduceOrder(b, o)) = QueuesOf(b)
  BY <1>1
<1>2. CASE QueuesOf(ReduceOrder(b, o)) # QueuesOf(b)
  BY <1>2, ReduceShrinks DEF Queues!Step
<1> QED
  BY <1>1, <1>2

\* An order that is deleted and another that is linked, or none: one step.
LEMMA DeleteThenEnterIsStep ==
    ASSUME VolumeFits, NEW b, Valid(b), NEW id \in DOMAIN b.orders,
           NEW b2, AllKeys => b2 = DeleteOrder(b, id) \/ Enters(DeleteOrder(b, id), b2)
    PROVE  QueueStep(b, b2)
<1> DEFINE q == QueuesOf(b)
           q1 == QueuesOf(DeleteOrder(b, id))
           q2 == QueuesOf(b2)
<1> SUFFICES ASSUME AllKeys PROVE Queues!Step(q, q2)
  BY DEF QueueStep
<1>1. PICK place \in Queues!Places(q) : q1 = Queues!Left(q, place)
  BY DeleteLeaves DEF Queues!Leave
<1>2. CASE b2 = DeleteOrder(b, id)
  BY <1>1, <1>2 DEF Queues!Step, Queues!Leave
<1>3. CASE Enters(DeleteOrder(b, id), b2)
  <2>1. PICK k \in QueueKeys, entry \in Queues!Entry : Queues!Enter(q1, q2, k, entry)
    BY <1>3 DEF Enters
  <2> HIDE DEF q, q1, q2
  <2>2. Queues!Reenter(q, q2, place, k, entry)
    BY <1>1, <2>1 DEF Queues!Enter, Queues!Reenter
  <2> QED
    BY <2>2 DEF Queues!Step
<1> QED
  BY <1>2, <1>3
=============================================================================

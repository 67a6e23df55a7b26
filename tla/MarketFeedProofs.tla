--------------------------- MODULE MarketFeedProofs ---------------------------
(***************************************************************************)
(* For every feed that the exchange may send: the pools of the optimized    *)
(* managers are used by one level each, the depth of the aggressive manager *)
(* is exact, and the optimized one counts its orders.                       *)
(***************************************************************************)
EXTENDS MarketFeed, LevelPool, CollectionProofs

-----------------------------------------------------------------------------
(* The vectors of a book *)

Wings == {"bids", "asks"}

Entry == [Price : Int, Level : Nat]

Vectors == [Books -> [bids : Seq(Entry), asks : Seq(Entry)]]

\* Whether a price lies before another one, in a vector that goes up or one that goes down.
Before(dir, p, q) == IF dir = "up" THEN p < q ELSE q < p

Sorted(dir, levels) ==
    \A i, j \in 1 .. Len(levels) : i < j => Before(dir, levels[i].Price, levels[j].Price)

\* The entries that a scan from the back passes over, and the place it ends at.
NotBehind(dir, levels, price) ==
    {i \in 1 .. Len(levels) : ~Before(dir, price, levels[i].Price)}

ScanPlace(dir, levels, price) ==
    IF NotBehind(dir, levels, price) # {} THEN Max(NotBehind(dir, levels, price)) ELSE 0

HasPrice(levels, price) == \E e \in Elements(levels) : e.Price = price

LEMMA EntryAt ==
    ASSUME NEW levels \in Seq(Entry), NEW i \in 1 .. Len(levels)
    PROVE  levels[i] \in Elements(levels) /\ levels[i] \in Entry /\ levels[i].Price \in Int
<1>1. levels[i] \in Entry
  BY ElementOfSeq
<1>. QED
  BY <1>1 DEF Elements, Entry

\* Everything up to the place of the scan is not behind the price, everything after it is.
LEMMA ScanDivides ==
    ASSUME NEW dir, NEW levels \in Seq(Entry), Sorted(dir, levels), NEW price \in Int
    PROVE  /\ ScanPlace(dir, levels, price) \in 0 .. Len(levels)
           /\ \A i \in 1 .. Len(levels) :
                 i <= ScanPlace(dir, levels, price) <=> ~Before(dir, price, levels[i].Price)
<1>. DEFINE T == NotBehind(dir, levels, price)
            k == ScanPlace(dir, levels, price)
<1>1. Len(levels) \in Nat /\ T \in SUBSET (1 .. Len(levels))
  BY DEF NotBehind
<1>2. k \in 0 .. Len(levels) /\ (k > 0 => k \in T) /\ (\A m \in T : m <= k) /\ (k = 0 <=> T = {})
  BY <1>1, LastPlace DEF ScanPlace
<1>. HIDE DEF k
<1>3. ASSUME NEW i \in 1 .. Len(levels), i <= k
      PROVE  ~Before(dir, price, levels[i].Price)
  <2>1. k \in 1 .. Len(levels) /\ ~Before(dir, price, levels[k].Price)
    BY <1>1, <1>2, <1>3 DEF NotBehind
  <2>2. i # k => Before(dir, levels[i].Price, levels[k].Price)
    BY <1>1, <1>2, <1>3, <2>1 DEF Sorted
  <2>3. levels[i].Price \in Int /\ levels[k].Price \in Int
    BY <2>1, EntryAt
  <2>. QED
    BY <2>1, <2>2, <2>3 DEF Before
<1>4. ASSUME NEW i \in 1 .. Len(levels), ~Before(dir, price, levels[i].Price)
      PROVE  i <= k
  BY <1>2, <1>4 DEF NotBehind
<1>. QED
  BY <1>2, <1>3, <1>4 DEF k

\* A price that is there is at the place of the scan, which finds no other one.
LEMMA ScanFinds ==
    ASSUME NEW dir, NEW levels \in Seq(Entry), Sorted(dir, levels), NEW price \in Int
    PROVE  HasPrice(levels, price) <=>
              /\ ScanPlace(dir, levels, price) > 0
              /\ levels[ScanPlace(dir, levels, price)].Price = price
<1>. DEFINE k == ScanPlace(dir, levels, price)
<1>1. /\ Len(levels) \in Nat /\ k \in 0 .. Len(levels)
      /\ \A i \in 1 .. Len(levels) : i <= k <=> ~Before(dir, price, levels[i].Price)
  BY ScanDivides
<1>. HIDE DEF k
<1>2. ASSUME HasPrice(levels, price) PROVE k > 0 /\ levels[k].Price = price
  <2>1. PICK i \in 1 .. Len(levels) : levels[i].Price = price
    BY <1>2 DEF HasPrice, Elements
  <2>2. i <= k /\ k \in 1 .. Len(levels)
    BY <1>1, <2>1 DEF Before
  <2>3. levels[k].Price \in Int /\ ~Before(dir, price, levels[k].Price)
    BY <1>1, <2>2, EntryAt
  <2>4. i # k => Before(dir, price, levels[k].Price)
    BY <1>1, <2>1, <2>2 DEF Sorted
  <2>. QED
    BY <1>1, <2>1, <2>2, <2>3, <2>4
<1>3. ASSUME k > 0, levels[k].Price = price PROVE HasPrice(levels, price)
  BY <1>1, <1>3 DEF HasPrice, Elements
<1>. QED
  BY <1>2, <1>3 DEF k

\* The entries of a sorted vector have prices of their own.
LEMMA SortedPrices ==
    ASSUME NEW dir, NEW levels \in Seq(Entry), Sorted(dir, levels)
    PROVE  /\ \A i, j \in 1 .. Len(levels) : levels[i].Price = levels[j].Price => i = j
           /\ \A e, f \in Elements(levels) : e.Price = f.Price => e = f
           /\ Distinct(levels)
<1>1. \A i, j \in 1 .. Len(levels) : levels[i].Price = levels[j].Price => i = j
  <2>. SUFFICES ASSUME NEW i \in 1 .. Len(levels), NEW j \in 1 .. Len(levels),
                       levels[i].Price = levels[j].Price
                PROVE  i = j
    OBVIOUS
  <2>1. levels[i].Price \in Int
    BY EntryAt
  <2>2. ~(i < j) /\ ~(j < i)
    BY <2>1 DEF Sorted, Before
  <2>. QED
    BY <2>2
<1>. QED
  BY <1>1 DEF Elements, Distinct

LEMMA InsertKeepsSorted ==
    ASSUME NEW dir, NEW levels \in Seq(Entry), Sorted(dir, levels), NEW entry \in Entry,
           ~HasPrice(levels, entry.Price), NEW p, p = ScanPlace(dir, levels, entry.Price) + 1
    PROVE  /\ InsertAt(levels, p, entry) \in Seq(Entry)
           /\ Sorted(dir, InsertAt(levels, p, entry))
           /\ Elements(InsertAt(levels, p, entry)) = Elements(levels) \cup {entry}
<1>. DEFINE t == InsertAt(levels, p, entry)
            price == entry.Price
            k == ScanPlace(dir, levels, price)
<1>1. price \in Int
  BY DEF Entry
<1>2. /\ Len(levels) \in Nat /\ k \in 0 .. Len(levels)
      /\ \A i \in 1 .. Len(levels) : i <= k <=> ~Before(dir, price, levels[i].Price)
  <2>1. Len(levels) \in Nat
    BY LenProperties
  <2>2. levels \in Seq(Entry) /\ Sorted(dir, levels)
    OBVIOUS
  <2>. HIDE DEF price
  <2>. QED
    BY ONLY <1>1, <2>1, <2>2, ScanDivides
<1>a. p = k + 1 /\ p \in 1 .. Len(levels) + 1
  <2>1. p = k + 1
    OBVIOUS
  <2>. HIDE DEF k
  <2>. QED
    BY <1>2, <2>1
<1>. HIDE DEF k
<1>3. /\ t \in Seq(Entry) /\ Len(t) = Len(levels) + 1
      /\ \A n \in 1 .. Len(levels) + 1 :
            t[n] = IF n <= k THEN levels[n] ELSE IF n = k + 1 THEN entry ELSE levels[n - 1]
      /\ Elements(t) = Elements(levels) \cup {entry}
  <2>1. /\ t \in Seq(Entry) /\ Len(t) = Len(levels) + 1
        /\ \A n \in 1 .. Len(levels) + 1 :
            t[n] = IF n < p THEN levels[n] ELSE IF n = p THEN entry ELSE levels[n - 1]
    BY <1>a, InsertAtProperties
  <2>2. Elements(t) = Elements(levels) \cup {entry}
    BY <1>a, InsertAtElements
  <2>. HIDE DEF t
  <2>3. \A n \in 1 .. Len(levels) + 1 : n < p <=> n <= k
    BY <1>2, <1>a
  <2>. QED
    BY <1>a, <2>1, <2>2, <2>3
<1>. HIDE DEF t
<1>4. \A i \in 1 .. Len(levels) : /\ i <= k => Before(dir, levels[i].Price, entry.Price)
                                  /\ i > k => Before(dir, entry.Price, levels[i].Price)
  <2>. SUFFICES ASSUME NEW i \in 1 .. Len(levels)
                PROVE  /\ i <= k => Before(dir, levels[i].Price, entry.Price)
                       /\ i > k => Before(dir, entry.Price, levels[i].Price)
    OBVIOUS
  <2>1. levels[i].Price # entry.Price /\ levels[i].Price \in Int
    BY EntryAt DEF HasPrice
  <2>. QED
    BY <1>1, <1>2, <2>1 DEF Before
<1>5. Sorted(dir, t)
  <2>. SUFFICES ASSUME NEW i \in 1 .. Len(levels) + 1, NEW j \in 1 .. Len(levels) + 1, i < j
                PROVE  Before(dir, t[i].Price, t[j].Price)
    BY <1>3 DEF Sorted
  <2>1. CASE j <= k
    BY <1>2, <1>3, <2>1 DEF Sorted
  <2>2. CASE j = k + 1
    <3>1. i <= k /\ i \in 1 .. Len(levels) /\ j \in 1 .. Len(levels) + 1
      BY <1>2, <2>2
    <3>2. t[i] = levels[i] /\ t[j] = entry
      BY <1>2, <1>3, <2>2, <3>1
    <3>. QED
      BY <1>4, <3>1, <3>2
  <2>3. CASE j > k + 1 /\ i <= k
    <3>1. j - 1 \in 1 .. Len(levels) /\ i \in 1 .. Len(levels) /\ i < j - 1
      BY <1>2, <2>3
    <3>2. t[i] = levels[i] /\ t[j] = levels[j - 1]
      BY <1>2, <1>3, <2>3
    <3>. QED
      BY <3>1, <3>2 DEF Sorted
  <2>4. CASE j > k + 1 /\ i = k + 1
    <3>1. j - 1 \in 1 .. Len(levels) /\ j - 1 > k
      BY <1>2, <2>4
    <3>2. t[i] = entry /\ t[j] = levels[j - 1]
      BY <1>2, <1>3, <2>4
    <3>. QED
      BY <1>4, <3>1, <3>2
  <2>5. CASE j > k + 1 /\ i > k + 1
    <3>1. j - 1 \in 1 .. Len(levels) /\ i - 1 \in 1 .. Len(levels) /\ i - 1 < j - 1
      BY <1>2, <2>5
    <3>2. t[i] = levels[i - 1] /\ t[j] = levels[j - 1]
      BY <1>2, <1>3, <2>5
    <3>. QED
      BY <3>1, <3>2 DEF Sorted
  <2>. QED
    BY <1>2, <2>1, <2>2, <2>3, <2>4, <2>5
<1>. QED
  BY <1>3, <1>5 DEF t

LEMMA RemoveKeepsSorted ==
    ASSUME NEW dir, NEW levels \in Seq(Entry), Sorted(dir, levels), NEW i \in 1 .. Len(levels)
    PROVE  LET t == RemoveAt(levels, i)
           IN  t \in Seq(Entry) /\ Sorted(dir, t) /\ Elements(t) = Elements(levels) \ {levels[i]}
<1>. DEFINE t == RemoveAt(levels, i)
<1>1. /\ t \in Seq(Entry) /\ Len(t) = Len(levels) - 1
      /\ \A n \in 1 .. Len(levels) - 1 : t[n] = IF n < i THEN levels[n] ELSE levels[n + 1]
  BY RemoveAtProperties
<1>2. Elements(t) = Elements(levels) \ {levels[i]}
  BY SortedPrices, RemoveAtElements
<1>. HIDE DEF t
<1>3. Sorted(dir, t)
  <2>. SUFFICES ASSUME NEW m \in 1 .. Len(levels) - 1, NEW n \in 1 .. Len(levels) - 1, m < n
                PROVE  Before(dir, t[m].Price, t[n].Price)
    BY <1>1 DEF Sorted
  <2>. DEFINE Old(p) == IF p < i THEN p ELSE p + 1
  <2>1. Old(m) \in 1 .. Len(levels) /\ Old(n) \in 1 .. Len(levels) /\ Old(m) < Old(n)
    OBVIOUS
  <2>2. t[m] = levels[Old(m)] /\ t[n] = levels[Old(n)]
    BY <1>1
  <2>. HIDE DEF Old
  <2>. QED
    BY <2>1, <2>2 DEF Sorted
<1>. QED
  BY <1>1, <1>2, <1>3 DEF t

-----------------------------------------------------------------------------
(* The pool *)

Slots(pool) == 1 .. Len(pool.allocated)
FreeSlots(pool) == Elements(pool.free)

\* A pool of levels of some type, of which no one is free twice.
PoolOK(Level, pool) ==
    /\ pool \in [allocated : Seq(Level), free : Seq(Nat)]
    /\ Distinct(pool.free)
    /\ FreeSlots(pool) \subseteq Slots(pool)

\* A level is allocated in a slot that was free or new.
LEMMA AllocateTakes ==
    ASSUME NEW Level, NEW pool, PoolOK(Level, pool), NEW level \in Level,
           NEW n, n = NextSlot(pool), NEW p, p = Allocate(pool, level)
    PROVE  /\ PoolOK(Level, p)
           /\ FreeSlots(p) = FreeSlots(pool) \ {n}
           /\ Slots(p) = Slots(pool) \cup {n}
           /\ n \in Nat
           /\ n \in FreeSlots(pool) \/ n \notin Slots(pool)
           /\ p.allocated[n] = level
           /\ \A k \in Slots(pool) : k # n => p.allocated[k] = pool.allocated[k]
<1>. USE DEF Slots, FreeSlots
<1>1. /\ pool.allocated \in Seq(Level) /\ pool.free \in Seq(Nat)
      /\ Len(pool.allocated) \in Nat /\ Len(pool.free) \in Nat
  BY DEF PoolOK
<1>2. CASE pool.free = << >>
  <2>1. n = Len(pool.allocated) + 1 /\ p = [pool EXCEPT !.allocated = Append(@, level)]
    BY <1>2 DEF NextSlot, Allocate
  <2>2. p.allocated = Append(pool.allocated, level) /\ p.free = << >>
        /\ p \in [allocated : Seq(Level), free : Seq(Nat)]
    <3>1. Append(pool.allocated, level) \in Seq(Level)
      BY <1>1
    <3>. QED
      BY <1>1, <1>2, <2>1, <3>1 DEF PoolOK
  <2>3. FreeSlots(pool) = {} /\ Distinct(p.free)
    BY <1>2, <2>2 DEF Elements, Distinct
  <2>4. /\ Len(p.allocated) = Len(pool.allocated) + 1
        /\ p.allocated[Len(pool.allocated) + 1] = level
        /\ \A k \in Slots(pool) : p.allocated[k] = pool.allocated[k]
    BY <1>1, <2>2, AppendProperties
  <2>5. Slots(p) = Slots(pool) \cup {n}
    BY <1>1, <2>1, <2>4
  <2>6. n \in Nat /\ n \notin Slots(pool)
    BY <1>1, <2>1
  <2>7. FreeSlots(p) = {}
    BY <1>2, <2>2, <2>3
  <2>. QED
    BY <2>1, <2>2, <2>3, <2>4, <2>5, <2>6, <2>7 DEF PoolOK
<1>3. CASE pool.free # << >>
  <2>1. n = Last(pool.free) /\ p = [allocated |-> [pool.allocated EXCEPT ![n] = level],
                                    free |-> Front(pool.free)]
    BY <1>3 DEF NextSlot, Allocate
  <2>2. Len(pool.free) \in 1 .. Len(pool.free) /\ n = pool.free[Len(pool.free)]
    BY <1>1, <1>3, <2>1 DEF Last
  <2>3. n \in FreeSlots(pool) /\ n \in Slots(pool)
    BY <2>2 DEF PoolOK, Elements
  <2>4. /\ p.allocated \in Seq(Level) /\ Len(p.allocated) = Len(pool.allocated)
        /\ p.allocated[n] = level
        /\ \A k \in Slots(pool) : k # n => p.allocated[k] = pool.allocated[k]
    BY <1>1, <2>1, <2>3
  <2>5. /\ Front(pool.free) \in Seq(Nat) /\ Len(Front(pool.free)) = Len(pool.free) - 1
        /\ \A k \in 1 .. Len(pool.free) - 1 : Front(pool.free)[k] = pool.free[k]
    <3>1. \A k \in 1 .. Len(pool.free) - 1 : pool.free[k] \in Nat
      BY <1>1, ElementOfSeq
    <3>. QED
      BY <1>1, <2>2, <3>1, SubSeqProperties, SMTT(30) DEF Front
  <2>6. p.free = Front(pool.free) /\ p \in [allocated : Seq(Level), free : Seq(Nat)]
    BY <2>1, <2>4, <2>5
  <2>. DEFINE f == pool.free
              g == p.free
  <2>a. /\ Len(f) \in Nat /\ Len(f) \in 1 .. Len(f) /\ n = f[Len(f)] /\ Distinct(f)
        /\ Len(g) = Len(f) - 1 /\ \A k \in 1 .. Len(f) - 1 : g[k] = f[k]
    BY <1>1, <2>2, <2>5, <2>6 DEF PoolOK
  <2>. HIDE DEF f, g, Slots, FreeSlots
  <2>b. Elements(g) = Elements(f) \ {n}
    BY <2>a DEF Elements, Distinct
  <2>c. Distinct(g)
    BY <2>a DEF Distinct
  <2>7. FreeSlots(p) = FreeSlots(pool) \ {n}
    BY <2>b DEF f, g, FreeSlots
  <2>8. Distinct(p.free)
    BY <2>c DEF g
  <2>9. Slots(p) = Slots(pool) \cup {n}
    BY <2>3, <2>4 DEF Slots, FreeSlots
  <2>. QED
    BY <2>3, <2>4, <2>6, <2>7, <2>8, <2>9 DEF PoolOK, Slots, FreeSlots
<1>. QED
  BY <1>2, <1>3

LEMMA FreeGives ==
    ASSUME NEW Level, NEW pool, PoolOK(Level, pool), NEW slot \in Slots(pool),
           slot \notin FreeSlots(pool), NEW p, p = Free(pool, slot)
    PROVE  /\ PoolOK(Level, p)
           /\ FreeSlots(p) = FreeSlots(pool) \cup {slot}
           /\ p.allocated = pool.allocated
<1>1. pool.allocated \in Seq(Level) /\ pool.free \in Seq(Nat) /\ slot \in Nat
  BY DEF PoolOK, Slots, FreeSlots
<1>2. /\ p.allocated = pool.allocated /\ p.free = Append(pool.free, slot)
      /\ p \in [allocated : Seq(Level), free : Seq(Nat)]
  <2>1. Append(pool.free, slot) \in Seq(Nat)
    BY <1>1
  <2>. QED
    BY <1>1, <2>1 DEF Free, PoolOK, Slots, FreeSlots
<1>3. /\ Elements(Append(pool.free, slot)) = FreeSlots(pool) \cup {slot}
      /\ Distinct(Append(pool.free, slot))
  BY <1>1, AppendElements DEF PoolOK, Slots, FreeSlots
<1>. QED
  BY <1>2, <1>3 DEF PoolOK, Slots, FreeSlots

-----------------------------------------------------------------------------
(* The pool with the books that take from it *)

On(books, b, s) == Elements(books[b][s])

Shelf(dir, Level, pool, books) ==
    /\ PoolOK(Level, pool)
    /\ books \in Vectors
    /\ \A b \in Books, s \in Wings : Sorted(dir[s], books[b][s])
    /\ \A b, c \in Books, s, t \in Wings :
          \A e \in On(books, b, s), f \in On(books, c, t) :
             e.Level = f.Level => b = c /\ s = t /\ e = f
    /\ \A b \in Books, s \in Wings : \A e \in On(books, b, s) :
          e.Level \in Slots(pool) /\ e.Level \notin FreeSlots(pool)
    /\ \A n \in Slots(pool) :
          n \in FreeSlots(pool)
             \/ \E b \in Books, s \in Wings : \E e \in On(books, b, s) : e.Level = n

LEMMA VectorAt ==
    ASSUME NEW books \in Vectors, NEW b \in Books, NEW s \in Wings
    PROVE  /\ books[b][s] \in Seq(Entry)
           /\ On(books, b, s) \subseteq Entry
<1>1. books[b][s] \in Seq(Entry)
  BY DEF Vectors, Wings
<1>2. \A i \in 1 .. Len(books[b][s]) : books[b][s][i] \in Entry
  BY <1>1, ElementOfSeq
<1>. QED
  BY <1>1, <1>2 DEF On, Elements

\* One vector of one book is replaced.
WithVector(books, b, s, levels) == [books EXCEPT ![b][s] = levels]

LEMMA VectorChanges ==
    ASSUME NEW books \in Vectors, NEW b \in Books, NEW s \in Wings, NEW levels \in Seq(Entry),
           NEW next, next = WithVector(books, b, s, levels)
    PROVE  /\ next \in Vectors
           /\ next[b][s] = levels
           /\ \A c \in Books, t \in Wings : c # b \/ t # s => next[c][t] = books[c][t]
BY DEF Vectors, Wings, WithVector

\* A level is put in the vector of one side of a book, for a price that has none.
EntryFor(pool, price) == [Price |-> price, Level |-> NextSlot(pool)]

Inserts(dir, Level, pool, books, b, s, price, level, q, next) ==
    /\ Shelf(dir, Level, pool, books)
    /\ b \in Books /\ s \in Wings /\ price \in Int /\ level \in Level
    /\ ~HasPrice(books[b][s], price)
    /\ q = Allocate(pool, level)
    /\ next = [books EXCEPT ![b][s] = InsertAt(books[b][s], ScanPlace(dir[s], books[b][s], price) + 1,
                                               EntryFor(pool, price))]

Inserted(dir, Level, pool, books, b, s, price, level, q, next) ==
    /\ Shelf(dir, Level, q, next)
    /\ On(next, b, s) = On(books, b, s) \cup {EntryFor(pool, price)}
    /\ \A c \in Books, t \in Wings : c # b \/ t # s => next[c][t] = books[c][t]
    /\ \A c \in Books, t \in Wings : \A e \in On(books, c, t) :
          /\ e.Level # NextSlot(pool)
          /\ q.allocated[e.Level] = pool.allocated[e.Level]
    /\ q.allocated[NextSlot(pool)] = level

LEMMA ShelfInserts ==
    ASSUME NEW dir, NEW Level, NEW pool, NEW books, NEW b, NEW s, NEW price, NEW level, NEW q,
           NEW next, Inserts(dir, Level, pool, books, b, s, price, level, q, next)
    PROVE  Inserted(dir, Level, pool, books, b, s, price, level, q, next)
<1>p. PICK p : p = ScanPlace(dir[s], books[b][s], price) + 1
  OBVIOUS
<1>e. PICK entry : entry = EntryFor(pool, price)
  OBVIOUS
<1>0. /\ Shelf(dir, Level, pool, books)
      /\ b \in Books /\ s \in Wings /\ price \in Int /\ level \in Level
      /\ ~HasPrice(books[b][s], price)
      /\ q = Allocate(pool, level)
      /\ next = [books EXCEPT ![b][s] = InsertAt(books[b][s], p, entry)]
      /\ entry = [Price |-> price, Level |-> NextSlot(pool)]
  BY <1>p, <1>e DEF Inserts, EntryFor
<1>1. PoolOK(Level, pool) /\ books \in Vectors /\ Sorted(dir[s], books[b][s])
  BY <1>0 DEF Shelf
<1>. DEFINE n == NextSlot(pool)
<1>2. /\ PoolOK(Level, q)
      /\ FreeSlots(q) = FreeSlots(pool) \ {n}
      /\ Slots(q) = Slots(pool) \cup {n}
      /\ n \in Nat
      /\ n \in FreeSlots(pool) \/ n \notin Slots(pool)
      /\ q.allocated[n] = level
      /\ \A k \in Slots(pool) : k # n => q.allocated[k] = pool.allocated[k]
  <2>1. n = NextSlot(pool)
    OBVIOUS
  <2>2. q = Allocate(pool, level) /\ level \in Level
    BY <1>0
  <2>. HIDE DEF n
  <2>. QED
    BY ONLY <1>1, <2>1, <2>2, AllocateTakes
<1>. HIDE DEF n
<1>3. entry \in Entry /\ entry.Price = price /\ entry.Level = n
  BY <1>0, <1>2 DEF Entry, n
<1>4. books[b][s] \in Seq(Entry)
  BY <1>0, <1>1, VectorAt
<1>. DEFINE levels == InsertAt(books[b][s], p, entry)
<1>5. /\ levels \in Seq(Entry)
      /\ Sorted(dir[s], levels)
      /\ Elements(levels) = Elements(books[b][s]) \cup {entry}
  BY <1>0, <1>1, <1>3, <1>4, <1>p, InsertKeepsSorted
<1>6. /\ next \in Vectors
      /\ next[b][s] = levels
      /\ \A c \in Books, t \in Wings : c # b \/ t # s => next[c][t] = books[c][t]
  <2>1. next = WithVector(books, b, s, levels)
    BY <1>0 DEF WithVector
  <2>2. b \in Books /\ s \in Wings
    BY <1>0
  <2>. HIDE DEF levels
  <2>. QED
    BY ONLY <1>1, <1>5, <2>1, <2>2, VectorChanges
<1>. HIDE DEF levels
<1>7. On(next, b, s) = On(books, b, s) \cup {entry}
  BY <1>5, <1>6 DEF On
<1>8. \A c \in Books, t \in Wings : \A e \in On(books, c, t) :
         e.Level # n /\ e.Level \in Slots(pool) /\ e.Level \notin FreeSlots(pool)
  BY <1>0, <1>2 DEF Shelf
<1>9. \A c \in Books, t \in Wings : \A e \in On(next, c, t) :
         e \in On(books, c, t) \/ (c = b /\ t = s /\ e = entry)
  BY <1>6, <1>7 DEF On
<1>10. \A c \in Books, t \in Wings : On(books, c, t) \subseteq On(next, c, t)
  BY <1>6, <1>7 DEF On
<1>11. Shelf(dir, Level, q, next)
  <2>1. \A c \in Books, t \in Wings : Sorted(dir[t], next[c][t])
    BY <1>0, <1>5, <1>6 DEF Shelf
  <2>2. \A c, d \in Books, t, u \in Wings :
          \A e \in On(next, c, t), f \in On(next, d, u) :
             e.Level = f.Level => c = d /\ t = u /\ e = f
    <3>. SUFFICES ASSUME NEW c \in Books, NEW d \in Books, NEW t \in Wings, NEW u \in Wings,
                         NEW e \in On(next, c, t), NEW f \in On(next, d, u), e.Level = f.Level
                  PROVE  c = d /\ t = u /\ e = f
      OBVIOUS
    <3>1. CASE e \in On(books, c, t) /\ f \in On(books, d, u)
      BY <1>0, <3>1 DEF Shelf
    <3>2. e \in On(books, c, t) \/ (c = b /\ t = s /\ e = entry)
      BY <1>9
    <3>3. f \in On(books, d, u) \/ (d = b /\ u = s /\ f = entry)
      BY <1>9
    <3>. QED
      BY <1>3, <1>8, <3>1, <3>2, <3>3
  <2>3. \A c \in Books, t \in Wings : \A e \in On(next, c, t) :
           e.Level \in Slots(q) /\ e.Level \notin FreeSlots(q)
    BY <1>2, <1>3, <1>8, <1>9
  <2>4. ASSUME NEW k \in Slots(q), k \notin FreeSlots(q)
        PROVE  \E c \in Books, t \in Wings : \E e \in On(next, c, t) : e.Level = k
    <3>1. CASE k = n
      BY <1>0, <1>3, <1>7, <3>1
    <3>2. CASE k # n
      <4>1. k \in Slots(pool) /\ k \notin FreeSlots(pool)
        BY <1>2, <2>4, <3>2
      <4>2. PICK c \in Books, t \in Wings : \E e \in On(books, c, t) : e.Level = k
        BY <1>0, <4>1 DEF Shelf
      <4>. QED
        BY <1>10, <4>2
    <3>. QED
      BY <3>1, <3>2
  <2>. QED
    BY <1>2, <1>6, <2>1, <2>2, <2>3, <2>4 DEF Shelf
<1>12. \A c \in Books, t \in Wings : \A e \in On(books, c, t) :
          e.Level # n /\ q.allocated[e.Level] = pool.allocated[e.Level]
  BY <1>2, <1>8
<1>. QED
  BY <1>2, <1>6, <1>7, <1>11, <1>12, <1>e DEF n, Inserted

LEMMA ShelfRemoves ==
    ASSUME NEW dir, NEW Level, NEW pool, NEW books, Shelf(dir, Level, pool, books),
           NEW b \in Books, NEW s \in Wings, NEW i \in 1 .. Len(books[b][s]),
           NEW entry, entry = books[b][s][i],
           NEW next, next = [books EXCEPT ![b][s] = RemoveAt(books[b][s], i)],
           NEW q, q = Free(pool, entry.Level)
    PROVE  /\ Shelf(dir, Level, q, next)
           /\ On(next, b, s) = On(books, b, s) \ {entry}
           /\ \A c \in Books, t \in Wings : c # b \/ t # s => next[c][t] = books[c][t]
           /\ q.allocated = pool.allocated
<1>. DEFINE n == entry.Level
<1>1. PoolOK(Level, pool) /\ books \in Vectors /\ Sorted(dir[s], books[b][s])
  BY DEF Shelf
<1>2. entry \in On(books, b, s)
  BY DEF On, Elements
<1>3. n \in Slots(pool) /\ n \notin FreeSlots(pool)
  BY <1>2 DEF Shelf
<1>4. /\ PoolOK(Level, q)
      /\ FreeSlots(q) = FreeSlots(pool) \cup {n}
      /\ q.allocated = pool.allocated
  <2>1. q = Free(pool, n)
    OBVIOUS
  <2>. HIDE DEF n
  <2>. QED
    BY <1>1, <1>3, <2>1, FreeGives
<1>5. books[b][s] \in Seq(Entry)
  BY <1>1, VectorAt
<1>. DEFINE levels == RemoveAt(books[b][s], i)
<1>6. /\ levels \in Seq(Entry)
      /\ Sorted(dir[s], levels)
      /\ Elements(levels) = Elements(books[b][s]) \ {entry}
  BY <1>1, <1>5, RemoveKeepsSorted
<1>7. /\ next \in Vectors
      /\ next[b][s] = levels
      /\ \A c \in Books, t \in Wings : c # b \/ t # s => next[c][t] = books[c][t]
  <2>1. next = WithVector(books, b, s, levels)
    BY DEF WithVector
  <2>2. b \in Books /\ s \in Wings
    OBVIOUS
  <2>. HIDE DEF levels
  <2>. QED
    BY ONLY <1>1, <1>6, <2>1, <2>2, VectorChanges
<1>. HIDE DEF levels
<1>8. On(next, b, s) = On(books, b, s) \ {entry}
  BY <1>6, <1>7 DEF On
<1>9. \A c \in Books, t \in Wings : \A e \in On(next, c, t) : e \in On(books, c, t) /\ e.Level # n
  <2>. SUFFICES ASSUME NEW c \in Books, NEW t \in Wings, NEW e \in On(next, c, t)
                PROVE  e \in On(books, c, t) /\ e.Level # n
    OBVIOUS
  <2>1. e \in On(books, c, t)
    BY <1>7, <1>8 DEF On
  <2>2. e.Level = n => c = b /\ t = s /\ e = entry
    BY <1>2, <2>1 DEF Shelf
  <2>. QED
    BY <1>8, <2>1, <2>2
<1>10. Shelf(dir, Level, q, next)
  <2>1. \A c \in Books, t \in Wings : Sorted(dir[t], next[c][t])
    BY <1>6, <1>7 DEF Shelf
  <2>2. \A c, d \in Books, t, u \in Wings :
          \A e \in On(next, c, t), f \in On(next, d, u) :
             e.Level = f.Level => c = d /\ t = u /\ e = f
    BY <1>9 DEF Shelf
  <2>3. \A c \in Books, t \in Wings : \A e \in On(next, c, t) :
           e.Level \in Slots(q) /\ e.Level \notin FreeSlots(q)
    BY <1>4, <1>9 DEF Shelf, Slots
  <2>4. ASSUME NEW k \in Slots(q), k \notin FreeSlots(q)
        PROVE  \E c \in Books, t \in Wings : \E e \in On(next, c, t) : e.Level = k
    <3>1. k \in Slots(pool) /\ k \notin FreeSlots(pool) /\ k # n
      BY <1>4, <2>4 DEF Slots
    <3>2. PICK c \in Books, t \in Wings : \E e \in On(books, c, t) : e.Level = k
      BY <3>1 DEF Shelf
    <3>3. PICK e \in On(books, c, t) : e.Level = k
      BY <3>2
    <3>4. e # entry
      BY <3>1, <3>3
    <3>5. e \in On(next, c, t)
      BY <1>7, <1>8, <3>3, <3>4 DEF On
    <3>. QED
      BY <3>3, <3>5
  <2>. QED
    BY <1>4, <1>7, <2>1, <2>2, <2>3, <2>4 DEF Shelf
<1>. QED
  BY <1>4, <1>7, <1>8, <1>10

Write(pool, slot, level) == [pool EXCEPT !.allocated[slot] = level]

\* What the levels hold does not matter.
LEMMA ShelfWrites ==
    ASSUME NEW dir, NEW Level, NEW pool, NEW books, Shelf(dir, Level, pool, books),
           NEW slot \in Slots(pool), NEW level \in Level,
           NEW q, q = Write(pool, slot, level)
    PROVE  /\ Shelf(dir, Level, q, books)
           /\ q.free = pool.free /\ Len(q.allocated) = Len(pool.allocated)
           /\ q.allocated[slot] = level
           /\ \A k \in Slots(pool) : k # slot => q.allocated[k] = pool.allocated[k]
<1>1. /\ pool \in [allocated : Seq(Level), free : Seq(Nat)]
      /\ pool.allocated \in Seq(Level)
  BY DEF Shelf, PoolOK
<1>. DEFINE a == [pool.allocated EXCEPT ![slot] = level]
<1>2. /\ a \in Seq(Level) /\ Len(a) = Len(pool.allocated)
      /\ a[slot] = level
      /\ \A k \in Slots(pool) : k # slot => a[k] = pool.allocated[k]
  BY <1>1 DEF Slots
<1>3. q.allocated = a /\ q.free = pool.free
  BY <1>1 DEF Write
<1>. HIDE DEF a
<1>4. q \in [allocated : Seq(Level), free : Seq(Nat)]
  BY <1>1, <1>2, <1>3 DEF Write
<1>5. PoolOK(Level, q)
  BY <1>2, <1>3, <1>4 DEF Shelf, PoolOK, Slots, FreeSlots
<1>6. Shelf(dir, Level, q, books)
  BY <1>2, <1>3, <1>5 DEF Shelf, Slots, FreeSlots
<1>. QED
  BY <1>2, <1>3, <1>6

-----------------------------------------------------------------------------
(* The orders of the exchange *)

Order == [Book : Books, Side : Sides, Price : Nat \ {0}, Shares : Nat \ {0}]

IsMarket(market) ==
    /\ DOMAIN market \subseteq Ids
    /\ market \in [DOMAIN market -> Order]

Drop(market, id) == [i \in DOMAIN market \ {id} |-> market[i]]

\* The orders that a manager keeps at a level, and what they have left.
Held(orders, market, n) == {id \in DOMAIN market : orders[id].Level = n}

VolumeAt(orders, market, n) ==
    Lots([id \in Held(orders, market, n) |-> market[id].Shares])

LEMMA OrderAt ==
    ASSUME NEW market, IsMarket(market), NEW id \in DOMAIN market
    PROVE  /\ id \in Ids
           /\ market[id].Book \in Books /\ market[id].Side \in Sides
           /\ market[id].Price \in Nat /\ market[id].Price > 0
           /\ market[id].Shares \in Nat /\ market[id].Shares > 0
<1>1. market[id] \in Order /\ id \in Ids
  BY DEF IsMarket
<1>2. market[id].Price \in Nat \ {0} /\ market[id].Shares \in Nat \ {0}
  BY <1>1 DEF Order
<1>. QED
  BY <1>1, <1>2 DEF Order

LEMMA HeldIsFinite ==
    ASSUME NEW market, IsMarket(market), NEW orders, NEW n
    PROVE  /\ IsFiniteSet(DOMAIN market)
           /\ IsFiniteSet(Held(orders, market, n))
           /\ Cardinality(Held(orders, market, n)) \in Nat
           /\ VolumeAt(orders, market, n) \in Nat
           /\ \A id \in Held(orders, market, n) : VolumeAt(orders, market, n) >= market[id].Shares
<1>1. IsFiniteSet(Ids)
  BY MaxOrdersIsANumber, FS_Interval DEF Ids
<1>2. IsFiniteSet(DOMAIN market)
  BY <1>1, FS_Subset DEF IsMarket
<1>. DEFINE H == Held(orders, market, n)
            f == [id \in H |-> market[id].Shares]
<1>3. IsFiniteSet(H)
  BY <1>2, FS_Subset DEF Held
<1>4. f \in [H -> Nat]
  BY OrderAt DEF Held
<1>5. VolumeAt(orders, market, n) = Lots(f)
  BY DEF VolumeAt
<1>6. \A id \in H : f[id] = market[id].Shares
  OBVIOUS
<1>. HIDE DEF f, H
<1>7. Lots(f) \in Nat /\ \A id \in H : Lots(f) >= f[id]
  BY <1>3, <1>4, LotsType, LotsAtLeast
<1>8. Cardinality(H) \in Nat
  BY <1>3, FS_CardinalityType
<1>. QED
  BY <1>2, <1>3, <1>5, <1>6, <1>7, <1>8 DEF H

\* Without an order.
IsDropped(market, id, rest) ==
    IsMarket(market) /\ id \in DOMAIN market /\ rest = Drop(market, id)

\* With another number of shares left of an order.
Reduced(market, id, left) == [market EXCEPT ![id].Shares = left]

IsReduced(market, id, left, after) ==
    /\ IsMarket(market) /\ id \in DOMAIN market
    /\ left \in Nat \ {0} /\ after = Reduced(market, id, left)

\* With an order that comes.
IsAdded(market, id, order, after) ==
    /\ IsMarket(market) /\ id \in Ids \ DOMAIN market
    /\ order \in Order /\ after = With(market, id, order)

SameLevels(market, orders, others) == \A i \in DOMAIN market : others[i].Level = orders[i].Level

Agree(f, g, S) == \A i \in S : f[i] = g[i]

SameKinds(f, g, S) == \A i \in S : /\ f[i].Book = g[i].Book
                                   /\ f[i].Side = g[i].Side
                                   /\ f[i].Price = g[i].Price

LEMMA DropIsMarket ==
    ASSUME NEW market, NEW id, NEW rest, IsDropped(market, id, rest)
    PROVE  /\ IsMarket(rest)
           /\ DOMAIN rest = DOMAIN market \ {id}
           /\ Agree(rest, market, DOMAIN rest)
BY DEF IsMarket, Drop, IsDropped, Agree

LEMMA ReducedIsMarket ==
    ASSUME NEW market, NEW id, NEW left, NEW after, IsReduced(market, id, left, after)
    PROVE  /\ IsMarket(after)
           /\ DOMAIN after = DOMAIN market
           /\ SameKinds(after, market, DOMAIN market)
           /\ Agree(after, market, DOMAIN market \ {id})
           /\ after[id].Shares = left
<1>. USE DEF IsReduced, Agree, SameKinds
<1>1. market[id] \in Order
  BY DEF IsMarket
<1>2. /\ DOMAIN after = DOMAIN market
      /\ Agree(after, market, DOMAIN market \ {id})
      /\ after[id] = [market[id] EXCEPT !.Shares = left]
  BY DEF IsMarket, Reduced
<1>3. /\ after[id] \in Order /\ after[id].Shares = left
      /\ after[id].Book = market[id].Book /\ after[id].Side = market[id].Side
      /\ after[id].Price = market[id].Price
  BY <1>1, <1>2 DEF Order
<1>4. \A i \in DOMAIN market : after[i] \in Order
  BY <1>2, <1>3 DEF IsMarket
<1>5. after = [i \in DOMAIN market |-> after[i]]
  BY DEF IsMarket, Reduced
<1>6. IsMarket(after)
  BY <1>2, <1>4, <1>5 DEF IsMarket
<1>. QED
  BY <1>2, <1>3, <1>6

AddGives(market, id, order, after) ==
    /\ IsMarket(after)
    /\ DOMAIN after = DOMAIN market \cup {id} /\ id \notin DOMAIN market
    /\ after[id] = order
    /\ Agree(after, market, DOMAIN market)

LEMMA AddedIsMarket ==
    ASSUME NEW market, NEW id, NEW order, NEW after, IsAdded(market, id, order, after)
    PROVE  AddGives(market, id, order, after)
<1>. USE DEF IsAdded, Agree
<1>1. /\ DOMAIN after = DOMAIN market \cup {id}
      /\ after[id] = order /\ Agree(after, market, DOMAIN market)
  BY DEF With
<1>2. \A i \in DOMAIN after : after[i] \in Order
  BY <1>1 DEF IsMarket
<1>3. after = [i \in DOMAIN after |-> after[i]]
  BY <1>1 DEF With
<1>. QED
  BY <1>1, <1>2, <1>3 DEF IsMarket, AddGives

\* An order and the others at a level.
LEMMA HeldSplits ==
    ASSUME NEW market, NEW id, NEW rest, IsDropped(market, id, rest),
           NEW orders, NEW others, SameLevels(rest, orders, others), NEW n
    PROVE  /\ orders[id].Level = n =>
                 /\ VolumeAt(orders, market, n) = VolumeAt(others, rest, n) + market[id].Shares
                 /\ Cardinality(Held(orders, market, n)) = Cardinality(Held(others, rest, n)) + 1
           /\ orders[id].Level # n =>
                 /\ VolumeAt(orders, market, n) = VolumeAt(others, rest, n)
                 /\ Held(orders, market, n) = Held(others, rest, n)
<1>1. /\ DOMAIN rest = DOMAIN market \ {id}
      /\ Agree(rest, market, DOMAIN rest)
      /\ IsMarket(market) /\ id \in DOMAIN market
      /\ \A i \in DOMAIN rest : others[i].Level = orders[i].Level
  <2>1. DOMAIN rest = DOMAIN market \ {id} /\ Agree(rest, market, DOMAIN rest)
    BY DropIsMarket
  <2>. QED
    BY <2>1 DEF IsDropped, SameLevels
<1>. DEFINE H == Held(orders, market, n)
            K == Held(others, rest, n)
            f == [i \in H |-> market[i].Shares]
            g == [i \in K |-> rest[i].Shares]
<1>2. VolumeAt(orders, market, n) = Lots(f) /\ VolumeAt(others, rest, n) = Lots(g)
  BY DEF VolumeAt
<1>3. IsFiniteSet(H) /\ f \in [H -> Nat]
  <2>1. IsFiniteSet(H)
    BY <1>1, HeldIsFinite
  <2>2. \A i \in H : market[i].Shares \in Nat
    BY <1>1, OrderAt DEF Held
  <2>. QED
    BY <2>1, <2>2
<1>4. K = H \ {id}
  BY <1>1 DEF Held
<1>5. g \in [K -> Nat] /\ \A i \in K : g[i] = f[i]
  BY <1>1, <1>3, <1>4 DEF Held, Agree
<1>6. ASSUME orders[id].Level = n
      PROVE  Lots(f) = Lots(g) + market[id].Shares /\ Cardinality(H) = Cardinality(K) + 1
  <2>1. id \in H
    BY <1>1, <1>6 DEF Held
  <2>2. f[id] = market[id].Shares
    BY <2>1
  <2>. HIDE DEF f, g, H, K
  <2>3. Lots(f) = f[id] + Lots(g) /\ Lots(g) \in Nat
    <3>1. IsFiniteSet(K)
      BY <1>3, <1>4, FS_Subset
    <3>. QED
      BY <1>3, <1>4, <1>5, <2>1, <3>1, LotsSplit, LotsType
  <2>4. Cardinality(K) = Cardinality(H) - 1 /\ Cardinality(H) \in Nat
    BY <1>3, <1>4, <2>1, FS_RemoveElement, FS_CardinalityType
  <2>5. market[id].Shares \in Nat
    BY <1>1, OrderAt
  <2>. QED
    BY <2>2, <2>3, <2>4, <2>5
<1>7. ASSUME orders[id].Level # n
      PROVE  H = K /\ f = g
  <2>1. H = K
    BY <1>4, <1>7 DEF Held
  <2>. QED
    BY <1>1, <2>1 DEF Held, Agree
<1>. QED
  BY <1>2, <1>6, <1>7

LEMMA HeldSame ==
    ASSUME NEW market, NEW orders, NEW others, SameLevels(market, orders, others), NEW n
    PROVE  /\ Held(others, market, n) = Held(orders, market, n)
           /\ VolumeAt(others, market, n) = VolumeAt(orders, market, n)
<1>1. Held(others, market, n) = Held(orders, market, n)
  BY DEF Held, SameLevels
<1>. QED
  BY <1>1 DEF VolumeAt

LEMMA HeldReduced ==
    ASSUME NEW market, NEW id, NEW left, NEW after, IsReduced(market, id, left, after),
           NEW orders, NEW others, SameLevels(market, orders, others), NEW n
    PROVE  /\ Held(others, after, n) = Held(orders, market, n)
           /\ orders[id].Level = n =>
                 VolumeAt(others, after, n) + market[id].Shares = VolumeAt(orders, market, n) + left
           /\ orders[id].Level # n => VolumeAt(others, after, n) = VolumeAt(orders, market, n)
<1>1. /\ IsMarket(market) /\ id \in DOMAIN market /\ left \in Nat
      /\ \A i \in DOMAIN market : others[i].Level = orders[i].Level
      /\ market[id].Shares \in Nat
  BY OrderAt DEF IsReduced, SameLevels
<1>2. /\ IsMarket(after) /\ DOMAIN after = DOMAIN market
      /\ Agree(after, market, DOMAIN market \ {id})
      /\ after[id].Shares = left
  BY ReducedIsMarket
<1>3. Held(others, after, n) = Held(orders, market, n)
  BY <1>1, <1>2 DEF Held
<1>4. PICK rest : rest = Drop(market, id)
  OBVIOUS
<1>5. IsDropped(market, id, rest) /\ IsDropped(after, id, rest)
  BY <1>1, <1>2, <1>4 DEF Drop, IsDropped, Agree
<1>6. DOMAIN rest = DOMAIN market \ {id} /\ IsMarket(rest)
  BY <1>5, DropIsMarket
<1>7. SameLevels(rest, orders, orders) /\ SameLevels(rest, others, orders)
  BY <1>1, <1>6 DEF SameLevels
<1>8. others[id].Level = orders[id].Level
  BY <1>1
<1>9. VolumeAt(orders, rest, n) \in Nat
  BY <1>6, HeldIsFinite
<1>10. /\ orders[id].Level = n =>
             VolumeAt(orders, market, n) = VolumeAt(orders, rest, n) + market[id].Shares
       /\ orders[id].Level # n => VolumeAt(orders, market, n) = VolumeAt(orders, rest, n)
  BY ONLY <1>5, <1>7, HeldSplits
<1>11. /\ others[id].Level = n =>
             VolumeAt(others, after, n) = VolumeAt(orders, rest, n) + after[id].Shares
       /\ others[id].Level # n => VolumeAt(others, after, n) = VolumeAt(orders, rest, n)
  BY ONLY <1>5, <1>7, HeldSplits
<1>. QED
  BY <1>1, <1>2, <1>3, <1>8, <1>9, <1>10, <1>11

LEMMA HeldAdded ==
    ASSUME NEW market, NEW id, NEW order, NEW after, IsAdded(market, id, order, after),
           NEW orders, NEW others, SameLevels(market, orders, others), NEW n
    PROVE  /\ others[id].Level = n =>
                 /\ VolumeAt(others, after, n) = VolumeAt(orders, market, n) + order.Shares
                 /\ Cardinality(Held(others, after, n)) = Cardinality(Held(orders, market, n)) + 1
           /\ others[id].Level # n =>
                 /\ VolumeAt(others, after, n) = VolumeAt(orders, market, n)
                 /\ Held(others, after, n) = Held(orders, market, n)
<1>1. /\ IsMarket(after) /\ DOMAIN after = DOMAIN market \cup {id}
      /\ after[id] = order /\ Agree(after, market, DOMAIN market)
      /\ id \notin DOMAIN market /\ IsMarket(market)
  <2>1. AddGives(market, id, order, after)
    BY AddedIsMarket
  <2>2. IsMarket(market)
    BY DEF IsAdded
  <2>. QED
    BY <2>1, <2>2 DEF AddGives
<1>2. IsDropped(after, id, market)
  <2>1. market = [i \in DOMAIN market |-> market[i]]
    BY <1>1 DEF IsMarket
  <2>. QED
    BY <1>1, <2>1 DEF Drop, IsDropped, Agree
<1>3. SameLevels(market, others, orders)
  BY DEF SameLevels
<1>4. /\ others[id].Level = n =>
             /\ VolumeAt(others, after, n) = VolumeAt(orders, market, n) + after[id].Shares
             /\ Cardinality(Held(others, after, n)) = Cardinality(Held(orders, market, n)) + 1
      /\ others[id].Level # n =>
             /\ VolumeAt(others, after, n) = VolumeAt(orders, market, n)
             /\ Held(others, after, n) = Held(orders, market, n)
  BY ONLY <1>2, <1>3, HeldSplits
<1>. QED
  BY <1>1, <1>4

\* With less left of an order, or without it.
Cut(market, id, q) ==
    IF q = market[id].Shares THEN Drop(market, id) ELSE Reduced(market, id, market[id].Shares - q)

IsCut(market, id, q, after) ==
    /\ IsMarket(market) /\ id \in DOMAIN market
    /\ q \in 1 .. market[id].Shares /\ after = Cut(market, id, q)

LEMMA CutIs ==
    ASSUME NEW market, NEW id, NEW q, NEW after, IsCut(market, id, q, after)
    PROVE  /\ q = market[id].Shares => IsDropped(market, id, after)
           /\ q # market[id].Shares => IsReduced(market, id, market[id].Shares - q, after)
<1>1. q = market[id].Shares => IsDropped(market, id, after)
  BY DEF IsCut, Cut, IsDropped
<1>2. ASSUME q # market[id].Shares
      PROVE  IsReduced(market, id, market[id].Shares - q, after)
  <2>1. IsMarket(market) /\ id \in DOMAIN market /\ q \in 1 .. market[id].Shares
    BY DEF IsCut
  <2>2. market[id].Shares - q \in Nat \ {0}
    BY <1>2, <2>1, OrderAt
  <2>. QED
    BY <1>2, <2>1, <2>2 DEF IsReduced, IsCut, Cut
<1>. QED
  BY <1>1, <1>2

CutGives(market, id, q, after) ==
    /\ IsMarket(after)
    /\ q = market[id].Shares => DOMAIN after = DOMAIN market \ {id}
    /\ q # market[id].Shares => DOMAIN after = DOMAIN market
    /\ SameKinds(after, market, DOMAIN after)
    /\ Agree(after, market, DOMAIN after \ {id})
    /\ id \in DOMAIN after => after[id].Shares = market[id].Shares - q

LEMMA CutIsMarket ==
    ASSUME NEW market, NEW id, NEW q, NEW after, IsCut(market, id, q, after)
    PROVE  CutGives(market, id, q, after)
<1>. USE DEF CutGives
<1>1. CASE q = market[id].Shares
  <2>1. IsDropped(market, id, after)
    BY <1>1, CutIs
  <2>2. /\ IsMarket(after) /\ DOMAIN after = DOMAIN market \ {id}
        /\ Agree(after, market, DOMAIN after)
    BY <2>1, DropIsMarket
  <2>. QED
    BY <1>1, <2>2 DEF Agree, SameKinds
<1>2. CASE q # market[id].Shares
  <2>. DEFINE left == market[id].Shares - q
  <2>1. IsReduced(market, id, left, after)
    BY <1>2, CutIs
  <2>. HIDE DEF left
  <2>2. /\ IsMarket(after) /\ DOMAIN after = DOMAIN market
        /\ SameKinds(after, market, DOMAIN market)
        /\ Agree(after, market, DOMAIN market \ {id})
        /\ after[id].Shares = left
    BY <2>1, ReducedIsMarket
  <2>. QED
    BY <1>2, <2>2 DEF left
<1>. QED
  BY <1>1, <1>2

LEMMA CutVolume ==
    ASSUME NEW market, NEW id, NEW q, NEW after, IsCut(market, id, q, after),
           NEW orders, NEW others, SameLevels(market, orders, others), NEW x
    PROVE  /\ orders[id].Level = x =>
                 VolumeAt(others, after, x) = VolumeAt(orders, market, x) - q
           /\ orders[id].Level # x =>
                 VolumeAt(others, after, x) = VolumeAt(orders, market, x)
           /\ orders[id].Level = x /\ q = market[id].Shares =>
                 Cardinality(Held(others, after, x)) = Cardinality(Held(orders, market, x)) - 1
           /\ orders[id].Level # x \/ q # market[id].Shares =>
                 Held(others, after, x) = Held(orders, market, x)
<1>1. /\ IsMarket(market) /\ id \in DOMAIN market /\ market[id].Shares \in Nat
      /\ q \in Nat
  <2>1. IsMarket(market) /\ id \in DOMAIN market /\ q \in 1 .. market[id].Shares
    BY DEF IsCut
  <2>. QED
    BY <2>1, OrderAt
<1>2. IsMarket(after) /\ DOMAIN after \subseteq DOMAIN market
  <2>1. CutGives(market, id, q, after)
    BY CutIsMarket
  <2>. QED
    BY <2>1 DEF CutGives
<1>3. /\ VolumeAt(others, after, x) \in Nat /\ VolumeAt(orders, market, x) \in Nat
      /\ Cardinality(Held(others, after, x)) \in Nat
  BY <1>1, <1>2, HeldIsFinite
<1>4. CASE q = market[id].Shares
  <2>1. IsDropped(market, id, after)
    BY <1>4, CutIs
  <2>2. SameLevels(after, orders, others)
    BY <1>2 DEF SameLevels
  <2>3. /\ orders[id].Level = x =>
              /\ VolumeAt(orders, market, x) = VolumeAt(others, after, x) + market[id].Shares
              /\ Cardinality(Held(orders, market, x)) = Cardinality(Held(others, after, x)) + 1
        /\ orders[id].Level # x =>
              /\ VolumeAt(orders, market, x) = VolumeAt(others, after, x)
              /\ Held(orders, market, x) = Held(others, after, x)
    BY ONLY <2>1, <2>2, HeldSplits
  <2>4. orders[id].Level # x => Held(others, after, x) = Held(orders, market, x)
    BY <2>3
  <2>5. orders[id].Level = x =>
           /\ VolumeAt(others, after, x) = VolumeAt(orders, market, x) - q
           /\ Cardinality(Held(others, after, x)) = Cardinality(Held(orders, market, x)) - 1
    BY <1>1, <1>3, <1>4, <2>3
  <2>. QED
    BY <1>4, <2>3, <2>4, <2>5
<1>5. CASE q # market[id].Shares
  <2>. DEFINE left == market[id].Shares - q
  <2>1. IsReduced(market, id, left, after) /\ left \in Nat
    BY <1>5, CutIs DEF IsReduced
  <2>2. SameLevels(market, orders, others)
    OBVIOUS
  <2>. HIDE DEF left
  <2>3. /\ Held(others, after, x) = Held(orders, market, x)
        /\ orders[id].Level = x =>
              VolumeAt(others, after, x) + market[id].Shares = VolumeAt(orders, market, x) + left
        /\ orders[id].Level # x => VolumeAt(others, after, x) = VolumeAt(orders, market, x)
    BY ONLY <2>1, <2>2, HeldReduced
  <2>. QED
    BY <1>1, <1>3, <1>5, <2>1, <2>3 DEF left
<1>. QED
  BY <1>4, <1>5

-----------------------------------------------------------------------------
(* What the managers know of the market *)

WingOf(side) == IF side = "BUY" THEN "bids" ELSE "asks"

\* The entries of the vector that an order belongs to.
EntriesOf(m, market, id) == On(m.books, market[id].Book, WingOf(market[id].Side))

AWings == [s \in Wings |-> "up"]

ALevel == [Price : Int, Volume : Int]

AManager ==
    [orders : [Ids -> [Symbol : Books \cup {0}, Quantity : Int, Level : Nat]],
     books  : Vectors,
     pool   : [allocated : Seq(ALevel), free : Seq(Nat)]]

\* The entry that an order of the exchange is at, in the aggressive manager.
AEntry(m, market, id, e) ==
    /\ e.Price = Sent(market[id].Side, market[id].Price)
    /\ e.Level = m.orders[id].Level

AOrders(m, market) ==
    \A id \in DOMAIN market :
       /\ m.orders[id].Symbol = market[id].Book
       /\ m.orders[id].Quantity = market[id].Shares
       /\ \E e \in EntriesOf(m, market, id) : AEntry(m, market, id, e)

\* A level has the price of its entry and the volume of its orders, of which it has some.
ALevels(m, market) ==
    \A b \in Books, s \in Wings : \A e \in On(m.books, b, s) :
       /\ A!SideOf(e.Price) = s
       /\ m.pool.allocated[e.Level].Price = e.Price
       /\ m.pool.allocated[e.Level].Volume = VolumeAt(m.orders, market, e.Level)
       /\ m.pool.allocated[e.Level].Volume # 0

AOK(m, market) ==
    /\ m \in AManager
    /\ Shelf(AWings, ALevel, m.pool, m.books)
    /\ AOrders(m, market)
    /\ ALevels(m, market)

OWings == [s \in Wings |-> IF s = "bids" THEN "up" ELSE "down"]

OLevel == [Type : {"BID", "ASK"}, Price : Int, Volume : Int, Orders : Int]

Handler == [symbols : Int, order_books : Int, orders : Int, max_orders : Int,
            add_orders : Int, delete_orders : Int]

OManager ==
    [orders  : [Ids -> [Symbol : Books \cup {0}, Side : Sides, Price : Int, Quantity : Int,
                        Level : Nat]],
     books   : Vectors,
     pool    : [allocated : Seq(OLevel), free : Seq(Nat)],
     handler : Handler]

\* The entry that an order is at, in the optimized manager: the price it was entered with,
\* which AddOrder leaves as it was.
OEntry(m, market, id, e) ==
    /\ e.Price = m.orders[id].Price
    /\ e.Level = m.orders[id].Level

OOrders(m, market) ==
    \A id \in DOMAIN market :
       /\ m.orders[id].Symbol = market[id].Book
       /\ m.orders[id].Side = market[id].Side
       /\ m.orders[id].Quantity = market[id].Shares
       /\ \E e \in EntriesOf(m, market, id) : OEntry(m, market, id, e)

\* A level counts its orders.  Its volume is theirs or more: an order that is cancelled
\* to nothing leaves its part of the volume.
OLevels(m, market) ==
    \A b \in Books, s \in Wings : \A e \in On(m.books, b, s) :
       /\ m.pool.allocated[e.Level].Orders = Cardinality(Held(m.orders, market, e.Level))
       /\ m.pool.allocated[e.Level].Volume >= VolumeAt(m.orders, market, e.Level)
       /\ m.pool.allocated[e.Level].Volume # 0

OOK(m, market) ==
    /\ m \in OManager
    /\ Shelf(OWings, OLevel, m.pool, m.books)
    /\ OOrders(m, market)
    /\ OLevels(m, market)

\* The counts of the handler, with the last number given.
Counts(handler, market, last) ==
    /\ handler.orders = Cardinality(DOMAIN market)
    /\ handler.add_orders - handler.delete_orders = handler.orders
    /\ handler.max_orders \in handler.orders .. last

\* The managers and the exchange, with the stocks of the directory and the last number.
Agreed(known, market, last, a, o) ==
    /\ known \subseteq Books
    /\ last \in 0 .. MaxOrders
    /\ IsMarket(market)
    /\ \A id \in DOMAIN market : id <= last /\ market[id].Book \in known
    /\ AOK(a, market)
    /\ OOK(o, market)
    /\ \A b \in Books \ known : a.books[b] = EmptyBook /\ o.books[b] = EmptyBook
    /\ Counts(o.handler, market, last)

Inv == Agreed(listed, live, lastId, aggressive, optimized)

IsEntryOf(dir, levels, e) ==
    levels \in Seq(Entry) /\ Sorted(dir, levels) /\ e \in Elements(levels)

PricePlaces(levels, price) == {i \in 1 .. Len(levels) : levels[i].Price = price}

IsOnlyPlace(k, levels, e) ==
    /\ k \in 1 .. Len(levels) /\ levels[k] = e
    /\ PricePlaces(levels, e.Price) = {k}

\* The scan for the price of an entry finds this entry, and no other place has its price.
LEMMA FindsEntry ==
    ASSUME NEW dir, NEW levels, NEW e, IsEntryOf(dir, levels, e),
           NEW k, k = ScanPlace(dir, levels, e.Price)
    PROVE  IsOnlyPlace(k, levels, e)
<1>. USE DEF IsEntryOf
<1>1. e.Price \in Int /\ HasPrice(levels, e.Price)
  BY EntryAt DEF Elements, HasPrice
<1>2. k > 0 /\ levels[k].Price = e.Price /\ k \in 0 .. Len(levels)
  BY <1>1, ScanFinds, ScanDivides
<1>3. k \in 1 .. Len(levels)
  BY <1>2
<1>4. levels[k] \in Elements(levels)
  BY <1>3 DEF Elements
<1>. QED
  BY <1>2, <1>3, <1>4, SortedPrices DEF PricePlaces, IsOnlyPlace

-----------------------------------------------------------------------------
(* The operators of the aggressive manager *)

\* Books other than some are as they were.
Elsewhere(m, n, S) == \A c \in Books \ S, t \in Wings : n.books[c][t] = m.books[c][t]

LEMMA APool ==
    /\ \A pool : A!NextSlot(pool) = NextSlot(pool)
    /\ \A pool, level : A!Allocate(pool, level) = Allocate(pool, level)
    /\ \A pool, slot : A!Free(pool, slot) = Free(pool, slot)
    /\ A!EmptyBook = EmptyBook /\ A!EmptyPool = EmptyPool
<1>1. \A pool : A!NextSlot(pool) = NextSlot(pool)
  BY DEF A!NextSlot, A!Last, NextSlot, Last
<1>2. \A pool, level : A!Allocate(pool, level) = Allocate(pool, level)
  BY DEF A!NextSlot, A!Last, NextSlot, Last, A!Allocate, Allocate, A!Front, Front
<1>3. \A pool, slot : A!Free(pool, slot) = Free(pool, slot)
  BY DEF A!Free, Free
<1>4. A!EmptyBook = EmptyBook /\ A!EmptyPool = EmptyPool
  BY DEF A!EmptyBook, EmptyBook, A!EmptyPool, EmptyPool
<1>. QED
  BY <1>1, <1>2, <1>3, <1>4

LEMMA AVector ==
    /\ \A s, i, e : A!InsertAt(s, i, e) = InsertAt(s, i, e)
    /\ \A s, i : A!RemoveAt(s, i) = RemoveAt(s, i)
    /\ \A T : A!Max(T) = Max(T)
<1>1. \A s, i, e : A!InsertAt(s, i, e) = InsertAt(s, i, e)
  BY DEF A!InsertAt, InsertAt
<1>2. \A s, i : A!RemoveAt(s, i) = RemoveAt(s, i)
  BY DEF A!RemoveAt, RemoveAt
<1>3. \A T : A!Max(T) = Max(T)
  BY DEF A!Max, Max
<1>. QED
  BY <1>1, <1>2, <1>3

LEMMA AScan ==
    ASSUME NEW levels \in Seq(Entry), NEW price \in Int
    PROVE  A!Scan(levels, price) = ScanPlace("up", levels, price)
<1>1. {i \in 1 .. Len(levels) : levels[i].Price <= price} = NotBehind("up", levels, price)
  BY EntryAt DEF NotBehind, Before
<1>2. A!Max(NotBehind("up", levels, price)) = Max(NotBehind("up", levels, price))
  BY AVector
<1>3. A!Scan(levels, price) = IF NotBehind("up", levels, price) # {}
                              THEN A!Max(NotBehind("up", levels, price)) ELSE 0
  BY <1>1 DEF A!Scan, A!SelectLastInSeq
<1>. QED
  BY <1>2, <1>3 DEF ScanPlace

\* An order is at an entry of a vector, if the slots are in order.
AIsAt(m, id, b, s, e) ==
    /\ m \in AManager /\ Shelf(AWings, ALevel, m.pool, m.books)
    /\ id \in Ids /\ b \in Books /\ s \in Wings
    /\ e \in On(m.books, b, s) /\ A!SideOf(e.Price) = s
    /\ m.orders[id].Symbol = b /\ m.orders[id].Level = e.Level
    /\ m.pool.allocated[e.Level].Price = e.Price

\* The level of an order goes with its entry.
LEMMA ALevelGoes ==
    ASSUME NEW m, NEW id, NEW b, NEW s, NEW e, AIsAt(m, id, b, s, e),
           NEW n, n = A!DeleteLevel(m, id)
    PROVE  /\ n \in AManager /\ n.orders = m.orders
           /\ Shelf(AWings, ALevel, n.pool, n.books)
           /\ On(n.books, b, s) = On(m.books, b, s) \ {e}
           /\ \A c \in Books, t \in Wings : c # b \/ t # s => n.books[c][t] = m.books[c][t]
           /\ n.pool.allocated = m.pool.allocated
<1>. USE DEF AIsAt
<1>1. m.books[b][s] \in Seq(Entry) /\ m.books \in Vectors
  BY VectorAt DEF Shelf
<1>2. Sorted("up", m.books[b][s])
  BY DEF Shelf, AWings
<1>. DEFINE levels == m.books[b][s]
            k == ScanPlace("up", levels, e.Price)
<1>3. /\ k \in 1 .. Len(levels) /\ levels[k] = e
      /\ PricePlaces(levels, e.Price) = {k}
  <2>1. IsEntryOf("up", levels, e)
    BY <1>1, <1>2 DEF On, IsEntryOf
  <2>2. k = ScanPlace("up", levels, e.Price)
    OBVIOUS
  <2>. HIDE DEF levels, k
  <2>3. IsOnlyPlace(k, levels, e)
    BY ONLY <2>1, <2>2, FindsEntry
  <2>. QED
    BY <2>3 DEF IsOnlyPlace
<1>. HIDE DEF k
<1>4. A!Max({k}) = k
  <2>1. Len(levels) \in Nat /\ {k} \in SUBSET (1 .. Len(levels)) /\ {k} # {}
    <3>1. levels \in Seq(Entry)
      BY <1>1
    <3>2. k \in 1 .. Len(levels)
      BY <1>3
    <3>. HIDE DEF levels
    <3>. QED
      BY <3>1, <3>2
  <2>2. Max({k}) = k
    BY <2>1, MaxIsGreatest
  <2>. QED
    BY <2>2, AVector
<1>5. A!LevelOf(m, id).Price = e.Price
  BY DEF A!LevelOf
<1>6. n = [m EXCEPT !.books[b][s] = IF k = 0 THEN @ ELSE A!RemoveAt(@, k),
                   !.pool = A!Free(@, m.orders[id].Level)]
  <2>1. {i \in 1 .. Len(levels) : levels[i].Price = e.Price} = {k}
    BY <1>3 DEF PricePlaces
  <2>2. {k} # {}
    OBVIOUS
  <2>3. A!PlaceOf(levels, e.Price) = k
    BY <1>4, <2>1, <2>2 DEF A!PlaceOf, A!SelectLastInSeq
  <2>4. A!SideOf(A!LevelOf(m, id).Price) = s
    BY <1>5
  <2>. QED
    BY <1>5, <2>3, <2>4 DEF A!DeleteLevel
<1>7. n = [m EXCEPT !.books[b][s] = RemoveAt(levels, k), !.pool = Free(m.pool, e.Level)]
  <2>1. k # 0
    BY <1>3
  <2>. QED
    BY <1>6, <2>1, APool, AVector DEF AManager
<1>. DEFINE books == [m.books EXCEPT ![b][s] = RemoveAt(levels, k)]
            pool == Free(m.pool, e.Level)
<1>8. n.orders = m.orders /\ n.books = books /\ n.pool = pool
      /\ n = [orders |-> m.orders, books |-> books, pool |-> pool]
  BY <1>7 DEF AManager
<1>9. /\ Shelf(AWings, ALevel, pool, books)
      /\ On(books, b, s) = On(m.books, b, s) \ {e}
      /\ \A c \in Books, t \in Wings : c # b \/ t # s => books[c][t] = m.books[c][t]
      /\ pool.allocated = m.pool.allocated
  <2>1. k \in 1 .. Len(m.books[b][s]) /\ e = m.books[b][s][k]
    BY <1>3
  <2>2. books = [m.books EXCEPT ![b][s] = RemoveAt(m.books[b][s], k)]
        /\ pool = Free(m.pool, e.Level)
    OBVIOUS
  <2>3. Shelf(AWings, ALevel, m.pool, m.books) /\ b \in Books /\ s \in Wings
    OBVIOUS
  <2>. HIDE DEF books, pool, levels
  <2>. QED
    BY ONLY <2>1, <2>2, <2>3, ShelfRemoves, SMTT(30)
<1>. HIDE DEF books, pool
<1>10. n \in AManager
  BY <1>8, <1>9 DEF Shelf, PoolOK, AManager
<1>. QED
  BY <1>8, <1>9, <1>10

\* The aggressive manager takes shares from an order, or the whole order.
LEMMA AReduces ==
    ASSUME NEW m, NEW market, AOK(m, market), NEW id, NEW q, NEW after,
            IsCut(market, id, q, after),
           NEW k \in AManager, k.pool = m.pool, k.books = m.books,
           \A i \in Ids \ {id} : k.orders[i] = m.orders[i],
           k.orders[id].Symbol = m.orders[id].Symbol, k.orders[id].Level = m.orders[id].Level,
           q # market[id].Shares => k.orders[id].Quantity = market[id].Shares - q,
           NEW n, n = A!BookReduceOrder(k, id, q)
    PROVE  /\ AOK(n, after)
           /\ n.orders = k.orders
           /\ \A c \in Books, t \in Wings : c # market[id].Book => n.books[c][t] = m.books[c][t]
<1>. DEFINE b == market[id].Book
            s == WingOf(market[id].Side)
            slot == m.orders[id].Level
            V == VolumeAt(m.orders, market, slot)
<1>0. IsMarket(market) /\ id \in DOMAIN market /\ q \in 1 .. market[id].Shares
  BY DEF IsCut
<1>1. id \in Ids /\ b \in Books /\ s \in Wings /\ market[id].Shares \in Nat /\ q \in Nat
  BY <1>0, OrderAt DEF WingOf, Wings
<1>2. m \in AManager /\ Shelf(AWings, ALevel, m.pool, m.books)
      /\ AOrders(m, market) /\ ALevels(m, market)
  BY DEF AOK
<1>3. PICK e \in On(m.books, b, s) : e.Price = Sent(market[id].Side, market[id].Price)
                                     /\ e.Level = slot
  BY <1>0, <1>2 DEF AOrders, AEntry, EntriesOf
<1>4. /\ A!SideOf(e.Price) = s
      /\ m.pool.allocated[slot].Price = e.Price
      /\ m.pool.allocated[slot].Volume = V
      /\ slot \in Slots(m.pool) /\ slot \notin FreeSlots(m.pool)
      /\ e.Price \in Int
  <2>1. slot \in Slots(m.pool) /\ slot \notin FreeSlots(m.pool)
    BY <1>1, <1>2, <1>3 DEF Shelf
  <2>2. e \in Entry
    BY <1>1, <1>2, <1>3, VectorAt DEF Shelf
  <2>. QED
    BY <1>1, <1>2, <1>3, <2>1, <2>2 DEF ALevels, Entry
<1>5. V \in Nat
  BY <1>0, HeldIsFinite
<1>6. /\ IsMarket(after)
      /\ q = market[id].Shares => DOMAIN after = DOMAIN market \ {id}
      /\ q # market[id].Shares => DOMAIN after = DOMAIN market
      /\ SameKinds(after, market, DOMAIN after)
      /\ Agree(after, market, DOMAIN after \ {id})
      /\ id \in DOMAIN after => after[id].Shares = market[id].Shares - q
  <2>1. CutGives(market, id, q, after)
    BY CutIsMarket
  <2>. QED
    BY <2>1 DEF CutGives
<1>7. \A i \in DOMAIN market : k.orders[i].Level = m.orders[i].Level
  BY <1>0 DEF IsMarket
<1>8. \A x : /\ slot = x => VolumeAt(k.orders, after, x) = VolumeAt(m.orders, market, x) - q
             /\ slot # x => VolumeAt(k.orders, after, x) = VolumeAt(m.orders, market, x)
  <2>1. PICK others : others = k.orders
    OBVIOUS
  <2>2. PICK orders : orders = m.orders
    OBVIOUS
  <2>3. SameLevels(market, orders, others)
    BY <1>7, <2>1, <2>2 DEF SameLevels
  <2>4. IsCut(market, id, q, after)
    OBVIOUS
  <2>5. ASSUME NEW x
        PROVE  /\ orders[id].Level = x =>
                     VolumeAt(others, after, x) = VolumeAt(orders, market, x) - q
               /\ orders[id].Level # x =>
                     VolumeAt(others, after, x) = VolumeAt(orders, market, x)
               /\ orders[id].Level = x /\ q = market[id].Shares =>
                     Cardinality(Held(others, after, x)) = Cardinality(Held(orders, market, x)) - 1
               /\ orders[id].Level # x \/ q # market[id].Shares =>
                     Held(others, after, x) = Held(orders, market, x)
    BY ONLY <2>3, <2>4, CutVolume
  <2>. QED
    BY <2>1, <2>2, <2>5
<1>. DEFINE level == [Price |-> e.Price, Volume |-> V - q]
            r == [k EXCEPT !.pool.allocated[slot].Volume = @ - q]
<1>9. /\ r.pool = Write(m.pool, slot, level)
      /\ r.books = m.books /\ r.orders = k.orders
      /\ r = [orders |-> k.orders, books |-> m.books, pool |-> r.pool]
  <2>1. m.pool.allocated \in Seq(ALevel)
    BY <1>2 DEF AManager
  <2>2. m.pool.allocated[slot] \in ALevel
    BY <1>4, <2>1, ElementOfSeq DEF Slots
  <2>3. [m.pool.allocated[slot] EXCEPT !.Volume = m.pool.allocated[slot].Volume - q] = level
    <3>1. PICK u \in ALevel : u = m.pool.allocated[slot]
      BY <2>2
    <3>2. PICK v : v = u.Volume - q
      OBVIOUS
    <3>3. [u EXCEPT !.Volume = v] = [Price |-> u.Price, Volume |-> v]
      BY ONLY <3>1 DEF ALevel
    <3>4. u.Price = e.Price /\ u.Volume = V
      BY <1>4, <3>1
    <3>. QED
      BY <3>1, <3>2, <3>3, <3>4
  <2>4. r = [k EXCEPT !.pool.allocated[slot] =
                         [m.pool.allocated[slot] EXCEPT !.Volume = m.pool.allocated[slot].Volume - q]]
    <3>. HIDE DEF slot
    <3>. QED
      OBVIOUS
  <2>5. r = [k EXCEPT !.pool.allocated[slot] = level]
    BY <2>3, <2>4
  <2>. HIDE DEF r, level, slot
  <2>. QED
    BY <2>5 DEF AManager, Write, AOK
<1>10. level \in ALevel
  BY <1>1, <1>4, <1>5 DEF ALevel
<1>. HIDE DEF r, level
<1>11. /\ Shelf(AWings, ALevel, r.pool, m.books)
       /\ r.pool.allocated[slot] = level
       /\ \A x \in Slots(m.pool) : x # slot => r.pool.allocated[x] = m.pool.allocated[x]
  <2>1. PICK pool : pool = r.pool
    OBVIOUS
  <2>2. pool = Write(m.pool, slot, level)
    BY <1>9, <2>1
  <2>3. Shelf(AWings, ALevel, m.pool, m.books) /\ slot \in Slots(m.pool) /\ level \in ALevel
    BY <1>2, <1>4, <1>10
  <2>. HIDE DEF slot
  <2>4. /\ Shelf(AWings, ALevel, pool, m.books)
        /\ pool.free = m.pool.free /\ Len(pool.allocated) = Len(m.pool.allocated)
        /\ pool.allocated[slot] = level
        /\ \A x \in Slots(m.pool) : x # slot => pool.allocated[x] = m.pool.allocated[x]
    BY ONLY <2>2, <2>3, ShelfWrites
  <2>. QED
    BY <2>1, <2>4
<1>12. r \in AManager
  BY <1>9, <1>11 DEF AManager, Shelf, PoolOK
<1>13. level.Price = e.Price /\ level.Volume = V - q
  BY DEF level
<1>14. \A i \in DOMAIN after :
          /\ k.orders[i].Symbol = after[i].Book
          /\ k.orders[i].Quantity = after[i].Shares
          /\ \E f \in On(m.books, after[i].Book, WingOf(after[i].Side)) :
                f.Price = Sent(after[i].Side, after[i].Price) /\ f.Level = k.orders[i].Level
  <2>. SUFFICES ASSUME NEW i \in DOMAIN after
                PROVE  /\ k.orders[i].Symbol = after[i].Book
                       /\ k.orders[i].Quantity = after[i].Shares
                       /\ \E f \in On(m.books, after[i].Book, WingOf(after[i].Side)) :
                             /\ f.Price = Sent(after[i].Side, after[i].Price)
                             /\ f.Level = k.orders[i].Level
    OBVIOUS
  <2>1. i \in DOMAIN market /\ i \in Ids
    BY <1>6 DEF IsMarket
  <2>2. /\ m.orders[i].Symbol = market[i].Book /\ m.orders[i].Quantity = market[i].Shares
        /\ \E f \in On(m.books, market[i].Book, WingOf(market[i].Side)) :
              f.Price = Sent(market[i].Side, market[i].Price) /\ f.Level = m.orders[i].Level
    BY <1>2, <2>1 DEF AOrders, AEntry, EntriesOf
  <2>3. CASE i # id
    BY <1>6, <2>1, <2>2, <2>3 DEF Agree, SameKinds
  <2>4. CASE i = id
    BY <1>6, <2>1, <2>2, <2>4 DEF SameKinds
  <2>. QED
    BY <2>3, <2>4
<1>15. n = IF level.Volume = 0 THEN A!DeleteLevel(r, id) ELSE r
  <2>1. A!LevelOf(r, id) = level
    BY <1>9, <1>11 DEF A!LevelOf
  <2>. QED
    BY <2>1 DEF A!BookReduceOrder, r
<1>16. \A c \in Books, t \in Wings : \A f \in On(m.books, c, t) :
          /\ A!SideOf(f.Price) = t
          /\ r.pool.allocated[f.Level].Price = f.Price
          /\ r.pool.allocated[f.Level].Volume = VolumeAt(k.orders, after, f.Level)
          /\ f # e => f.Level # slot /\ r.pool.allocated[f.Level].Volume # 0
  <2>. SUFFICES ASSUME NEW c \in Books, NEW t \in Wings, NEW f \in On(m.books, c, t)
                PROVE  /\ A!SideOf(f.Price) = t
                       /\ r.pool.allocated[f.Level].Price = f.Price
                       /\ r.pool.allocated[f.Level].Volume = VolumeAt(k.orders, after, f.Level)
                       /\ f # e => f.Level # slot /\ r.pool.allocated[f.Level].Volume # 0
    OBVIOUS
  <2>1. /\ A!SideOf(f.Price) = t
        /\ m.pool.allocated[f.Level].Price = f.Price
        /\ m.pool.allocated[f.Level].Volume = VolumeAt(m.orders, market, f.Level)
        /\ m.pool.allocated[f.Level].Volume # 0
    BY <1>2 DEF ALevels
  <2>2. f.Level \in Slots(m.pool)
    BY <1>2 DEF Shelf
  <2>3. f.Level = slot => f = e
    BY <1>1, <1>2, <1>3 DEF Shelf
  <2>4. VolumeAt(m.orders, market, f.Level) \in Nat
    BY <1>0, HeldIsFinite
  <2>5. CASE f.Level = slot
    BY <1>4, <1>5, <1>8, <1>11, <1>13, <2>1, <2>3, <2>5
  <2>6. CASE f.Level # slot
    BY <1>3, <1>8, <1>11, <2>1, <2>2, <2>4, <2>6
  <2>. QED
    BY <2>5, <2>6
<1>17. CASE level.Volume # 0
  <2>1. n = r
    BY <1>15, <1>17
  <2>2. AOrders(r, after)
    BY <1>9, <1>14 DEF AOrders, AEntry, EntriesOf
  <2>3. ALevels(r, after)
    <3>. SUFFICES ASSUME NEW c \in Books, NEW t \in Wings, NEW f \in On(m.books, c, t)
                  PROVE  /\ A!SideOf(f.Price) = t
                         /\ r.pool.allocated[f.Level].Price = f.Price
                         /\ r.pool.allocated[f.Level].Volume = VolumeAt(k.orders, after, f.Level)
                         /\ r.pool.allocated[f.Level].Volume # 0
      BY <1>9 DEF ALevels
    <3>1. CASE f = e
      BY <1>3, <1>11, <1>16, <1>17, <3>1
    <3>2. CASE f # e
      BY <1>16, <3>2
    <3>. QED
      BY <3>1, <3>2
  <2>4. Shelf(AWings, ALevel, r.pool, r.books)
    BY <1>9, <1>11
  <2>. QED
    BY <1>9, <1>12, <2>1, <2>2, <2>3, <2>4 DEF AOK
<1>18. CASE level.Volume = 0
  <2>1. n = A!DeleteLevel(r, id)
    BY <1>15, <1>18
  <2>2. VolumeAt(k.orders, after, slot) = 0
    BY <1>5, <1>8, <1>13, <1>18
  <2>3. \A i \in DOMAIN after : k.orders[i].Level # slot
    <3>. SUFFICES ASSUME NEW i \in DOMAIN after, k.orders[i].Level = slot PROVE FALSE
      OBVIOUS
    <3>1. i \in Held(k.orders, after, slot)
      BY DEF Held
    <3>2. VolumeAt(k.orders, after, slot) >= after[i].Shares
      BY <1>6, <3>1, HeldIsFinite
    <3>3. after[i].Shares \in Nat /\ after[i].Shares > 0
      BY <1>6, OrderAt
    <3>. QED
      BY <2>2, <3>2, <3>3
  <2>4. /\ n \in AManager /\ n.orders = r.orders
        /\ Shelf(AWings, ALevel, n.pool, n.books)
        /\ On(n.books, b, s) = On(r.books, b, s) \ {e}
        /\ \A c \in Books, t \in Wings : c # b \/ t # s => n.books[c][t] = r.books[c][t]
        /\ n.pool.allocated = r.pool.allocated
    <3>1. r \in AManager /\ Shelf(AWings, ALevel, r.pool, r.books)
      BY <1>9, <1>11, <1>12
    <3>2. b = r.orders[id].Symbol /\ e.Level = r.orders[id].Level
      BY <1>0, <1>2, <1>3, <1>9 DEF AOrders
    <3>3. e \in On(r.books, b, s) /\ A!SideOf(e.Price) = s /\ b \in Books /\ s \in Wings /\ id \in Ids
      BY <1>1, <1>3, <1>4, <1>9
    <3>4. r.pool.allocated[e.Level].Price = e.Price
      BY <1>3, <1>11, <1>13
    <3>5. AIsAt(r, id, b, s, e)
      BY <3>1, <3>2, <3>3, <3>4 DEF AIsAt
    <3>. HIDE DEF b, s
    <3>. QED
      BY ONLY <2>1, <3>5, ALevelGoes
  <2>5. \A c \in Books, t \in Wings : On(n.books, c, t) \subseteq On(m.books, c, t) \ {e}
    <3>. SUFFICES ASSUME NEW c \in Books, NEW t \in Wings, NEW f \in On(n.books, c, t)
                  PROVE  f \in On(m.books, c, t) /\ f # e
      OBVIOUS
    <3>1. CASE c = b /\ t = s
      BY <1>9, <2>4, <3>1
    <3>2. CASE c # b \/ t # s
      <4>1. f \in On(m.books, c, t)
        BY <1>9, <2>4, <3>2, SMTT(30) DEF On
      <4>2. f # e
        BY <1>1, <1>2, <1>3, <3>2, <4>1 DEF Shelf
      <4>. QED
        BY <4>1, <4>2
    <3>. QED
      BY <3>1, <3>2
  <2>6. \A c \in Books, t \in Wings : \A f \in On(m.books, c, t) :
           f # e => f \in On(n.books, c, t)
    BY <1>9, <2>4 DEF On
  <2>7. AOrders(n, after)
    <3>. SUFFICES ASSUME NEW i \in DOMAIN after
                  PROVE  /\ n.orders[i].Symbol = after[i].Book
                         /\ n.orders[i].Quantity = after[i].Shares
                         /\ \E f \in EntriesOf(n, after, i) : AEntry(n, after, i, f)
      BY DEF AOrders
    <3>1. PICK f \in On(m.books, after[i].Book, WingOf(after[i].Side)) :
             f.Price = Sent(after[i].Side, after[i].Price) /\ f.Level = k.orders[i].Level
      BY <1>14
    <3>2. f # e
      BY <1>3, <2>3, <3>1
    <3>3. after[i].Book \in Books /\ WingOf(after[i].Side) \in Wings
      BY <1>6, OrderAt DEF WingOf, Wings
    <3>4. f \in EntriesOf(n, after, i)
      BY <2>6, <3>1, <3>2, <3>3 DEF EntriesOf
    <3>5. AEntry(n, after, i, f)
      BY <1>9, <2>4, <3>1 DEF AEntry
    <3>. QED
      BY <1>9, <1>14, <2>4, <3>4, <3>5
  <2>8. ALevels(n, after)
    <3>. SUFFICES ASSUME NEW c \in Books, NEW t \in Wings, NEW f \in On(n.books, c, t)
                  PROVE  /\ A!SideOf(f.Price) = t
                         /\ n.pool.allocated[f.Level].Price = f.Price
                         /\ n.pool.allocated[f.Level].Volume = VolumeAt(n.orders, after, f.Level)
                         /\ n.pool.allocated[f.Level].Volume # 0
      BY DEF ALevels
    <3>1. f \in On(m.books, c, t) /\ f # e
      BY <2>5
    <3>2. n.orders = k.orders /\ n.pool.allocated = r.pool.allocated
      BY <1>9, <2>4
    <3>. QED
      BY <1>16, <3>1, <3>2
  <2>9. \A c \in Books, t \in Wings : c # b => n.books[c][t] = m.books[c][t]
    BY <1>9, <2>4
  <2>. QED
    BY <1>9, <2>4, <2>7, <2>8, <2>9 DEF AOK
<1>. QED
  BY <1>17, <1>18

\* A level for a price has been found, or put in at the bottom of the scan.
ALevelFound(m, b, s, price, slot, k) ==
    /\ k \in AManager /\ k.orders = m.orders
    /\ Shelf(AWings, ALevel, k.pool, k.books)
    /\ \A c \in Books, t \in Wings : c # b \/ t # s => k.books[c][t] = m.books[c][t]
    /\ \A c \in Books, t \in Wings : \A f \in On(m.books, c, t) :
          /\ f \in On(k.books, c, t)
          /\ k.pool.allocated[f.Level] = m.pool.allocated[f.Level]
    /\ \E e \in On(k.books, b, s) :
          /\ e.Price = price /\ e.Level = slot
          /\ \A c \in Books, t \in Wings : On(k.books, c, t) \subseteq On(m.books, c, t) \cup {e}
          /\ \/ e \in On(m.books, b, s)
             \/ /\ k.pool.allocated[slot] = [Price |-> price, Volume |-> 0]
                /\ \A c \in Books, t \in Wings : \A f \in On(m.books, c, t) : f.Level # slot

LEMMA AFindsLevel ==
    ASSUME NEW m \in AManager, Shelf(AWings, ALevel, m.pool, m.books), NEW b \in Books,
           NEW price \in Int, NEW s, s = A!SideOf(price),
           NEW found, found = A!FindLevel(m, b, price)
    PROVE  ALevelFound(m, b, s, price, found.slot, found.manager)
<1>1. s \in Wings
  BY DEF A!SideOf, Wings
<1>. DEFINE levels == m.books[b][s]
            k == ScanPlace("up", levels, price)
<1>2. levels \in Seq(Entry) /\ m.books \in Vectors /\ Sorted("up", levels)
  <2>1. m.books \in Vectors
    BY DEF Shelf
  <2>2. levels \in Seq(Entry)
    BY <1>1, <2>1, VectorAt
  <2>. QED
    BY <1>1, <2>1, <2>2 DEF Shelf, AWings
<1>3. /\ HasPrice(levels, price) <=> k > 0 /\ levels[k].Price = price
      /\ k \in 0 .. Len(levels)
  <2>. HIDE DEF levels
  <2>. QED
    BY <1>2, ScanFinds, ScanDivides
<1>4. A!Scan(levels, price) = k
  <2>. HIDE DEF levels
  <2>. QED
    BY <1>2, AScan
<1>. HIDE DEF k
<1>5. CASE HasPrice(levels, price)
  <2>1. k > 0 /\ levels[k].Price = price /\ k \in 1 .. Len(levels)
    BY <1>3, <1>5
  <2>2. A!Find(levels, price) = k
    BY <1>4, <2>1 DEF A!Find
  <2>3. found = [manager |-> m, slot |-> levels[k].Level]
    BY <2>1, <2>2 DEF A!FindLevel
  <2>4. levels[k] \in On(m.books, b, s)
    BY <2>1 DEF On, Elements
  <2>. QED
    BY <2>1, <2>3, <2>4, SMTT(30) DEF ALevelFound
<1>6. CASE ~HasPrice(levels, price)
  <2>. DEFINE level == [Price |-> price, Volume |-> 0]
              q == Allocate(m.pool, level)
              next == [m.books EXCEPT ![b][s] = InsertAt(levels, k + 1, EntryFor(m.pool, price))]
              r == [orders |-> m.orders, books |-> next, pool |-> q]
  <2>1. ~(A!Find(levels, price) > 0)
    BY <1>3, <1>4, <1>6 DEF A!Find
  <2>2. found = [manager |-> [m EXCEPT !.pool = Allocate(@, level),
                                       !.books[b][s] = InsertAt(@, k + 1, EntryFor(m.pool, price))],
                 slot    |-> NextSlot(m.pool)]
    BY <1>4, <2>1, APool, AVector DEF A!FindLevel, EntryFor
  <2>3. found.manager = r /\ found.slot = NextSlot(m.pool)
    <3>1. PICK t : t = InsertAt(levels, k + 1, EntryFor(m.pool, price))
      OBVIOUS
    <3>2. found.manager = [m EXCEPT !.pool = q, !.books[b][s] = t]
      BY <2>2, <3>1
    <3>3. r = [orders |-> m.orders, books |-> [m.books EXCEPT ![b][s] = t], pool |-> q]
      BY <3>1
    <3>4. found.slot = NextSlot(m.pool)
      BY <2>2
    <3>. HIDE DEF q, next, level, levels, r
    <3>. QED
      BY <3>2, <3>3, <3>4 DEF AManager
  <2>4. Inserts(AWings, ALevel, m.pool, m.books, b, s, price, level, q, next)
    <3>1. level \in ALevel
      BY DEF ALevel
    <3>2. k = ScanPlace(AWings[s], m.books[b][s], price)
      BY <1>1 DEF k, AWings
    <3>3. q = Allocate(m.pool, level) /\ ~HasPrice(m.books[b][s], price)
      BY <1>6
    <3>4. next = [m.books EXCEPT ![b][s] = InsertAt(m.books[b][s],
                     ScanPlace(AWings[s], m.books[b][s], price) + 1, EntryFor(m.pool, price))]
      BY <3>2
    <3>. HIDE DEF q, next, level
    <3>. QED
      BY <1>1, <3>1, <3>3, <3>4 DEF Inserts
  <2>. HIDE DEF q, next
  <2>5. Inserted(AWings, ALevel, m.pool, m.books, b, s, price, level, q, next)
    BY <2>4, ShelfInserts
  <2>6. r \in AManager
    BY <2>5 DEF Inserted, Shelf, PoolOK, AManager
  <2>7. /\ EntryFor(m.pool, price).Price = price
        /\ EntryFor(m.pool, price).Level = NextSlot(m.pool)
        /\ EntryFor(m.pool, price) \in On(next, b, s)
    BY <2>5 DEF EntryFor, Inserted
  <2>8. \A c \in Books, t \in Wings : \A f \in On(m.books, c, t) : f \in On(next, c, t)
    BY <2>5 DEF Inserted, On
  <2>9. \A c \in Books, t \in Wings :
           On(next, c, t) \subseteq On(m.books, c, t) \cup {EntryFor(m.pool, price)}
    BY <2>5 DEF Inserted, On
  <2>. HIDE DEF level
  <2>10. r.orders = m.orders /\ r.books = next /\ r.pool = q
    OBVIOUS
  <2>. HIDE DEF r
  <2>11. level = [Price |-> price, Volume |-> 0]
    BY DEF level
  <2>. QED
    BY <2>3, <2>5, <2>6, <2>7, <2>8, <2>9, <2>10, <2>11 DEF ALevelFound, Inserted
<1>. QED
  BY <1>5, <1>6

\* The aggressive manager takes an order in.
LEMMA AAdds ==
    ASSUME NEW m, NEW market, AOK(m, market), NEW id, NEW order, NEW after,
           IsAdded(market, id, order, after),
           m.orders[id].Symbol = order.Book, m.orders[id].Quantity = order.Shares,
           NEW price, price = Sent(order.Side, order.Price),
           NEW n, n = A!BookAddOrder(m, id, price)
    PROVE  /\ AOK(n, after)
           /\ \A c \in Books, t \in Wings : c # order.Book => n.books[c][t] = m.books[c][t]
<1>. DEFINE b == order.Book
            s == WingOf(order.Side)
            found == A!FindLevel(m, m.orders[id].Symbol, price)
            slot == found.slot
            k == found.manager
            V == VolumeAt(m.orders, market, slot)
<1>1. /\ IsMarket(market) /\ id \in Ids /\ id \notin DOMAIN market
      /\ b \in Books /\ s \in Wings
      /\ order.Shares \in Nat /\ order.Shares > 0 /\ price \in Int /\ A!SideOf(price) = s
  <2>1. IsMarket(market) /\ id \in Ids /\ id \notin DOMAIN market /\ order \in Order
    BY DEF IsAdded
  <2>2. order.Price \in Nat \ {0} /\ order.Shares \in Nat \ {0}
        /\ order.Side \in Sides /\ order.Book \in Books
    BY <2>1 DEF Order
  <2>. QED
    BY <2>1, <2>2 DEF WingOf, Wings, Sides, Sent, A!SideOf
<1>2. /\ m \in AManager /\ Shelf(AWings, ALevel, m.pool, m.books)
      /\ AOrders(m, market) /\ ALevels(m, market)
  BY DEF AOK
<1>3. ALevelFound(m, b, s, price, slot, k)
  <2>1. found = A!FindLevel(m, b, price)
    OBVIOUS
  <2>2. b \in Books /\ price \in Int /\ s = A!SideOf(price)
    BY <1>1
  <2>. HIDE DEF found, b, s
  <2>. QED
    BY <1>2, <2>1, <2>2, AFindsLevel
<1>4. n = [k EXCEPT !.pool.allocated[slot].Volume = @ + order.Shares, !.orders[id].Level = slot]
  BY DEF A!BookAddOrder
<1>. HIDE DEF found, slot, k
<1>5. PICK e \in On(k.books, b, s) :
         /\ e.Price = price /\ e.Level = slot
         /\ \A c \in Books, t \in Wings : On(k.books, c, t) \subseteq On(m.books, c, t) \cup {e}
         /\ \/ e \in On(m.books, b, s)
            \/ /\ k.pool.allocated[slot] = [Price |-> price, Volume |-> 0]
               /\ \A c \in Books, t \in Wings : \A f \in On(m.books, c, t) : f.Level # slot
  BY <1>3 DEF ALevelFound
<1>6. /\ k \in AManager /\ k.orders = m.orders
      /\ Shelf(AWings, ALevel, k.pool, k.books)
      /\ \A c \in Books, t \in Wings : c # b \/ t # s => k.books[c][t] = m.books[c][t]
      /\ \A c \in Books, t \in Wings : \A f \in On(m.books, c, t) :
            /\ f \in On(k.books, c, t)
            /\ k.pool.allocated[f.Level] = m.pool.allocated[f.Level]
  BY <1>3 DEF ALevelFound
<1>7. V \in Nat
  BY <1>1, HeldIsFinite
<1>8. slot \in Slots(k.pool) /\ slot \in Nat
  <2>1. slot \in Slots(k.pool)
    BY <1>1, <1>5, <1>6 DEF Shelf
  <2>. QED
    BY <2>1 DEF Slots
<1>9. k.pool.allocated[slot].Price = price /\ k.pool.allocated[slot].Volume = V
  <2>1. CASE e \in On(m.books, b, s)
    BY <1>1, <1>2, <1>5, <1>6, <2>1 DEF ALevels
  <2>2. CASE /\ k.pool.allocated[slot] = [Price |-> price, Volume |-> 0]
             /\ \A c \in Books, t \in Wings : \A f \in On(m.books, c, t) : f.Level # slot
    <3>1. ASSUME NEW i \in DOMAIN market
          PROVE  m.orders[i].Level # slot
      <4>1. market[i].Book \in Books /\ WingOf(market[i].Side) \in Wings
        BY <1>1, OrderAt DEF WingOf, Wings
      <4>2. PICK f \in On(m.books, market[i].Book, WingOf(market[i].Side)) :
               f.Level = m.orders[i].Level
        BY <1>2 DEF AOrders, AEntry, EntriesOf
      <4>. QED
        BY <2>2, <4>1, <4>2
    <3>2. Held(m.orders, market, slot) = {}
      BY <3>1 DEF Held
    <3>3. V = 0
      BY <3>2, LotsEmpty DEF VolumeAt
    <3>. QED
      BY <2>2, <3>3
  <2>. QED
    BY <1>5, <2>1, <2>2
<1>. DEFINE level == [Price |-> price, Volume |-> V + order.Shares]
            orders == [m.orders EXCEPT ![id].Level = slot]
<1>10. n.pool = Write(k.pool, slot, level) /\ n.books = k.books /\ n.orders = orders
       /\ n = [orders |-> n.orders, books |-> n.books, pool |-> n.pool]
  <2>1. k.pool.allocated \in Seq(ALevel)
    BY <1>6 DEF AManager
  <2>2. k.pool.allocated[slot] \in ALevel
    BY <1>8, <2>1, ElementOfSeq DEF Slots
  <2>3. [k.pool.allocated[slot] EXCEPT !.Volume = k.pool.allocated[slot].Volume + order.Shares] = level
    BY <1>9, <2>2 DEF ALevel
  <2>4. n = [k EXCEPT !.pool.allocated[slot] =
                         [k.pool.allocated[slot] EXCEPT !.Volume =
                             k.pool.allocated[slot].Volume + order.Shares],
                      !.orders[id].Level = slot]
    BY <1>4
  <2>5. n = [k EXCEPT !.pool.allocated[slot] = level, !.orders[id].Level = slot]
    BY <2>3, <2>4
  <2>. HIDE DEF level
  <2>. QED
    BY <1>6, <2>5 DEF AManager, Write
<1>11. level \in ALevel /\ level.Price = price /\ level.Volume = V + order.Shares
  BY <1>1, <1>7 DEF ALevel
<1>12. /\ orders[id].Symbol = order.Book /\ orders[id].Quantity = order.Shares
       /\ orders[id].Level = slot
       /\ \A i \in DOMAIN market : orders[i] = m.orders[i]
       /\ orders \in [Ids -> [Symbol : Books \cup {0}, Quantity : Int, Level : Nat]]
  <2>1. m.orders \in [Ids -> [Symbol : Books \cup {0}, Quantity : Int, Level : Nat]]
    BY <1>2 DEF AManager
  <2>2. m.orders[id] \in [Symbol : Books \cup {0}, Quantity : Int, Level : Nat]
    BY <1>1, <2>1
  <2>3. /\ orders[id] = [m.orders[id] EXCEPT !.Level = slot]
        /\ \A i \in Ids \ {id} : orders[i] = m.orders[i]
    BY <1>1, <2>1
  <2>4. orders[id] \in [Symbol : Books \cup {0}, Quantity : Int, Level : Nat]
    BY <1>8, <2>2, <2>3
  <2>5. orders \in [Ids -> [Symbol : Books \cup {0}, Quantity : Int, Level : Nat]]
    BY <2>1, <2>4
  <2>6. \A i \in DOMAIN market : i \in Ids \ {id}
    BY <1>1 DEF IsMarket
  <2>7. orders[id].Symbol = order.Book /\ orders[id].Quantity = order.Shares /\ orders[id].Level = slot
    BY <2>2, <2>3
  <2>. HIDE DEF orders
  <2>. QED
    BY <2>3, <2>5, <2>6, <2>7
<1>. HIDE DEF level, orders
<1>13. /\ Shelf(AWings, ALevel, n.pool, k.books)
       /\ n.pool.allocated[slot] = level
       /\ \A x \in Slots(k.pool) : x # slot => n.pool.allocated[x] = k.pool.allocated[x]
  <2>1. PICK pool : pool = n.pool
    OBVIOUS
  <2>2. pool = Write(k.pool, slot, level)
    BY <1>10, <2>1
  <2>3. Shelf(AWings, ALevel, k.pool, k.books) /\ slot \in Slots(k.pool) /\ level \in ALevel
    BY <1>6, <1>8, <1>11
  <2>4. /\ Shelf(AWings, ALevel, pool, k.books)
        /\ pool.free = k.pool.free /\ Len(pool.allocated) = Len(k.pool.allocated)
        /\ pool.allocated[slot] = level
        /\ \A x \in Slots(k.pool) : x # slot => pool.allocated[x] = k.pool.allocated[x]
    BY ONLY <2>2, <2>3, ShelfWrites
  <2>. QED
    BY <2>1, <2>4
<1>14. n \in AManager
  BY <1>10, <1>12, <1>13 DEF AManager, Shelf, PoolOK
<1>15. /\ DOMAIN after = DOMAIN market \cup {id}
       /\ after[id] = order /\ \A i \in DOMAIN market : after[i] = market[i]
  <2>1. AddGives(market, id, order, after)
    BY AddedIsMarket
  <2>. QED
    BY <2>1 DEF AddGives, Agree
<1>16. \A x : /\ slot = x => VolumeAt(orders, after, x) = VolumeAt(m.orders, market, x) + order.Shares
              /\ slot # x => VolumeAt(orders, after, x) = VolumeAt(m.orders, market, x)
  <2>1. PICK before : before = m.orders
    OBVIOUS
  <2>2. SameLevels(market, before, orders)
    BY <1>12, <2>1 DEF SameLevels
  <2>3. IsAdded(market, id, order, after)
    OBVIOUS
  <2>4. ASSUME NEW x
        PROVE  /\ orders[id].Level = x =>
                     /\ VolumeAt(orders, after, x) = VolumeAt(before, market, x) + order.Shares
                     /\ Cardinality(Held(orders, after, x)) =
                           Cardinality(Held(before, market, x)) + 1
               /\ orders[id].Level # x =>
                     /\ VolumeAt(orders, after, x) = VolumeAt(before, market, x)
                     /\ Held(orders, after, x) = Held(before, market, x)
    BY ONLY <2>2, <2>3, HeldAdded
  <2>. QED
    BY <1>12, <2>1, <2>4
<1>17. AOrders(n, after)
  <2>. SUFFICES ASSUME NEW i \in DOMAIN after
                PROVE  /\ n.orders[i].Symbol = after[i].Book
                       /\ n.orders[i].Quantity = after[i].Shares
                       /\ \E f \in EntriesOf(n, after, i) : AEntry(n, after, i, f)
    BY DEF AOrders
  <2>1. CASE i = id
    <3>1. e \in EntriesOf(n, after, i)
      BY <1>5, <1>10, <1>15, <2>1 DEF EntriesOf
    <3>2. AEntry(n, after, i, e)
      BY <1>5, <1>10, <1>12, <1>15, <2>1 DEF AEntry
    <3>. QED
      BY <1>10, <1>12, <1>15, <2>1, <3>1, <3>2
  <2>2. CASE i # id
    <3>1. i \in DOMAIN market /\ after[i] = market[i] /\ n.orders[i] = m.orders[i]
      BY <1>10, <1>12, <1>15, <2>2
    <3>2. /\ m.orders[i].Symbol = market[i].Book /\ m.orders[i].Quantity = market[i].Shares
          /\ \E f \in EntriesOf(m, market, i) : AEntry(m, market, i, f)
      BY <1>2, <3>1 DEF AOrders
    <3>3. PICK f \in EntriesOf(m, market, i) : AEntry(m, market, i, f)
      BY <3>2
    <3>4. market[i].Book \in Books /\ WingOf(market[i].Side) \in Wings
      BY <1>1, <3>1, OrderAt DEF WingOf, Wings
    <3>5. f \in EntriesOf(n, after, i)
      BY <1>6, <1>10, <3>1, <3>3, <3>4 DEF EntriesOf
    <3>6. AEntry(n, after, i, f)
      BY <3>1, <3>3 DEF AEntry
    <3>. QED
      BY <3>1, <3>2, <3>5, <3>6
  <2>. QED
    BY <2>1, <2>2
<1>18. ALevels(n, after)
  <2>. SUFFICES ASSUME NEW c \in Books, NEW t \in Wings, NEW f \in On(k.books, c, t)
                PROVE  /\ A!SideOf(f.Price) = t
                       /\ n.pool.allocated[f.Level].Price = f.Price
                       /\ n.pool.allocated[f.Level].Volume = VolumeAt(orders, after, f.Level)
                       /\ n.pool.allocated[f.Level].Volume # 0
    BY <1>10 DEF ALevels
  <2>1. CASE f.Level = slot
    <3>1. f = e /\ t = s
      BY <1>1, <1>5, <1>6, <2>1 DEF Shelf
    <3>2. n.pool.allocated[f.Level].Volume = V + order.Shares
      BY <1>11, <1>13, <2>1
    <3>3. V + order.Shares # 0
      BY <1>1, <1>7
    <3>4. VolumeAt(orders, after, f.Level) = V + order.Shares
      BY <1>16, <2>1
    <3>. QED
      BY <1>1, <1>5, <1>11, <1>13, <2>1, <3>1, <3>2, <3>3, <3>4
  <2>2. CASE f.Level # slot
    <3>1. f \in On(m.books, c, t) /\ f.Level \in Slots(k.pool)
      BY <1>5, <1>6, <2>2 DEF Shelf
    <3>2. /\ A!SideOf(f.Price) = t
          /\ m.pool.allocated[f.Level].Price = f.Price
          /\ m.pool.allocated[f.Level].Volume = VolumeAt(m.orders, market, f.Level)
          /\ m.pool.allocated[f.Level].Volume # 0
      BY <1>2, <3>1 DEF ALevels
    <3>3. n.pool.allocated[f.Level] = m.pool.allocated[f.Level]
      BY <1>6, <1>13, <2>2, <3>1
    <3>. QED
      BY <1>16, <2>2, <3>2, <3>3
  <2>. QED
    BY <2>1, <2>2
<1>19. \A c \in Books, t \in Wings : c # b => n.books[c][t] = m.books[c][t]
  BY <1>6, <1>10
<1>. QED
  BY <1>10, <1>13, <1>14, <1>17, <1>18, <1>19 DEF AOK

-----------------------------------------------------------------------------
(* The operators of the optimized manager *)

LEMMA OPool ==
    /\ \A pool : O!NextSlot(pool) = NextSlot(pool)
    /\ \A pool, level : O!Allocate(pool, level) = Allocate(pool, level)
    /\ \A pool, slot : O!Free(pool, slot) = Free(pool, slot)
    /\ O!EmptyBook = EmptyBook /\ O!EmptyPool = EmptyPool
<1>1. \A pool : O!NextSlot(pool) = NextSlot(pool)
  BY DEF O!NextSlot, O!Last, NextSlot, Last
<1>2. \A pool, level : O!Allocate(pool, level) = Allocate(pool, level)
  BY DEF O!NextSlot, O!Last, NextSlot, Last, O!Allocate, Allocate, O!Front, Front
<1>3. \A pool, slot : O!Free(pool, slot) = Free(pool, slot)
  BY DEF O!Free, Free
<1>4. O!EmptyBook = EmptyBook /\ O!EmptyPool = EmptyPool
  BY DEF O!EmptyBook, EmptyBook, O!EmptyPool, EmptyPool
<1>. QED
  BY <1>1, <1>2, <1>3, <1>4

LEMMA OVector ==
    /\ \A s, i, e : O!InsertAt(s, i, e) = InsertAt(s, i, e)
    /\ \A s, i : O!RemoveAt(s, i) = RemoveAt(s, i)
    /\ \A T : O!Max(T) = Max(T)
<1>1. \A s, i, e : O!InsertAt(s, i, e) = InsertAt(s, i, e)
  BY DEF O!InsertAt, InsertAt
<1>2. \A s, i : O!RemoveAt(s, i) = RemoveAt(s, i)
  BY DEF O!RemoveAt, RemoveAt
<1>3. \A T : O!Max(T) = Max(T)
  BY DEF O!Max, Max
<1>. QED
  BY <1>1, <1>2, <1>3

\* The vector and the price that an order has.
OGoesTo(m, id, b, s, price) ==
    /\ m \in OManager /\ Shelf(OWings, OLevel, m.pool, m.books)
    /\ id \in Ids /\ b \in Books
    /\ m.orders[id].Symbol = b /\ m.orders[id].Price = price
    /\ s = O!SideOf(m.orders[id])

OScans(m, id, b, s, price) ==
    /\ s \in Wings /\ price \in Int
    /\ m.books \in Vectors /\ m.books[b][s] \in Seq(Entry) /\ Sorted(OWings[s], m.books[b][s])
    /\ O!LevelsOf(m, id) = m.books[b][s]
    /\ O!ScanFor(m, id) = ScanPlace(OWings[s], m.books[b][s], price)

LEMMA OScan ==
    ASSUME NEW m, NEW id, NEW b, NEW s, NEW price, OGoesTo(m, id, b, s, price)
    PROVE  OScans(m, id, b, s, price)
<1>. DEFINE levels == m.books[b][s]
            dir == OWings[s]
<1>1. /\ m \in OManager /\ Shelf(OWings, OLevel, m.pool, m.books)
      /\ id \in Ids /\ b \in Books
      /\ m.orders[id].Symbol = b /\ m.orders[id].Price = price
      /\ s = O!SideOf(m.orders[id])
  BY DEF OGoesTo
<1>2. m.orders[id].Side \in Sides /\ price \in Int
  BY <1>1 DEF OManager
<1>3. s \in Wings /\ dir = IF m.orders[id].Side = "BUY" THEN "up" ELSE "down"
  BY <1>1, <1>2 DEF Wings, OWings, O!SideOf, Sides
<1>4. m.books \in Vectors /\ levels \in Seq(Entry) /\ Sorted(dir, levels)
  <2>1. m.books \in Vectors /\ Sorted(dir, levels)
    BY <1>1, <1>3 DEF Shelf
  <2>. QED
    BY <1>1, <1>3, <2>1, VectorAt
<1>5. O!LevelsOf(m, id) = levels
  BY <1>1 DEF O!LevelsOf
<1>. HIDE DEF levels, dir
<1>6. {i \in 1 .. Len(levels) : IF m.orders[id].Side = "BUY" THEN levels[i].Price <= price
                                ELSE levels[i].Price >= price}
         = NotBehind(dir, levels, price)
  <2>1. \A i \in 1 .. Len(levels) : levels[i].Price \in Int
    BY <1>4, EntryAt
  <2>. QED
    BY <1>2, <1>3, <2>1 DEF NotBehind, Before
<1>7. O!Max(NotBehind(dir, levels, price)) = Max(NotBehind(dir, levels, price))
  BY OVector
<1>8. O!ScanFor(m, id) = IF NotBehind(dir, levels, price) # {}
                         THEN O!Max(NotBehind(dir, levels, price)) ELSE 0
  BY <1>1, <1>5, <1>6 DEF O!ScanFor, O!SelectLastInSeq
<1>9. O!ScanFor(m, id) = ScanPlace(dir, levels, price)
  BY <1>7, <1>8 DEF ScanPlace
<1>. QED
  BY <1>2, <1>3, <1>4, <1>5, <1>9 DEF OScans, levels, dir

\* An order is at an entry of a vector, if the slots are in order.
OIsAt(m, id, b, s, e) ==
    /\ OGoesTo(m, id, b, s, e.Price)
    /\ e \in On(m.books, b, s)
    /\ m.orders[id].Level = e.Level

\* The level of an order goes with its entry.
LEMMA OLevelGoes ==
    ASSUME NEW m, NEW id, NEW b, NEW s, NEW e, OIsAt(m, id, b, s, e),
           NEW n, n = O!DeleteLevel(m, id)
    PROVE  /\ n \in OManager /\ n.orders = m.orders /\ n.handler = m.handler
           /\ Shelf(OWings, OLevel, n.pool, n.books)
           /\ On(n.books, b, s) = On(m.books, b, s) \ {e}
           /\ \A c \in Books, t \in Wings : c # b \/ t # s => n.books[c][t] = m.books[c][t]
           /\ n.pool.allocated = m.pool.allocated
<1>. DEFINE levels == m.books[b][s]
            k == ScanPlace(OWings[s], levels, e.Price)
<1>1. /\ m \in OManager /\ Shelf(OWings, OLevel, m.pool, m.books)
      /\ id \in Ids /\ b \in Books /\ e \in On(m.books, b, s)
      /\ m.orders[id].Symbol = b /\ m.orders[id].Price = e.Price /\ m.orders[id].Level = e.Level
      /\ s = O!SideOf(m.orders[id])
  BY DEF OIsAt, OGoesTo
<1>2. OScans(m, id, b, s, e.Price)
  <2>1. PICK price : price = e.Price
    OBVIOUS
  <2>2. OGoesTo(m, id, b, s, price)
    BY <2>1 DEF OIsAt
  <2>3. OScans(m, id, b, s, price)
    BY <2>2, OScan
  <2>. QED
    BY <2>1, <2>3
<1>3. /\ s \in Wings /\ levels \in Seq(Entry) /\ Sorted(OWings[s], levels)
      /\ O!LevelsOf(m, id) = levels /\ O!ScanFor(m, id) = k
  BY <1>2 DEF OScans
<1>4. /\ k \in 1 .. Len(levels) /\ levels[k] = e
  <2>1. IsEntryOf(OWings[s], levels, e)
    BY <1>1, <1>3 DEF On, IsEntryOf
  <2>2. PICK dir : dir = OWings[s]
    OBVIOUS
  <2>3. k = ScanPlace(dir, levels, e.Price) /\ IsEntryOf(dir, levels, e)
    BY <2>1, <2>2
  <2>. HIDE DEF levels, k
  <2>4. IsOnlyPlace(k, levels, e)
    BY ONLY <2>3, FindsEntry
  <2>. QED
    BY <2>4 DEF IsOnlyPlace
<1>. HIDE DEF k
<1>5. O!PlaceOf(m, id) = k /\ k # 0
  BY <1>1, <1>3, <1>4 DEF O!PlaceOf
<1>6. n = [m EXCEPT !.books[b][s] = O!RemoveAt(@, k), !.pool = O!Free(@, m.orders[id].Level)]
  BY <1>1, <1>5 DEF O!DeleteLevel
<1>7. n = [m EXCEPT !.books[b][s] = RemoveAt(levels, k), !.pool = Free(m.pool, e.Level)]
  BY <1>1, <1>6, OPool, OVector DEF OManager
<1>. DEFINE books == [m.books EXCEPT ![b][s] = RemoveAt(levels, k)]
            pool == Free(m.pool, e.Level)
<1>8. n.orders = m.orders /\ n.books = books /\ n.pool = pool /\ n.handler = m.handler
      /\ n = [orders |-> m.orders, books |-> books, pool |-> pool, handler |-> m.handler]
  BY <1>1, <1>7 DEF OManager
<1>9. /\ Shelf(OWings, OLevel, pool, books)
      /\ On(books, b, s) = On(m.books, b, s) \ {e}
      /\ \A c \in Books, t \in Wings : c # b \/ t # s => books[c][t] = m.books[c][t]
      /\ pool.allocated = m.pool.allocated
  <2>1. k \in 1 .. Len(m.books[b][s]) /\ e = m.books[b][s][k]
    BY <1>4
  <2>2. books = [m.books EXCEPT ![b][s] = RemoveAt(m.books[b][s], k)]
        /\ pool = Free(m.pool, e.Level)
    OBVIOUS
  <2>3. Shelf(OWings, OLevel, m.pool, m.books) /\ b \in Books /\ s \in Wings
    BY <1>1, <1>3
  <2>. HIDE DEF books, pool, levels
  <2>. QED
    BY ONLY <2>1, <2>2, <2>3, ShelfRemoves, SMTT(30)
<1>. HIDE DEF books, pool
<1>10. n \in OManager
  BY <1>1, <1>8, <1>9 DEF Shelf, PoolOK, OManager
<1>. QED
  BY <1>8, <1>9, <1>10

\* The volume a and the count o that a level loses with q shares of an order: with the
\* whole order it may lose less of the volume.
Loses(market, id, q, a, o) ==
    /\ a \in 0 .. q
    /\ o = (IF q = market[id].Shares THEN 1 ELSE 0)
    /\ q # market[id].Shares => a = q

LosesAt(m, slot, a, o, n) ==
    n = [m EXCEPT !.pool.allocated[slot] = O!Changed(@, -a, -o)]

\* The manager k has what is left of the order noted, and nothing else done.
ONoted(m, k, market, id, q) ==
    /\ k \in OManager /\ k.pool = m.pool /\ k.books = m.books
    /\ \A i \in Ids \ {id} : k.orders[i] = m.orders[i]
    /\ k.orders[id].Symbol = m.orders[id].Symbol /\ k.orders[id].Side = m.orders[id].Side
    /\ k.orders[id].Price = m.orders[id].Price /\ k.orders[id].Level = m.orders[id].Level
    /\ q # market[id].Shares => k.orders[id].Quantity = market[id].Shares - q

OGivesUp(m, market, id, after, k, n) ==
    /\ OOK(n, after) /\ Elsewhere(m, n, {market[id].Book})
    /\ n.orders = k.orders /\ n.handler = k.handler

\* The optimized manager takes shares from a level, or a whole order.
LEMMA OReduces ==
    ASSUME NEW m, NEW market, OOK(m, market), NEW id, NEW q, NEW after,
           IsCut(market, id, q, after), NEW k, ONoted(m, k, market, id, q),
           NEW a, NEW o, Loses(market, id, q, a, o),
           NEW slot, slot = m.orders[id].Level,
           NEW r, LosesAt(k, slot, a, o, r), NEW n, n = O!DeleteIfEmpty(r, id)
    PROVE  OGivesUp(m, market, id, after, k, n)
<1>. SUFFICES /\ OOK(n, after)
              /\ n.orders = k.orders /\ n.handler = k.handler
              /\ \A c \in Books, t \in Wings : c # market[id].Book => n.books[c][t] = m.books[c][t]
  BY DEF OGivesUp, Elsewhere
<1>. DEFINE b == market[id].Book
            s == WingOf(market[id].Side)
            V == m.pool.allocated[slot].Volume
            C == m.pool.allocated[slot].Orders
<1>0. IsMarket(market) /\ id \in DOMAIN market /\ q \in 1 .. market[id].Shares
  BY DEF IsCut
<1>k. /\ k \in OManager /\ k.pool = m.pool /\ k.books = m.books
      /\ \A i \in Ids \ {id} : k.orders[i] = m.orders[i]
      /\ k.orders[id].Symbol = m.orders[id].Symbol /\ k.orders[id].Side = m.orders[id].Side
      /\ k.orders[id].Price = m.orders[id].Price /\ k.orders[id].Level = slot
      /\ q # market[id].Shares => k.orders[id].Quantity = market[id].Shares - q
  BY DEF ONoted
<1>1. /\ id \in Ids /\ b \in Books /\ s \in Wings /\ market[id].Shares \in Nat /\ q \in Nat
      /\ a \in Nat /\ a <= q /\ o \in {0, 1} /\ market[id].Side \in Sides
      /\ o = 1 <=> q = market[id].Shares
      /\ q # market[id].Shares => a = q
  <2>1. /\ id \in Ids /\ b \in Books /\ market[id].Side \in Sides /\ market[id].Shares \in Nat
    BY <1>0, OrderAt
  <2>2. s \in Wings
    BY DEF WingOf, Wings
  <2>3. q \in Nat
    BY <1>0, <2>1
  <2>. QED
    BY <2>1, <2>2, <2>3 DEF Loses
<1>2. m \in OManager /\ Shelf(OWings, OLevel, m.pool, m.books)
      /\ OOrders(m, market) /\ OLevels(m, market)
  BY DEF OOK
<1>3. PICK e \in On(m.books, b, s) : e.Price = m.orders[id].Price /\ e.Level = slot
  BY <1>0, <1>2 DEF OOrders, OEntry, EntriesOf
<1>4. /\ slot \in Slots(m.pool) /\ slot \notin FreeSlots(m.pool)
      /\ m.pool.allocated[slot] \in OLevel /\ V \in Int /\ C \in Int
      /\ C = Cardinality(Held(m.orders, market, slot))
      /\ V >= VolumeAt(m.orders, market, slot)
  <2>1. slot \in Slots(m.pool) /\ slot \notin FreeSlots(m.pool)
    BY <1>1, <1>2, <1>3 DEF Shelf
  <2>2. m.pool.allocated \in Seq(OLevel)
    BY <1>2 DEF OManager
  <2>3. m.pool.allocated[slot] \in OLevel
    BY <2>1, <2>2, ElementOfSeq DEF Slots
  <2>4. V \in Int /\ C \in Int
    BY <2>3 DEF OLevel
  <2>. QED
    BY <1>1, <1>2, <1>3, <2>1, <2>3, <2>4 DEF OLevels
<1>5. \A x : VolumeAt(m.orders, market, x) \in Nat /\ Cardinality(Held(m.orders, market, x)) \in Nat
  BY <1>0, HeldIsFinite
<1>6. /\ IsMarket(after)
      /\ q = market[id].Shares => DOMAIN after = DOMAIN market \ {id}
      /\ q # market[id].Shares => DOMAIN after = DOMAIN market
      /\ SameKinds(after, market, DOMAIN after)
      /\ Agree(after, market, DOMAIN after \ {id})
      /\ id \in DOMAIN after => after[id].Shares = market[id].Shares - q
  <2>1. CutGives(market, id, q, after)
    BY CutIsMarket
  <2>. QED
    BY <2>1 DEF CutGives
<1>7. \A i \in DOMAIN market : k.orders[i].Level = m.orders[i].Level
  BY <1>0, <1>k DEF IsMarket
<1>8. \A x : /\ slot = x =>
                   /\ VolumeAt(k.orders, after, x) = VolumeAt(m.orders, market, x) - q
                   /\ Cardinality(Held(k.orders, after, x)) =
                         Cardinality(Held(m.orders, market, x)) - o
             /\ slot # x =>
                   /\ VolumeAt(k.orders, after, x) = VolumeAt(m.orders, market, x)
                   /\ Held(k.orders, after, x) = Held(m.orders, market, x)
  <2>1. PICK others : others = k.orders
    OBVIOUS
  <2>2. PICK orders : orders = m.orders
    OBVIOUS
  <2>3. SameLevels(market, orders, others)
    BY <1>7, <2>1, <2>2 DEF SameLevels
  <2>4. IsCut(market, id, q, after)
    OBVIOUS
  <2>5. ASSUME NEW x
        PROVE  /\ orders[id].Level = x =>
                     VolumeAt(others, after, x) = VolumeAt(orders, market, x) - q
               /\ orders[id].Level # x =>
                     VolumeAt(others, after, x) = VolumeAt(orders, market, x)
               /\ orders[id].Level = x /\ q = market[id].Shares =>
                     Cardinality(Held(others, after, x)) = Cardinality(Held(orders, market, x)) - 1
               /\ orders[id].Level # x \/ q # market[id].Shares =>
                     Held(others, after, x) = Held(orders, market, x)
    BY ONLY <2>3, <2>4, CutVolume
  <2>6. ASSUME NEW x
        PROVE  /\ slot = x => VolumeAt(k.orders, after, x) = VolumeAt(m.orders, market, x) - q
               /\ slot # x => VolumeAt(k.orders, after, x) = VolumeAt(m.orders, market, x)
               /\ slot = x /\ o = 1 =>
                     Cardinality(Held(k.orders, after, x)) =
                        Cardinality(Held(m.orders, market, x)) - 1
               /\ slot # x \/ o # 1 => Held(k.orders, after, x) = Held(m.orders, market, x)
    <3>1. orders[id].Level = slot /\ (o = 1 <=> q = market[id].Shares)
      BY <1>1, <2>2
    <3>. QED
      BY <2>1, <2>2, <2>5, <3>1
  <2>7. ASSUME NEW x, slot = x
        PROVE  Cardinality(Held(k.orders, after, x)) = Cardinality(Held(m.orders, market, x)) - o
    <3>1. CASE o = 1
      BY <2>6, <2>7, <3>1
    <3>2. CASE o = 0
      <4>1. Held(k.orders, after, x) = Held(m.orders, market, x)
        BY <2>6, <3>2
      <4>. QED
        BY <1>5, <3>2, <4>1
    <3>. QED
      BY <1>1, <3>1, <3>2
  <2>. QED
    BY <2>6, <2>7
<1>. DEFINE level == [m.pool.allocated[slot] EXCEPT !.Volume = V - a, !.Orders = C - o]
<1>9. /\ r.pool = Write(m.pool, slot, level)
      /\ r.books = m.books /\ r.orders = k.orders /\ r.handler = k.handler
      /\ r = [orders |-> k.orders, books |-> m.books, pool |-> r.pool, handler |-> k.handler]
  <2>0. /\ k.pool \in [allocated : Seq(OLevel), free : Seq(Nat)]
        /\ slot \in 1 .. Len(k.pool.allocated) /\ k.pool.allocated[slot] \in OLevel
        /\ k.pool.allocated \in Seq(OLevel)
    BY <1>4, <1>k DEF OManager, Slots
  <2>1. r = [k EXCEPT !.pool.allocated[slot] = O!Changed(k.pool.allocated[slot], -a, -o)]
    BY DEF LosesAt
  <2>a. k.pool.allocated[slot] = m.pool.allocated[slot]
    BY <1>k
  <2>b. O!Changed(m.pool.allocated[slot], -a, -o) = level
    <3>1. PICK u \in OLevel : u = m.pool.allocated[slot]
      BY <1>4
    <3>2. u.Volume + (-a) = V - a /\ u.Orders + (-o) = C - o
      BY <1>1, <1>4, <3>1
    <3>. QED
      BY <3>1, <3>2 DEF O!Changed
  <2>2. r = [k EXCEPT !.pool.allocated[slot] = level]
    BY <2>1, <2>a, <2>b
  <2>. HIDE DEF level
  <2>. QED
    BY <1>k, <2>2 DEF OManager, Write
<1>10. level \in OLevel /\ level.Volume = V - a /\ level.Orders = C - o
  <2>1. V - a \in Int /\ C - o \in Int
    BY <1>1, <1>4
  <2>2. PICK v \in Int, c \in Int : v = V - a /\ c = C - o
    BY <2>1
  <2>3. PICK u \in OLevel : u = m.pool.allocated[slot]
    BY <1>4
  <2>4. level = [u EXCEPT !.Volume = v, !.Orders = c]
    BY <2>2, <2>3
  <2>. HIDE DEF level
  <2>. QED
    BY <2>2, <2>3, <2>4 DEF OLevel
<1>. HIDE DEF level
<1>11. /\ Shelf(OWings, OLevel, r.pool, m.books)
       /\ r.pool.allocated[slot] = level
       /\ \A x \in Slots(m.pool) : x # slot => r.pool.allocated[x] = m.pool.allocated[x]
  <2>1. PICK pool : pool = r.pool
    OBVIOUS
  <2>2. pool = Write(m.pool, slot, level)
    BY <1>9, <2>1
  <2>3. Shelf(OWings, OLevel, m.pool, m.books) /\ slot \in Slots(m.pool) /\ level \in OLevel
    BY <1>2, <1>4, <1>10
  <2>4. /\ Shelf(OWings, OLevel, pool, m.books)
        /\ pool.free = m.pool.free /\ Len(pool.allocated) = Len(m.pool.allocated)
        /\ pool.allocated[slot] = level
        /\ \A x \in Slots(m.pool) : x # slot => pool.allocated[x] = m.pool.allocated[x]
    BY ONLY <2>2, <2>3, ShelfWrites
  <2>. QED
    BY <2>1, <2>4
<1>12. r \in OManager
  BY <1>k, <1>9, <1>11 DEF OManager, Shelf, PoolOK
<1>14. \A i \in DOMAIN after :
          /\ k.orders[i].Symbol = after[i].Book
          /\ k.orders[i].Side = after[i].Side
          /\ k.orders[i].Quantity = after[i].Shares
          /\ \E f \in On(m.books, after[i].Book, WingOf(after[i].Side)) :
                f.Price = k.orders[i].Price /\ f.Level = k.orders[i].Level
  <2>. SUFFICES ASSUME NEW i \in DOMAIN after
                PROVE  /\ k.orders[i].Symbol = after[i].Book
                       /\ k.orders[i].Side = after[i].Side
                       /\ k.orders[i].Quantity = after[i].Shares
                       /\ \E f \in On(m.books, after[i].Book, WingOf(after[i].Side)) :
                             f.Price = k.orders[i].Price /\ f.Level = k.orders[i].Level
    OBVIOUS
  <2>1. i \in DOMAIN market /\ i \in Ids
    BY <1>6 DEF IsMarket
  <2>2. /\ m.orders[i].Symbol = market[i].Book /\ m.orders[i].Quantity = market[i].Shares
        /\ m.orders[i].Side = market[i].Side
        /\ \E f \in On(m.books, market[i].Book, WingOf(market[i].Side)) :
              f.Price = m.orders[i].Price /\ f.Level = m.orders[i].Level
    BY <1>2, <2>1 DEF OOrders, OEntry, EntriesOf
  <2>3. CASE i # id
    BY <1>6, <1>k, <2>1, <2>2, <2>3 DEF Agree, SameKinds
  <2>4. CASE i = id
    <3>1. q # market[id].Shares
      BY <1>6, <2>4
    <3>. QED
      BY <1>6, <1>k, <2>1, <2>2, <2>4, <3>1 DEF SameKinds
  <2>. QED
    BY <2>3, <2>4
<1>15. n = IF level.Volume = 0 THEN O!DeleteLevel(r, id) ELSE r
  <2>1. O!LevelOf(r, id) = level
    BY <1>9, <1>11, <1>k DEF O!LevelOf
  <2>. QED
    BY <2>1 DEF O!DeleteIfEmpty
<1>v. level.Volume >= VolumeAt(k.orders, after, slot)
  <2>1. VolumeAt(k.orders, after, slot) = VolumeAt(m.orders, market, slot) - q
    BY <1>8
  <2>2. VolumeAt(m.orders, market, slot) \in Nat
    BY <1>5
  <2>. QED
    BY <1>1, <1>4, <1>10, <2>1, <2>2
<1>16. \A c \in Books, t \in Wings : \A f \in On(m.books, c, t) :
          /\ r.pool.allocated[f.Level].Orders = Cardinality(Held(k.orders, after, f.Level))
          /\ r.pool.allocated[f.Level].Volume >= VolumeAt(k.orders, after, f.Level)
          /\ f # e => f.Level # slot /\ r.pool.allocated[f.Level].Volume # 0
  <2>. SUFFICES ASSUME NEW c \in Books, NEW t \in Wings, NEW f \in On(m.books, c, t)
                PROVE  /\ r.pool.allocated[f.Level].Orders =
                             Cardinality(Held(k.orders, after, f.Level))
                       /\ r.pool.allocated[f.Level].Volume >= VolumeAt(k.orders, after, f.Level)
                       /\ f # e => f.Level # slot /\ r.pool.allocated[f.Level].Volume # 0
    OBVIOUS
  <2>1. /\ m.pool.allocated[f.Level].Orders = Cardinality(Held(m.orders, market, f.Level))
        /\ m.pool.allocated[f.Level].Volume >= VolumeAt(m.orders, market, f.Level)
        /\ m.pool.allocated[f.Level].Volume # 0
    BY <1>2 DEF OLevels
  <2>2. f.Level \in Slots(m.pool)
    BY <1>2 DEF Shelf
  <2>3. f.Level = slot => f = e
    BY <1>1, <1>2, <1>3 DEF Shelf
  <2>5. CASE f.Level = slot
    <3>1. Cardinality(Held(k.orders, after, f.Level)) = C - o
      BY <1>4, <1>8, <2>5
    <3>. QED
      BY <1>10, <1>11, <1>v, <2>3, <2>5, <3>1
  <2>6. CASE f.Level # slot
    <3>1. /\ VolumeAt(k.orders, after, f.Level) = VolumeAt(m.orders, market, f.Level)
          /\ Held(k.orders, after, f.Level) = Held(m.orders, market, f.Level)
      BY <1>8, <2>6
    <3>2. r.pool.allocated[f.Level] = m.pool.allocated[f.Level]
      BY <1>11, <2>2, <2>6
    <3>. QED
      BY <2>1, <2>6, <3>1, <3>2
  <2>. QED
    BY <2>5, <2>6
<1>17. CASE level.Volume # 0
  <2>1. n = r
    BY <1>15, <1>17
  <2>2. OOrders(r, after)
    BY <1>9, <1>14 DEF OOrders, OEntry, EntriesOf
  <2>3. OLevels(r, after)
    BY <1>3, <1>9, <1>11, <1>16, <1>17 DEF OLevels
  <2>4. Shelf(OWings, OLevel, r.pool, r.books)
    BY <1>9, <1>11
  <2>. QED
    BY <1>9, <1>12, <2>1, <2>2, <2>3, <2>4 DEF OOK
<1>18. CASE level.Volume = 0
  <2>1. n = O!DeleteLevel(r, id)
    BY <1>15, <1>18
  <2>2. VolumeAt(k.orders, after, slot) = 0
    <3>1. VolumeAt(k.orders, after, slot) \in Nat
      BY <1>6, HeldIsFinite
    <3>. QED
      BY <1>18, <1>v, <3>1
  <2>3. \A i \in DOMAIN after : k.orders[i].Level # slot
    <3>. SUFFICES ASSUME NEW i \in DOMAIN after, k.orders[i].Level = slot PROVE FALSE
      OBVIOUS
    <3>1. i \in Held(k.orders, after, slot)
      BY DEF Held
    <3>2. VolumeAt(k.orders, after, slot) >= after[i].Shares
      BY <1>6, <3>1, HeldIsFinite
    <3>3. after[i].Shares \in Nat /\ after[i].Shares > 0
      BY <1>6, OrderAt
    <3>. QED
      BY <2>2, <3>2, <3>3
  <2>4. /\ n \in OManager /\ n.orders = r.orders /\ n.handler = r.handler
        /\ Shelf(OWings, OLevel, n.pool, n.books)
        /\ On(n.books, b, s) = On(r.books, b, s) \ {e}
        /\ \A c \in Books, t \in Wings : c # b \/ t # s => n.books[c][t] = r.books[c][t]
        /\ n.pool.allocated = r.pool.allocated
    <3>1. r \in OManager /\ Shelf(OWings, OLevel, r.pool, r.books)
      BY <1>9, <1>11, <1>12
    <3>2. /\ r.orders[id].Symbol = b /\ r.orders[id].Level = e.Level
          /\ r.orders[id].Price = e.Price /\ r.orders[id].Side = market[id].Side
      BY <1>0, <1>2, <1>3, <1>9, <1>k DEF OOrders
    <3>3. O!SideOf(r.orders[id]) = s
      BY <3>2 DEF O!SideOf, WingOf
    <3>4. e \in On(r.books, b, s) /\ b \in Books /\ s \in Wings /\ id \in Ids
      BY <1>1, <1>3, <1>9
    <3>5. OIsAt(r, id, b, s, e)
      BY <3>1, <3>2, <3>3, <3>4 DEF OIsAt, OGoesTo
    <3>. HIDE DEF b, s
    <3>. QED
      BY ONLY <2>1, <3>5, OLevelGoes
  <2>5. \A c \in Books, t \in Wings : On(n.books, c, t) \subseteq On(m.books, c, t) \ {e}
    <3>. SUFFICES ASSUME NEW c \in Books, NEW t \in Wings, NEW f \in On(n.books, c, t)
                  PROVE  f \in On(m.books, c, t) /\ f # e
      OBVIOUS
    <3>1. CASE c = b /\ t = s
      BY <1>9, <2>4, <3>1
    <3>2. CASE c # b \/ t # s
      <4>1. f \in On(m.books, c, t)
        BY <1>9, <2>4, <3>2 DEF On
      <4>2. f # e
        BY <1>1, <1>2, <1>3, <3>2, <4>1 DEF Shelf
      <4>. QED
        BY <4>1, <4>2
    <3>. QED
      BY <3>1, <3>2
  <2>6. \A c \in Books, t \in Wings : \A f \in On(m.books, c, t) :
           f # e => f \in On(n.books, c, t)
    BY <1>9, <2>4 DEF On
  <2>7. OOrders(n, after)
    <3>. SUFFICES ASSUME NEW i \in DOMAIN after
                  PROVE  /\ n.orders[i].Symbol = after[i].Book
                         /\ n.orders[i].Side = after[i].Side
                         /\ n.orders[i].Quantity = after[i].Shares
                         /\ \E f \in EntriesOf(n, after, i) : OEntry(n, after, i, f)
      BY DEF OOrders
    <3>1. PICK f \in On(m.books, after[i].Book, WingOf(after[i].Side)) :
             f.Price = k.orders[i].Price /\ f.Level = k.orders[i].Level
      BY <1>14
    <3>2. f # e
      BY <1>3, <2>3, <3>1
    <3>3. after[i].Book \in Books /\ WingOf(after[i].Side) \in Wings
      BY <1>6, OrderAt DEF WingOf, Wings
    <3>4. f \in EntriesOf(n, after, i)
      BY <2>6, <3>1, <3>2, <3>3 DEF EntriesOf
    <3>5. OEntry(n, after, i, f)
      BY <1>9, <2>4, <3>1 DEF OEntry
    <3>. QED
      BY <1>9, <1>14, <2>4, <3>4, <3>5
  <2>8. OLevels(n, after)
    <3>. SUFFICES ASSUME NEW c \in Books, NEW t \in Wings, NEW f \in On(n.books, c, t)
                  PROVE  /\ n.pool.allocated[f.Level].Orders =
                               Cardinality(Held(n.orders, after, f.Level))
                         /\ n.pool.allocated[f.Level].Volume >= VolumeAt(n.orders, after, f.Level)
                         /\ n.pool.allocated[f.Level].Volume # 0
      BY DEF OLevels
    <3>1. f \in On(m.books, c, t) /\ f # e
      BY <2>5
    <3>2. n.orders = k.orders /\ n.pool.allocated = r.pool.allocated
      BY <1>9, <2>4
    <3>. QED
      BY <1>16, <3>1, <3>2
  <2>9. \A c \in Books, t \in Wings : c # b => n.books[c][t] = m.books[c][t]
    BY <1>9, <2>4
  <2>. QED
    BY <1>9, <2>4, <2>7, <2>8, <2>9 DEF OOK
<1>. QED
  BY <1>17, <1>18

\* A level for the price of an order has been found, or put in where the scan ends.
OLevelFound(m, b, s, price, slot, k) ==
    /\ k \in OManager /\ k.orders = m.orders /\ k.handler = m.handler
    /\ Shelf(OWings, OLevel, k.pool, k.books)
    /\ \A c \in Books, t \in Wings : c # b \/ t # s => k.books[c][t] = m.books[c][t]
    /\ \A c \in Books, t \in Wings : \A f \in On(m.books, c, t) :
          /\ f \in On(k.books, c, t)
          /\ k.pool.allocated[f.Level] = m.pool.allocated[f.Level]
    /\ \E e \in On(k.books, b, s) :
          /\ e.Price = price /\ e.Level = slot
          /\ \A c \in Books, t \in Wings : On(k.books, c, t) \subseteq On(m.books, c, t) \cup {e}
          /\ \/ e \in On(m.books, b, s)
             \/ /\ k.pool.allocated[slot].Volume = 0 /\ k.pool.allocated[slot].Orders = 0
                /\ \A c \in Books, t \in Wings : \A f \in On(m.books, c, t) : f.Level # slot

LEMMA OFindsLevel ==
    ASSUME NEW m, NEW id, NEW b, NEW s, NEW price, OGoesTo(m, id, b, s, price),
           NEW found, found = O!FindLevel(m, id)
    PROVE  OLevelFound(m, b, s, price, found.slot, found.manager)
<1>. DEFINE levels == m.books[b][s]
            k == ScanPlace(OWings[s], levels, price)
            type == IF m.orders[id].Side = "BUY" THEN "BID" ELSE "ASK"
<1>1. /\ m \in OManager /\ Shelf(OWings, OLevel, m.pool, m.books)
      /\ id \in Ids /\ b \in Books
      /\ m.orders[id].Symbol = b /\ m.orders[id].Price = price
      /\ O!SideOf(m.orders[id]) = s
  BY DEF OGoesTo
<1>2. /\ s \in Wings /\ price \in Int /\ m.books \in Vectors
      /\ levels \in Seq(Entry) /\ Sorted(OWings[s], levels)
      /\ O!LevelsOf(m, id) = levels /\ O!ScanFor(m, id) = k
  <2>1. OScans(m, id, b, s, price)
    BY OScan
  <2>. QED
    BY <2>1 DEF OScans
<1>3. /\ HasPrice(levels, price) <=> k > 0 /\ levels[k].Price = price
      /\ k \in 0 .. Len(levels)
  <2>1. PICK dir : dir = OWings[s]
    OBVIOUS
  <2>2. levels \in Seq(Entry) /\ Sorted(dir, levels) /\ price \in Int
    BY <1>2, <2>1
  <2>. HIDE DEF levels
  <2>3. /\ HasPrice(levels, price) <=> /\ ScanPlace(dir, levels, price) > 0
                                       /\ levels[ScanPlace(dir, levels, price)].Price = price
        /\ ScanPlace(dir, levels, price) \in 0 .. Len(levels)
    BY ONLY <2>2, ScanFinds, ScanDivides
  <2>. QED
    BY <2>1, <2>3
<1>. HIDE DEF k
<1>5. CASE HasPrice(levels, price)
  <2>1. k > 0 /\ levels[k].Price = price /\ k \in 1 .. Len(levels)
    BY <1>3, <1>5
  <2>2. O!PlaceOf(m, id) = k
    BY <1>1, <1>2, <2>1 DEF O!PlaceOf
  <2>3. found = [manager |-> m, slot |-> levels[k].Level]
    BY <1>2, <2>1, <2>2 DEF O!FindLevel
  <2>4. levels[k] \in On(m.books, b, s)
    BY <2>1 DEF On, Elements
  <2>5. found.manager = m /\ found.slot = levels[k].Level
    BY <2>3
  <2>. QED
    BY <1>1, <2>1, <2>4, <2>5 DEF OLevelFound
<1>6. CASE ~HasPrice(levels, price)
  <2>. DEFINE level == [Type |-> type, Price |-> price, Volume |-> 0, Orders |-> 0]
              q == Allocate(m.pool, level)
              next == [m.books EXCEPT ![b][s] = InsertAt(levels, k + 1, EntryFor(m.pool, price))]
              r == [orders |-> m.orders, books |-> next, pool |-> q, handler |-> m.handler]
  <2>1. ~(O!PlaceOf(m, id) > 0)
    BY <1>1, <1>2, <1>3, <1>6 DEF O!PlaceOf
  <2>2. found = [manager |-> [m EXCEPT !.pool = Allocate(@, level),
                                       !.books[b][s] = InsertAt(@, k + 1, EntryFor(m.pool, price))],
                 slot    |-> NextSlot(m.pool)]
    BY <1>1, <1>2, <2>1, OPool, OVector DEF O!FindLevel, EntryFor
  <2>3. found.manager = r /\ found.slot = NextSlot(m.pool)
    <3>1. PICK t : t = InsertAt(levels, k + 1, EntryFor(m.pool, price))
      OBVIOUS
    <3>2. found.manager = [m EXCEPT !.pool = q, !.books[b][s] = t]
      BY <2>2, <3>1
    <3>3. r = [orders |-> m.orders, books |-> [m.books EXCEPT ![b][s] = t], pool |-> q,
               handler |-> m.handler]
      BY <3>1
    <3>4. found.slot = NextSlot(m.pool)
      BY <2>2
    <3>. HIDE DEF q, next, level, levels, r
    <3>. QED
      BY <1>1, <3>2, <3>3, <3>4 DEF OManager
  <2>4. Inserts(OWings, OLevel, m.pool, m.books, b, s, price, level, q, next)
    <3>1. level \in OLevel
      BY <1>2 DEF OLevel
    <3>2. k = ScanPlace(OWings[s], m.books[b][s], price)
      BY DEF k
    <3>3. q = Allocate(m.pool, level) /\ ~HasPrice(m.books[b][s], price)
      BY <1>6
    <3>4. next = [m.books EXCEPT ![b][s] = InsertAt(m.books[b][s],
                     ScanPlace(OWings[s], m.books[b][s], price) + 1, EntryFor(m.pool, price))]
      BY <3>2
    <3>. HIDE DEF q, next, level
    <3>. QED
      BY <1>1, <1>2, <3>1, <3>3, <3>4 DEF Inserts
  <2>. HIDE DEF q, next
  <2>5. Inserted(OWings, OLevel, m.pool, m.books, b, s, price, level, q, next)
    BY <2>4, ShelfInserts
  <2>6. r \in OManager
    BY <1>1, <2>5 DEF Inserted, Shelf, PoolOK, OManager
  <2>7. /\ EntryFor(m.pool, price).Price = price
        /\ EntryFor(m.pool, price).Level = NextSlot(m.pool)
        /\ EntryFor(m.pool, price) \in On(next, b, s)
    BY <2>5 DEF EntryFor, Inserted
  <2>8. \A c \in Books, t \in Wings : \A f \in On(m.books, c, t) : f \in On(next, c, t)
    BY <2>5 DEF Inserted, On
  <2>9. \A c \in Books, t \in Wings :
           On(next, c, t) \subseteq On(m.books, c, t) \cup {EntryFor(m.pool, price)}
    BY <2>5 DEF Inserted, On
  <2>10. r.orders = m.orders /\ r.books = next /\ r.pool = q /\ r.handler = m.handler
    OBVIOUS
  <2>11. level.Volume = 0 /\ level.Orders = 0
    OBVIOUS
  <2>. HIDE DEF r, level
  <2>. QED
    BY <2>3, <2>5, <2>6, <2>7, <2>8, <2>9, <2>10, <2>11 DEF OLevelFound, Inserted
<1>. QED
  BY <1>5, <1>6

\* An order has been noted, and comes to the vector of its price.
OComes(m, market, id, order) ==
    /\ m.orders[id].Symbol = order.Book /\ m.orders[id].Side = order.Side
    /\ m.orders[id].Quantity = order.Shares

\* The optimized manager takes an order in.
LEMMA OAdds ==
    ASSUME NEW m, NEW market, OOK(m, market), NEW id, NEW order, NEW after,
           IsAdded(market, id, order, after), OComes(m, market, id, order),
           NEW n, n = O!BookAddOrder(m, id)
    PROVE  /\ OOK(n, after) /\ n.handler = m.handler
           /\ \A c \in Books, t \in Wings : c # order.Book => n.books[c][t] = m.books[c][t]
<1>. DEFINE b == order.Book
            s == WingOf(order.Side)
            price == m.orders[id].Price
            found == O!FindLevel(m, id)
            slot == found.slot
            k == found.manager
            V == VolumeAt(m.orders, market, slot)
            C == Cardinality(Held(m.orders, market, slot))
<1>2. /\ m \in OManager /\ Shelf(OWings, OLevel, m.pool, m.books)
      /\ OOrders(m, market) /\ OLevels(m, market)
  BY DEF OOK
<1>1. /\ IsMarket(market) /\ id \in Ids /\ id \notin DOMAIN market
      /\ b \in Books /\ s \in Wings
      /\ order.Shares \in Nat /\ order.Shares > 0 /\ price \in Int
      /\ m.orders[id].Symbol = b /\ m.orders[id].Side = order.Side
      /\ m.orders[id].Quantity = order.Shares /\ O!SideOf(m.orders[id]) = s
  <2>1. IsMarket(market) /\ id \in Ids /\ id \notin DOMAIN market /\ order \in Order
    BY DEF IsAdded
  <2>2. order.Shares \in Nat \ {0} /\ order.Side \in Sides /\ order.Book \in Books
    BY <2>1 DEF Order
  <2>3. /\ m.orders[id].Symbol = b /\ m.orders[id].Side = order.Side
        /\ m.orders[id].Quantity = order.Shares
    BY DEF OComes
  <2>4. s \in Wings /\ O!SideOf(m.orders[id]) = s
    BY <2>3 DEF WingOf, Wings, O!SideOf
  <2>5. price \in Int
    BY <1>2, <2>1 DEF OManager
  <2>. QED
    BY <2>1, <2>2, <2>3, <2>4, <2>5
<1>3. OLevelFound(m, b, s, price, slot, k)
  <2>1. found = O!FindLevel(m, id)
    OBVIOUS
  <2>2. OGoesTo(m, id, b, s, price)
    BY <1>1, <1>2 DEF OGoesTo
  <2>. HIDE DEF found, b, s, price
  <2>. QED
    BY <2>1, <2>2, OFindsLevel
<1>4. n = [k EXCEPT !.pool.allocated[slot] = O!Changed(k.pool.allocated[slot], order.Shares, 1),
                    !.orders[id].Level = slot]
  BY <1>1 DEF O!BookAddOrder
<1>. HIDE DEF found, slot, k
<1>5. PICK e \in On(k.books, b, s) :
         /\ e.Price = price /\ e.Level = slot
         /\ \A c \in Books, t \in Wings : On(k.books, c, t) \subseteq On(m.books, c, t) \cup {e}
         /\ \/ e \in On(m.books, b, s)
            \/ /\ k.pool.allocated[slot].Volume = 0 /\ k.pool.allocated[slot].Orders = 0
               /\ \A c \in Books, t \in Wings : \A f \in On(m.books, c, t) : f.Level # slot
  BY <1>3 DEF OLevelFound
<1>6. /\ k \in OManager /\ k.orders = m.orders /\ k.handler = m.handler
      /\ Shelf(OWings, OLevel, k.pool, k.books)
      /\ \A c \in Books, t \in Wings : c # b \/ t # s => k.books[c][t] = m.books[c][t]
      /\ \A c \in Books, t \in Wings : \A f \in On(m.books, c, t) :
            /\ f \in On(k.books, c, t)
            /\ k.pool.allocated[f.Level] = m.pool.allocated[f.Level]
  BY <1>3 DEF OLevelFound
<1>7. V \in Nat /\ C \in Nat
  BY <1>1, HeldIsFinite
<1>8. slot \in Slots(k.pool) /\ slot \in Nat /\ k.pool.allocated[slot] \in OLevel
  <2>1. slot \in Slots(k.pool)
    BY <1>1, <1>5, <1>6 DEF Shelf
  <2>2. k.pool.allocated \in Seq(OLevel)
    BY <1>6 DEF OManager
  <2>3. k.pool.allocated[slot] \in OLevel
    BY <2>1, <2>2, ElementOfSeq DEF Slots
  <2>. QED
    BY <2>1, <2>3 DEF Slots
<1>9. k.pool.allocated[slot].Volume >= V /\ k.pool.allocated[slot].Orders = C
  <2>1. CASE e \in On(m.books, b, s)
    BY <1>1, <1>2, <1>5, <1>6, <2>1 DEF OLevels
  <2>2. CASE /\ k.pool.allocated[slot].Volume = 0 /\ k.pool.allocated[slot].Orders = 0
             /\ \A c \in Books, t \in Wings : \A f \in On(m.books, c, t) : f.Level # slot
    <3>1. ASSUME NEW i \in DOMAIN market
          PROVE  m.orders[i].Level # slot
      <4>1. market[i].Book \in Books /\ WingOf(market[i].Side) \in Wings
        BY <1>1, OrderAt DEF WingOf, Wings
      <4>2. PICK f \in On(m.books, market[i].Book, WingOf(market[i].Side)) :
               f.Level = m.orders[i].Level
        BY <1>2 DEF OOrders, OEntry, EntriesOf
      <4>. QED
        BY <2>2, <4>1, <4>2
    <3>2. Held(m.orders, market, slot) = {}
      BY <3>1 DEF Held
    <3>3. V = 0
      BY <3>2, LotsEmpty DEF VolumeAt
    <3>4. C = 0
      BY <3>2, FS_EmptySet
    <3>. QED
      BY <2>2, <3>3, <3>4
  <2>. QED
    BY <1>5, <2>1, <2>2
<1>. DEFINE level == O!Changed(k.pool.allocated[slot], order.Shares, 1)
            orders == [m.orders EXCEPT ![id].Level = slot]
<1>10. n.pool = Write(k.pool, slot, level) /\ n.books = k.books /\ n.orders = orders
       /\ n.handler = k.handler
       /\ n = [orders |-> n.orders, books |-> n.books, pool |-> n.pool, handler |-> n.handler]
  <2>1. n = [k EXCEPT !.pool.allocated[slot] = level, !.orders[id].Level = slot]
    BY <1>4
  <2>. HIDE DEF level
  <2>. QED
    BY <1>6, <2>1 DEF OManager, Write
<1>11. level \in OLevel /\ level.Volume >= V + order.Shares /\ level.Orders = C + 1
  <2>1. PICK u \in OLevel : u = k.pool.allocated[slot]
    BY <1>8
  <2>2. u.Volume \in Int /\ u.Orders \in Int /\ u.Volume >= V /\ u.Orders = C
    BY <1>9, <2>1 DEF OLevel
  <2>3. PICK v \in Int, c \in Int : v = u.Volume + order.Shares /\ c = u.Orders + 1
    BY <1>1, <2>2
  <2>4. level = [u EXCEPT !.Volume = v, !.Orders = c]
    BY <2>1, <2>3 DEF O!Changed
  <2>. HIDE DEF level
  <2>5. level \in OLevel /\ level.Volume = v /\ level.Orders = c
    BY <2>4 DEF OLevel
  <2>6. v >= V + order.Shares /\ c = C + 1
    BY <1>1, <1>7, <2>2, <2>3
  <2>. QED
    BY <2>5, <2>6
<1>12. /\ orders[id].Symbol = order.Book /\ orders[id].Quantity = order.Shares
       /\ orders[id].Side = order.Side /\ orders[id].Price = price
       /\ orders[id].Level = slot
       /\ \A i \in DOMAIN market : orders[i] = m.orders[i]
       /\ orders \in [Ids -> [Symbol : Books \cup {0}, Side : Sides, Price : Int,
                              Quantity : Int, Level : Nat]]
  <2>. DEFINE R == [Symbol : Books \cup {0}, Side : Sides, Price : Int,
                    Quantity : Int, Level : Nat]
  <2>1. m.orders \in [Ids -> R]
    BY <1>2 DEF OManager
  <2>2. m.orders[id] \in R
    BY <1>1, <2>1
  <2>3. /\ orders[id] = [m.orders[id] EXCEPT !.Level = slot]
        /\ \A i \in Ids \ {id} : orders[i] = m.orders[i]
    BY <1>1, <2>1
  <2>4. orders[id] \in R
    BY <1>8, <2>2, <2>3
  <2>5. orders \in [Ids -> R]
    BY <2>1, <2>4
  <2>6. \A i \in DOMAIN market : i \in Ids \ {id}
    BY <1>1 DEF IsMarket
  <2>7. /\ orders[id].Symbol = m.orders[id].Symbol /\ orders[id].Quantity = m.orders[id].Quantity
        /\ orders[id].Side = m.orders[id].Side /\ orders[id].Price = m.orders[id].Price
        /\ orders[id].Level = slot
    BY <2>2, <2>3
  <2>. HIDE DEF orders
  <2>. QED
    BY <1>1, <2>3, <2>5, <2>6, <2>7
<1>. HIDE DEF level, orders
<1>13. /\ Shelf(OWings, OLevel, n.pool, k.books)
       /\ n.pool.allocated[slot] = level
       /\ \A x \in Slots(k.pool) : x # slot => n.pool.allocated[x] = k.pool.allocated[x]
  <2>1. PICK pool : pool = n.pool
    OBVIOUS
  <2>2. pool = Write(k.pool, slot, level)
    BY <1>10, <2>1
  <2>3. Shelf(OWings, OLevel, k.pool, k.books) /\ slot \in Slots(k.pool) /\ level \in OLevel
    BY <1>6, <1>8, <1>11
  <2>4. /\ Shelf(OWings, OLevel, pool, k.books)
        /\ pool.free = k.pool.free /\ Len(pool.allocated) = Len(k.pool.allocated)
        /\ pool.allocated[slot] = level
        /\ \A x \in Slots(k.pool) : x # slot => pool.allocated[x] = k.pool.allocated[x]
    BY ONLY <2>2, <2>3, ShelfWrites
  <2>. QED
    BY <2>1, <2>4
<1>14. n \in OManager
  BY <1>6, <1>10, <1>12, <1>13 DEF OManager, Shelf, PoolOK
<1>15. /\ DOMAIN after = DOMAIN market \cup {id}
       /\ after[id] = order /\ \A i \in DOMAIN market : after[i] = market[i]
       /\ IsMarket(after)
  <2>1. AddGives(market, id, order, after)
    BY AddedIsMarket
  <2>. QED
    BY <2>1 DEF AddGives, Agree
<1>16. \A x : /\ slot = x =>
                    /\ VolumeAt(orders, after, x) = VolumeAt(m.orders, market, x) + order.Shares
                    /\ Cardinality(Held(orders, after, x)) =
                          Cardinality(Held(m.orders, market, x)) + 1
              /\ slot # x =>
                    /\ VolumeAt(orders, after, x) = VolumeAt(m.orders, market, x)
                    /\ Held(orders, after, x) = Held(m.orders, market, x)
  <2>1. PICK before : before = m.orders
    OBVIOUS
  <2>2. SameLevels(market, before, orders)
    BY <1>12, <2>1 DEF SameLevels
  <2>3. IsAdded(market, id, order, after)
    OBVIOUS
  <2>4. ASSUME NEW x
        PROVE  /\ orders[id].Level = x =>
                     /\ VolumeAt(orders, after, x) = VolumeAt(before, market, x) + order.Shares
                     /\ Cardinality(Held(orders, after, x)) =
                           Cardinality(Held(before, market, x)) + 1
               /\ orders[id].Level # x =>
                     /\ VolumeAt(orders, after, x) = VolumeAt(before, market, x)
                     /\ Held(orders, after, x) = Held(before, market, x)
    BY ONLY <2>2, <2>3, HeldAdded
  <2>. QED
    BY <1>12, <2>1, <2>4
<1>17. OOrders(n, after)
  <2>. SUFFICES ASSUME NEW i \in DOMAIN after
                PROVE  /\ n.orders[i].Symbol = after[i].Book
                       /\ n.orders[i].Side = after[i].Side
                       /\ n.orders[i].Quantity = after[i].Shares
                       /\ \E f \in EntriesOf(n, after, i) : OEntry(n, after, i, f)
    BY DEF OOrders
  <2>1. CASE i = id
    <3>1. e \in EntriesOf(n, after, i)
      BY <1>5, <1>10, <1>15, <2>1 DEF EntriesOf
    <3>2. OEntry(n, after, i, e)
      BY <1>5, <1>10, <1>12, <1>15, <2>1 DEF OEntry
    <3>. QED
      BY <1>10, <1>12, <1>15, <2>1, <3>1, <3>2
  <2>2. CASE i # id
    <3>1. i \in DOMAIN market /\ after[i] = market[i] /\ n.orders[i] = m.orders[i]
      BY <1>10, <1>12, <1>15, <2>2
    <3>2. /\ m.orders[i].Symbol = market[i].Book /\ m.orders[i].Quantity = market[i].Shares
          /\ m.orders[i].Side = market[i].Side
          /\ \E f \in EntriesOf(m, market, i) : OEntry(m, market, i, f)
      BY <1>2, <3>1 DEF OOrders
    <3>3. PICK f \in EntriesOf(m, market, i) : OEntry(m, market, i, f)
      BY <3>2
    <3>4. market[i].Book \in Books /\ WingOf(market[i].Side) \in Wings
      BY <1>1, <3>1, OrderAt DEF WingOf, Wings
    <3>5. f \in EntriesOf(n, after, i)
      BY <1>6, <1>10, <3>1, <3>3, <3>4 DEF EntriesOf
    <3>6. OEntry(n, after, i, f)
      BY <3>1, <3>3 DEF OEntry
    <3>. QED
      BY <3>1, <3>2, <3>5, <3>6
  <2>. QED
    BY <2>1, <2>2
<1>18. OLevels(n, after)
  <2>. SUFFICES ASSUME NEW c \in Books, NEW t \in Wings, NEW f \in On(k.books, c, t)
                PROVE  /\ n.pool.allocated[f.Level].Orders = Cardinality(Held(orders, after, f.Level))
                       /\ n.pool.allocated[f.Level].Volume >= VolumeAt(orders, after, f.Level)
                       /\ n.pool.allocated[f.Level].Volume # 0
    BY <1>10 DEF OLevels
  <2>1. CASE f.Level = slot
    <3>1. n.pool.allocated[f.Level] = level
      BY <1>13, <2>1
    <3>2. /\ Cardinality(Held(orders, after, f.Level)) = C + 1
          /\ VolumeAt(orders, after, f.Level) = V + order.Shares
      BY <1>16, <2>1
    <3>3. level.Volume # 0
      <4>1. level.Volume \in Int
        BY <1>11 DEF OLevel
      <4>. QED
        BY <1>1, <1>7, <1>11, <4>1
    <3>. QED
      BY <1>11, <3>1, <3>2, <3>3
  <2>2. CASE f.Level # slot
    <3>1. f \in On(m.books, c, t) /\ f.Level \in Slots(k.pool)
      BY <1>5, <1>6, <2>2 DEF Shelf
    <3>2. /\ m.pool.allocated[f.Level].Orders = Cardinality(Held(m.orders, market, f.Level))
          /\ m.pool.allocated[f.Level].Volume >= VolumeAt(m.orders, market, f.Level)
          /\ m.pool.allocated[f.Level].Volume # 0
      BY <1>2, <3>1 DEF OLevels
    <3>3. n.pool.allocated[f.Level] = m.pool.allocated[f.Level]
      BY <1>6, <1>13, <2>2, <3>1
    <3>4. /\ VolumeAt(orders, after, f.Level) = VolumeAt(m.orders, market, f.Level)
          /\ Held(orders, after, f.Level) = Held(m.orders, market, f.Level)
      BY <1>16, <2>2
    <3>. QED
      BY <3>2, <3>3, <3>4
  <2>. QED
    BY <2>1, <2>2
<1>19. \A c \in Books, t \in Wings : c # b => n.books[c][t] = m.books[c][t]
  BY <1>6, <1>10
<1>. QED
  BY <1>6, <1>10, <1>13, <1>14, <1>17, <1>18, <1>19 DEF OOK

-----------------------------------------------------------------------------
(* The calls of the aggressive manager *)

\* What is noted of orders that are not in the market does not matter.
ASame(m, n, market) ==
    /\ n \in AManager /\ n.pool = m.pool /\ n.books = m.books
    /\ Agree(n.orders, m.orders, DOMAIN market)

LEMMA AIgnores ==
    ASSUME NEW m, NEW market, AOK(m, market), NEW n, ASame(m, n, market)
    PROVE  AOK(n, market)
<1>1. /\ m \in AManager /\ Shelf(AWings, ALevel, m.pool, m.books)
      /\ AOrders(m, market) /\ ALevels(m, market)
  BY DEF AOK
<1>2. /\ n \in AManager /\ n.pool = m.pool /\ n.books = m.books
      /\ \A i \in DOMAIN market : n.orders[i] = m.orders[i]
  BY DEF ASame, Agree
<1>3. AOrders(n, market)
  BY <1>1, <1>2 DEF AOrders, AEntry, EntriesOf
<1>4. \A x : VolumeAt(n.orders, market, x) = VolumeAt(m.orders, market, x)
  <2>1. PICK orders : orders = m.orders
    OBVIOUS
  <2>2. PICK others : others = n.orders
    OBVIOUS
  <2>3. SameLevels(market, orders, others)
    BY <1>2, <2>1, <2>2 DEF SameLevels
  <2>4. ASSUME NEW x PROVE VolumeAt(others, market, x) = VolumeAt(orders, market, x)
    BY ONLY <2>3, HeldSame
  <2>. QED
    BY <2>1, <2>2, <2>4
<1>5. ALevels(n, market)
  BY <1>1, <1>2, <1>4 DEF ALevels
<1>. QED
  BY <1>1, <1>2, <1>3, <1>5 DEF AOK

\* An order is executed or cancelled.
ACuts(m, market, id, q, after, n) ==
    AOK(m, market) /\ IsCut(market, id, q, after) /\ n = A!ReduceOrder(m, id, q)

LEMMA AExecutes ==
    ASSUME NEW m, NEW market, NEW id, NEW q, NEW after, NEW n, ACuts(m, market, id, q, after, n)
    PROVE  AOK(n, after) /\ Elsewhere(m, n, {market[id].Book})
<1>1. AOK(m, market) /\ IsCut(market, id, q, after) /\ n = A!ReduceOrder(m, id, q)
  BY DEF ACuts
<1>2. IsMarket(market) /\ id \in DOMAIN market /\ q \in 1 .. market[id].Shares
  BY <1>1 DEF IsCut
<1>3. id \in Ids /\ market[id].Shares \in Nat /\ market[id].Shares - q \in Int
  <2>1. id \in Ids /\ market[id].Shares \in Nat
    BY <1>2, OrderAt
  <2>. QED
    BY <1>2, <2>1
<1>4. m \in AManager /\ m.orders[id].Quantity = market[id].Shares
  BY <1>1, <1>2 DEF AOK, AOrders
<1>5. PICK k : k = [m EXCEPT !.orders[id].Quantity = market[id].Shares - q]
  OBVIOUS
<1>6. n = A!BookReduceOrder(k, id, q)
  <2>1. k = [m EXCEPT !.orders[id].Quantity = @ - q]
    BY <1>4, <1>5
  <2>. QED
    BY <1>1, <2>1 DEF A!ReduceOrder
<1>7. /\ k \in AManager /\ k.pool = m.pool /\ k.books = m.books
      /\ \A i \in Ids \ {id} : k.orders[i] = m.orders[i]
      /\ k.orders[id].Symbol = m.orders[id].Symbol /\ k.orders[id].Level = m.orders[id].Level
      /\ k.orders[id].Quantity = market[id].Shares - q
  <2>1. PICK left \in Int : left = market[id].Shares - q
    BY <1>3
  <2>2. k = [m EXCEPT !.orders[id].Quantity = left]
    BY <1>5, <2>1
  <2>. QED
    BY <1>3, <1>4, <2>1, <2>2 DEF AManager
<1>8. /\ AOK(n, after)
      /\ \A c \in Books, t \in Wings : c # market[id].Book => n.books[c][t] = m.books[c][t]
  BY <1>1, <1>6, <1>7, AReduces
<1>. QED
  BY <1>8 DEF Elsewhere

\* An order is deleted.
ADrops(m, market, id, rest, n) ==
    AOK(m, market) /\ IsDropped(market, id, rest) /\ n = A!BookDeleteOrder(m, id)

LEMMA DropIsCut ==
    ASSUME NEW market, NEW id, NEW rest, IsDropped(market, id, rest)
    PROVE  IsCut(market, id, market[id].Shares, rest)
<1>1. IsMarket(market) /\ id \in DOMAIN market /\ rest = Drop(market, id)
  BY DEF IsDropped
<1>2. market[id].Shares \in 1 .. market[id].Shares
  BY <1>1, OrderAt
<1>. QED
  BY <1>1, <1>2 DEF IsCut, Cut

LEMMA ADeletes ==
    ASSUME NEW m, NEW market, NEW id, NEW rest, NEW n, ADrops(m, market, id, rest, n)
    PROVE  AOK(n, rest) /\ Elsewhere(m, n, {market[id].Book}) /\ n.orders = m.orders
<1>1. AOK(m, market) /\ IsDropped(market, id, rest) /\ n = A!BookDeleteOrder(m, id)
  BY DEF ADrops
<1>2. IsMarket(market) /\ id \in DOMAIN market
  BY <1>1 DEF IsDropped
<1>3. m \in AManager /\ m.orders[id].Quantity = market[id].Shares
  BY <1>1, <1>2 DEF AOK, AOrders
<1>4. PICK q : q = market[id].Shares
  OBVIOUS
<1>5. IsCut(market, id, q, rest)
  BY <1>1, <1>4, DropIsCut
<1>6. n = A!BookReduceOrder(m, id, q)
  BY <1>1, <1>3, <1>4 DEF A!BookDeleteOrder
<1>7. /\ AOK(n, rest) /\ n.orders = m.orders
      /\ \A c \in Books, t \in Wings : c # market[id].Book => n.books[c][t] = m.books[c][t]
  BY <1>1, <1>3, <1>4, <1>5, <1>6, AReduces
<1>. QED
  BY <1>7 DEF Elsewhere

\* An order comes.
AComes(m, market, id, order, after, n) ==
    /\ AOK(m, market) /\ IsAdded(market, id, order, after)
    /\ n = A!AddOrder(m, id, order.Book, Sent(order.Side, order.Price), order.Shares)

LEMMA AEnters ==
    ASSUME NEW m, NEW market, NEW id, NEW order, NEW after, NEW n,
           AComes(m, market, id, order, after, n)
    PROVE  AOK(n, after) /\ Elsewhere(m, n, {order.Book})
<1>1. /\ AOK(m, market) /\ IsAdded(market, id, order, after)
      /\ n = A!AddOrder(m, id, order.Book, Sent(order.Side, order.Price), order.Shares)
  BY DEF AComes
<1>2. /\ IsMarket(market) /\ id \in Ids /\ id \notin DOMAIN market /\ order \in Order
      /\ order.Book \in Books /\ order.Shares \in Int
  BY <1>1 DEF IsAdded, Order
<1>3. m \in AManager
  BY <1>1 DEF AOK
<1>4. PICK k : k = [m EXCEPT !.orders[id] = [m.orders[id] EXCEPT !.Symbol = order.Book,
                                                                  !.Quantity = order.Shares]]
  OBVIOUS
<1>5. PICK price : price = Sent(order.Side, order.Price)
  OBVIOUS
<1>6. n = A!BookAddOrder(k, id, price)
  BY <1>1, <1>4, <1>5 DEF A!AddOrder
<1>7. /\ k \in AManager /\ k.pool = m.pool /\ k.books = m.books
      /\ \A i \in Ids \ {id} : k.orders[i] = m.orders[i]
      /\ k.orders[id].Symbol = order.Book /\ k.orders[id].Quantity = order.Shares
  BY <1>2, <1>3, <1>4 DEF AManager
<1>8. ASame(m, k, market)
  BY <1>2, <1>7 DEF ASame, Agree, IsMarket
<1>9. AOK(k, market)
  BY <1>1, <1>8, AIgnores
<1>10. /\ AOK(n, after)
       /\ \A c \in Books, t \in Wings : c # order.Book => n.books[c][t] = k.books[c][t]
  BY <1>1, <1>5, <1>6, <1>7, <1>9, AAdds
<1>. QED
  BY <1>7, <1>10 DEF Elsewhere

\* An order is replaced by another one of the same side, which may have its number.
IsMoved(market, id, newId, order, after) ==
    /\ IsMarket(market) /\ id \in DOMAIN market
    /\ newId \in Ids /\ newId \notin DOMAIN market \ {id}
    /\ order \in Order /\ order.Side = market[id].Side
    /\ after = With(Drop(market, id), newId, order)

LEMMA MoveIs ==
    ASSUME NEW market, NEW id, NEW newId, NEW order, NEW after,
           IsMoved(market, id, newId, order, after), NEW rest, rest = Drop(market, id)
    PROVE  /\ IsDropped(market, id, rest)
           /\ IsAdded(rest, newId, order, after)
           /\ DOMAIN rest = DOMAIN market \ {id}
<1>1. IsDropped(market, id, rest)
  BY DEF IsMoved, IsDropped
<1>2. IsMarket(rest) /\ DOMAIN rest = DOMAIN market \ {id}
  BY <1>1, DropIsMarket
<1>3. newId \in Ids \ DOMAIN rest
  BY <1>2 DEF IsMoved
<1>4. order \in Order /\ after = With(rest, newId, order)
  BY DEF IsMoved
<1>. QED
  BY <1>1, <1>2, <1>3, <1>4 DEF IsAdded

\* The sign of the level of an order tells the side.
AHas(m, market, id, price) ==
    AOK(m, market) /\ IsMarket(market) /\ id \in DOMAIN market /\ price \in Nat \ {0}

LEMMA ASigns ==
    ASSUME NEW m, NEW market, NEW id, NEW price, AHas(m, market, id, price)
    PROVE  A!SignedPrice(m, id, price) = Sent(market[id].Side, price)
<1>1. AOK(m, market) /\ IsMarket(market) /\ id \in DOMAIN market /\ price \in Nat \ {0}
  BY DEF AHas
<1>2. /\ market[id].Book \in Books /\ market[id].Side \in Sides
      /\ market[id].Price \in Nat /\ market[id].Price > 0
      /\ WingOf(market[id].Side) \in Wings
  BY <1>1, OrderAt DEF WingOf, Wings
<1>3. AOrders(m, market) /\ ALevels(m, market)
  BY <1>1 DEF AOK
<1>4. PICK e \in On(m.books, market[id].Book, WingOf(market[id].Side)) :
         e.Price = Sent(market[id].Side, market[id].Price) /\ e.Level = m.orders[id].Level
  BY <1>1, <1>3 DEF AOrders, AEntry, EntriesOf
<1>5. A!LevelOf(m, id).Price = Sent(market[id].Side, market[id].Price)
  BY <1>2, <1>3, <1>4 DEF ALevels, A!LevelOf
<1>6. CASE market[id].Side = "BUY"
  <2>1. A!LevelOf(m, id).Price = market[id].Price
    BY <1>5, <1>6 DEF Sent
  <2>2. ~(A!LevelOf(m, id).Price < 0)
    BY <1>2, <2>1
  <2>. QED
    BY <1>6, <2>2 DEF A!SignedPrice, Sent
<1>7. CASE market[id].Side # "BUY"
  <2>1. A!LevelOf(m, id).Price = -market[id].Price
    BY <1>5, <1>7 DEF Sent
  <2>2. A!LevelOf(m, id).Price < 0
    BY <1>2, <2>1
  <2>. QED
    BY <1>7, <2>2 DEF A!SignedPrice, Sent
<1>. QED
  BY <1>6, <1>7

AChanges(m, market, id, order, after, n) ==
    /\ AOK(m, market) /\ IsMoved(market, id, id, order, after)
    /\ order.Book = market[id].Book
    /\ n = A!ModifyOrder(m, id, order.Price, order.Shares)

LEMMA AModifies ==
    ASSUME NEW m, NEW market, NEW id, NEW order, NEW after, NEW n,
           AChanges(m, market, id, order, after, n)
    PROVE  AOK(n, after) /\ Elsewhere(m, n, {market[id].Book})
<1>1. /\ AOK(m, market) /\ IsMoved(market, id, id, order, after)
      /\ order.Book = market[id].Book
      /\ n = A!ModifyOrder(m, id, order.Price, order.Shares)
  BY DEF AChanges
<1>2. /\ IsMarket(market) /\ id \in DOMAIN market /\ id \in Ids /\ order \in Order
      /\ order.Side = market[id].Side
  BY <1>1 DEF IsMoved
<1>3. order.Price \in Nat \ {0} /\ order.Shares \in Int /\ order.Shares > 0 /\ order.Book \in Books
  <2>1. order.Shares \in Nat \ {0}
    BY <1>2 DEF Order
  <2>. QED
    BY <1>2, <2>1 DEF Order
<1>4. PICK rest : rest = Drop(market, id)
  OBVIOUS
<1>5. IsDropped(market, id, rest) /\ IsAdded(rest, id, order, after)
      /\ DOMAIN rest = DOMAIN market \ {id}
  BY <1>1, <1>4, MoveIs
<1>6. PICK d : d = A!BookDeleteOrder(m, id)
  OBVIOUS
<1>7. AOK(d, rest) /\ Elsewhere(m, d, {market[id].Book}) /\ d.orders = m.orders
  <2>1. ADrops(m, market, id, rest, d)
    BY <1>1, <1>5, <1>6 DEF ADrops
  <2>. QED
    BY <2>1, ADeletes
<1>8. d \in AManager
  BY <1>7 DEF AOK
<1>9. PICK shares \in Int : shares = order.Shares
  BY <1>3
<1>10. PICK k : k = [d EXCEPT !.orders[id].Quantity = shares]
  OBVIOUS
<1>11. PICK price : price = Sent(order.Side, order.Price)
  OBVIOUS
<1>12. n = A!BookAddOrder(k, id, price)
  <2>1. A!SignedPrice(m, id, order.Price) = price
    <3>1. AHas(m, market, id, order.Price)
      BY <1>1, <1>2, <1>3 DEF AHas
    <3>2. A!SignedPrice(m, id, order.Price) = Sent(market[id].Side, order.Price)
      BY <3>1, ASigns
    <3>. QED
      BY <1>2, <1>11, <3>2
  <2>2. k = [A!BookDeleteOrder(m, id) EXCEPT !.orders[id].Quantity = order.Shares]
    BY <1>6, <1>9, <1>10
  <2>. QED
    BY <1>1, <1>3, <2>1, <2>2 DEF A!ModifyOrder
<1>13. /\ k \in AManager /\ k.pool = d.pool /\ k.books = d.books
       /\ \A i \in Ids \ {id} : k.orders[i] = d.orders[i]
       /\ k.orders[id].Symbol = d.orders[id].Symbol /\ k.orders[id].Quantity = shares
  BY <1>2, <1>8, <1>10 DEF AManager
<1>14. k.orders[id].Symbol = order.Book /\ k.orders[id].Quantity = order.Shares
  <2>1. m.orders[id].Symbol = market[id].Book
    BY <1>1, <1>2 DEF AOK, AOrders
  <2>. QED
    BY <1>1, <1>7, <1>9, <1>13, <2>1
<1>15. AOK(k, rest)
  <2>1. DOMAIN rest \subseteq Ids \ {id}
    BY <1>2, <1>5 DEF IsMarket
  <2>2. ASame(d, k, rest)
    BY <1>13, <2>1 DEF ASame, Agree
  <2>. QED
    BY <1>7, <2>2, AIgnores
<1>16. /\ AOK(n, after)
       /\ \A c \in Books, t \in Wings : c # order.Book => n.books[c][t] = k.books[c][t]
  BY <1>5, <1>11, <1>12, <1>14, <1>15, AAdds
<1>. QED
  BY <1>1, <1>7, <1>13, <1>16 DEF Elsewhere

AExchanges(m, market, id, newId, order, after, n) ==
    /\ AOK(m, market) /\ IsMoved(market, id, newId, order, after)
    /\ n = A!ReplaceOrderInto(m, id, newId, order.Book, order.Price, order.Shares)

LEMMA AReplaces ==
    ASSUME NEW m, NEW market, NEW id, NEW newId, NEW order, NEW after, NEW n,
           AExchanges(m, market, id, newId, order, after, n)
    PROVE  AOK(n, after) /\ Elsewhere(m, n, {market[id].Book, order.Book})
<1>1. /\ AOK(m, market) /\ IsMoved(market, id, newId, order, after)
      /\ n = A!ReplaceOrderInto(m, id, newId, order.Book, order.Price, order.Shares)
  BY DEF AExchanges
<1>2. /\ IsMarket(market) /\ id \in DOMAIN market /\ order \in Order
      /\ order.Side = market[id].Side
  BY <1>1 DEF IsMoved
<1>3. order.Price \in Nat \ {0} /\ order.Shares > 0
  <2>1. order.Shares \in Nat \ {0}
    BY <1>2 DEF Order
  <2>. QED
    BY <1>2, <2>1 DEF Order
<1>4. PICK rest : rest = Drop(market, id)
  OBVIOUS
<1>5. IsDropped(market, id, rest) /\ IsAdded(rest, newId, order, after)
  BY <1>1, <1>4, MoveIs
<1>6. PICK d : d = A!BookDeleteOrder(m, id)
  OBVIOUS
<1>7. AOK(d, rest) /\ Elsewhere(m, d, {market[id].Book})
  <2>1. ADrops(m, market, id, rest, d)
    BY <1>1, <1>5, <1>6 DEF ADrops
  <2>. QED
    BY <2>1, ADeletes
<1>8. A!SignedPrice(m, id, order.Price) = Sent(order.Side, order.Price)
  <2>1. AHas(m, market, id, order.Price)
    BY <1>1, <1>2, <1>3 DEF AHas
  <2>2. A!SignedPrice(m, id, order.Price) = Sent(market[id].Side, order.Price)
    BY <2>1, ASigns
  <2>. QED
    BY <1>2, <2>2
<1>9. n = A!AddOrder(d, newId, order.Book, Sent(order.Side, order.Price), order.Shares)
  BY <1>1, <1>3, <1>6, <1>8 DEF A!ReplaceOrderInto
<1>10. AComes(d, rest, newId, order, after, n)
  BY <1>5, <1>7, <1>9 DEF AComes
<1>11. AOK(n, after) /\ Elsewhere(d, n, {order.Book})
  BY <1>10, AEnters
<1>. QED
  BY <1>7, <1>11 DEF Elsewhere

-----------------------------------------------------------------------------
(* The calls of the optimized manager *)

OSame(m, n, market) ==
    /\ n \in OManager /\ n.pool = m.pool /\ n.books = m.books
    /\ Agree(n.orders, m.orders, DOMAIN market)

LEMMA OIgnores ==
    ASSUME NEW m, NEW market, OOK(m, market), NEW n, OSame(m, n, market)
    PROVE  OOK(n, market)
<1>1. /\ m \in OManager /\ Shelf(OWings, OLevel, m.pool, m.books)
      /\ OOrders(m, market) /\ OLevels(m, market)
  BY DEF OOK
<1>2. /\ n \in OManager /\ n.pool = m.pool /\ n.books = m.books
      /\ \A i \in DOMAIN market : n.orders[i] = m.orders[i]
  BY DEF OSame, Agree
<1>3. OOrders(n, market)
  BY <1>1, <1>2 DEF OOrders, OEntry, EntriesOf
<1>4. \A x : /\ VolumeAt(n.orders, market, x) = VolumeAt(m.orders, market, x)
             /\ Held(n.orders, market, x) = Held(m.orders, market, x)
  <2>1. PICK orders : orders = m.orders
    OBVIOUS
  <2>2. PICK others : others = n.orders
    OBVIOUS
  <2>3. SameLevels(market, orders, others)
    BY <1>2, <2>1, <2>2 DEF SameLevels
  <2>4. ASSUME NEW x
        PROVE  /\ VolumeAt(others, market, x) = VolumeAt(orders, market, x)
               /\ Held(others, market, x) = Held(orders, market, x)
    BY ONLY <2>3, HeldSame
  <2>. QED
    BY <2>1, <2>2, <2>4
<1>5. OLevels(n, market)
  BY <1>1, <1>2, <1>4 DEF OLevels
<1>. QED
  BY <1>1, <1>2, <1>3, <1>5 DEF OOK

\* The handler is told that an order has come, or ended.
Opened(h, g) ==
    /\ g.orders = h.orders + 1
    /\ g.add_orders = h.add_orders + 1 /\ g.delete_orders = h.delete_orders
    /\ g.max_orders = IF h.max_orders > h.orders THEN h.max_orders ELSE h.orders + 1

Closed(h, g) ==
    /\ g.orders = h.orders - 1
    /\ g.add_orders = h.add_orders /\ g.delete_orders = h.delete_orders + 1
    /\ g.max_orders = h.max_orders

OnlyHandler(m, n) ==
    n \in OManager /\ n.pool = m.pool /\ n.books = m.books /\ n.orders = m.orders

LEMMA HearsOfAdd ==
    ASSUME NEW m \in OManager, NEW n, n = O!onAddOrder(m)
    PROVE  OnlyHandler(m, n) /\ Opened(m.handler, n.handler)
<1>1. m.handler \in Handler
  BY DEF OManager
<1>2. PICK h \in Handler : h = m.handler
  BY <1>1
<1>3. PICK g : g = [h EXCEPT !.orders = h.orders + 1,
                             !.max_orders = IF h.max_orders > h.orders THEN h.max_orders
                                            ELSE h.orders + 1,
                             !.add_orders = h.add_orders + 1]
  OBVIOUS
<1>4. g \in Handler /\ Opened(h, g)
  <2>1. PICK a \in Int, b \in Int, c \in Int :
           /\ a = h.orders + 1
           /\ b = IF h.max_orders > h.orders THEN h.max_orders ELSE h.orders + 1
           /\ c = h.add_orders + 1
    BY <1>2 DEF Handler
  <2>2. g = [h EXCEPT !.orders = a, !.max_orders = b, !.add_orders = c]
    BY <1>3, <2>1
  <2>3. g \in Handler /\ g.orders = a /\ g.max_orders = b /\ g.add_orders = c
        /\ g.delete_orders = h.delete_orders
    BY <1>2, <2>2 DEF Handler
  <2>. QED
    BY <2>1, <2>3 DEF Opened
<1>5. n = [m EXCEPT !.handler = g]
  BY <1>2, <1>3 DEF O!onAddOrder
<1>6. /\ n.handler = g /\ n.pool = m.pool /\ n.books = m.books /\ n.orders = m.orders
      /\ n \in OManager
  BY <1>4, <1>5 DEF OManager
<1>. QED
  BY <1>2, <1>4, <1>6 DEF OnlyHandler

LEMMA HearsOfDelete ==
    ASSUME NEW m \in OManager, NEW n, n = O!onDeleteOrder(m)
    PROVE  OnlyHandler(m, n) /\ Closed(m.handler, n.handler)
<1>1. m.handler \in Handler
  BY DEF OManager
<1>2. PICK h \in Handler : h = m.handler
  BY <1>1
<1>3. PICK g : g = [h EXCEPT !.orders = h.orders - 1, !.delete_orders = h.delete_orders + 1]
  OBVIOUS
<1>4. g \in Handler /\ Closed(h, g)
  <2>1. PICK a \in Int, c \in Int : a = h.orders - 1 /\ c = h.delete_orders + 1
    BY <1>2 DEF Handler
  <2>2. g = [h EXCEPT !.orders = a, !.delete_orders = c]
    BY <1>3, <2>1
  <2>3. g \in Handler /\ g.orders = a /\ g.delete_orders = c
        /\ g.add_orders = h.add_orders /\ g.max_orders = h.max_orders
    BY <1>2, <2>2 DEF Handler
  <2>. QED
    BY <2>1, <2>3 DEF Closed
<1>5. n = [m EXCEPT !.handler = g]
  BY <1>2, <1>3 DEF O!onDeleteOrder
<1>6. /\ n.handler = g /\ n.pool = m.pool /\ n.books = m.books /\ n.orders = m.orders
      /\ n \in OManager
  BY <1>4, <1>5 DEF OManager
<1>. QED
  BY <1>2, <1>4, <1>6 DEF OnlyHandler

\* The counts stay true when an order comes or ends.
LEMMA CountsClose ==
    ASSUME NEW h, NEW g, NEW market, NEW last \in Nat, Counts(h, market, last), Closed(h, g),
           h \in Handler, NEW id, NEW rest, IsDropped(market, id, rest)
    PROVE  Counts(g, rest, last)
<1>1. DOMAIN rest = DOMAIN market \ {id} /\ IsFiniteSet(DOMAIN market) /\ id \in DOMAIN market
  BY DropIsMarket, HeldIsFinite DEF IsDropped
<1>2. Cardinality(DOMAIN rest) = Cardinality(DOMAIN market) - 1
  BY <1>1, FS_RemoveElement
<1>3. /\ h.orders \in Int /\ h.add_orders \in Int /\ h.delete_orders \in Int /\ h.max_orders \in Int
  BY DEF Handler
<1>. QED
  BY <1>2, <1>3 DEF Counts, Closed

LEMMA CountsOpen ==
    ASSUME NEW h, NEW g, NEW market, NEW last \in Nat, Counts(h, market, last), Opened(h, g),
           h \in Handler, NEW id, NEW order, NEW after, IsAdded(market, id, order, after)
    PROVE  Counts(g, after, last + 1)
<1>1. /\ DOMAIN after = DOMAIN market \cup {id} /\ id \notin DOMAIN market
      /\ IsFiniteSet(DOMAIN market)
  <2>1. AddGives(market, id, order, after) /\ IsMarket(market)
    BY AddedIsMarket DEF IsAdded
  <2>2. IsFiniteSet(DOMAIN market)
    BY <2>1, HeldIsFinite
  <2>. QED
    BY <2>1, <2>2 DEF AddGives
<1>2. Cardinality(DOMAIN after) = Cardinality(DOMAIN market) + 1
  BY <1>1, FS_AddElement
<1>3. /\ h.orders \in Int /\ h.add_orders \in Int /\ h.delete_orders \in Int /\ h.max_orders \in Int
  BY DEF Handler
<1>. QED
  BY <1>2, <1>3 DEF Counts, Opened

\* What is left of an order is noted.
Notes(m, market, id, q, k) == k = [m EXCEPT !.orders[id].Quantity = market[id].Shares - q]

Noted(m, market, id, q, k) ==
    /\ ONoted(m, k, market, id, q) /\ k.handler = m.handler
    /\ k.orders[id].Quantity = market[id].Shares - q /\ k.orders[id].Level = m.orders[id].Level
    /\ k.orders[id].Quantity \in Nat /\ q \in Nat
    /\ k.orders[id].Quantity = 0 <=> q = market[id].Shares
    /\ O!Lesser(q, m.orders[id].Quantity) = q
    /\ k = [m EXCEPT !.orders[id].Quantity = @ - q]

LEMMA ONotes ==
    ASSUME NEW m, NEW market, OOK(m, market), NEW id, NEW q, NEW after,
           IsCut(market, id, q, after), NEW k, Notes(m, market, id, q, k)
    PROVE  Noted(m, market, id, q, k)
<1>1. IsMarket(market) /\ id \in DOMAIN market /\ q \in 1 .. market[id].Shares
  BY DEF IsCut
<1>2. id \in Ids /\ market[id].Shares \in Nat /\ q \in Nat /\ market[id].Shares - q \in Nat
  <2>1. id \in Ids /\ market[id].Shares \in Nat
    BY <1>1, OrderAt
  <2>. QED
    BY <1>1, <2>1
<1>3. m \in OManager /\ m.orders[id].Quantity = market[id].Shares
  BY <1>1 DEF OOK, OOrders
<1>4. PICK left \in Nat : left = market[id].Shares - q
  BY <1>2
<1>5. k = [m EXCEPT !.orders[id].Quantity = left]
  BY <1>4 DEF Notes
<1>6. /\ k \in OManager /\ k.pool = m.pool /\ k.books = m.books /\ k.handler = m.handler
      /\ \A i \in Ids \ {id} : k.orders[i] = m.orders[i]
      /\ k.orders[id].Symbol = m.orders[id].Symbol /\ k.orders[id].Side = m.orders[id].Side
      /\ k.orders[id].Price = m.orders[id].Price /\ k.orders[id].Level = m.orders[id].Level
      /\ k.orders[id].Quantity = left
  <2>. DEFINE R == [Symbol : Books \cup {0}, Side : Sides, Price : Int, Quantity : Int, Level : Nat]
  <2>1. m.orders \in [Ids -> R]
    BY <1>3 DEF OManager
  <2>2. PICK orders : orders = [m.orders EXCEPT ![id].Quantity = left]
    OBVIOUS
  <2>3. PICK order \in R : order = m.orders[id]
    BY <1>2, <2>1
  <2>4. PICK new : new = [order EXCEPT !.Quantity = left]
    OBVIOUS
  <2>5. /\ new \in R /\ new.Symbol = order.Symbol /\ new.Side = order.Side
        /\ new.Price = order.Price /\ new.Level = order.Level /\ new.Quantity = left
    BY <2>4
  <2>6. orders = [m.orders EXCEPT ![id] = new]
    BY <2>2, <2>3, <2>4
  <2>. HIDE DEF R
  <2>7. orders \in [Ids -> R] /\ orders[id] = new /\ \A i \in Ids \ {id} : orders[i] = m.orders[i]
    BY <1>2, <2>1, <2>5, <2>6
  <2>8. /\ k.orders = orders /\ k.pool = m.pool /\ k.books = m.books /\ k.handler = m.handler
        /\ k = [orders |-> orders, books |-> m.books, pool |-> m.pool, handler |-> m.handler]
    BY <1>3, <1>5, <2>2 DEF OManager
  <2>9. k \in OManager
    BY <1>3, <2>7, <2>8 DEF OManager, R
  <2>. QED
    BY <2>3, <2>5, <2>7, <2>8, <2>9
<1>7. left = 0 <=> q = market[id].Shares
  BY <1>2, <1>4
<1>8. O!Lesser(q, m.orders[id].Quantity) = q
  BY <1>1, <1>2, <1>3 DEF O!Lesser
<1>9. k = [m EXCEPT !.orders[id].Quantity = @ - q]
  BY <1>3, <1>4, <1>5
<1>10. ONoted(m, k, market, id, q)
  BY <1>4, <1>6 DEF ONoted
<1>. QED
  BY <1>2, <1>4, <1>6, <1>7, <1>8, <1>9, <1>10 DEF Noted

\* A level loses an order, or some of its shares, and goes if nothing is left in it.
OTakes(m, market, id, q, after, k, a, o, n) ==
    /\ OOK(m, market) /\ IsCut(market, id, q, after) /\ ONoted(m, k, market, id, q)
    /\ Loses(market, id, q, a, o)
    /\ n = O!DeleteIfEmpty([k EXCEPT !.pool.allocated[m.orders[id].Level] =
                                        O!Changed(@, -a, -o)], id)

LEMMA OTaken ==
    ASSUME NEW m, NEW market, NEW id, NEW q, NEW after, NEW k, NEW a, NEW o, NEW n,
           OTakes(m, market, id, q, after, k, a, o, n)
    PROVE  /\ OOK(n, after) /\ Elsewhere(m, n, {market[id].Book})
           /\ n.orders = k.orders /\ n.handler = k.handler
<1>1. /\ OOK(m, market) /\ IsCut(market, id, q, after) /\ ONoted(m, k, market, id, q)
      /\ Loses(market, id, q, a, o)
      /\ n = O!DeleteIfEmpty([k EXCEPT !.pool.allocated[m.orders[id].Level] =
                                          O!Changed(@, -a, -o)], id)
  BY DEF OTakes
<1>2. PICK slot : slot = m.orders[id].Level
  OBVIOUS
<1>3. PICK r : r = [k EXCEPT !.pool.allocated[slot] = O!Changed(@, -a, -o)]
  OBVIOUS
<1>4. LosesAt(k, slot, a, o, r)
  BY <1>3 DEF LosesAt
<1>5. n = O!DeleteIfEmpty(r, id)
  BY <1>1, <1>2, <1>3
<1>6. OGivesUp(m, market, id, after, k, n)
  BY ONLY <1>1, <1>2, <1>4, <1>5, OReduces
<1>. QED
  BY <1>6 DEF OGivesUp

\* What the handler hears when an order is cut.
Hears(market, id, q, h, g) ==
    /\ q = market[id].Shares => Closed(h, g)
    /\ q # market[id].Shares => g = h

OCancels(m, market, id, q, after, n) ==
    OOK(m, market) /\ IsCut(market, id, q, after) /\ n = O!ReduceOrder(m, id, q)

LEMMA OReducesOrder ==
    ASSUME NEW m, NEW market, NEW id, NEW q, NEW after, NEW n,
           OCancels(m, market, id, q, after, n)
    PROVE  /\ OOK(n, after) /\ Elsewhere(m, n, {market[id].Book})
           /\ Hears(market, id, q, m.handler, n.handler)
<1>1. OOK(m, market) /\ IsCut(market, id, q, after) /\ n = O!ReduceOrder(m, id, q)
  BY DEF OCancels
<1>2. PICK k : Notes(m, market, id, q, k)
  BY DEF Notes
<1>3. Noted(m, market, id, q, k)
  BY <1>1, <1>2, ONotes
<1>4. /\ ONoted(m, k, market, id, q) /\ k.handler = m.handler
      /\ k.orders[id].Level = m.orders[id].Level
      /\ k.orders[id].Quantity \in Nat /\ q \in Nat
      /\ k.orders[id].Quantity = 0 <=> q = market[id].Shares
      /\ O!Lesser(q, m.orders[id].Quantity) = q
      /\ k = [m EXCEPT !.orders[id].Quantity = @ - q]
  BY <1>3 DEF Noted
<1>5. n = IF k.orders[id].Quantity > 0 THEN O!BookReduceOrder(k, id, q)
          ELSE O!BookDeleteOrder(O!onDeleteOrder(k), id)
  BY <1>1, <1>4 DEF O!ReduceOrder
<1>6. CASE q # market[id].Shares
  <2>1. k.orders[id].Quantity > 0 /\ k.orders[id].Quantity # 0
    BY <1>4, <1>6
  <2>2. n = O!DeleteIfEmpty([k EXCEPT !.pool.allocated[m.orders[id].Level] =
                                         O!Changed(@, -q, -0)], id)
    BY <1>4, <1>5, <2>1 DEF O!BookReduceOrder
  <2>3. Loses(market, id, q, q, 0)
    BY <1>4, <1>6 DEF Loses
  <2>4. OTakes(m, market, id, q, after, k, q, 0, n)
    BY <1>1, <1>4, <2>2, <2>3 DEF OTakes
  <2>5. OOK(n, after) /\ Elsewhere(m, n, {market[id].Book}) /\ n.handler = k.handler
    BY ONLY <2>4, OTaken
  <2>. QED
    BY <1>4, <1>6, <2>5 DEF Hears
<1>7. CASE q = market[id].Shares
  <2>1. k.orders[id].Quantity = 0 /\ ~(k.orders[id].Quantity > 0)
    BY <1>4, <1>7
  <2>2. PICK j : j = O!onDeleteOrder(k)
    OBVIOUS
  <2>3. OnlyHandler(k, j) /\ Closed(k.handler, j.handler)
    <3>1. k \in OManager
      BY <1>4 DEF ONoted
    <3>. QED
      BY <2>2, <3>1, HearsOfDelete
  <2>4. ONoted(m, j, market, id, q) /\ j.orders = k.orders
    BY <1>4, <2>3 DEF ONoted, OnlyHandler
  <2>5. n = O!DeleteIfEmpty([j EXCEPT !.pool.allocated[m.orders[id].Level] =
                                         O!Changed(@, -0, -1)], id)
    BY <1>4, <1>5, <2>1, <2>2, <2>4 DEF O!BookDeleteOrder
  <2>6. Loses(market, id, q, 0, 1)
    BY <1>4, <1>7 DEF Loses
  <2>7. OTakes(m, market, id, q, after, j, 0, 1, n)
    BY <1>1, <2>4, <2>5, <2>6 DEF OTakes
  <2>8. OOK(n, after) /\ Elsewhere(m, n, {market[id].Book}) /\ n.handler = j.handler
    BY <2>7, OTaken
  <2>. QED
    BY <1>4, <1>7, <2>3, <2>8 DEF Hears
<1>. QED
  BY <1>6, <1>7

OFills(m, market, id, q, after, n) ==
    OOK(m, market) /\ IsCut(market, id, q, after) /\ n = O!ExecuteOrder(m, id, q)

LEMMA OExecutes ==
    ASSUME NEW m, NEW market, NEW id, NEW q, NEW after, NEW n,
           OFills(m, market, id, q, after, n)
    PROVE  /\ OOK(n, after) /\ Elsewhere(m, n, {market[id].Book})
           /\ Hears(market, id, q, m.handler, n.handler)
<1>1. OOK(m, market) /\ IsCut(market, id, q, after) /\ n = O!ExecuteOrder(m, id, q)
  BY DEF OFills
<1>2. PICK k : Notes(m, market, id, q, k)
  BY DEF Notes
<1>3. Noted(m, market, id, q, k)
  BY <1>1, <1>2, ONotes
<1>4. /\ ONoted(m, k, market, id, q) /\ k.handler = m.handler
      /\ k.orders[id].Level = m.orders[id].Level
      /\ k.orders[id].Quantity \in Nat /\ q \in Nat
      /\ k.orders[id].Quantity = 0 <=> q = market[id].Shares
      /\ O!Lesser(q, m.orders[id].Quantity) = q
      /\ k = [m EXCEPT !.orders[id].Quantity = @ - q]
  BY <1>3 DEF Noted
<1>5. PICK ended : ended = IF k.orders[id].Quantity = 0 THEN 1 ELSE 0
  OBVIOUS
<1>6. PICK r : r = O!BookReduceOrder(k, id, q)
  OBVIOUS
<1>7. r = O!DeleteIfEmpty([k EXCEPT !.pool.allocated[m.orders[id].Level] =
                                       O!Changed(@, -q, -ended)], id)
  BY <1>4, <1>5, <1>6 DEF O!BookReduceOrder
<1>8. Loses(market, id, q, q, ended)
  BY <1>4, <1>5 DEF Loses
<1>9. OTakes(m, market, id, q, after, k, q, ended, r)
  BY <1>1, <1>4, <1>7, <1>8 DEF OTakes
<1>10. /\ OOK(r, after) /\ Elsewhere(m, r, {market[id].Book})
       /\ r.orders = k.orders /\ r.handler = k.handler
  BY <1>9, OTaken
<1>11. n = IF k.orders[id].Quantity > 0 THEN r ELSE O!onDeleteOrder(r)
  BY <1>1, <1>4, <1>6, <1>10 DEF O!ExecuteOrder
<1>12. CASE q # market[id].Shares
  <2>1. n = r
    BY <1>4, <1>11, <1>12
  <2>. QED
    BY <1>4, <1>10, <1>12, <2>1 DEF Hears
<1>13. CASE q = market[id].Shares
  <2>1. n = O!onDeleteOrder(r)
    BY <1>4, <1>11, <1>13
  <2>2. OnlyHandler(r, n) /\ Closed(r.handler, n.handler)
    <3>1. r \in OManager
      BY <1>10 DEF OOK
    <3>. QED
      BY <2>1, <3>1, HearsOfDelete
  <2>3. OSame(r, n, after)
    BY <2>2 DEF OSame, OnlyHandler, Agree
  <2>4. OOK(n, after)
    BY <1>10, <2>3, OIgnores
  <2>5. Elsewhere(m, n, {market[id].Book})
    BY <1>10, <2>2 DEF Elsewhere, OnlyHandler
  <2>. QED
    BY <1>4, <1>10, <1>13, <2>2, <2>4, <2>5 DEF Hears
<1>. QED
  BY <1>12, <1>13

ODrops(m, market, id, rest, n) ==
    OOK(m, market) /\ IsDropped(market, id, rest) /\ n = O!BookDeleteOrder(m, id)

LEMMA ODeletes ==
    ASSUME NEW m, NEW market, NEW id, NEW rest, NEW n, ODrops(m, market, id, rest, n)
    PROVE  /\ OOK(n, rest) /\ Elsewhere(m, n, {market[id].Book})
           /\ n.orders = m.orders /\ n.handler = m.handler
<1>1. OOK(m, market) /\ IsDropped(market, id, rest) /\ n = O!BookDeleteOrder(m, id)
  BY DEF ODrops
<1>2. IsMarket(market) /\ id \in DOMAIN market
  BY <1>1 DEF IsDropped
<1>3. m \in OManager /\ m.orders[id].Quantity = market[id].Shares
  BY <1>1, <1>2 DEF OOK, OOrders
<1>4. PICK q : q = market[id].Shares
  OBVIOUS
<1>5. IsCut(market, id, q, rest) /\ q \in Nat
  BY <1>1, <1>2, <1>4, DropIsCut, OrderAt
<1>6. ONoted(m, m, market, id, q)
  BY <1>3, <1>4 DEF ONoted
<1>7. Loses(market, id, q, q, 1)
  BY <1>4, <1>5 DEF Loses
<1>8. n = O!DeleteIfEmpty([m EXCEPT !.pool.allocated[m.orders[id].Level] =
                                       O!Changed(@, -q, -1)], id)
  BY <1>1, <1>3, <1>4 DEF O!BookDeleteOrder
<1>9. OTakes(m, market, id, q, rest, m, q, 1, n)
  BY <1>1, <1>5, <1>6, <1>7, <1>8 DEF OTakes
<1>. QED
  BY <1>9, OTaken

\* An order is noted anew.
Renotes(m, id, new, k) ==
    /\ m \in OManager /\ id \in Ids
    /\ new \in [Symbol : Books \cup {0}, Side : Sides, Price : Int, Quantity : Int, Level : Nat]
    /\ k = [m EXCEPT !.orders[id] = new]

Renoted(m, id, new, k) ==
    /\ k \in OManager /\ k.pool = m.pool /\ k.books = m.books /\ k.handler = m.handler
    /\ k.orders[id] = new /\ \A i \in Ids \ {id} : k.orders[i] = m.orders[i]

LEMMA ORenotes ==
    ASSUME NEW m, NEW id, NEW new, NEW k, Renotes(m, id, new, k)
    PROVE  Renoted(m, id, new, k)
<1>. DEFINE R == [Symbol : Books \cup {0}, Side : Sides, Price : Int, Quantity : Int, Level : Nat]
<1>1. m \in OManager /\ id \in Ids /\ new \in R /\ k = [m EXCEPT !.orders[id] = new]
  BY DEF Renotes
<1>2. m.orders \in [Ids -> R]
  BY <1>1 DEF OManager
<1>3. PICK orders : orders = [m.orders EXCEPT ![id] = new]
  OBVIOUS
<1>4. /\ k.orders = orders /\ k.pool = m.pool /\ k.books = m.books /\ k.handler = m.handler
      /\ k = [orders |-> orders, books |-> m.books, pool |-> m.pool, handler |-> m.handler]
  BY <1>1, <1>3 DEF OManager
<1>5. orders \in [Ids -> R] /\ orders[id] = new /\ \A i \in Ids \ {id} : orders[i] = m.orders[i]
  <2>. HIDE DEF R
  <2>. QED
    BY <1>1, <1>2, <1>3
<1>6. k \in OManager
  BY <1>1, <1>4, <1>5 DEF OManager
<1>. QED
  BY <1>4, <1>5, <1>6 DEF Renoted

\* An order that the market has not got is noted and taken in.
OTakesIn(m, market, id, order, after, new, k, n) ==
    /\ OOK(m, market) /\ IsAdded(market, id, order, after)
    /\ Renotes(m, id, new, k)
    /\ new.Symbol = order.Book /\ new.Side = order.Side /\ new.Quantity = order.Shares
    /\ n = O!BookAddOrder(k, id)

LEMMA OTakenIn ==
    ASSUME NEW m, NEW market, NEW id, NEW order, NEW after, NEW new, NEW k, NEW n,
           OTakesIn(m, market, id, order, after, new, k, n)
    PROVE  OOK(n, after) /\ Elsewhere(m, n, {order.Book}) /\ n.handler = m.handler
<1>1. /\ OOK(m, market) /\ IsAdded(market, id, order, after)
      /\ Renotes(m, id, new, k)
      /\ new.Symbol = order.Book /\ new.Side = order.Side /\ new.Quantity = order.Shares
      /\ n = O!BookAddOrder(k, id)
  BY DEF OTakesIn
<1>2. Renoted(m, id, new, k)
  BY <1>1, ORenotes
<1>3. OSame(m, k, market)
  <2>1. DOMAIN market \subseteq Ids \ {id}
    BY <1>1 DEF IsAdded, IsMarket
  <2>. QED
    BY <1>2, <2>1 DEF Renoted, OSame, Agree
<1>4. OOK(k, market)
  BY <1>1, <1>3, OIgnores
<1>5. OComes(k, market, id, order)
  BY <1>1, <1>2 DEF Renoted, OComes
<1>6. /\ OOK(n, after) /\ n.handler = k.handler
      /\ \A c \in Books, t \in Wings : c # order.Book => n.books[c][t] = k.books[c][t]
  BY <1>1, <1>4, <1>5, OAdds
<1>. QED
  BY <1>2, <1>6 DEF Renoted, Elsewhere

\* What the handler does not change: the order is noted, and the handler told.
TellsOfAdd(m, id, new, j, k) ==
    /\ m \in OManager /\ j = O!onAddOrder(m)
    /\ k = O!onAddOrder([m EXCEPT !.orders[id] = new])

LEMMA OTellsOfAdd ==
    ASSUME NEW m, NEW id, NEW new, NEW j, NEW k, TellsOfAdd(m, id, new, j, k)
    PROVE  k = [j EXCEPT !.orders[id] = new]
<1>t. /\ m \in OManager /\ j = O!onAddOrder(m)
      /\ k = O!onAddOrder([m EXCEPT !.orders[id] = new])
  BY DEF TellsOfAdd
<1>1. PICK g : g = [m.handler EXCEPT !.orders = m.handler.orders + 1,
                                     !.max_orders = IF m.handler.max_orders > m.handler.orders
                                                    THEN m.handler.max_orders
                                                    ELSE m.handler.orders + 1,
                                     !.add_orders = m.handler.add_orders + 1]
  OBVIOUS
<1>2. PICK l : l = [m EXCEPT !.orders[id] = new]
  OBVIOUS
<1>3. l.handler = m.handler /\ l = [m EXCEPT !.orders = [m.orders EXCEPT ![id] = new]]
  BY <1>t, <1>2 DEF OManager
<1>4. k = [l EXCEPT !.handler = g]
  BY <1>t, <1>1, <1>2, <1>3 DEF O!onAddOrder
<1>5. j = [m EXCEPT !.handler = g]
  BY <1>t, <1>1 DEF O!onAddOrder
<1>6. PICK orders : orders = [m.orders EXCEPT ![id] = new]
  OBVIOUS
<1>7. j.orders = m.orders
  BY <1>t, <1>5 DEF OManager
<1>8. [j EXCEPT !.orders[id] = new] = [j EXCEPT !.orders = orders]
  BY <1>6, <1>7
<1>9. k = [orders |-> orders, books |-> m.books, pool |-> m.pool, handler |-> g]
  BY <1>t, <1>3, <1>4, <1>6 DEF OManager
<1>10. [j EXCEPT !.orders = orders] = [orders |-> orders, books |-> m.books, pool |-> m.pool,
                                       handler |-> g]
  <2>1. j = [orders |-> m.orders, books |-> m.books, pool |-> m.pool, handler |-> g]
    BY <1>t, <1>5 DEF OManager
  <2>. QED
    BY ONLY <2>1
<1>. QED
  BY <1>8, <1>9, <1>10

\* An order comes: the handler is told, and the book takes it in.
OComesIn(m, market, id, order, after, new, n) ==
    /\ OOK(m, market) /\ IsAdded(market, id, order, after)
    /\ new \in [Symbol : Books \cup {0}, Side : Sides, Price : Int, Quantity : Int, Level : Nat]
    /\ new.Symbol = order.Book /\ new.Side = order.Side /\ new.Quantity = order.Shares
    /\ n = O!BookAddOrder(O!onAddOrder([m EXCEPT !.orders[id] = new]), id)

LEMMA OCameIn ==
    ASSUME NEW m, NEW market, NEW id, NEW order, NEW after, NEW new, NEW n,
           OComesIn(m, market, id, order, after, new, n)
    PROVE  OOK(n, after) /\ Elsewhere(m, n, {order.Book}) /\ Opened(m.handler, n.handler)
<1>1. /\ OOK(m, market) /\ IsAdded(market, id, order, after)
      /\ new \in [Symbol : Books \cup {0}, Side : Sides, Price : Int, Quantity : Int, Level : Nat]
      /\ new.Symbol = order.Book /\ new.Side = order.Side /\ new.Quantity = order.Shares
      /\ n = O!BookAddOrder(O!onAddOrder([m EXCEPT !.orders[id] = new]), id)
  BY DEF OComesIn
<1>2. m \in OManager /\ id \in Ids
  BY <1>1 DEF OOK, IsAdded
<1>3. PICK j : j = O!onAddOrder(m)
  OBVIOUS
<1>4. PICK k : k = O!onAddOrder([m EXCEPT !.orders[id] = new])
  OBVIOUS
<1>5. OnlyHandler(m, j) /\ Opened(m.handler, j.handler)
  BY <1>2, <1>3, HearsOfAdd
<1>6. k = [j EXCEPT !.orders[id] = new]
  <2>1. TellsOfAdd(m, id, new, j, k)
    BY <1>2, <1>3, <1>4 DEF TellsOfAdd
  <2>. QED
    BY <2>1, OTellsOfAdd
<1>7. OSame(m, j, market)
  BY <1>5 DEF OSame, OnlyHandler, Agree
<1>8. OOK(j, market)
  BY <1>1, <1>7, OIgnores
<1>9. Renotes(j, id, new, k)
  BY <1>1, <1>2, <1>5, <1>6 DEF Renotes, OnlyHandler
<1>10. OTakesIn(j, market, id, order, after, new, k, n)
  BY <1>1, <1>4, <1>8, <1>9 DEF OTakesIn
<1>11. OOK(n, after) /\ Elsewhere(j, n, {order.Book}) /\ n.handler = j.handler
  BY <1>10, OTakenIn
<1>. QED
  BY <1>5, <1>11 DEF Elsewhere, OnlyHandler

OAddsOrder(m, market, id, order, after, n) ==
    /\ OOK(m, market) /\ IsAdded(market, id, order, after)
    /\ n = O!AddOrder(m, id, order.Book, order.Side, order.Price, order.Shares)

LEMMA OEnters ==
    ASSUME NEW m, NEW market, NEW id, NEW order, NEW after, NEW n,
           OAddsOrder(m, market, id, order, after, n)
    PROVE  OOK(n, after) /\ Elsewhere(m, n, {order.Book}) /\ Opened(m.handler, n.handler)
<1>. DEFINE R == [Symbol : Books \cup {0}, Side : Sides, Price : Int, Quantity : Int, Level : Nat]
<1>1. /\ OOK(m, market) /\ IsAdded(market, id, order, after)
      /\ n = O!AddOrder(m, id, order.Book, order.Side, order.Price, order.Shares)
  BY DEF OAddsOrder
<1>2. PICK new : new = [m.orders[id] EXCEPT !.Symbol = order.Book, !.Side = order.Side,
                                            !.Quantity = order.Shares]
  OBVIOUS
<1>3. /\ new \in R /\ new.Symbol = order.Book /\ new.Side = order.Side
      /\ new.Quantity = order.Shares
  <2>1. m.orders[id] \in R
    BY <1>1 DEF OOK, OManager, IsAdded
  <2>2. order.Book \in Books /\ order.Side \in Sides /\ order.Shares \in Int
    BY <1>1 DEF IsAdded, Order
  <2>3. PICK old \in R : old = m.orders[id]
    BY <2>1
  <2>4. new = [old EXCEPT !.Symbol = order.Book, !.Side = order.Side, !.Quantity = order.Shares]
    BY <1>2, <2>3
  <2>. QED
    BY <2>2, <2>4
<1>4. n = O!BookAddOrder(O!onAddOrder([m EXCEPT !.orders[id] = new]), id)
  BY <1>1, <1>2 DEF O!AddOrder
<1>5. OComesIn(m, market, id, order, after, new, n)
  BY <1>1, <1>3, <1>4 DEF OComesIn
<1>. QED
  BY <1>5, OCameIn

OChanges(m, market, id, order, after, n) ==
    /\ OOK(m, market) /\ IsMoved(market, id, id, order, after)
    /\ order.Book = market[id].Book
    /\ n = O!ModifyOrder(m, id, order.Price, order.Shares)

LEMMA OModifies ==
    ASSUME NEW m, NEW market, NEW id, NEW order, NEW after, NEW n,
           OChanges(m, market, id, order, after, n)
    PROVE  OOK(n, after) /\ Elsewhere(m, n, {market[id].Book}) /\ n.handler = m.handler
<1>. DEFINE R == [Symbol : Books \cup {0}, Side : Sides, Price : Int, Quantity : Int, Level : Nat]
<1>1. /\ OOK(m, market) /\ IsMoved(market, id, id, order, after)
      /\ order.Book = market[id].Book
      /\ n = O!ModifyOrder(m, id, order.Price, order.Shares)
  BY DEF OChanges
<1>2. /\ IsMarket(market) /\ id \in DOMAIN market /\ id \in Ids /\ order \in Order
      /\ order.Side = market[id].Side
  BY <1>1 DEF IsMoved
<1>3. order.Price \in Int /\ order.Shares \in Int /\ order.Shares > 0
  <2>1. order.Shares \in Nat \ {0} /\ order.Price \in Nat \ {0}
    BY <1>2 DEF Order
  <2>. QED
    BY <2>1
<1>4. PICK rest : rest = Drop(market, id)
  OBVIOUS
<1>5. IsDropped(market, id, rest) /\ IsAdded(rest, id, order, after)
  BY <1>1, <1>4, MoveIs
<1>6. PICK d : d = O!BookDeleteOrder(m, id)
  OBVIOUS
<1>7. OOK(d, rest) /\ Elsewhere(m, d, {market[id].Book}) /\ d.orders = m.orders
      /\ d.handler = m.handler
  <2>1. ODrops(m, market, id, rest, d)
    BY <1>1, <1>5, <1>6 DEF ODrops
  <2>. QED
    BY <2>1, ODeletes
<1>8. PICK new : new = [d.orders[id] EXCEPT !.Price = order.Price, !.Quantity = order.Shares]
  OBVIOUS
<1>9. PICK k : k = [d EXCEPT !.orders[id] = new]
  OBVIOUS
<1>10. n = O!BookAddOrder(k, id)
  BY <1>1, <1>3, <1>6, <1>8, <1>9 DEF O!ModifyOrder
<1>11. d \in OManager /\ d.orders[id] \in R
  BY <1>2, <1>7 DEF OOK, OManager
<1>12. PICK old \in R : old = d.orders[id]
  BY <1>11
<1>13. /\ new \in R /\ new.Symbol = old.Symbol /\ new.Side = old.Side
       /\ new.Quantity = order.Shares
  BY <1>3, <1>8, <1>12
<1>14. old.Symbol = order.Book /\ old.Side = order.Side
  <2>1. m.orders[id].Symbol = market[id].Book /\ m.orders[id].Side = market[id].Side
    BY <1>1, <1>2 DEF OOK, OOrders
  <2>. QED
    BY <1>1, <1>2, <1>7, <1>12, <2>1
<1>15. Renotes(d, id, new, k)
  BY <1>2, <1>9, <1>11, <1>13 DEF Renotes
<1>16. OTakesIn(d, rest, id, order, after, new, k, n)
  BY <1>5, <1>7, <1>10, <1>13, <1>14, <1>15 DEF OTakesIn
<1>17. OOK(n, after) /\ Elsewhere(d, n, {order.Book}) /\ n.handler = d.handler
  BY <1>16, OTakenIn
<1>. QED
  BY <1>1, <1>7, <1>17 DEF Elsewhere

OExchanges(m, market, id, newId, order, after, n) ==
    /\ OOK(m, market) /\ IsMoved(market, id, newId, order, after)
    /\ n = O!ReplaceOrderInto(m, id, newId, order.Book, order.Side, order.Price, order.Shares)

LEMMA OReplaces ==
    ASSUME NEW m, NEW market, NEW id, NEW newId, NEW order, NEW after, NEW n,
           OExchanges(m, market, id, newId, order, after, n)
    PROVE  /\ OOK(n, after) /\ Elsewhere(m, n, {market[id].Book, order.Book})
           /\ \E h \in Handler : Closed(m.handler, h) /\ Opened(h, n.handler)
<1>. DEFINE R == [Symbol : Books \cup {0}, Side : Sides, Price : Int, Quantity : Int, Level : Nat]
<1>1. /\ OOK(m, market) /\ IsMoved(market, id, newId, order, after)
      /\ n = O!ReplaceOrderInto(m, id, newId, order.Book, order.Side, order.Price, order.Shares)
  BY DEF OExchanges
<1>2. /\ IsMarket(market) /\ id \in DOMAIN market /\ newId \in Ids /\ order \in Order
      /\ order.Side = market[id].Side
  BY <1>1 DEF IsMoved
<1>3. /\ order.Price \in Int /\ order.Shares \in Int /\ order.Shares > 0
      /\ order.Book \in Books /\ order.Side \in Sides
  <2>1. order.Shares \in Nat \ {0} /\ order.Price \in Nat \ {0}
    BY <1>2 DEF Order
  <2>. QED
    BY <1>2, <2>1 DEF Order
<1>4. PICK rest : rest = Drop(market, id)
  OBVIOUS
<1>5. IsDropped(market, id, rest) /\ IsAdded(rest, newId, order, after)
  BY <1>1, <1>4, MoveIs
<1>6. PICK d : d = O!BookDeleteOrder(m, id)
  OBVIOUS
<1>7. OOK(d, rest) /\ Elsewhere(m, d, {market[id].Book}) /\ d.handler = m.handler
  <2>1. ODrops(m, market, id, rest, d)
    BY <1>1, <1>5, <1>6 DEF ODrops
  <2>. QED
    BY <2>1, ODeletes
<1>8. PICK j : j = O!onDeleteOrder(d)
  OBVIOUS
<1>9. OnlyHandler(d, j) /\ Closed(d.handler, j.handler)
  BY <1>7, <1>8, HearsOfDelete DEF OOK
<1>10. OOK(j, rest)
  <2>1. OSame(d, j, rest)
    BY <1>9 DEF OSame, OnlyHandler, Agree
  <2>. QED
    BY <1>7, <2>1, OIgnores
<1>11. PICK new : new = [m.orders[newId] EXCEPT !.Symbol = order.Book, !.Side = order.Side,
                                                !.Price = order.Price, !.Quantity = order.Shares]
  OBVIOUS
<1>12. n = O!BookAddOrder(O!onAddOrder([j EXCEPT !.orders[newId] = new]), newId)
  BY <1>1, <1>3, <1>6, <1>8, <1>11 DEF O!ReplaceOrderInto
<1>13. PICK old \in R : old = m.orders[newId]
  BY <1>1, <1>2 DEF OOK, OManager
<1>14. /\ new \in R /\ new.Symbol = order.Book /\ new.Side = order.Side
       /\ new.Quantity = order.Shares
  BY <1>3, <1>11, <1>13
<1>15. OComesIn(j, rest, newId, order, after, new, n)
  BY <1>5, <1>10, <1>12, <1>14 DEF OComesIn
<1>16. OOK(n, after) /\ Elsewhere(j, n, {order.Book}) /\ Opened(j.handler, n.handler)
  BY <1>15, OCameIn
<1>17. j.handler \in Handler
  BY <1>10 DEF OOK, OManager
<1>. QED
  BY <1>7, <1>9, <1>16, <1>17 DEF Elsewhere, OnlyHandler

-----------------------------------------------------------------------------
(* The invariant *)

\* The managers have followed the exchange, and touched books that are listed only.
Follows(known, market, last, a, o, after, next, x, y) ==
    /\ Agreed(known, market, last, a, o)
    /\ next \in last .. MaxOrders
    /\ IsMarket(after)
    /\ \A id \in DOMAIN after : id <= next /\ after[id].Book \in known
    /\ AOK(x, after) /\ Elsewhere(a, x, known)
    /\ OOK(y, after) /\ Elsewhere(o, y, known)
    /\ Counts(y.handler, after, next)

LEMMA EmptyElsewhere ==
    ASSUME NEW m, NEW n, m.books \in Vectors, n.books \in Vectors, NEW S, Elsewhere(m, n, S),
           NEW b \in Books \ S, m.books[b] = EmptyBook
    PROVE  n.books[b] = EmptyBook
<1>1. n.books[b]["bids"] = m.books[b]["bids"] /\ n.books[b]["asks"] = m.books[b]["asks"]
  BY DEF Elsewhere, Wings
<1>2. n.books[b] = [bids |-> n.books[b].bids, asks |-> n.books[b].asks]
  BY DEF Vectors
<1>. QED
  BY <1>1, <1>2 DEF EmptyBook

LEMMA FollowersAgree ==
    ASSUME NEW known, NEW market, NEW last, NEW a, NEW o, NEW after, NEW next, NEW x, NEW y,
           Follows(known, market, last, a, o, after, next, x, y)
    PROVE  Agreed(known, after, next, x, y)
<1>1. /\ Agreed(known, market, last, a, o)
      /\ next \in last .. MaxOrders
      /\ IsMarket(after)
      /\ \A id \in DOMAIN after : id <= next /\ after[id].Book \in known
      /\ AOK(x, after) /\ Elsewhere(a, x, known)
      /\ OOK(y, after) /\ Elsewhere(o, y, known)
      /\ Counts(y.handler, after, next)
  BY DEF Follows
<1>2. /\ known \subseteq Books /\ last \in 0 .. MaxOrders
      /\ AOK(a, market) /\ OOK(o, market)
      /\ \A b \in Books \ known : a.books[b] = EmptyBook /\ o.books[b] = EmptyBook
  BY <1>1 DEF Agreed
<1>3. next \in 0 .. MaxOrders
  BY <1>1, <1>2, MaxOrdersIsANumber
<1>4. /\ a.books \in Vectors /\ x.books \in Vectors
      /\ o.books \in Vectors /\ y.books \in Vectors
  BY <1>1, <1>2 DEF AOK, OOK, Shelf
<1>5. ASSUME NEW b \in Books \ known
      PROVE  x.books[b] = EmptyBook /\ y.books[b] = EmptyBook
  <2>1. x.books[b] = EmptyBook
    BY <1>1, <1>2, <1>4, EmptyElsewhere
  <2>2. y.books[b] = EmptyBook
    BY <1>1, <1>2, <1>4, EmptyElsewhere
  <2>. QED
    BY <2>1, <2>2
<1>. QED
  BY <1>1, <1>2, <1>3, <1>5 DEF Agreed

\* An order is cut in all three.
AllCut(known, market, last, a, o, id, q, after, x, y) ==
    /\ Agreed(known, market, last, a, o) /\ IsCut(market, id, q, after)
    /\ AOK(x, after) /\ Elsewhere(a, x, {market[id].Book})
    /\ OOK(y, after) /\ Elsewhere(o, y, {market[id].Book})
    /\ Hears(market, id, q, o.handler, y.handler)

LEMMA CutAgrees ==
    ASSUME NEW known, NEW market, NEW last, NEW a, NEW o, NEW id, NEW q, NEW after, NEW x, NEW y,
           AllCut(known, market, last, a, o, id, q, after, x, y)
    PROVE  Agreed(known, after, last, x, y)
<1>1. /\ Agreed(known, market, last, a, o) /\ IsCut(market, id, q, after)
      /\ AOK(x, after) /\ Elsewhere(a, x, {market[id].Book})
      /\ OOK(y, after) /\ Elsewhere(o, y, {market[id].Book})
      /\ Hears(market, id, q, o.handler, y.handler)
  BY DEF AllCut
<1>2. /\ last \in 0 .. MaxOrders /\ IsMarket(market)
      /\ \A i \in DOMAIN market : i <= last /\ market[i].Book \in known
      /\ OOK(o, market) /\ Counts(o.handler, market, last)
      /\ id \in DOMAIN market
  BY <1>1 DEF Agreed, IsCut
<1>3. /\ IsMarket(after)
      /\ q = market[id].Shares => DOMAIN after = DOMAIN market \ {id}
      /\ q # market[id].Shares => DOMAIN after = DOMAIN market
      /\ SameKinds(after, market, DOMAIN after)
  <2>1. CutGives(market, id, q, after)
    BY <1>1, CutIsMarket
  <2>. QED
    BY <2>1 DEF CutGives
<1>4. \A i \in DOMAIN after : i <= last /\ after[i].Book \in known
  BY <1>2, <1>3 DEF SameKinds
<1>5. Elsewhere(a, x, known) /\ Elsewhere(o, y, known)
  BY <1>1, <1>2 DEF Elsewhere
<1>6. Counts(y.handler, after, last)
  <2>1. CASE q # market[id].Shares
    BY <1>1, <1>2, <1>3, <2>1 DEF Hears, Counts
  <2>2. CASE q = market[id].Shares
    <3>1. PICK h : h = o.handler
      OBVIOUS
    <3>2. PICK g : g = y.handler
      OBVIOUS
    <3>3. IsDropped(market, id, after)
      BY <1>1, <2>2, CutIs
    <3>4. Counts(h, market, last) /\ Closed(h, g) /\ h \in Handler
      BY <1>1, <1>2, <2>2, <3>1, <3>2 DEF Hears, OOK, OManager
    <3>5. last \in Nat
      BY <1>2
    <3>6. Counts(g, after, last)
      BY ONLY <3>3, <3>4, <3>5, CountsClose
    <3>. QED
      BY <3>2, <3>6
  <2>. QED
    BY <2>1, <2>2
<1>7. last \in last .. MaxOrders
  BY <1>2, MaxOrdersIsANumber
<1>8. Follows(known, market, last, a, o, after, last, x, y)
  BY <1>1, <1>3, <1>4, <1>5, <1>6, <1>7 DEF Follows
<1>. QED
  BY <1>8, FollowersAgree

\* An order is replaced in all three.
AllMoved(known, market, last, a, o, id, newId, order, after, next, x, y) ==
    /\ Agreed(known, market, last, a, o) /\ IsMoved(market, id, newId, order, after)
    /\ order.Book \in known /\ next \in last .. MaxOrders /\ newId <= next
    /\ AOK(x, after) /\ Elsewhere(a, x, {market[id].Book, order.Book})
    /\ OOK(y, after) /\ Elsewhere(o, y, {market[id].Book, order.Book})
    /\ Counts(y.handler, after, next)

LEMMA MoveAgrees ==
    ASSUME NEW known, NEW market, NEW last, NEW a, NEW o, NEW id, NEW newId, NEW order,
           NEW after, NEW next, NEW x, NEW y,
           AllMoved(known, market, last, a, o, id, newId, order, after, next, x, y)
    PROVE  Agreed(known, after, next, x, y)
<1>1. /\ Agreed(known, market, last, a, o) /\ IsMoved(market, id, newId, order, after)
      /\ order.Book \in known /\ next \in last .. MaxOrders /\ newId <= next
      /\ AOK(x, after) /\ Elsewhere(a, x, {market[id].Book, order.Book})
      /\ OOK(y, after) /\ Elsewhere(o, y, {market[id].Book, order.Book})
      /\ Counts(y.handler, after, next)
  BY DEF AllMoved
<1>2. /\ last \in 0 .. MaxOrders /\ IsMarket(market)
      /\ \A i \in DOMAIN market : i <= last /\ market[i].Book \in known
      /\ id \in DOMAIN market /\ newId \in Ids
  BY <1>1 DEF Agreed, IsMoved
<1>3. PICK rest : rest = Drop(market, id)
  OBVIOUS
<1>4. IsAdded(rest, newId, order, after) /\ DOMAIN rest = DOMAIN market \ {id}
  BY <1>1, <1>3, MoveIs
<1>5. /\ IsMarket(after) /\ DOMAIN after = DOMAIN rest \cup {newId}
      /\ after[newId] = order /\ \A i \in DOMAIN rest : after[i] = market[i]
  <2>1. AddGives(rest, newId, order, after)
    BY <1>4, AddedIsMarket
  <2>2. \A i \in DOMAIN rest : rest[i] = market[i]
    BY <1>3, <1>4 DEF Drop
  <2>. QED
    BY <2>1, <2>2 DEF AddGives, Agree
<1>6. \A i \in DOMAIN after : i <= next /\ after[i].Book \in known
  <2>1. last <= next /\ last \in Int /\ next \in Int
    BY <1>1, <1>2, MaxOrdersIsANumber
  <2>2. DOMAIN market \subseteq Int
    BY <1>2 DEF IsMarket, Ids
  <2>. QED
    BY <1>1, <1>2, <1>4, <1>5, <2>1, <2>2
<1>7. Elsewhere(a, x, known) /\ Elsewhere(o, y, known)
  BY <1>1, <1>2 DEF Elsewhere
<1>8. Follows(known, market, last, a, o, after, next, x, y)
  BY <1>1, <1>5, <1>6, <1>7 DEF Follows
<1>. QED
  BY <1>8, FollowersAgree

LEMMA InitInv == Init => Inv
<1>. SUFFICES ASSUME Init
     PROVE  Inv
  OBVIOUS
<1>1. /\ listed = {} /\ lastId = 0
      /\ aggressive = A!NewManager /\ optimized = O!NewManager
      /\ DOMAIN live = {} /\ live = [i \in {} |-> 0]
  BY DEF Init
<1>2. IsMarket(live)
  <2>1. live = [i \in {} |-> live[i]]
    BY <1>1
  <2>. QED
    BY <1>1, <2>1 DEF IsMarket
<1>3. PICK books : books = [b \in Books |-> EmptyBook]
  OBVIOUS
<1>4. PICK pool : pool = EmptyPool
  OBVIOUS
<1>5. /\ books \in Vectors
      /\ \A b \in Books : books[b] = EmptyBook
      /\ \A b \in Books, s \in Wings : books[b][s] = << >>
      /\ \A b \in Books, s \in Wings : On(books, b, s) = {}
  <2>1. << >> \in Seq(Entry) /\ Elements(<< >>) = {}
    BY DEF Elements
  <2>2. EmptyBook \in [bids : Seq(Entry), asks : Seq(Entry)]
    BY <2>1 DEF EmptyBook
  <2>3. \A b \in Books : books[b] = EmptyBook
    BY <1>3
  <2>4. \A s \in Wings : EmptyBook[s] = << >>
    BY DEF EmptyBook, Wings
  <2>. QED
    BY <1>3, <2>1, <2>2, <2>3, <2>4 DEF Vectors, On
<1>6. /\ pool.allocated = << >> /\ pool.free = << >>
      /\ pool = [allocated |-> << >>, free |-> << >>]
  BY <1>4 DEF EmptyPool
<1>7. Slots(pool) = {} /\ FreeSlots(pool) = {} /\ Distinct(pool.free)
  BY <1>6 DEF Slots, FreeSlots, Elements, Distinct
<1>8. ASSUME NEW Level, NEW dir
      PROVE  Shelf(dir, Level, pool, books)
  <2>1. PoolOK(Level, pool)
    BY <1>6, <1>7 DEF PoolOK
  <2>2. \A b \in Books, s \in Wings : Sorted(dir[s], books[b][s])
    <3>1. \A d : Sorted(d, << >>)
      BY DEF Sorted
    <3>. QED
      BY <1>5, <3>1
  <2>. QED
    BY <1>5, <1>7, <2>1, <2>2 DEF Shelf
<1>9. AOK(aggressive, live)
  <2>1. aggressive = [orders |-> [id \in Ids |-> [Symbol |-> 0, Quantity |-> 0, Level |-> 0]],
                      books |-> books, pool |-> pool]
    BY <1>1, <1>3, <1>4, APool DEF A!NewManager
  <2>2. aggressive \in AManager
    BY <1>5, <1>6, <2>1 DEF AManager
  <2>3. Shelf(AWings, ALevel, aggressive.pool, aggressive.books)
    BY <1>8, <2>1
  <2>4. AOrders(aggressive, live) /\ ALevels(aggressive, live)
    BY <1>1, <1>5, <2>1 DEF AOrders, ALevels
  <2>. QED
    BY <2>2, <2>3, <2>4 DEF AOK
<1>10. OOK(optimized, live)
  <2>1. optimized = [orders |-> [id \in Ids |-> [Symbol |-> 0, Side |-> "BUY", Price |-> 0,
                                                 Quantity |-> 0, Level |-> 0]],
                     books |-> books, pool |-> pool, handler |-> O!NewMarketHandler]
    BY <1>1, <1>3, <1>4, OPool DEF O!NewManager
  <2>2. O!NewMarketHandler \in Handler
    BY DEF O!NewMarketHandler, Handler
  <2>3. optimized \in OManager
    BY <1>5, <1>6, <2>1, <2>2 DEF OManager, Sides
  <2>4. Shelf(OWings, OLevel, optimized.pool, optimized.books)
    BY <1>8, <2>1
  <2>5. OOrders(optimized, live) /\ OLevels(optimized, live)
    BY <1>1, <1>5, <2>1 DEF OOrders, OLevels
  <2>. QED
    BY <2>3, <2>4, <2>5 DEF OOK
<1>11. Counts(optimized.handler, live, lastId)
  <2>1. optimized.handler = O!NewMarketHandler
    BY <1>1 DEF O!NewManager
  <2>. QED
    BY <1>1, <2>1, FS_EmptySet DEF Counts, O!NewMarketHandler
<1>12. \A b \in Books : aggressive.books[b] = EmptyBook /\ optimized.books[b] = EmptyBook
  BY <1>1, APool, OPool DEF A!NewManager, O!NewManager
<1>. QED
  BY <1>1, <1>2, <1>9, <1>10, <1>11, <1>12, MaxOrdersIsANumber DEF Inv, Agreed

-----------------------------------------------------------------------------
(* The messages and the calls keep the invariant *)

LEMMA KeepsDirectory ==
    ASSUME Inv, NEW b \in Books, StockDirectory(b)
    PROVE  Inv'
<1>1. /\ Agreed(listed, live, lastId, aggressive, optimized)
      /\ b \notin listed /\ listed' = listed \cup {b}
      /\ aggressive' = A!AddOrderBook(aggressive, b)
      /\ optimized' = O!AddOrderBook(O!AddSymbol(optimized, b), b)
      /\ live' = live /\ lastId' = lastId
  BY DEF Inv, StockDirectory
<1>2. /\ listed \subseteq Books /\ lastId \in 0 .. MaxOrders /\ IsMarket(live)
      /\ \A id \in DOMAIN live : id <= lastId /\ live[id].Book \in listed
      /\ AOK(aggressive, live) /\ OOK(optimized, live)
      /\ \A c \in Books \ listed : aggressive.books[c] = EmptyBook /\ optimized.books[c] = EmptyBook
      /\ Counts(optimized.handler, live, lastId)
  BY <1>1 DEF Agreed
<1>3. aggressive' = aggressive
  <2>1. aggressive \in AManager /\ aggressive.books[b] = EmptyBook
    BY <1>1, <1>2 DEF AOK
  <2>2. aggressive' = [aggressive EXCEPT !.books[b] = aggressive.books[b]]
    BY <1>1, <2>1, APool DEF A!AddOrderBook
  <2>. QED
    BY <2>1, <2>2 DEF AManager, Vectors
<1>4. /\ optimized' \in OManager /\ optimized'.pool = optimized.pool
      /\ optimized'.books = optimized.books /\ optimized'.orders = optimized.orders
      /\ optimized'.handler.orders = optimized.handler.orders
      /\ optimized'.handler.max_orders = optimized.handler.max_orders
      /\ optimized'.handler.add_orders = optimized.handler.add_orders
      /\ optimized'.handler.delete_orders = optimized.handler.delete_orders
  <2>1. optimized \in OManager /\ optimized.books[b] = EmptyBook
    BY <1>1, <1>2 DEF OOK
  <2>2. PICK h \in Handler : h = optimized.handler
    BY <2>1 DEF OManager
  <2>3. PICK x \in Int, y \in Int : x = h.symbols + 1 /\ y = h.order_books + 1
    BY <2>2 DEF Handler
  <2>4. PICK g : g = [h EXCEPT !.symbols = x, !.order_books = y]
    OBVIOUS
  <2>5. /\ g \in Handler
        /\ g.orders = h.orders /\ g.max_orders = h.max_orders
        /\ g.add_orders = h.add_orders /\ g.delete_orders = h.delete_orders
    BY <2>2, <2>3, <2>4 DEF Handler
  <2>6. optimized' = [optimized EXCEPT !.books[b] = optimized.books[b], !.handler = g]
    BY <1>1, <2>1, <2>2, <2>3, <2>4, OPool DEF O!AddOrderBook, O!AddSymbol, OManager, Handler
  <2>7. /\ optimized'.books = optimized.books /\ optimized'.pool = optimized.pool
        /\ optimized'.orders = optimized.orders /\ optimized'.handler = g
        /\ optimized' \in OManager
    BY <2>1, <2>5, <2>6 DEF OManager, Vectors
  <2>. QED
    BY <2>2, <2>5, <2>7
<1>5. OOK(optimized', live)
  <2>1. PICK n : n = optimized'
    OBVIOUS
  <2>2. OSame(optimized, n, live)
    BY <1>4, <2>1 DEF OSame, Agree
  <2>3. OOK(n, live)
    BY <1>2, <2>2, OIgnores
  <2>. QED
    BY <2>1, <2>3
<1>6. Counts(optimized'.handler, live, lastId)
  BY <1>2, <1>4 DEF Counts
<1>7. Agreed(listed', live, lastId, aggressive, optimized')
  BY <1>1, <1>2, <1>3, <1>4, <1>5, <1>6 DEF Agreed
<1>. QED
  BY <1>1, <1>3, <1>7 DEF Inv

LEMMA KeepsAddOrder ==
    ASSUME Inv, NEW b \in Books, NEW side \in Sides, NEW price \in Prices, NEW shares \in Shares,
           AddOrder(b, side, price, shares)
    PROVE  Inv'
<1>1. PICK next, after, x, y : next = lastId' /\ after = live' /\ x = aggressive' /\ y = optimized'
  OBVIOUS
<1>2. PICK order : order = New(b, side, price, shares)
  OBVIOUS
<1>3. /\ order \in Order /\ order.Book = b /\ order.Side = side
      /\ order.Price = price /\ order.Shares = shares
  BY <1>2, PricesArePositive, SharesArePositive DEF Order, New
<1>4. /\ Agreed(listed, live, lastId, aggressive, optimized)
      /\ b \in listed /\ lastId < MaxOrders /\ next = lastId + 1
      /\ after = With(live, next, order)
      /\ x = A!AddOrder(aggressive, next, order.Book, Sent(order.Side, order.Price), order.Shares)
      /\ y = O!AddOrder(optimized, next, order.Book, order.Side, order.Price, order.Shares)
      /\ listed' = listed
  BY <1>1, <1>2, <1>3 DEF Inv, AddOrder
<1>5. /\ listed \subseteq Books /\ lastId \in 0 .. MaxOrders /\ IsMarket(live)
      /\ \A id \in DOMAIN live : id <= lastId /\ live[id].Book \in listed
      /\ AOK(aggressive, live) /\ OOK(optimized, live)
      /\ Counts(optimized.handler, live, lastId)
  BY <1>4 DEF Agreed
<1>6. next \in lastId .. MaxOrders /\ next \in Ids /\ lastId \in Nat /\ next \notin DOMAIN live
  BY <1>4, <1>5, MaxOrdersIsANumber DEF Ids
<1>7. IsAdded(live, next, order, after)
  BY <1>3, <1>4, <1>5, <1>6 DEF IsAdded
<1>8. /\ IsMarket(after) /\ DOMAIN after = DOMAIN live \cup {next}
      /\ after[next] = order /\ \A i \in DOMAIN live : after[i] = live[i]
  <2>1. AddGives(live, next, order, after)
    BY <1>7, AddedIsMarket
  <2>. QED
    BY <2>1 DEF AddGives, Agree
<1>9. \A id \in DOMAIN after : id <= next /\ after[id].Book \in listed
  <2>1. DOMAIN live \subseteq Int
    BY <1>5 DEF IsMarket, Ids
  <2>. QED
    BY <1>3, <1>4, <1>5, <1>6, <1>8, <2>1
<1>10. AOK(x, after) /\ Elsewhere(aggressive, x, {order.Book})
  <2>1. PICK m : m = aggressive
    OBVIOUS
  <2>2. AComes(m, live, next, order, after, x)
    BY <1>4, <1>5, <1>7, <2>1 DEF AComes
  <2>3. AOK(x, after) /\ Elsewhere(m, x, {order.Book})
    BY <2>2, AEnters
  <2>. QED
    BY <2>1, <2>3
<1>11. /\ OOK(y, after) /\ Elsewhere(optimized, y, {order.Book})
       /\ Opened(optimized.handler, y.handler)
  <2>1. PICK m : m = optimized
    OBVIOUS
  <2>2. OAddsOrder(m, live, next, order, after, y)
    BY <1>4, <1>5, <1>7, <2>1 DEF OAddsOrder
  <2>3. OOK(y, after) /\ Elsewhere(m, y, {order.Book}) /\ Opened(m.handler, y.handler)
    BY <2>2, OEnters
  <2>. QED
    BY <2>1, <2>3
<1>12. Counts(y.handler, after, next)
  <2>1. PICK h, g, last, market : h = optimized.handler /\ g = y.handler /\ last = lastId /\ market = live
    OBVIOUS
  <2>2. Counts(h, market, last) /\ Opened(h, g) /\ last \in Nat
    BY <1>5, <1>6, <1>11, <2>1
  <2>3. IsAdded(market, next, order, after)
    BY <1>7, <2>1
  <2>4. h \in Handler
    BY <1>5, <2>1 DEF OOK, OManager
  <2>5. Counts(g, after, last + 1)
    BY ONLY <2>2, <2>3, <2>4, CountsOpen
  <2>. QED
    BY <1>4, <2>1, <2>5
<1>13. Elsewhere(aggressive, x, listed) /\ Elsewhere(optimized, y, listed)
  BY <1>3, <1>4, <1>10, <1>11 DEF Elsewhere
<1>14. Follows(listed, live, lastId, aggressive, optimized, after, next, x, y)
  BY <1>4, <1>6, <1>8, <1>9, <1>10, <1>11, <1>12, <1>13 DEF Follows
<1>15. Agreed(listed, after, next, x, y)
  BY <1>14, FollowersAgree
<1>. QED
  BY <1>1, <1>4, <1>15 DEF Inv

\* What is left after an execution or a cancellation.
LEMMA LeftIsCut ==
    ASSUME Inv, NEW id \in DOMAIN live, NEW shares \in 1 .. live[id].Shares
    PROVE  IsCut(live, id, shares, Left(id, live[id].Shares - shares))
<1>1. IsMarket(live)
  BY DEF Inv, Agreed
<1>2. live[id].Shares \in Nat
  BY <1>1, OrderAt
<1>3. live[id].Shares - shares = 0 <=> shares = live[id].Shares
  BY <1>2
<1>4. Left(id, live[id].Shares - shares) = Cut(live, id, shares)
  BY <1>3 DEF Left, Without, Cut, Drop, Reduced
<1>. QED
  BY <1>1, <1>4 DEF IsCut

LEMMA KeepsExecuted ==
    ASSUME Inv, NEW id \in DOMAIN live, NEW shares \in 1 .. live[id].Shares,
           OrderExecuted(id, shares)
    PROVE  Inv'
<1>1. PICK market, after, a, o, x, y :
         /\ market = live /\ after = live' /\ a = aggressive /\ o = optimized
         /\ x = aggressive' /\ y = optimized'
  OBVIOUS
<1>2. /\ Agreed(listed, market, lastId, a, o) /\ IsCut(market, id, shares, after)
      /\ x = A!ExecuteOrder(a, id, shares) /\ y = O!ExecuteOrder(o, id, shares)
      /\ listed' = listed /\ lastId' = lastId
  BY <1>1, LeftIsCut DEF Inv, OrderExecuted
<1>3. AOK(a, market) /\ OOK(o, market)
  BY <1>2 DEF Agreed
<1>4. AOK(x, after) /\ Elsewhere(a, x, {market[id].Book})
  <2>1. ACuts(a, market, id, shares, after, x)
    BY <1>2, <1>3 DEF ACuts, A!ExecuteOrder
  <2>. QED
    BY <2>1, AExecutes
<1>5. /\ OOK(y, after) /\ Elsewhere(o, y, {market[id].Book})
      /\ Hears(market, id, shares, o.handler, y.handler)
  <2>1. OFills(o, market, id, shares, after, y)
    BY <1>2, <1>3 DEF OFills
  <2>. QED
    BY <2>1, OExecutes
<1>6. AllCut(listed, market, lastId, a, o, id, shares, after, x, y)
  BY <1>2, <1>4, <1>5 DEF AllCut
<1>7. Agreed(listed, after, lastId, x, y)
  BY <1>6, CutAgrees
<1>. QED
  BY <1>1, <1>2, <1>7 DEF Inv

LEMMA KeepsCancel ==
    ASSUME Inv, NEW id \in DOMAIN live, NEW shares \in 1 .. live[id].Shares,
           OrderCancel(id, shares)
    PROVE  Inv'
<1>1. PICK market, after, a, o, x, y :
         /\ market = live /\ after = live' /\ a = aggressive /\ o = optimized
         /\ x = aggressive' /\ y = optimized'
  OBVIOUS
<1>2. /\ Agreed(listed, market, lastId, a, o) /\ IsCut(market, id, shares, after)
      /\ x = A!ReduceOrder(a, id, shares) /\ y = O!ReduceOrder(o, id, shares)
      /\ listed' = listed /\ lastId' = lastId
  BY <1>1, LeftIsCut DEF Inv, OrderCancel
<1>3. AOK(a, market) /\ OOK(o, market)
  BY <1>2 DEF Agreed
<1>4. AOK(x, after) /\ Elsewhere(a, x, {market[id].Book})
  <2>1. ACuts(a, market, id, shares, after, x)
    BY <1>2, <1>3 DEF ACuts
  <2>. QED
    BY <2>1, AExecutes
<1>5. /\ OOK(y, after) /\ Elsewhere(o, y, {market[id].Book})
      /\ Hears(market, id, shares, o.handler, y.handler)
  <2>1. OCancels(o, market, id, shares, after, y)
    BY <1>2, <1>3 DEF OCancels
  <2>. QED
    BY <2>1, OReducesOrder
<1>6. AllCut(listed, market, lastId, a, o, id, shares, after, x, y)
  BY <1>2, <1>4, <1>5 DEF AllCut
<1>7. Agreed(listed, after, lastId, x, y)
  BY <1>6, CutAgrees
<1>. QED
  BY <1>1, <1>2, <1>7 DEF Inv

\* An order is deleted by both managers, and the handler of one is told.
Ends(known, market, last, a, o, id, rest, x, y) ==
    /\ Agreed(known, market, last, a, o) /\ IsDropped(market, id, rest)
    /\ x = A!BookDeleteOrder(a, id) /\ y = O!onDeleteOrder(O!BookDeleteOrder(o, id))

LEMMA EndAgrees ==
    ASSUME NEW known, NEW market, NEW last, NEW a, NEW o, NEW id, NEW rest, NEW x, NEW y,
           Ends(known, market, last, a, o, id, rest, x, y)
    PROVE  Agreed(known, rest, last, x, y)
<1>1. /\ Agreed(known, market, last, a, o) /\ IsDropped(market, id, rest)
      /\ x = A!BookDeleteOrder(a, id) /\ y = O!onDeleteOrder(O!BookDeleteOrder(o, id))
      /\ AOK(a, market) /\ OOK(o, market)
  BY DEF Ends, Agreed
<1>2. AOK(x, rest) /\ Elsewhere(a, x, {market[id].Book})
  <2>1. ADrops(a, market, id, rest, x)
    BY <1>1 DEF ADrops
  <2>. QED
    BY <2>1, ADeletes
<1>3. PICK d : d = O!BookDeleteOrder(o, id)
  OBVIOUS
<1>4. OOK(d, rest) /\ Elsewhere(o, d, {market[id].Book}) /\ d.handler = o.handler
  <2>1. ODrops(o, market, id, rest, d)
    BY <1>1, <1>3 DEF ODrops
  <2>. QED
    BY <2>1, ODeletes
<1>5. OnlyHandler(d, y) /\ Closed(d.handler, y.handler)
  BY <1>1, <1>3, <1>4, HearsOfDelete DEF OOK
<1>6. OOK(y, rest) /\ Elsewhere(o, y, {market[id].Book}) /\ Closed(o.handler, y.handler)
  <2>1. OSame(d, y, rest)
    BY <1>5 DEF OSame, OnlyHandler, Agree
  <2>2. OOK(y, rest)
    BY <1>4, <2>1, OIgnores
  <2>. QED
    BY <1>4, <1>5, <2>2 DEF Elsewhere, OnlyHandler
<1>7. PICK q : q = market[id].Shares
  OBVIOUS
<1>8. IsCut(market, id, q, rest)
  BY <1>1, <1>7, DropIsCut
<1>9. AllCut(known, market, last, a, o, id, q, rest, x, y)
  BY <1>1, <1>2, <1>6, <1>7, <1>8 DEF AllCut, Hears
<1>. QED
  BY <1>9, CutAgrees

LEMMA KeepsDelete ==
    ASSUME Inv, NEW id \in DOMAIN live, OrderDelete(id)
    PROVE  Inv'
<1>1. PICK market, after, a, o, x, y :
         /\ market = live /\ after = live' /\ a = aggressive /\ o = optimized
         /\ x = aggressive' /\ y = optimized'
  OBVIOUS
<1>2. /\ Agreed(listed, market, lastId, a, o) /\ IsMarket(market)
      /\ after = Drop(market, id)
      /\ x = A!DeleteOrder(a, id) /\ y = O!DeleteOrder(o, id)
      /\ listed' = listed /\ lastId' = lastId
  BY <1>1 DEF Inv, Agreed, OrderDelete, Without, Drop
<1>3. Ends(listed, market, lastId, a, o, id, after, x, y)
  BY <1>1, <1>2 DEF Ends, IsDropped, A!DeleteOrder, O!DeleteOrder
<1>4. Agreed(listed, after, lastId, x, y)
  BY <1>3, EndAgrees
<1>. QED
  BY <1>1, <1>2, <1>4 DEF Inv

\* More numbers have been given.
LEMMA AgreedLater ==
    ASSUME NEW known, NEW market, NEW last, NEW a, NEW o, Agreed(known, market, last, a, o),
           last < MaxOrders, NEW next, next = last + 1
    PROVE  Agreed(known, market, next, a, o)
<1>1. /\ known \subseteq Books /\ last \in 0 .. MaxOrders /\ IsMarket(market)
      /\ \A id \in DOMAIN market : id <= last /\ market[id].Book \in known
      /\ AOK(a, market) /\ OOK(o, market)
      /\ \A b \in Books \ known : a.books[b] = EmptyBook /\ o.books[b] = EmptyBook
      /\ Counts(o.handler, market, last)
  BY DEF Agreed
<1>2. next \in 0 .. MaxOrders
  BY <1>1, MaxOrdersIsANumber
<1>3. \A id \in DOMAIN market : id <= next
  <2>1. DOMAIN market \subseteq Int
    BY <1>1 DEF IsMarket, Ids
  <2>. QED
    BY <1>1, <2>1
<1>4. Counts(o.handler, market, next)
  <2>1. o.handler.orders \in Int
    BY <1>1 DEF OOK, OManager, Handler
  <2>. QED
    BY <1>1, <2>1 DEF Counts
<1>. QED
  BY <1>1, <1>2, <1>3, <1>4 DEF Agreed

Replaces(known, market, last, a, o, id, next, b, price, shares, after, x, y) ==
    /\ Agreed(known, market, last, a, o) /\ id \in DOMAIN market
    /\ b \in known /\ last < MaxOrders /\ next = last + 1
    /\ price \in Prices /\ shares \in Shares \cup {0}
    /\ after = IF shares = 0 THEN Drop(market, id)
               ELSE With(Drop(market, id), next, New(b, market[id].Side, price, shares))
    /\ x = A!ReplaceOrderInto(a, id, next, b, price, shares)
    /\ y = O!ReplaceOrderInto(o, id, next, b, market[id].Side, price, shares)

LEMMA ReplaceAgrees ==
    ASSUME NEW known, NEW market, NEW last, NEW a, NEW o, NEW id, NEW next, NEW b, NEW price,
           NEW shares, NEW after, NEW x, NEW y,
           Replaces(known, market, last, a, o, id, next, b, price, shares, after, x, y)
    PROVE  Agreed(known, after, next, x, y)
<1>1. /\ Agreed(known, market, last, a, o) /\ id \in DOMAIN market
      /\ b \in known /\ last < MaxOrders /\ next = last + 1
      /\ price \in Prices /\ shares \in Shares \cup {0}
      /\ after = IF shares = 0 THEN Drop(market, id)
                 ELSE With(Drop(market, id), next, New(b, market[id].Side, price, shares))
      /\ x = A!ReplaceOrderInto(a, id, next, b, price, shares)
      /\ y = O!ReplaceOrderInto(o, id, next, b, market[id].Side, price, shares)
  BY DEF Replaces
<1>2. /\ IsMarket(market) /\ known \subseteq Books /\ last \in 0 .. MaxOrders
      /\ AOK(a, market) /\ OOK(o, market) /\ Counts(o.handler, market, last)
      /\ \A i \in DOMAIN market : i <= last
  BY <1>1 DEF Agreed
<1>3. CASE shares = 0
  <2>1. IsDropped(market, id, after)
    BY <1>1, <1>2, <1>3 DEF IsDropped
  <2>2. x = A!BookDeleteOrder(a, id) /\ y = O!onDeleteOrder(O!BookDeleteOrder(o, id))
    BY <1>1, <1>3 DEF A!ReplaceOrderInto, O!ReplaceOrderInto
  <2>3. Ends(known, market, last, a, o, id, after, x, y)
    BY <1>1, <2>1, <2>2 DEF Ends
  <2>4. Agreed(known, after, last, x, y)
    BY <2>3, EndAgrees
  <2>. QED
    BY <1>1, <2>4, AgreedLater
<1>4. CASE shares # 0
  <2>1. PICK order : order = New(b, market[id].Side, price, shares)
    OBVIOUS
  <2>2. /\ order \in Order /\ order.Book = b /\ order.Side = market[id].Side
        /\ order.Price = price /\ order.Shares = shares
    <3>1. market[id].Side \in Sides
      BY <1>1, <1>2, OrderAt
    <3>2. b \in Books /\ price \in Nat \ {0} /\ shares \in Nat \ {0}
      BY <1>1, <1>2, <1>4, PricesArePositive, SharesArePositive
    <3>. QED
      BY <2>1, <3>1, <3>2 DEF New, Order
  <2>3. /\ next \in Ids /\ next \notin DOMAIN market /\ next \in last .. MaxOrders
        /\ last \in Nat /\ next <= next
    BY <1>1, <1>2, MaxOrdersIsANumber DEF Ids
  <2>4. IsMoved(market, id, next, order, after)
    BY <1>1, <1>2, <1>4, <2>1, <2>2, <2>3 DEF IsMoved
  <2>5. AOK(x, after) /\ Elsewhere(a, x, {market[id].Book, order.Book})
    <3>1. AExchanges(a, market, id, next, order, after, x)
      BY <1>1, <1>2, <2>2, <2>4 DEF AExchanges
    <3>. QED
      BY <3>1, AReplaces
  <2>6. /\ OOK(y, after) /\ Elsewhere(o, y, {market[id].Book, order.Book})
        /\ \E h \in Handler : Closed(o.handler, h) /\ Opened(h, y.handler)
    <3>1. OExchanges(o, market, id, next, order, after, y)
      BY <1>1, <1>2, <2>2, <2>4 DEF OExchanges
    <3>. QED
      BY <3>1, OReplaces
  <2>7. PICK h \in Handler : Closed(o.handler, h) /\ Opened(h, y.handler)
    BY <2>6
  <2>8. PICK rest, f, g : rest = Drop(market, id) /\ f = o.handler /\ g = y.handler
    OBVIOUS
  <2>9. IsDropped(market, id, rest) /\ IsAdded(rest, next, order, after)
    BY <2>4, <2>8, MoveIs
  <2>10. f \in Handler /\ Closed(f, h) /\ Opened(h, g) /\ Counts(f, market, last) /\ last \in Nat
    BY <1>2, <2>3, <2>7, <2>8 DEF OOK, OManager
  <2>11. Counts(h, rest, last)
    BY ONLY <2>9, <2>10, CountsClose
  <2>12. Counts(g, after, last + 1)
    BY ONLY <2>7, <2>9, <2>10, <2>11, CountsOpen
  <2>13. AllMoved(known, market, last, a, o, id, next, order, after, next, x, y)
    BY <1>1, <2>2, <2>3, <2>4, <2>5, <2>6, <2>8, <2>12 DEF AllMoved
  <2>. QED
    BY <2>13, MoveAgrees
<1>. QED
  BY <1>3, <1>4

LEMMA KeepsReplace ==
    ASSUME Inv, NEW id \in DOMAIN live, NEW price \in Prices, NEW shares \in Shares \cup {0},
           OrderReplace(id, price, shares)
    PROVE  Inv'
<1>1. PICK market, after, last, next, a, o, x, y :
         /\ market = live /\ after = live' /\ last = lastId /\ next = lastId'
         /\ a = aggressive /\ o = optimized /\ x = aggressive' /\ y = optimized'
  OBVIOUS
<1>2. /\ Agreed(listed, market, last, a, o) /\ id \in DOMAIN market
      /\ last < MaxOrders /\ next = last + 1
      /\ after = IF shares = 0 THEN Drop(market, id)
                 ELSE With(Drop(market, id), next,
                           [market[id] EXCEPT !.Price = price, !.Shares = shares])
      /\ x = A!ReplaceOrder(a, id, next, price, shares)
      /\ y = O!ReplaceOrder(o, id, next, price, shares)
      /\ listed' = listed
  BY <1>1 DEF Inv, OrderReplace, Without, Drop
<1>3. /\ IsMarket(market) /\ AOrders(a, market) /\ OOrders(o, market)
      /\ market[id].Book \in listed
  BY <1>2 DEF Agreed, AOK, OOK
<1>4. PICK b : b = market[id].Book
  OBVIOUS
<1>5. [market[id] EXCEPT !.Price = price, !.Shares = shares] = New(b, market[id].Side, price, shares)
  <2>1. PICK old \in Order : old = market[id]
    BY <1>2, <1>3 DEF IsMarket
  <2>2. PICK k \in Nat, n \in Nat : k = price /\ n = shares
    BY PricesArePositive, SharesArePositive
  <2>. DEFINE Kept == [Book : Books, Side : Sides, Price : Nat, Shares : Nat]
  <2>3. old \in Kept
    BY DEF Order
  <2>4. PICK new : new = [old EXCEPT !.Price = k, !.Shares = n]
    OBVIOUS
  <2>5. /\ new \in Kept /\ new.Book = old.Book /\ new.Side = old.Side
        /\ new.Price = k /\ new.Shares = n
    BY <2>3, <2>4
  <2>6. new = [Book |-> new.Book, Side |-> new.Side, Price |-> new.Price, Shares |-> new.Shares]
    BY <2>5
  <2>7. new = [Book |-> old.Book, Side |-> old.Side, Price |-> k, Shares |-> n]
    BY <2>5, <2>6
  <2>. QED
    BY <1>4, <2>1, <2>2, <2>4, <2>7 DEF New
<1>6. /\ x = A!ReplaceOrderInto(a, id, next, b, price, shares)
      /\ y = O!ReplaceOrderInto(o, id, next, b, market[id].Side, price, shares)
  <2>1. a.orders[id].Symbol = b /\ o.orders[id].Symbol = b /\ o.orders[id].Side = market[id].Side
    BY <1>2, <1>3, <1>4 DEF AOrders, OOrders
  <2>. QED
    BY <1>2, <2>1 DEF A!ReplaceOrder, O!ReplaceOrder
<1>7. Replaces(listed, market, last, a, o, id, next, b, price, shares, after, x, y)
  BY <1>2, <1>3, <1>4, <1>5, <1>6 DEF Replaces
<1>8. Agreed(listed, after, next, x, y)
  BY <1>7, ReplaceAgrees
<1>. QED
  BY <1>1, <1>2, <1>8 DEF Inv

LEMMA KeepsReplaceInto ==
    ASSUME Inv, NEW id \in DOMAIN live, NEW b \in Books, NEW price \in Prices,
           NEW shares \in Shares \cup {0}, ReplaceOrderInto(id, b, price, shares)
    PROVE  Inv'
<1>1. PICK market, after, last, next, a, o, x, y :
         /\ market = live /\ after = live' /\ last = lastId /\ next = lastId'
         /\ a = aggressive /\ o = optimized /\ x = aggressive' /\ y = optimized'
  OBVIOUS
<1>2. /\ Agreed(listed, market, last, a, o) /\ id \in DOMAIN market
      /\ b \in listed /\ last < MaxOrders /\ next = last + 1
      /\ after = IF shares = 0 THEN Drop(market, id)
                 ELSE With(Drop(market, id), next, New(b, market[id].Side, price, shares))
      /\ x = A!ReplaceOrderInto(a, id, next, b, price, shares)
      /\ y = O!ReplaceOrderInto(o, id, next, b, market[id].Side, price, shares)
      /\ listed' = listed
  BY <1>1 DEF Inv, ReplaceOrderInto, Without, Drop
<1>3. Replaces(listed, market, last, a, o, id, next, b, price, shares, after, x, y)
  BY <1>2 DEF Replaces
<1>4. Agreed(listed, after, next, x, y)
  BY <1>3, ReplaceAgrees
<1>. QED
  BY <1>1, <1>2, <1>4 DEF Inv

\* A modification to nothing deletes the order from the books, and then notes the values.
VoidsOrder(known, market, last, a, o, id, price, rest, x, y) ==
    /\ Agreed(known, market, last, a, o) /\ IsDropped(market, id, rest) /\ price \in Int
    /\ x = A!ModifyOrder(a, id, price, 0) /\ y = O!ModifyOrder(o, id, price, 0)

LEMMA VoidAgrees ==
    ASSUME NEW known, NEW market, NEW last, NEW a, NEW o, NEW id, NEW price, NEW rest, NEW x,
           NEW y, VoidsOrder(known, market, last, a, o, id, price, rest, x, y)
    PROVE  Agreed(known, rest, last, x, y)
<1>. DEFINE R == [Symbol : Books \cup {0}, Side : Sides, Price : Int, Quantity : Int, Level : Nat]
<1>1. /\ Agreed(known, market, last, a, o) /\ IsDropped(market, id, rest) /\ price \in Int
      /\ x = A!ModifyOrder(a, id, price, 0) /\ y = O!ModifyOrder(o, id, price, 0)
      /\ AOK(a, market) /\ OOK(o, market)
  BY DEF VoidsOrder, Agreed
<1>2. id \in Ids /\ DOMAIN rest \subseteq Ids \ {id}
  <2>1. IsMarket(market) /\ id \in DOMAIN market
    BY <1>1 DEF IsDropped
  <2>2. DOMAIN market \subseteq Ids
    BY <2>1 DEF IsMarket
  <2>3. DOMAIN rest = DOMAIN market \ {id}
    BY <1>1, DropIsMarket
  <2>. QED
    BY <2>1, <2>2, <2>3
<1>3. PICK none \in Int : none = 0
  OBVIOUS
<1>4. AOK(x, rest) /\ Elsewhere(a, x, {market[id].Book})
  <2>1. PICK d : d = A!BookDeleteOrder(a, id)
    OBVIOUS
  <2>2. AOK(d, rest) /\ Elsewhere(a, d, {market[id].Book})
    <3>1. ADrops(a, market, id, rest, d)
      BY <1>1, <2>1 DEF ADrops
    <3>. QED
      BY <3>1, ADeletes
  <2>3. x = [d EXCEPT !.orders[id].Quantity = none]
    BY <1>1, <1>3, <2>1 DEF A!ModifyOrder
  <2>4. d \in AManager
    BY <2>2 DEF AOK
  <2>5. /\ x \in AManager /\ x.pool = d.pool /\ x.books = d.books
        /\ \A i \in Ids \ {id} : x.orders[i] = d.orders[i]
    BY <1>2, <2>3, <2>4 DEF AManager
  <2>6. ASame(d, x, rest)
    BY <1>2, <2>5 DEF ASame, Agree
  <2>7. AOK(x, rest)
    BY <2>2, <2>6, AIgnores
  <2>. QED
    BY <2>2, <2>5, <2>7 DEF Elsewhere
<1>5. /\ OOK(y, rest) /\ Elsewhere(o, y, {market[id].Book})
      /\ Closed(o.handler, y.handler)
  <2>1. PICK d : d = O!BookDeleteOrder(o, id)
    OBVIOUS
  <2>2. OOK(d, rest) /\ Elsewhere(o, d, {market[id].Book}) /\ d.handler = o.handler
    <3>1. ODrops(o, market, id, rest, d)
      BY <1>1, <2>1 DEF ODrops
    <3>. QED
      BY <3>1, ODeletes
  <2>3. d \in OManager /\ d.orders[id] \in R
    BY <1>2, <2>2 DEF OOK, OManager
  <2>4. PICK new : new = [d.orders[id] EXCEPT !.Price = price, !.Quantity = none]
    OBVIOUS
  <2>5. new \in R
    <3>1. PICK old \in R : old = d.orders[id]
      BY <2>3
    <3>. QED
      BY <1>1, <2>4, <3>1
  <2>6. PICK k : k = [d EXCEPT !.orders[id] = new]
    OBVIOUS
  <2>7. Renoted(d, id, new, k)
    <3>1. Renotes(d, id, new, k)
      BY <1>2, <2>3, <2>5, <2>6 DEF Renotes
    <3>. QED
      BY <3>1, ORenotes
  <2>8. y = O!onDeleteOrder(k)
    BY <1>1, <1>3, <2>1, <2>4, <2>6 DEF O!ModifyOrder
  <2>9. OnlyHandler(k, y) /\ Closed(k.handler, y.handler)
    BY <2>7, <2>8, HearsOfDelete DEF Renoted
  <2>10. OSame(d, y, rest)
    BY <1>2, <2>7, <2>9 DEF OSame, Agree, OnlyHandler, Renoted
  <2>11. OOK(y, rest)
    BY <2>2, <2>10, OIgnores
  <2>. QED
    BY <2>2, <2>7, <2>9, <2>11 DEF Elsewhere, OnlyHandler, Renoted
<1>6. PICK q : q = market[id].Shares
  OBVIOUS
<1>7. IsCut(market, id, q, rest)
  BY <1>1, <1>6, DropIsCut
<1>8. AllCut(known, market, last, a, o, id, q, rest, x, y)
  BY <1>1, <1>4, <1>5, <1>6, <1>7 DEF AllCut, Hears
<1>. QED
  BY <1>8, CutAgrees

LEMMA KeepsModify ==
    ASSUME Inv, NEW id \in DOMAIN live, NEW price \in Prices, NEW shares \in Shares \cup {0},
           ModifyOrder(id, price, shares)
    PROVE  Inv'
<1>1. PICK market, after, last, a, o, x, y :
         /\ market = live /\ after = live' /\ last = lastId
         /\ a = aggressive /\ o = optimized /\ x = aggressive' /\ y = optimized'
  OBVIOUS
<1>2. /\ Agreed(listed, market, last, a, o) /\ id \in DOMAIN market
      /\ shares = 0 => after = Drop(market, id)
      /\ shares # 0 => after = [market EXCEPT ![id] = [market[id] EXCEPT !.Price = price,
                                                                         !.Shares = shares]]
      /\ x = A!ModifyOrder(a, id, price, shares)
      /\ y = O!ModifyOrder(o, id, price, shares)
      /\ listed' = listed /\ lastId' = last
  BY <1>1 DEF Inv, ModifyOrder, Without, Drop
<1>3. /\ IsMarket(market) /\ last \in 0 .. MaxOrders /\ AOK(a, market) /\ OOK(o, market)
      /\ Counts(o.handler, market, last) /\ id <= last /\ market[id].Book \in listed
  BY <1>2 DEF Agreed
<1>4. Agreed(listed, after, last, x, y)
  <2>1. CASE shares = 0
    <3>1. IsDropped(market, id, after) /\ price \in Int
      BY <1>2, <1>3, <2>1, PricesArePositive DEF IsDropped
    <3>2. VoidsOrder(listed, market, last, a, o, id, price, after, x, y)
      BY <1>2, <2>1, <3>1 DEF VoidsOrder
    <3>. QED
      BY <3>2, VoidAgrees
  <2>2. CASE shares # 0
    <3>1. PICK order : order = [market[id] EXCEPT !.Price = price, !.Shares = shares]
      OBVIOUS
    <3>2. /\ order \in Order /\ order.Book = market[id].Book /\ order.Side = market[id].Side
          /\ order.Price = price /\ order.Shares = shares
      <4>1. PICK old \in Order : old = market[id]
        BY <1>2, <1>3 DEF IsMarket
      <4>2. price \in Nat \ {0} /\ shares \in Nat \ {0}
        BY <2>2, PricesArePositive, SharesArePositive
      <4>. QED
        BY <3>1, <4>1, <4>2 DEF Order
    <3>3. id \in Ids
      BY <1>2, <1>3, OrderAt
    <3>4. after = With(Drop(market, id), id, order)
      <4>1. after = [market EXCEPT ![id] = order]
        BY <1>2, <2>2, <3>1
      <4>2. market = [i \in DOMAIN market |-> market[i]]
        BY <1>3 DEF IsMarket
      <4>3. DOMAIN Drop(market, id) \cup {id} = DOMAIN market
        BY <1>2 DEF Drop
      <4>4. after = [i \in DOMAIN market |-> IF i = id THEN order ELSE market[i]]
        BY <1>2, <4>1, <4>2
      <4>5. \A i \in DOMAIN market \ {id} : Drop(market, id)[i] = market[i]
        BY DEF Drop
      <4>6. With(Drop(market, id), id, order)
               = [i \in DOMAIN market |-> IF i = id THEN order ELSE market[i]]
        BY <4>3, <4>5 DEF With
      <4>. QED
        BY <4>4, <4>6
    <3>5. IsMoved(market, id, id, order, after)
      BY <1>2, <1>3, <3>2, <3>3, <3>4 DEF IsMoved
    <3>6. AOK(x, after) /\ Elsewhere(a, x, {market[id].Book})
      <4>1. AChanges(a, market, id, order, after, x)
        BY <1>2, <1>3, <3>2, <3>5 DEF AChanges
      <4>. QED
        BY <4>1, AModifies
    <3>7. OOK(y, after) /\ Elsewhere(o, y, {market[id].Book}) /\ y.handler = o.handler
      <4>1. OChanges(o, market, id, order, after, y)
        BY <1>2, <1>3, <3>2, <3>5 DEF OChanges
      <4>. QED
        BY <4>1, OModifies
    <3>8. Counts(y.handler, after, last)
      <4>1. DOMAIN after = DOMAIN market
        BY <1>2, <2>2
      <4>. QED
        BY <1>3, <3>7, <4>1 DEF Counts
    <3>9. last \in last .. MaxOrders
      BY <1>3, MaxOrdersIsANumber
    <3>10. {market[id].Book, order.Book} = {market[id].Book}
      BY <3>2
    <3>11. AllMoved(listed, market, last, a, o, id, id, order, after, last, x, y)
      BY <1>2, <1>3, <3>2, <3>5, <3>6, <3>7, <3>8, <3>9, <3>10 DEF AllMoved
    <3>. QED
      BY <3>11, MoveAgrees
  <2>. QED
    BY <2>1, <2>2
<1>. QED
  BY <1>1, <1>2, <1>4 DEF Inv

LEMMA NextInv == Inv /\ [Next]_vars => Inv'
<1>. SUFFICES ASSUME Inv, [Next]_vars
     PROVE  Inv'
  OBVIOUS
<1>1. CASE Message
  BY <1>1, KeepsDirectory, KeepsAddOrder, KeepsExecuted, KeepsCancel, KeepsDelete, KeepsReplace
     DEF Message
<1>2. CASE Call
  BY <1>2, KeepsModify, KeepsReplaceInto DEF Call
<1>3. CASE UNCHANGED vars
  BY <1>3 DEF vars, Inv
<1>. QED
  BY <1>1, <1>2, <1>3 DEF Next

\* The two managers agree with the exchange, through every message and call.
THEOREM InvariantHolds == Spec => []Inv
BY InitInv, NextInv, PTL DEF Spec

-----------------------------------------------------------------------------
(* What the invariant says of the depth *)

\* The orders of a book at a price are those that the aggressive manager has at a slot.
LEMMA DepthIsVolume ==
    ASSUME NEW a, AOK(a, live), IsMarket(live), NEW b \in Books, NEW side \in Sides,
           NEW e \in On(a.books, b, WingOf(side)), NEW price \in Int,
           e.Price = Sent(side, price)
    PROVE  /\ Depth(b, side, price) = VolumeAt(a.orders, live, e.Level)
           /\ \A id \in Held(a.orders, live, e.Level) :
                 live[id].Book = b /\ live[id].Side = side /\ live[id].Price = price
<1>1. /\ Shelf(AWings, ALevel, a.pool, a.books) /\ AOrders(a, live)
      /\ WingOf(side) \in Wings
  BY DEF AOK, WingOf, Wings
<1>2. \A id \in DOMAIN live :
         /\ live[id].Book \in Books /\ live[id].Side \in Sides /\ live[id].Price \in Int
         /\ WingOf(live[id].Side) \in Wings
         /\ \E f \in On(a.books, live[id].Book, WingOf(live[id].Side)) :
               /\ f.Price = Sent(live[id].Side, live[id].Price)
               /\ f.Level = a.orders[id].Level
  BY <1>1, OrderAt DEF AOrders, AEntry, EntriesOf, WingOf, Wings
<1>3. \A p, q \in Int : Sent(side, p) = Sent(side, q) => p = q
  BY DEF Sent
<1>4. ASSUME NEW id \in Held(a.orders, live, e.Level)
      PROVE  live[id].Book = b /\ live[id].Side = side /\ live[id].Price = price
  <2>1. id \in DOMAIN live /\ a.orders[id].Level = e.Level
    BY DEF Held
  <2>2. PICK f \in On(a.books, live[id].Book, WingOf(live[id].Side)) :
           f.Price = Sent(live[id].Side, live[id].Price) /\ f.Level = e.Level
    BY <1>2, <2>1
  <2>3. live[id].Book = b /\ WingOf(live[id].Side) = WingOf(side) /\ f = e
    BY <1>1, <1>2, <2>1, <2>2 DEF Shelf
  <2>4. live[id].Side = side
    BY <1>2, <2>1, <2>3 DEF WingOf, Sides
  <2>5. Sent(side, live[id].Price) = Sent(side, price)
    BY <2>2, <2>3, <2>4
  <2>. QED
    BY <1>2, <1>3, <2>1, <2>3, <2>4, <2>5
<1>5. ASSUME NEW id \in DOMAIN live,
             live[id].Book = b, live[id].Side = side, live[id].Price = price
      PROVE  a.orders[id].Level = e.Level
  <2>1. PICK f \in On(a.books, b, WingOf(side)) :
           f.Price = Sent(side, price) /\ f.Level = a.orders[id].Level
    BY <1>2, <1>5
  <2>2. PICK dir, levels : dir = AWings[WingOf(side)] /\ levels = a.books[b][WingOf(side)]
    OBVIOUS
  <2>3. levels \in Seq(Entry) /\ Sorted(dir, levels)
    BY <1>1, <2>2, VectorAt DEF Shelf
  <2>4. e \in Elements(levels) /\ f \in Elements(levels) /\ f.Price = e.Price
    BY <2>1, <2>2 DEF On
  <2>5. PICK i \in 1 .. Len(levels), j \in 1 .. Len(levels) : e = levels[i] /\ f = levels[j]
    BY <2>4 DEF Elements
  <2>6. i = j
    BY <2>3, <2>4, <2>5, SortedPrices
  <2>. QED
    BY <2>1, <2>5, <2>6
<1>6. {j \in DOMAIN live : /\ live[j].Book = b /\ live[j].Side = side
                           /\ live[j].Price = price} = Held(a.orders, live, e.Level)
  BY <1>4, <1>5 DEF Held
<1>7. Depth(b, side, price) = VolumeAt(a.orders, live, e.Level)
  BY <1>6 DEF Depth, VolumeAt
<1>. QED
  BY <1>4, <1>7

\* A slot of the aggressive manager has an order.
LEMMA SomeOneIsThere ==
    ASSUME NEW a, AOK(a, live), NEW b \in Books, NEW s \in Wings, NEW e \in On(a.books, b, s)
    PROVE  \E id \in DOMAIN live : id \in Held(a.orders, live, e.Level)
<1>1. VolumeAt(a.orders, live, e.Level) # 0
  BY DEF AOK, ALevels
<1>2. Held(a.orders, live, e.Level) # {}
  <2>1. PICK f : f = [id \in Held(a.orders, live, e.Level) |-> live[id].Shares]
    OBVIOUS
  <2>2. Lots(f) # 0 /\ DOMAIN f = Held(a.orders, live, e.Level)
    BY <1>1, <2>1 DEF VolumeAt
  <2>. QED
    BY <2>2, LotsEmpty
<1>. QED
  BY <1>2 DEF Held

LEMMA DepthFollows == Inv => DepthIsExact
<1>. SUFFICES ASSUME Inv, NEW b \in Books, NEW side \in Sides
     PROVE  LET levels == aggressive.books[b][IF side = "BUY" THEN "bids" ELSE "asks"]
                prices == {live[i].Price : i \in {j \in DOMAIN live : /\ live[j].Book = b
                                                                      /\ live[j].Side = side}}
            IN  /\ \A i, j \in DOMAIN levels : i < j => levels[i].Price < levels[j].Price
                /\ {levels[i].Price : i \in DOMAIN levels} = {Sent(side, p) : p \in prices}
                /\ \A i \in DOMAIN levels :
                      LET level == aggressive.pool.allocated[levels[i].Level]
                      IN  /\ level.Price = levels[i].Price
                          /\ level.Volume = Depth(b, side, IF side = "BUY" THEN level.Price
                                                           ELSE -level.Price)
  BY DEF DepthIsExact
<1>1. PICK a : a = aggressive
  OBVIOUS
<1>2. PICK levels : levels = a.books[b][WingOf(side)]
  OBVIOUS
<1>3. PICK prices : prices = {live[i].Price : i \in {j \in DOMAIN live : /\ live[j].Book = b
                                                                         /\ live[j].Side = side}}
  OBVIOUS
<1>4. IsMarket(live) /\ AOK(a, live)
  BY <1>1 DEF Inv, Agreed
<1>5. /\ Shelf(AWings, ALevel, a.pool, a.books) /\ AOrders(a, live) /\ ALevels(a, live)
      /\ WingOf(side) \in Wings
  BY <1>4 DEF AOK, WingOf, Wings
<1>6. /\ levels \in Seq(Entry) /\ Sorted("up", levels) /\ DOMAIN levels = 1 .. Len(levels)
      /\ Elements(levels) = On(a.books, b, WingOf(side))
      /\ \A i \in DOMAIN levels : levels[i] \in On(a.books, b, WingOf(side))
                                  /\ levels[i].Price \in Int
  <2>1. levels \in Seq(Entry)
    BY <1>2, <1>5, VectorAt DEF Shelf
  <2>2. Sorted("up", levels)
    BY <1>2, <1>5 DEF Shelf, AWings
  <2>3. Elements(levels) = On(a.books, b, WingOf(side))
    BY <1>2 DEF On
  <2>4. DOMAIN levels = 1 .. Len(levels)
    BY <2>1
  <2>. QED
    BY <2>1, <2>2, <2>3, <2>4, EntryAt
<1>7. \A i, j \in DOMAIN levels : i < j => levels[i].Price < levels[j].Price
  BY <1>6 DEF Sorted, Before
<1>8. ASSUME NEW i \in DOMAIN levels
      PROVE  levels[i].Price \in {Sent(side, p) : p \in prices}
  <2>1. PICK price \in Int : levels[i].Price = Sent(side, price)
    <3>1. levels[i].Price \in Int
      BY <1>6
    <3>2. PICK p \in Int : levels[i].Price = p
      BY <3>1
    <3>3. -p \in Int /\ p = -(-p)
      OBVIOUS
    <3>. QED
      BY <3>2, <3>3 DEF Sent
  <2>2. PICK e \in On(a.books, b, WingOf(side)) : e = levels[i]
    BY <1>6
  <2>3. PICK id \in DOMAIN live : id \in Held(a.orders, live, e.Level)
    BY <1>4, <1>5, SomeOneIsThere
  <2>4. live[id].Book = b /\ live[id].Side = side /\ live[id].Price = price
    BY <1>4, <2>1, <2>2, <2>3, DepthIsVolume
  <2>5. price \in prices
    BY <1>3, <2>4
  <2>. QED
    BY <2>1, <2>5
<1>9. ASSUME NEW p \in prices
      PROVE  \E i \in DOMAIN levels : levels[i].Price = Sent(side, p)
  <2>1. PICK id \in DOMAIN live : live[id].Book = b /\ live[id].Side = side /\ live[id].Price = p
    BY <1>3
  <2>2. PICK e \in On(a.books, b, WingOf(side)) : e.Price = Sent(side, p)
    BY <1>5, <2>1 DEF AOrders, AEntry, EntriesOf
  <2>3. e \in Elements(levels)
    BY <1>6
  <2>. QED
    BY <1>6, <2>2, <2>3 DEF Elements
<1>10. {levels[i].Price : i \in DOMAIN levels} = {Sent(side, p) : p \in prices}
  BY <1>8, <1>9
<1>11. ASSUME NEW i \in DOMAIN levels, NEW level, level = a.pool.allocated[levels[i].Level]
       PROVE  /\ level.Price = levels[i].Price
              /\ level.Volume = Depth(b, side, IF side = "BUY" THEN level.Price ELSE -level.Price)
  <2>1. PICK e \in On(a.books, b, WingOf(side)) : e = levels[i]
    BY <1>6
  <2>2. /\ level.Price = e.Price /\ e.Price \in Int
        /\ level.Volume = VolumeAt(a.orders, live, e.Level)
    BY <1>5, <1>6, <1>11, <2>1 DEF ALevels
  <2>3. PICK price : price = IF side = "BUY" THEN e.Price ELSE -e.Price
    OBVIOUS
  <2>4. price \in Int /\ e.Price = Sent(side, price)
    BY <2>2, <2>3 DEF Sent
  <2>5. Depth(b, side, price) = VolumeAt(a.orders, live, e.Level)
    BY <1>4, <2>4, DepthIsVolume
  <2>. QED
    BY <2>1, <2>2, <2>3, <2>5
<1>12. levels = aggressive.books[b][IF side = "BUY" THEN "bids" ELSE "asks"]
  BY <1>1, <1>2 DEF WingOf
<1>13. \A i \in DOMAIN levels :
          /\ aggressive.pool.allocated[levels[i].Level].Price = levels[i].Price
          /\ aggressive.pool.allocated[levels[i].Level].Volume =
                Depth(b, side, IF side = "BUY" THEN aggressive.pool.allocated[levels[i].Level].Price
                               ELSE -aggressive.pool.allocated[levels[i].Level].Price)
  BY <1>1, <1>11
<1>. QED
  BY <1>3, <1>7, <1>10, <1>12, <1>13, ZenonT(40)

\* The books of the aggressive manager are the depth of the market.
THEOREM DepthHolds == Spec => []DepthIsExact
BY InvariantHolds, DepthFollows, PTL

-----------------------------------------------------------------------------
(* What it says of the slots *)

LEMMA ShelfPartitions ==
    ASSUME NEW dir, NEW Level, NEW pool, NEW books, Shelf(dir, Level, pool, books)
    PROVE  SlotsArePartitioned(pool, books)
<1>. DEFINE sides == {<<b, side>> : b \in DOMAIN books, side \in {"bids", "asks"}}
            Used(s) == SlotsOf(books[s[1]][s[2]])
<1>1. /\ pool \in [allocated : Seq(Level), free : Seq(Nat)] /\ Distinct(pool.free)
      /\ FreeSlots(pool) \subseteq Slots(pool) /\ books \in Vectors
  BY DEF Shelf, PoolOK
<1>2. IsInjective(pool.free) /\ ToSet(pool.free) = FreeSlots(pool)
      /\ DOMAIN pool.allocated = Slots(pool)
  <2>1. DOMAIN pool.free = 1 .. Len(pool.free) /\ DOMAIN pool.allocated = 1 .. Len(pool.allocated)
    BY <1>1
  <2>. QED
    BY <1>1, <2>1 DEF IsInjective, ToSet, Distinct, FreeSlots, Slots, Elements
<1>3. ASSUME NEW b \in Books, NEW s \in Wings
      PROVE  /\ books[b][s] \in Seq(Entry) /\ DOMAIN books[b][s] = 1 .. Len(books[b][s])
             /\ ToSet(books[b][s]) = On(books, b, s)
             /\ SlotsOf(books[b][s]) = {e.Level : e \in On(books, b, s)}
             /\ Sorted(dir[s], books[b][s])
  <2>1. books[b][s] \in Seq(Entry)
    BY <1>1, VectorAt
  <2>2. DOMAIN books[b][s] = 1 .. Len(books[b][s])
    BY <2>1
  <2>. QED
    BY <2>1, <2>2 DEF ToSet, On, Elements, SlotsOf, Shelf
<1>4. ASSUME NEW s \in sides
      PROVE  s = <<s[1], s[2]>> /\ s[1] \in Books /\ s[2] \in Wings
  BY <1>1 DEF Vectors, Wings
<1>5. ASSUME NEW s \in sides
      PROVE  /\ IsInjective([i \in DOMAIN books[s[1]][s[2]] |-> books[s[1]][s[2]][i].Level])
             /\ Used(s) \cap ToSet(pool.free) = {}
             /\ \A t \in sides \ {s} : Used(s) \cap Used(t) = {}
  <2>. HIDE DEF sides
  <2>1. s[1] \in Books /\ s[2] \in Wings
    BY <1>4
  <2>2. IsInjective([i \in DOMAIN books[s[1]][s[2]] |-> books[s[1]][s[2]][i].Level])
    <3>1. PICK levels, b, w : levels = books[b][w] /\ b = s[1] /\ w = s[2]
      OBVIOUS
    <3>2. /\ levels \in Seq(Entry) /\ DOMAIN levels = 1 .. Len(levels) /\ Sorted(dir[w], levels)
          /\ \A i \in DOMAIN levels : levels[i] \in On(books, b, w)
      BY <1>3, <2>1, <3>1 DEF On, Elements
    <3>3. ASSUME NEW i \in DOMAIN levels, NEW j \in DOMAIN levels,
                 levels[i].Level = levels[j].Level
          PROVE  i = j
      <4>1. levels[i] = levels[j]
        BY <2>1, <3>1, <3>2, <3>3, SMTT(30) DEF Shelf
      <4>2. i \in 1 .. Len(levels) /\ j \in 1 .. Len(levels) /\ levels[i].Price = levels[j].Price
        BY <3>2, <4>1
      <4>. QED
        BY <3>2, <4>2, SortedPrices
    <3>4. IsInjective([i \in DOMAIN levels |-> levels[i].Level])
      BY <3>3 DEF IsInjective
    <3>. QED
      BY <3>1, <3>4
  <2>3. Used(s) \cap ToSet(pool.free) = {}
    <3>1. \A e \in On(books, s[1], s[2]) : e.Level \notin FreeSlots(pool)
      BY <2>1 DEF Shelf
    <3>2. Used(s) = {e.Level : e \in On(books, s[1], s[2])}
      BY <1>3, <2>1
    <3>3. PICK used : used = Used(s)
      OBVIOUS
    <3>4. \A n \in used : n \notin FreeSlots(pool)
      BY <3>1, <3>2, <3>3
    <3>. QED
      BY <1>2, <3>3, <3>4
  <2>4. ASSUME NEW t \in sides \ {s}
        PROVE  Used(s) \cap Used(t) = {}
    <3>1. t[1] \in Books /\ t[2] \in Wings /\ ~(s[1] = t[1] /\ s[2] = t[2])
      BY <1>4
    <3>2. \A e \in On(books, s[1], s[2]), f \in On(books, t[1], t[2]) : e.Level # f.Level
      BY <2>1, <3>1 DEF Shelf
    <3>3. PICK used, others : used = Used(s) /\ others = Used(t)
      OBVIOUS
    <3>4. /\ used = {e.Level : e \in On(books, s[1], s[2])}
          /\ others = {e.Level : e \in On(books, t[1], t[2])}
      BY <1>3, <2>1, <3>1, <3>3
    <3>5. used \cap others = {}
      BY <3>2, <3>4
    <3>. QED
      BY <3>3, <3>5
  <2>. QED
    BY <2>2, <2>3, <2>4
<1>6. DOMAIN pool.allocated = ToSet(pool.free) \cup UNION {Used(s) : s \in sides}
  <2>1. \A b \in Books, w \in Wings : <<b, w>> \in sides
    BY <1>1 DEF Vectors, Wings
  <2>2. ASSUME NEW n \in Slots(pool), n \notin FreeSlots(pool)
        PROVE  n \in UNION {Used(s) : s \in sides}
    <3>1. PICK b \in Books, w \in Wings : \E e \in On(books, b, w) : e.Level = n
      BY <2>2 DEF Shelf
    <3>2. n \in SlotsOf(books[b][w])
      BY <1>3, <3>1
    <3>. HIDE DEF sides
    <3>3. PICK s \in sides : s = <<b, w>>
      BY <2>1
    <3>4. n \in Used(s)
      BY <3>2, <3>3
    <3>. QED
      BY <3>4
  <2>3. ASSUME NEW s \in sides
        PROVE  Used(s) \subseteq Slots(pool)
    <3>. HIDE DEF sides
    <3>. QED
      BY <1>3, <1>4 DEF Shelf
  <2>. QED
    BY <1>1, <1>2, <2>2, <2>3
<1>7. /\ IsInjective(pool.free)
      /\ \A s \in sides :
            /\ IsInjective([i \in DOMAIN books[s[1]][s[2]] |-> books[s[1]][s[2]][i].Level])
            /\ Used(s) \cap ToSet(pool.free) = {}
            /\ \A t \in sides \ {s} : Used(s) \cap Used(t) = {}
      /\ DOMAIN pool.allocated = ToSet(pool.free) \cup UNION {Used(s) : s \in sides}
  <2>. HIDE DEF sides, Used
  <2>. QED
    BY <1>2, <1>5, <1>6
<1>. QED
  BY <1>7, PTL DEF SlotsArePartitioned

LEMMA SlotsFollow == Inv => NoSlotIsShared
<1>. SUFFICES ASSUME Inv
     PROVE  NoSlotIsShared
  OBVIOUS
<1>1. /\ SlotsArePartitioned(aggressive.pool, aggressive.books)
      /\ SlotsArePartitioned(optimized.pool, optimized.books)
  BY ShelfPartitions DEF Inv, Agreed, AOK, OOK
<1>2. \A pool, books : A!SlotsArePartitioned(pool, books) <=> SlotsArePartitioned(pool, books)
  BY DEF A!SlotsArePartitioned, SlotsArePartitioned, A!SlotsOf, SlotsOf, A!ToSet, ToSet,
         A!IsInjective, IsInjective
<1>3. \A pool, books : O!SlotsArePartitioned(pool, books) <=> SlotsArePartitioned(pool, books)
  BY DEF O!SlotsArePartitioned, SlotsArePartitioned, O!SlotsOf, SlotsOf, O!ToSet, ToSet,
         O!IsInjective, IsInjective
<1>. QED
  BY <1>1, <1>2, <1>3 DEF NoSlotIsShared

\* A slot of a pool is free or used by one level, whatever levels come and go.
THEOREM SlotsHold == Spec => []NoSlotIsShared
BY InvariantHolds, SlotsFollow, PTL

-----------------------------------------------------------------------------
(* What it says of the counts *)

LEMMA CountsFollow == Inv => OrdersAreCounted
<1>. SUFFICES ASSUME Inv
     PROVE  OrdersAreCounted
  OBVIOUS
<1>1. OLevels(optimized, live) /\ Counts(optimized.handler, live, lastId)
      /\ optimized.books \in Vectors
  BY DEF Inv, Agreed, OOK, Shelf
<1>2. ASSUME NEW b \in Books, NEW side \in Wings, NEW i \in DOMAIN optimized.books[b][side],
             NEW entry, entry = optimized.books[b][side][i]
      PROVE  optimized.pool.allocated[entry.Level].Orders =
                Cardinality({id \in DOMAIN live : optimized.orders[id].Level = entry.Level})
  <2>1. DOMAIN optimized.books[b][side] = 1 .. Len(optimized.books[b][side])
    <3>1. optimized.books[b][side] \in Seq(Entry)
      BY <1>1, VectorAt
    <3>. QED
      BY <3>1
  <2>2. entry \in On(optimized.books, b, side)
    BY <1>2, <2>1 DEF On, Elements
  <2>. QED
    BY <1>1, <2>2 DEF OLevels, Held
<1>3. /\ optimized.handler.orders = Cardinality(DOMAIN live)
      /\ optimized.handler.add_orders - optimized.handler.delete_orders = optimized.handler.orders
      /\ optimized.handler.max_orders \in optimized.handler.orders .. lastId
  BY <1>1 DEF Counts
<1>4. \A b \in Books, side \in {"bids", "asks"} : \A i \in DOMAIN optimized.books[b][side] :
         optimized.pool.allocated[optimized.books[b][side][i].Level].Orders =
            Cardinality({id \in DOMAIN live :
                            optimized.orders[id].Level = optimized.books[b][side][i].Level})
  <2>. SUFFICES ASSUME NEW b \in Books, NEW side \in Wings, NEW i \in DOMAIN optimized.books[b][side]
                PROVE  optimized.pool.allocated[optimized.books[b][side][i].Level].Orders =
                          Cardinality({id \in DOMAIN live : optimized.orders[id].Level =
                                                           optimized.books[b][side][i].Level})
    BY DEF Wings
  <2>1. PICK entry : entry = optimized.books[b][side][i]
    OBVIOUS
  <2>2. optimized.pool.allocated[entry.Level].Orders =
           Cardinality({id \in DOMAIN live : optimized.orders[id].Level = entry.Level})
    BY <1>2, <2>1
  <2>. QED
    BY <2>1, <2>2
<1>. QED
  BY <1>3, <1>4, Zenon DEF OrdersAreCounted

\* The handler and the levels of the optimized manager count the orders of the exchange.
THEOREM CountsHold == Spec => []OrdersAreCounted
BY InvariantHolds, CountsFollow, PTL
=============================================================================

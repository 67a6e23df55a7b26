--------------------------- MODULE CollectionProofs ---------------------------
(***************************************************************************)
(* Lemmas about the collections that the models are built from: sums of     *)
(* lots, and lists in which elements are appended, inserted and removed.    *)
(***************************************************************************)
EXTENDS Sums, SequencesExt, FiniteSetTheorems, SequenceTheorems, TLAPS

-----------------------------------------------------------------------------
(* Sums *)

\* The lots that Lots counts.
LotSet(f) == UNION {{x} \X (1 .. f[x]) : x \in DOMAIN f}

\* A sum over a finite domain is a natural number, no less than any summand.
LEMMA LotsType ==
    ASSUME NEW D, IsFiniteSet(D), NEW f \in [D -> Nat]
    PROVE  /\ IsFiniteSet(LotSet(f))
           /\ Lots(f) \in Nat
<1> DEFINE Part == [x \in D |-> {x} \X (1 .. f[x])]
<1>1. IsFiniteSet({Part[x] : x \in D})
  <2> DEFINE T == {Part[x] : x \in D}
  <2>1. Part \in Surjection(D, T)
    BY DEF Surjection
  <2> QED
    BY <2>1, FS_Surjection
<1>2. \A T \in {Part[x] : x \in D} : IsFiniteSet(T)
  <2> SUFFICES ASSUME NEW x \in D PROVE IsFiniteSet({x} \X (1 .. f[x]))
    OBVIOUS
  <2>1. IsFiniteSet({x})
    BY FS_Singleton
  <2>2. f[x] \in Int
    OBVIOUS
  <2>3. IsFiniteSet(1 .. f[x])
    BY <2>2, FS_Interval
  <2> QED
    BY <2>1, <2>3, FS_Product
<1>3. LotSet(f) = UNION {Part[x] : x \in D}
  BY DEF LotSet
<1>4. IsFiniteSet(LotSet(f))
  BY <1>1, <1>2, <1>3, FS_UNION
<1> QED
  BY <1>4, FS_CardinalityType DEF Lots, LotSet

\* A sum is one summand and the sum of the others.
LEMMA LotsSplit ==
    ASSUME NEW D, IsFiniteSet(D), NEW f \in [D -> Nat], NEW x \in D,
           NEW g \in [D \ {x} -> Nat], \A y \in D \ {x} : g[y] = f[y]
    PROVE  Lots(f) = f[x] + Lots(g)
<1> DEFINE Own == {x} \X (1 .. f[x])
<1>1. LotSet(f) = Own \cup LotSet(g)
  BY DEF LotSet
<1>2. Own \cap LotSet(g) = {}
  BY DEF LotSet
<1>3. IsFiniteSet(Own) /\ Cardinality(Own) = f[x]
  <2>1. IsFiniteSet({x}) /\ Cardinality({x}) = 1
    BY FS_Singleton
  <2>2. IsFiniteSet(1 .. f[x]) /\ Cardinality(1 .. f[x]) = f[x]
    BY FS_Interval
  <2>3. Cardinality({x}) * Cardinality(1 .. f[x]) = f[x]
    BY <2>1, <2>2
  <2> QED
    BY <2>1, <2>2, <2>3, FS_Product
<1>4. IsFiniteSet(D \ {x})
  BY FS_RemoveElement
<1>5. IsFiniteSet(LotSet(g)) /\ Lots(g) \in Nat
  BY <1>4, LotsType
<1>6. Cardinality(LotSet(f)) = Cardinality(Own) + Cardinality(LotSet(g)) - Cardinality({})
  BY <1>1, <1>2, <1>3, <1>5, FS_Union
<1> QED
  BY <1>3, <1>5, <1>6, FS_EmptySet DEF Lots, LotSet

\* A sum is no less than any summand.
LEMMA LotsAtLeast ==
    ASSUME NEW D, IsFiniteSet(D), NEW f \in [D -> Nat], NEW x \in D
    PROVE  Lots(f) >= f[x]
<1> DEFINE g == [y \in D \ {x} |-> f[y]]
<1>1. g \in [D \ {x} -> Nat] /\ \A y \in D \ {x} : g[y] = f[y]
  OBVIOUS
<1> HIDE DEF g
<1>2. Lots(f) = f[x] + Lots(g)
  BY <1>1, LotsSplit
<1>3. IsFiniteSet(D \ {x})
  BY FS_RemoveElement
<1>4. Lots(g) \in Nat
  BY <1>1, <1>3, LotsType
<1> QED
  BY <1>2, <1>4

\* A sum of numbers up to max over a domain within ids is bounded.
LEMMA LotsBound ==
    ASSUME NEW ids, IsFiniteSet(ids), NEW max \in Nat, NEW D \in SUBSET ids,
           NEW f \in [D -> Nat], \A x \in D : f[x] <= max
    PROVE  Lots(f) <= Cardinality(ids) * max
<1>1. LotSet(f) \subseteq ids \X (1 .. max)
  BY DEF LotSet
<1>2. IsFiniteSet(1 .. max) /\ Cardinality(1 .. max) = max
  BY FS_Interval
<1>3. /\ IsFiniteSet(ids \X (1 .. max))
      /\ Cardinality(ids \X (1 .. max)) = Cardinality(ids) * max
  BY <1>2, FS_Product
<1> QED
  BY <1>1, <1>3, FS_Subset DEF Lots, LotSet

\* A sum over the empty domain.
LEMMA LotsEmpty ==
    ASSUME NEW f, DOMAIN f = {}
    PROVE  Lots(f) = 0
BY FS_EmptySet DEF Lots

-----------------------------------------------------------------------------
(* Lists *)

Elements(s) == {s[i] : i \in 1 .. Len(s)}
Distinct(s) == \A i, j \in 1 .. Len(s) : s[i] = s[j] => i = j

\* Append adds one element at the end.
LEMMA AppendElements ==
    ASSUME NEW S, NEW s \in Seq(S), NEW e \in S
    PROVE  /\ Append(s, e) \in Seq(S)
           /\ Len(Append(s, e)) = Len(s) + 1
           /\ Elements(Append(s, e)) = Elements(s) \cup {e}
           /\ Distinct(s) /\ e \notin Elements(s) => Distinct(Append(s, e))
<1>1. /\ Append(s, e) \in Seq(S)
      /\ Len(Append(s, e)) = Len(s) + 1
      /\ \A i \in 1 .. Len(s) : Append(s, e)[i] = s[i]
      /\ Append(s, e)[Len(s) + 1] = e
  BY AppendProperties
<1>2. Len(s) \in Nat
  OBVIOUS
<1>3. Elements(Append(s, e)) = Elements(s) \cup {e}
  BY <1>1, <1>2 DEF Elements
<1>4. ASSUME Distinct(s), e \notin Elements(s) PROVE Distinct(Append(s, e))
  BY <1>1, <1>2, <1>4 DEF Elements, Distinct
<1> QED
  BY <1>1, <1>3, <1>4

\* RemoveAt takes one element out and keeps the others in order.
LEMMA RemoveAtProperties ==
    ASSUME NEW S, NEW s \in Seq(S), NEW i \in 1 .. Len(s)
    PROVE  /\ RemoveAt(s, i) \in Seq(S)
           /\ Len(RemoveAt(s, i)) = Len(s) - 1
           /\ \A n \in 1 .. Len(s) - 1 :
                 RemoveAt(s, i)[n] = IF n < i THEN s[n] ELSE s[n + 1]
<1> DEFINE t == RemoveAt(s, i)
<1>1. i \in 1 .. Len(s)
  OBVIOUS
<1>2. Len(s) \in Nat
  OBVIOUS
<1>3. /\ SubSeq(s, 1, i - 1) \in Seq(S)
      /\ Len(SubSeq(s, 1, i - 1)) = i - 1
      /\ \A n \in 1 .. i - 1 : SubSeq(s, 1, i - 1)[n] = s[n]
  <2>1. \A n \in 1 .. i - 1 : s[n] \in S
    BY <1>1, <1>2, ElementOfSeq
  <2> QED
    BY <1>1, <2>1, SubSeqProperties
<1>4. /\ SubSeq(s, i + 1, Len(s)) \in Seq(S)
      /\ Len(SubSeq(s, i + 1, Len(s))) = Len(s) - i
      /\ \A n \in 1 .. Len(s) - i : SubSeq(s, i + 1, Len(s))[n] = s[n + i]
  <2>1. \A n \in i + 1 .. Len(s) : s[n] \in S
    BY <1>1, <1>2, ElementOfSeq
  <2> QED
    BY <1>1, <1>2, <2>1, SubSeqProperties
<1>5. t = SubSeq(s, 1, i - 1) \o SubSeq(s, i + 1, Len(s))
  BY DEF RemoveAt
<1>6. /\ t \in Seq(S)
      /\ Len(t) = Len(s) - 1
      /\ \A n \in 1 .. Len(s) - 1 : t[n] = IF n < i THEN s[n] ELSE s[n + 1]
  <2> DEFINE u == SubSeq(s, 1, i - 1)
             v == SubSeq(s, i + 1, Len(s))
  <2>1. u \in Seq(S) /\ Len(u) = i - 1 /\ \A n \in 1 .. i - 1 : u[n] = s[n]
    BY <1>3
  <2>2. v \in Seq(S) /\ Len(v) = Len(s) - i /\ \A n \in 1 .. Len(s) - i : v[n] = s[n + i]
    BY <1>4
  <2>3. t = u \o v
    BY <1>5
  <2> HIDE DEF t, u, v
  <2>4. /\ u \o v \in Seq(S)
        /\ Len(u \o v) = Len(u) + Len(v)
        /\ \A n \in 1 .. Len(u) + Len(v) :
              (u \o v)[n] = IF n <= Len(u) THEN u[n] ELSE v[n - Len(u)]
    BY <2>1, <2>2, ConcatProperties
  <2>5. Len(u) + Len(v) = Len(s) - 1
    BY <1>1, <1>2, <2>1, <2>2
  <2>6. ASSUME NEW n \in 1 .. Len(s) - 1
        PROVE  t[n] = IF n < i THEN s[n] ELSE s[n + 1]
    <3>1. CASE n < i
      BY <1>1, <1>2, <2>1, <2>3, <2>4, <2>5, <3>1
    <3>2. CASE n >= i
      <4>1. n - (i - 1) \in 1 .. Len(s) - i /\ ~(n <= Len(u))
        BY <1>1, <1>2, <2>1, <3>2
      <4>2. t[n] = v[n - (i - 1)]
        BY <2>1, <2>3, <2>4, <2>5, <4>1
      <4>3. v[n - (i - 1)] = s[(n - (i - 1)) + i]
        BY <2>2, <4>1
      <4> QED
        BY <1>1, <3>2, <4>2, <4>3
    <3> QED
      BY <1>1, <3>1, <3>2
  <2> QED
    BY <2>3, <2>4, <2>5, <2>6
<1> QED
  BY <1>6

LEMMA RemoveAtElements ==
    ASSUME NEW S, NEW s \in Seq(S), Distinct(s), NEW i \in 1 .. Len(s)
    PROVE  Elements(RemoveAt(s, i)) = Elements(s) \ {s[i]}
<1>. DEFINE t == RemoveAt(s, i)
<1>1. /\ Len(t) = Len(s) - 1
      /\ \A n \in 1 .. Len(s) - 1 : t[n] = IF n < i THEN s[n] ELSE s[n + 1]
  BY RemoveAtProperties
<1>2. Len(s) \in Nat
  OBVIOUS
<1>. HIDE DEF t
<1>3. ASSUME NEW x \in Elements(t) PROVE x \in Elements(s) \ {s[i]}
  BY <1>1, <1>2 DEF Elements, Distinct
<1>4. ASSUME NEW x \in Elements(s), x # s[i] PROVE x \in Elements(t)
  <2>1. PICK n \in 1 .. Len(s) : s[n] = x
    BY DEF Elements
  <2>2. CASE n < i
    BY <1>1, <1>2, <2>1, <2>2 DEF Elements
  <2>3. CASE n > i
    <3>1. n - 1 \in 1 .. Len(s) - 1 /\ t[n - 1] = s[n]
      BY <1>1, <1>2, <2>3
    <3>. QED
      BY <1>1, <2>1, <3>1 DEF Elements
  <2>. QED
    BY <1>4, <2>1, <2>2, <2>3
<1>. QED
  BY <1>3, <1>4 DEF t

\* InsertAt puts one element at place p and keeps the others in order.
LEMMA InsertAtProperties ==
    ASSUME NEW S, NEW s \in Seq(S), NEW p \in 1 .. Len(s) + 1, NEW e \in S
    PROVE  /\ InsertAt(s, p, e) \in Seq(S)
           /\ Len(InsertAt(s, p, e)) = Len(s) + 1
           /\ \A n \in 1 .. Len(s) + 1 :
                 InsertAt(s, p, e)[n] =
                    IF n < p THEN s[n] ELSE IF n = p THEN e ELSE s[n - 1]
<1>. DEFINE k == p - 1
            u == SubSeq(s, 1, k)
            v == SubSeq(s, k + 1, Len(s))
            w == u \o <<e>>
            t == w \o v
<1>1. Len(s) \in Nat /\ k \in 0 .. Len(s) /\ p = k + 1
  OBVIOUS
<1>2. InsertAt(s, p, e) = t
  BY <1>1 DEF InsertAt
<1>. HIDE DEF k
<1>3. u \in Seq(S) /\ Len(u) = k /\ \A n \in 1 .. k : u[n] = s[n]
  <2>1. \A n \in 1 .. k : s[n] \in S
    BY <1>1, ElementOfSeq
  <2>. QED
    BY <1>1, <2>1, SubSeqProperties
<1>4. v \in Seq(S) /\ Len(v) = Len(s) - k /\ \A n \in 1 .. Len(s) - k : v[n] = s[n + k]
  <2>1. \A n \in k + 1 .. Len(s) : s[n] \in S
    BY <1>1, ElementOfSeq
  <2>. QED
    BY <1>1, <2>1, SubSeqProperties
<1>. HIDE DEF u, v
<1>5. w \in Seq(S) /\ Len(w) = k + 1 /\ (\A n \in 1 .. k : w[n] = s[n]) /\ w[k + 1] = e
  <2>1. <<e>> \in Seq(S) /\ Len(<<e>>) = 1 /\ <<e>>[1] = e
    OBVIOUS
  <2>2. /\ w \in Seq(S) /\ Len(w) = k + 1
        /\ \A n \in 1 .. k + 1 : w[n] = IF n <= k THEN u[n] ELSE <<e>>[n - k]
    BY <1>1, <1>3, <2>1, ConcatProperties
  <2>3. k + 1 \in 1 .. k + 1 /\ ~(k + 1 <= k) /\ (k + 1) - k = 1
    BY <1>1
  <2>4. w[k + 1] = e
    BY <2>1, <2>2, <2>3
  <2>5. \A n \in 1 .. k : n \in 1 .. k + 1 /\ n <= k
    BY <1>1
  <2>. QED
    BY <1>3, <2>2, <2>4, <2>5
<1>. HIDE DEF w
<1>6. /\ t \in Seq(S) /\ Len(t) = Len(s) + 1
      /\ \A n \in 1 .. Len(s) + 1 : t[n] = IF n <= k + 1 THEN w[n] ELSE v[n - (k + 1)]
  <2>1. /\ t \in Seq(S) /\ Len(t) = Len(w) + Len(v)
        /\ \A n \in 1 .. Len(w) + Len(v) : t[n] = IF n <= Len(w) THEN w[n] ELSE v[n - Len(w)]
    BY <1>4, <1>5, ConcatProperties
  <2>2. Len(w) + Len(v) = Len(s) + 1
    BY <1>1, <1>4, <1>5
  <2>. QED
    BY <1>5, <2>1, <2>2
<1>. HIDE DEF t
<1>7. ASSUME NEW n \in 1 .. Len(s) + 1
      PROVE  t[n] = IF n < p THEN s[n] ELSE IF n = p THEN e ELSE s[n - 1]
  <2>1. CASE n <= k
    BY <1>1, <1>5, <1>6, <2>1
  <2>2. CASE n = k + 1
    BY <1>1, <1>5, <1>6, <2>2
  <2>3. CASE n > k + 1
    <3>1. n - (k + 1) \in 1 .. Len(s) - k /\ (n - (k + 1)) + k = n - 1 /\ ~(n <= k + 1)
      BY <1>1, <2>3
    <3>2. v[n - (k + 1)] = s[n - 1]
      BY <1>4, <3>1
    <3>. QED
      BY <1>1, <1>6, <2>3, <3>1, <3>2
  <2>. QED
    BY <1>1, <2>1, <2>2, <2>3
<1>. QED
  BY <1>2, <1>6, <1>7

LEMMA InsertAtElements ==
    ASSUME NEW S, NEW s \in Seq(S), NEW p \in 1 .. Len(s) + 1, NEW e \in S
    PROVE  Elements(InsertAt(s, p, e)) = Elements(s) \cup {e}
<1>. DEFINE t == InsertAt(s, p, e)
<1>1. Len(s) \in Nat /\ p \in 1 .. Len(s) + 1
  OBVIOUS
<1>2. t \in Seq(S) /\ Len(t) = Len(s) + 1
  BY InsertAtProperties
<1>3. \A n \in 1 .. Len(s) + 1 : t[n] = IF n < p THEN s[n] ELSE IF n = p THEN e ELSE s[n - 1]
  BY InsertAtProperties
<1>. HIDE DEF t
<1>4. ASSUME NEW x \in Elements(t) PROVE x \in Elements(s) \cup {e}
  <2>1. PICK n \in 1 .. Len(s) + 1 : t[n] = x
    BY <1>2 DEF Elements
  <2>2. n < p => n \in 1 .. Len(s)
    BY <1>1
  <2>3. n > p => n - 1 \in 1 .. Len(s)
    BY <1>1
  <2>4. n < p \/ n = p \/ n > p
    BY <1>1
  <2>. QED
    BY <1>1, <1>3, <2>1, <2>2, <2>3, <2>4 DEF Elements
<1>5. e \in Elements(t)
  <2>1. p \in 1 .. Len(s) + 1 /\ ~(p < p)
    BY <1>1
  <2>2. t[p] = e
    BY <1>3, <2>1
  <2>. QED
    BY <1>2, <2>1, <2>2 DEF Elements
<1>6. ASSUME NEW x \in Elements(s) PROVE x \in Elements(t)
  <2>1. PICK n \in 1 .. Len(s) : s[n] = x
    BY DEF Elements
  <2>2. CASE n < p
    BY <1>1, <1>2, <1>3, <2>1, <2>2 DEF Elements
  <2>3. CASE n >= p
    <3>1. n + 1 \in 1 .. Len(s) + 1 /\ ~(n + 1 < p) /\ n + 1 # p /\ (n + 1) - 1 = n
      BY <1>1, <2>3
    <3>2. t[n + 1] = x
      BY <1>3, <2>1, <3>1
    <3>. QED
      BY <1>2, <3>1, <3>2 DEF Elements
  <2>. QED
    BY <1>1, <2>2, <2>3
<1>. QED
  BY <1>4, <1>5, <1>6 DEF t

-----------------------------------------------------------------------------
(* Least and greatest numbers *)

\* A set of naturals has a least element.
LEMMA LeastExists ==
    ASSUME NEW T \in SUBSET Nat, T # {}
    PROVE  \E m \in T : \A n \in T : m <= n
<1>1. \E m \in T : \A n \in T : ~(<<n, m>> \in OpToRel(<, Nat))
  BY NatLessThanWellFounded, WFMin
<1>2. \A m, n \in Nat : n < m => <<n, m>> \in OpToRel(<, Nat)
  BY DEF OpToRel
<1>3. \A m, n \in Nat : ~(n < m) => m <= n
  OBVIOUS
<1> QED
  BY <1>1, <1>2, <1>3

\* A set of numbers up to n has a greatest element, which Max returns.
LEMMA MaxIsGreatest ==
    ASSUME NEW n \in Nat, NEW T \in SUBSET (1 .. n), T # {}
    PROVE  Max(T) \in T /\ \A m \in T : m <= Max(T)
<1>. DEFINE Below == {n - m : m \in T}
<1>1. Below \in SUBSET Nat /\ Below # {}
  <2>1. \A m \in T : m \in 1 .. n
    OBVIOUS
  <2>2. \A m \in 1 .. n : n - m \in Nat
    OBVIOUS
  <2>. QED
    BY <2>1, <2>2
<1>2. PICK d \in Below : \A e \in Below : d <= e
  <2>. HIDE DEF Below
  <2>. QED
    BY <1>1, LeastExists
<1>3. PICK g \in T : d = n - g
  OBVIOUS
<1>4. ASSUME NEW m \in T PROVE g >= m
  <2>1. n - g <= n - m
    BY <1>2, <1>3
  <2>2. g \in Int /\ m \in Int
    OBVIOUS
  <2>. HIDE DEF Below
  <2>. QED
    BY <2>1, <2>2
<1>5. \E x \in T : \A y \in T : x >= y
  BY <1>4
<1>6. Max(T) \in T /\ \A m \in T : Max(T) >= m
  BY <1>5 DEF Max
<1>7. \A m \in T : m \in Int
  OBVIOUS
<1>. HIDE DEF Below
<1>. QED
  BY <1>6, <1>7

\* The place of the last element of a list that is among some places.
LEMMA LastPlace ==
    ASSUME NEW n \in Nat, NEW T \in SUBSET (1 .. n)
    PROVE  LET k == IF T # {} THEN Max(T) ELSE 0
           IN  /\ k \in 0 .. n
               /\ k = 0 <=> T = {}
               /\ k > 0 => k \in T
               /\ \A m \in T : m <= k
<1>1. CASE T = {}
  BY <1>1
<1>2. CASE T # {}
  <2>1. Max(T) \in T /\ (\A m \in T : m <= Max(T)) /\ Max(T) \in 1 .. n
    BY <1>2, MaxIsGreatest
  <2>. QED
    BY <1>2, <2>1
<1>. QED
  BY <1>1, <1>2
=============================================================================

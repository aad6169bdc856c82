--------------------------- MODULE DrawingProofs ---------------------------
(***************************************************************************)
(* For any number of cells and pairs, any font, text and attributes: what  *)
(* the loops over the pairs make of the cells, what they carry over, and   *)
(* the pixels of the line.                                                 *)
(*                                                                         *)
(* The invariant says that the cells are, once evaluated, what the memory  *)
(* asks for, and that the pixels left of the next cell to draw are those   *)
(* of the line. Below it stand the facts about the operators: that the     *)
(* insertion sorts (InsertRight, SortedRight), that the last pair to reach *)
(* a cell decides (SpreadRight), and that the bytes of a bitmap hold the   *)
(* bits of the characters (WideBitmap, NarrowBitmap). The recursive        *)
(* functions are followed from one argument to the next by taking the      *)
(* least argument for which a claim fails (Smallest).                      *)
(***************************************************************************)
EXTENDS Drawing, FiniteSetTheorems, WellFoundedInduction, TLAPS

-----------------------------------------------------------------------------
(* Numbers and sets *)

LEMMA Smallest ==
  ASSUME NEW T \in SUBSET Nat, T # {}
  PROVE  \E n \in T : \A m \in T : n <= m
<1>1. PICK n \in T : \A m \in T : ~(<<m, n>> \in OpToRel(<, Nat))
  BY NatLessThanWellFounded, WFMin
<1>2. \A m \in T : ~(m < n)
  BY <1>1 DEF OpToRel
<1>3. QED
  BY <1>2

LEMMA Largest ==
  ASSUME NEW T \in SUBSET Nat, T # {}, NEW b \in Nat, \A n \in T : n <= b
  PROVE  \E n \in T : \A m \in T : n >= m
<1> DEFINE U == {b - n : n \in T}
<1>1. U \in SUBSET Nat /\ U # {}
  <2>1. \A n \in T : b - n \in Nat
    OBVIOUS
  <2>2. QED
    BY <2>1
<1>2. PICK u \in U : \A v \in U : u <= v
  BY <1>1, Smallest
<1>3. PICK n \in T : u = b - n
  BY <1>2
<1>4. \A m \in T : b - n <= b - m
  BY <1>2, <1>3
<1>5. QED
  BY <1>3, <1>4

LEMMA MinIs ==
  ASSUME NEW T \in SUBSET Nat, T # {}
  PROVE  Min(T) \in T /\ \A m \in T : Min(T) <= m
  BY Smallest DEF Min

LEMMA MaxIs ==
  ASSUME NEW T \in SUBSET Nat, T # {}, NEW b \in Nat, \A n \in T : n <= b
  PROVE  Max(T) \in T /\ \A m \in T : Max(T) >= m
  BY Largest DEF Max
-----------------------------------------------------------------------------
(* The columns of a line in order *)

Ascending(s) == \A i, k \in 1..Len(s) : i < k => s[i] < s[k]

LEMMA InsertRight ==
  ASSUME NEW s \in Seq(Nat), Ascending(s), NEW c \in Nat
  PROVE  /\ Insert(s, c) \in Seq(Nat) /\ Ascending(Insert(s, c))
         /\ ToSet(Insert(s, c)) = ToSet(s) \union {c}
         /\ Len(Insert(s, c)) <= Len(s) + 1
<1>1. CASE c \in ToSet(s)
  BY <1>1 DEF Insert
<1>2. CASE c \notin ToSet(s)
  <2> DEFINE n == Len(s)
             after == {i \in 1..n : s[i] > c} \union {n + 1}
             at == Min(after)
             t == [i \in 1..(n + 1) |-> IF i < at THEN s[i] ELSE IF i = at THEN c ELSE s[i - 1]]
  <2>1. Insert(s, c) = t
    BY <1>2 DEF Insert
  <2>2. n \in Nat /\ \A i \in 1..n : s[i] \in Nat
    OBVIOUS
  <2>3. at \in after /\ \A i \in after : at <= i
    <3>1. after \in SUBSET Nat /\ after # {}
      BY <2>2
    <3>2. QED
      BY <3>1, MinIs
  <2>4. at \in 1..(n + 1)
    BY <2>2, <2>3
  <2>5. \A i \in 1..n : s[i] # c
    BY <1>2 DEF ToSet
  <2>6. \A i \in 1..n : i < at => s[i] < c
    BY <2>2, <2>3, <2>4, <2>5
  <2>7. \A i \in 1..n : i >= at => s[i] > c
    <3>1. SUFFICES ASSUME NEW i \in 1..n, i >= at PROVE s[i] > c
      OBVIOUS
    <3>2. at \in 1..n /\ s[at] > c
      BY <2>2, <2>3, <2>4, <3>1
    <3>3. at = i \/ s[at] < s[i]
      BY <3>1, <3>2 DEF Ascending
    <3>4. QED
      BY <2>2, <3>2, <3>3
  <2> HIDE DEF at
  <2>8. t \in Seq(Nat) /\ Len(t) = n + 1 /\ DOMAIN t = 1..(n + 1)
    <3>1. \A i \in 1..(n + 1) : (IF i < at THEN s[i] ELSE IF i = at THEN c ELSE s[i - 1]) \in Nat
      BY <2>2, <2>4
    <3>2. n + 1 \in Nat
      BY <2>2
    <3>3. t \in [1..(n + 1) -> Nat]
      BY <3>1
    <3>4. QED
      BY <3>2, <3>3
  <2>9. Ascending(t)
    <3>1. SUFFICES ASSUME NEW i \in 1..(n + 1), NEW k \in 1..(n + 1), i < k PROVE t[i] < t[k]
      BY <2>8 DEF Ascending
    <3>2. /\ \A l \in 1..(n + 1) : l < at => l \in 1..n /\ t[l] = s[l]
          /\ \A l \in 1..(n + 1) : l = at => t[l] = c
      BY <2>2, <2>4
    <3> HIDE DEF t
    <3>3. CASE k < at
      <4>1. i \in 1..n /\ t[i] = s[i] /\ k \in 1..n /\ t[k] = s[k]
        BY <2>2, <2>4, <3>2, <3>1, <3>3
      <4>2. QED
        BY <3>1, <4>1 DEF Ascending
    <3>4. CASE k = at
      <4>1. i \in 1..n /\ t[i] = s[i] /\ i < at
        BY <2>2, <2>4, <3>2, <3>1, <3>4
      <4>2. QED
        BY <2>6, <3>2, <3>4, <4>1
    <3>5. CASE k > at /\ i <= at
      <4>1. k - 1 \in 1..n /\ k - 1 >= at /\ t[k] = s[k - 1]
        BY <2>2, <2>4, <3>5 DEF t
      <4>2. t[k] > c /\ t[k] \in Nat
        BY <2>2, <2>7, <4>1
      <4>3. t[i] <= c /\ t[i] \in Nat
        <5>1. CASE i = at
          BY <3>2, <5>1
        <5>2. CASE i < at
          <6>1. i \in 1..n /\ t[i] = s[i]
            BY <3>2, <5>2
          <6>2. s[i] < c /\ s[i] \in Nat
            BY <2>2, <2>6, <5>2, <6>1
          <6>3. QED
            BY <6>1, <6>2
        <5>3. QED
          BY <2>4, <3>5, <5>1, <5>2
      <4>4. QED
        BY <4>2, <4>3
    <3>6. CASE k > at /\ i > at
      <4>1. i - 1 \in 1..n /\ k - 1 \in 1..n /\ i - 1 < k - 1
        BY <2>2, <2>4, <3>1, <3>6
      <4>2. t[i] = s[i - 1] /\ t[k] = s[k - 1]
        BY <2>4, <3>1, <3>6 DEF t
      <4>3. QED
        BY <4>1, <4>2 DEF Ascending
    <3>7. QED
      BY <2>4, <3>1, <3>3, <3>4, <3>5, <3>6
  <2>10. ToSet(t) = ToSet(s) \union {c}
    <3>1. ASSUME NEW i \in 1..(n + 1) PROVE t[i] \in ToSet(s) \union {c}
      BY <2>2, <2>4 DEF ToSet
    <3>2. t[at] = c
      BY <2>4
    <3>3. ASSUME NEW i \in 1..n PROVE \E k \in 1..(n + 1) : t[k] = s[i]
      <4>1. CASE i < at
        BY <2>2, <4>1
      <4>2. CASE i >= at
        <5>1. i + 1 \in 1..(n + 1) /\ t[i + 1] = s[i]
          BY <2>2, <2>4, <4>2
        <5>2. QED
          BY <5>1
      <4>3. QED
        BY <2>4, <4>1, <4>2
    <3>4. DOMAIN s = 1..n
      OBVIOUS
    <3> HIDE DEF t
    <3>5. ToSet(t) = {t[i] : i \in 1..(n + 1)} /\ ToSet(s) = {s[i] : i \in 1..n}
      BY <2>8, <3>4 DEF ToSet
    <3>6. QED
      BY <2>4, <3>1, <3>2, <3>3, <3>5
  <2>11. QED
    BY <2>1, <2>2, <2>8, <2>9, <2>10
<1>3. QED
  BY <1>1, <1>2

AnArea == [1..Pairs -> [col : Nat, attr : Bytes]]

LEMMA SortedRight ==
  ASSUME NEW a \in AnArea
  PROVE  /\ Sorted(a) \in Seq(Nat) /\ Ascending(Sorted(a))
         /\ ToSet(Sorted(a)) = ColumnsOf(a) /\ Len(Sorted(a)) <= Pairs
<1> DEFINE Turn(s, i) == Insert(s, a[i].col)
           Rec(f, n) == f = [i \in 0..n |-> IF i = 0 THEN << >> ELSE Turn(f[i - 1], i)]
<1>1. Pairs \in Nat
  BY AttribAssumption
<1>2. ASSUME NEW n \in Nat PROVE \E f : Rec(f, n)
  <2> DEFINE T == {m \in Nat : ~(\E f : Rec(f, m))}
  <2>1. SUFFICES ASSUME T # {} PROVE FALSE
    BY <1>2
  <2>2. PICK m \in T : \A k \in T : m <= k
    BY <2>1, Smallest
  <2> HIDE DEF Turn
  <2>3. m # 0
    <3>1. Rec([i \in 0..0 |-> << >>], 0)
      OBVIOUS
    <3>2. QED
      BY <2>2, <3>1
  <2>4. m - 1 \in Nat /\ m - 1 \notin T
    BY <2>2, <2>3
  <2> HIDE DEF Rec
  <2>5. \E f : Rec(f, m - 1)
    BY <2>4
  <2>6. PICK f : Rec(f, m - 1)
    BY <2>5
  <2> USE DEF Rec
  <2> DEFINE g == [i \in 0..m |-> IF i = m THEN Turn(f[m - 1], m) ELSE f[i]]
  <2>7. \A i \in 0..(m - 1) : f[i] = IF i = 0 THEN << >> ELSE Turn(f[i - 1], i)
    BY <2>6
  <2>8. \A i \in 0..m : g[i] = IF i = 0 THEN << >> ELSE Turn(g[i - 1], i)
    <3>1. \A i \in 0..(m - 1) : g[i] = f[i]
      BY <2>4
    <3>2. g[m] = Turn(f[m - 1], m) /\ m - 1 \in 0..(m - 1)
      BY <2>4
    <3> HIDE DEF g
    <3>3. \A i \in 0..m : i = m \/ i \in 0..(m - 1)
      BY <2>4
    <3>4. \A i \in 0..(m - 1) : i # 0 => i - 1 \in 0..(m - 1)
      BY <2>4
    <3>5. QED
      BY <2>3, <2>7, <3>1, <3>2, <3>3, <3>4
  <2>9. Rec(g, m)
    BY <2>8
  <2>10. QED
    BY <2>2, <2>9
<1> DEFINE upTo == CHOOSE f : Rec(f, Pairs)
<1>3. upTo = [i \in 0..Pairs |-> IF i = 0 THEN << >> ELSE Turn(upTo[i - 1], i)]
  BY <1>1, <1>2
<1>4. Sorted(a) = upTo[Pairs]
  BY DEF Sorted
<1> HIDE DEF upTo
<1> DEFINE Agrees(i) == /\ upTo[i] \in Seq(Nat) /\ Ascending(upTo[i])
                        /\ ToSet(upTo[i]) = {a[k].col : k \in 1..i} /\ Len(upTo[i]) <= i
<1>5. Agrees(0)
  <2>1. upTo[0] = << >>
    BY <1>1, <1>3
  <2>2. << >> \in Seq(Nat) /\ Ascending(<< >>) /\ ToSet(<< >>) = {} /\ Len(<< >>) = 0
    BY DEF Ascending, ToSet
  <2>3. QED
    BY <2>1, <2>2
<1>6. ASSUME NEW i \in 1..Pairs, Agrees(i - 1) PROVE Agrees(i)
  <2> DEFINE s == upTo[i - 1]
             c == a[i].col
  <2>1. upTo[i] = Insert(s, c)
    BY <1>1, <1>3
  <2>2. s \in Seq(Nat) /\ Ascending(s) /\ c \in Nat
    BY <1>6 DEF AnArea
  <2>3. ToSet(s) \union {c} = {a[k].col : k \in 1..i}
    <3>1. 1..i = 1..(i - 1) \union {i}
      OBVIOUS
    <3>2. QED
      BY <1>6, <3>1
  <2>4. Len(s) \in Nat /\ Len(s) <= i - 1
    BY <1>6, <2>2
  <2> HIDE DEF s, c
  <2>5. /\ Insert(s, c) \in Seq(Nat) /\ Ascending(Insert(s, c))
        /\ ToSet(Insert(s, c)) = ToSet(s) \union {c} /\ Len(Insert(s, c)) <= Len(s) + 1
    BY <2>2, InsertRight
  <2>6. Len(Insert(s, c)) <= i
    <3>1. Len(Insert(s, c)) \in Nat
      BY <2>5
    <3>2. QED
      BY <2>4, <2>5, <3>1
  <2>7. QED
    BY <2>1, <2>3, <2>5, <2>6
<1>8. \A i \in 0..Pairs : Agrees(i)
  <2> DEFINE T == {i \in 0..Pairs : ~Agrees(i)}
  <2>1. SUFFICES ASSUME T # {} PROVE FALSE
    OBVIOUS
  <2>2. T \in SUBSET Nat
    BY <1>1
  <2> HIDE DEF T
  <2>3. PICK m \in T : \A k \in T : m <= k
    BY <2>1, <2>2, Smallest
  <2> USE DEF T
  <2> HIDE DEF Agrees
  <2>4. m \in 0..Pairs /\ m # 0
    BY <1>5, <2>3
  <2>5. m \in 1..Pairs /\ m - 1 \in 0..Pairs
    BY <1>1, <2>4
  <2>6. m - 1 \notin T
    BY <2>2, <2>3, <2>5
  <2>7. Agrees(m - 1)
    BY <2>5, <2>6
  <2>8. QED
    BY <1>6, <2>3, <2>5, <2>7
<1> HIDE DEF Agrees
<1>9. Agrees(Pairs)
  BY <1>1, <1>8
<1> USE DEF Agrees
<1>10. QED
  BY <1>4, <1>9 DEF ColumnsOf

\* The k-th column has k - 1 before it.
LEMMA RankOf ==
  ASSUME NEW s \in Seq(Nat), Ascending(s), NEW k \in 1..Len(s)
  PROVE  Cardinality({d \in ToSet(s) : d < s[k]}) = k - 1
<1> DEFINE f == [i \in 1..(k - 1) |-> s[i]]
           B == {d \in ToSet(s) : d < s[k]}
<1>1. \A i \in 1..Len(s) : s[i] \in Nat /\ s[i] \in ToSet(s)
  BY DEF ToSet
<1>2. \A i \in 1..(k - 1) : i \in 1..Len(s) /\ s[i] < s[k]
  BY DEF Ascending
<1>3. f \in [1..(k - 1) -> B]
  BY <1>1, <1>2
<1>4. \A i, l \in 1..(k - 1) : f[i] = f[l] => i = l
  <2>1. SUFFICES ASSUME NEW i \in 1..(k - 1), NEW l \in 1..(k - 1), i < l PROVE f[i] # f[l]
    OBVIOUS
  <2>2. s[i] < s[l]
    BY <1>2, <2>1 DEF Ascending
  <2>3. QED
    BY <1>1, <1>2, <2>2
<1>5. \A d \in B : \E i \in 1..(k - 1) : f[i] = d
  <2>1. SUFFICES ASSUME NEW d \in B PROVE \E i \in 1..(k - 1) : f[i] = d
    OBVIOUS
  <2>2. PICK i \in 1..Len(s) : s[i] = d
    BY <2>1 DEF ToSet
  <2>3. i < k
    <3>1. i = k \/ k < i => ~(s[i] < s[k])
      BY <1>1, <2>2 DEF Ascending
    <3>2. QED
      BY <2>1, <2>2, <3>1
  <2>4. QED
    BY <2>2, <2>3
<1>6. f \in Bijection(1..(k - 1), B)
  <2> HIDE DEF f, B
  <2>1. QED
    BY <1>3, <1>4, <1>5 DEF Bijection, Injection, Surjection, IsInjective
<1>7. ExistsBijection(1..(k - 1), B)
  BY <1>6 DEF ExistsBijection
<1>8. IsFiniteSet(1..(k - 1)) /\ Cardinality(1..(k - 1)) = k - 1
  BY FS_Interval
<1>9. QED
  BY <1>7, <1>8, FS_Bijection

LEMMA SizeOf ==
  ASSUME NEW s \in Seq(Nat), Ascending(s)
  PROVE  Cardinality(ToSet(s)) = Len(s)
<1> DEFINE f == [i \in 1..Len(s) |-> s[i]]
<1>1. f \in [1..Len(s) -> ToSet(s)] /\ \A d \in ToSet(s) : \E i \in 1..Len(s) : f[i] = d
  BY DEF ToSet
<1>2. \A i, l \in 1..Len(s) : f[i] = f[l] => i = l
  <2>1. SUFFICES ASSUME NEW i \in 1..Len(s), NEW l \in 1..Len(s), i < l PROVE f[i] # f[l]
    OBVIOUS
  <2>2. s[i] < s[l] /\ s[i] \in Nat /\ s[l] \in Nat
    BY <2>1 DEF Ascending
  <2>3. QED
    BY <2>2
<1>3. f \in Bijection(1..Len(s), ToSet(s))
  <2> HIDE DEF f
  <2>1. QED
    BY <1>1, <1>2 DEF Bijection, Injection, Surjection, IsInjective
<1>4. ExistsBijection(1..Len(s), ToSet(s))
  BY <1>3 DEF ExistsBijection
<1>5. Len(s) \in Nat /\ IsFiniteSet(1..Len(s)) /\ Cardinality(1..Len(s)) = Len(s)
  <2>1. \A n \in Nat : IsFiniteSet(1..n) /\ Cardinality(1..n) = n
    BY FS_Interval
  <2>2. QED
    BY <2>1
<1>6. QED
  BY <1>4, <1>5, FS_Bijection

\* The cache has the k-th attribute from where the reference has it.
LEMMA CacheRight ==
  ASSUME NEW a \in AnArea, NEW i \in 1..Pairs
  PROVE  /\ cache(a)[i].attr = a[i].attr
         /\ cache(a)[i].col = From(a, i) /\ cache(a)[i].col \in Nat
<1> DEFINE s == Sorted(a)
<1>1. s \in Seq(Nat) /\ Ascending(s) /\ ToSet(s) = ColumnsOf(a) /\ Len(s) <= Pairs
  BY SortedRight
<1>2. Cols \in Nat /\ Pairs \in Nat
  BY AttribAssumption
<1>3. /\ cache(a)[i].attr = a[i].attr
      /\ cache(a)[i].col = IF i <= Len(s) THEN s[i] ELSE Cols
  BY DEF cache
<1> HIDE DEF s
<1>4. Cardinality(ColumnsOf(a)) = Len(s)
  BY <1>1, SizeOf
<1>5. CASE i <= Len(s)
  <2>1. i \in 1..Len(s) /\ s[i] \in Nat /\ s[i] \in ColumnsOf(a)
    BY <1>1, <1>5 DEF ToSet
  <2>2. \A k \in 1..Len(s) : Cardinality({d \in ColumnsOf(a) : d < s[k]}) = k - 1
    BY <1>1, RankOf
  <2>3. \A c \in ColumnsOf(a) : \E k \in 1..Len(s) : c = s[k]
    BY <1>1 DEF ToSet
  <2>4. \A c \in ColumnsOf(a) : Cardinality({d \in ColumnsOf(a) : d < c}) = i - 1 => c = s[i]
    <3>1. SUFFICES ASSUME NEW c \in ColumnsOf(a), Cardinality({d \in ColumnsOf(a) : d < c}) = i - 1
                   PROVE c = s[i]
      OBVIOUS
    <3>2. PICK k \in 1..Len(s) : c = s[k]
      BY <2>3
    <3>3. k - 1 = i - 1
      BY <2>2, <3>1, <3>2
    <3>4. QED
      BY <3>2, <3>3
  <2>5. From(a, i) = s[i]
    BY <1>4, <1>5, <2>1, <2>2, <2>4 DEF From
  <2>6. QED
    BY <1>3, <1>5, <2>1, <2>5
<1>6. CASE ~(i <= Len(s))
  BY <1>2, <1>3, <1>4, <1>6 DEF From
<1>7. QED
  BY <1>5, <1>6

\* Where one attribute reaches a cell, so do those before it.
InOrder(cached) ==
  \A i, k \in 1..Pairs : \A j \in Cells : i < k /\ cached[k].col <= j => cached[i].col <= j

LEMMA CacheInOrder ==
  ASSUME NEW a \in AnArea
  PROVE  InOrder(cache(a))
<1> DEFINE s == Sorted(a)
<1>1. s \in Seq(Nat) /\ Ascending(s) /\ Len(s) <= Pairs /\ Len(s) \in Nat
  BY SortedRight
<1>2. \A i \in 1..Pairs : cache(a)[i].col = IF i <= Len(s) THEN s[i] ELSE Cols
  BY DEF cache
<1> HIDE DEF s
<1>3. Cols \in Nat /\ Pairs \in Nat
  BY AttribAssumption
<1>4. SUFFICES ASSUME NEW i \in 1..Pairs, NEW k \in 1..Pairs, NEW j \in Cells, i < k,
                      cache(a)[k].col <= j
               PROVE  cache(a)[i].col <= j
  BY DEF InOrder
<1>5. j \in Nat /\ j < Cols
  BY <1>3 DEF Cells
<1>6. k <= Len(s) /\ s[k] <= j
  BY <1>2, <1>3, <1>4, <1>5
<1>7. k \in 1..Len(s) /\ i \in 1..Len(s) /\ s[i] < s[k] /\ s[i] \in Nat /\ s[k] \in Nat
  BY <1>1, <1>4, <1>6 DEF Ascending
<1>8. QED
  BY <1>2, <1>5, <1>6, <1>7
-----------------------------------------------------------------------------
(* The attributes of a cell *)

\* The pairs of that kind that reach cell j.
Reaching(cached, kind, j) == {i \in kind : cached[i].col <= j}

\* The attribute that reaches the cell last gives it its code, and leaves of it
\* what the mask leaves; what those before gave, the mask takes away.
LEMMA SpreadRight ==
  ASSUME NEW cached, \A i \in 1..Pairs : cached[i].col \in Nat, InOrder(cached),
         NEW kind \in SUBSET (1..Pairs), NEW code, NEW cells, NEW mask, NEW carried,
         \A i \in kind : code[i] \intersect mask = {},
         NEW j \in Cells
  PROVE  Spread(cached, kind, code, cells, mask, carried)[j] =
           IF Reaching(cached, kind, j) # {}
           THEN Put(cells[j], mask, code[Max(Reaching(cached, kind, j))])
           ELSE IF kind # {} THEN Put(cells[j], mask, carried) ELSE cells[j]
<1> DEFINE Turn(f, i) == [l \in Cells |-> IF i \in kind /\ l >= cached[i].col
                                          THEN Put(f[l], mask, code[i]) ELSE f[l]]
           Rec(f, n) == f = [i \in 0..n |-> IF i = 0 THEN cells ELSE Turn(f[i - 1], i)]
<1>1. Pairs \in Nat
  BY AttribAssumption
<1>2. ASSUME NEW n \in Nat PROVE \E f : Rec(f, n)
  <2> DEFINE T == {m \in Nat : ~(\E f : Rec(f, m))}
  <2>1. SUFFICES ASSUME T # {} PROVE FALSE
    BY <1>2
  <2>2. PICK m \in T : \A k \in T : m <= k
    BY <2>1, Smallest
  <2> HIDE DEF Turn
  <2>3. m # 0
    <3>1. Rec([i \in 0..0 |-> cells], 0)
      OBVIOUS
    <3>2. QED
      BY <2>2, <3>1
  <2> HIDE DEF Rec
  <2>4. m - 1 \in Nat /\ m - 1 \notin T
    BY <2>2, <2>3
  <2>5. \E f : Rec(f, m - 1)
    BY <2>4
  <2>6. PICK f : Rec(f, m - 1)
    BY <2>5
  <2> USE DEF Rec
  <2> DEFINE g == [i \in 0..m |-> IF i = m THEN Turn(f[m - 1], m) ELSE f[i]]
  <2>7. \A i \in 0..(m - 1) : f[i] = IF i = 0 THEN cells ELSE Turn(f[i - 1], i)
    BY <2>6
  <2>8. \A i \in 0..m : g[i] = IF i = 0 THEN cells ELSE Turn(g[i - 1], i)
    <3>1. \A i \in 0..(m - 1) : g[i] = f[i]
      BY <2>4
    <3>2. g[m] = Turn(f[m - 1], m) /\ m - 1 \in 0..(m - 1)
      BY <2>4
    <3> HIDE DEF g
    <3>3. \A i \in 0..m : i = m \/ i \in 0..(m - 1)
      BY <2>4
    <3>4. \A i \in 0..(m - 1) : i # 0 => i - 1 \in 0..(m - 1)
      BY <2>4
    <3>5. QED
      BY <2>3, <2>7, <3>1, <3>2, <3>3, <3>4
  <2>9. Rec(g, m)
    BY <2>8
  <2>10. QED
    BY <2>2, <2>9
<1> DEFINE upTo == CHOOSE f : Rec(f, Pairs)
<1>3. upTo = [i \in 0..Pairs |-> IF i = 0 THEN cells ELSE Turn(upTo[i - 1], i)]
  BY <1>1, <1>2
<1>4. Spread(cached, kind, code, cells, mask, carried) =
        [l \in Cells |-> IF kind # {} /\ l < cached[Min(kind)].col
                         THEN Put(upTo[Pairs][l], mask, carried) ELSE upTo[Pairs][l]]
  BY DEF Spread
<1> HIDE DEF upTo
<1> DEFINE before == {i \in kind : cached[i].col <= j}
           Given(i) == {l \in before : l <= i}
           Agrees(i) == upTo[i][j] = IF Given(i) = {} THEN cells[j]
                                     ELSE Put(cells[j], mask, code[Max(Given(i))])
<1>0. \A i \in kind : i \in Nat /\ i >= 1 /\ i <= Pairs
  BY <1>1
<1>5. Agrees(0)
  <2>1. upTo[0] = cells
    BY <1>1, <1>3
  <2>2. Given(0) = {}
    <3>1. \A l \in before : ~(l <= 0)
      BY <1>0
    <3>2. QED
      BY <3>1
  <2>3. QED
    BY <2>1, <2>2
<1>6. ASSUME NEW i \in 1..Pairs, Agrees(i - 1) PROVE Agrees(i)
  <2>0. i \in Nat /\ i # 0 /\ i \in 0..Pairs
    BY <1>1
  <2>1. upTo[i] = Turn(upTo[i - 1], i)
    <3> HIDE DEF Turn
    <3>1. QED
      BY <1>3, <2>0
  <2>2. j \in Nat
    BY AttribAssumption DEF Cells
  <2>3. CASE i \notin before
    <3>1. Given(i) = Given(i - 1)
      <4>1. \A l \in before : l <= i <=> l <= i - 1
        BY <1>0, <2>0, <2>3
      <4>2. QED
        BY <4>1
    <3>2. upTo[i][j] = upTo[i - 1][j]
      BY <2>1, <2>2, <2>3
    <3>3. QED
      BY <1>6, <3>1, <3>2
  <2>4. CASE i \in before
    <3>1. Max(Given(i)) = i /\ Given(i) # {}
      <4>1. i \in Given(i) /\ Given(i) \in SUBSET Nat /\ \A l \in Given(i) : l <= i
        <5>1. \A l \in before : l \in Nat
          BY <1>0
        <5>2. i <= i
          BY <2>0
        <5>3. QED
          BY <2>4, <5>1, <5>2
      <4> HIDE DEF Given
      <4>2. Max(Given(i)) \in Given(i) /\ Max(Given(i)) >= i
        BY <4>1, MaxIs
      <4>3. QED
        BY <4>1, <4>2
    <3>2. upTo[i][j] = Put(upTo[i - 1][j], mask, code[i])
      BY <2>1, <2>2, <2>4
    <3>3. \A byte, c : c \intersect mask = {} =>
             Put(Put(byte, mask, c), mask, code[i]) = Put(byte, mask, code[i])
      BY DEF Put
    <3>4. ASSUME Given(i - 1) # {} PROVE code[Max(Given(i - 1))] \intersect mask = {}
      <4>1. Given(i - 1) \in SUBSET Nat /\ Given(i - 1) \subseteq kind
            /\ \A l \in Given(i - 1) : l <= i - 1
        BY <1>0
      <4>2. i - 1 \in Nat
        OBVIOUS
      <4> HIDE DEF Given
      <4>3. Max(Given(i - 1)) \in kind
        BY <3>4, <4>1, <4>2, MaxIs
      <4>4. QED
        BY <4>3
    <3> HIDE DEF Given
    <3>5. QED
      BY <1>6, <3>1, <3>2, <3>3, <3>4
  <2>5. QED
    BY <2>3, <2>4
<1>8. \A i \in 0..Pairs : Agrees(i)
  <2> DEFINE T == {i \in 0..Pairs : ~Agrees(i)}
  <2>1. SUFFICES ASSUME T # {} PROVE FALSE
    OBVIOUS
  <2>2. T \in SUBSET Nat
    BY <1>1
  <2> HIDE DEF T
  <2>3. PICK m \in T : \A k \in T : m <= k
    BY <2>1, <2>2, Smallest
  <2> USE DEF T
  <2> HIDE DEF Agrees
  <2>4. m \in 0..Pairs /\ m # 0
    BY <1>5, <2>3
  <2>5. m \in 1..Pairs /\ m - 1 \in 0..Pairs
    BY <1>1, <2>4
  <2>6. m - 1 \notin T
    BY <2>2, <2>3, <2>5
  <2>7. Agrees(m - 1)
    BY <2>5, <2>6
  <2>8. QED
    BY <1>6, <2>3, <2>5, <2>7
<1> HIDE DEF Agrees
<1>9. Agrees(Pairs)
  BY <1>1, <1>8
<1> USE DEF Agrees
<1>10. Given(Pairs) = before
  BY <1>0
<1> HIDE DEF Given
<1>11. upTo[Pairs][j] = IF before = {} THEN cells[j] ELSE Put(cells[j], mask, code[Max(before)])
  BY <1>9, <1>10
<1>12. kind # {} => (j < cached[Min(kind)].col <=> before = {})
  <2>1. SUFFICES ASSUME kind # {} PROVE j < cached[Min(kind)].col <=> before = {}
    OBVIOUS
  <2>2. Min(kind) \in kind /\ \A i \in kind : Min(kind) <= i
    <3>1. kind \in SUBSET Nat
      BY <1>1
    <3>2. QED
      BY <2>1, <3>1, MinIs
  <2>3. j \in Nat /\ cached[Min(kind)].col \in Nat
    <3>1. Min(kind) \in 1..Pairs
      BY <2>2
    <3>2. QED
      BY <3>1, AttribAssumption DEF Cells
  <2>4. ASSUME NEW i \in before PROVE cached[Min(kind)].col <= j
    <3>1. i \in 1..Pairs /\ Min(kind) \in 1..Pairs /\ cached[i].col <= j
      BY <2>2
    <3>2. i = Min(kind) \/ Min(kind) < i
      BY <2>2, <3>1
    <3>3. QED
      BY <3>1, <3>2 DEF InOrder
  <2>5. before = {} => j < cached[Min(kind)].col
    BY <2>2, <2>3
  <2>6. before # {} => ~(j < cached[Min(kind)].col)
    <3> HIDE DEF before
    <3>1. QED
      BY <2>3, <2>4
  <2>7. QED
    BY <2>5, <2>6
<1>13. Spread(cached, kind, code, cells, mask, carried)[j] =
         IF kind # {} /\ before = {} THEN Put(cells[j], mask, carried) ELSE upTo[Pairs][j]
  <2>1. Spread(cached, kind, code, cells, mask, carried)[j] =
          IF kind # {} /\ j < cached[Min(kind)].col
          THEN Put(upTo[Pairs][j], mask, carried) ELSE upTo[Pairs][j]
    BY <1>4
  <2>2. QED
    BY <1>11, <1>12, <2>1
<1>14. before # {} => kind # {}
  OBVIOUS
<1> HIDE DEF before
<1>15. Spread(cached, kind, code, cells, mask, carried)[j] =
         IF before # {} THEN Put(cells[j], mask, code[Max(before)])
         ELSE IF kind # {} THEN Put(cells[j], mask, carried) ELSE cells[j]
  BY <1>11, <1>13, <1>14
<1>16. Reaching(cached, kind, j) = before
  BY DEF before, Reaching
<1>17. QED
  BY <1>15, <1>16

FuncCodesOf == {Upper, Graph, Reversed, Secret, Under}

LEMMA ColourBits ==
  ASSUME NEW attr
  PROVE  GRB2RGB(attr) \subseteq White \union {Graph}
  BY DEF GRB2RGB, White, Graph

LEMMA FuncCodeBits ==
  ASSUME NEW attr, NEW mono \in BOOLEAN, NEW blink
  PROVE  /\ FuncCode(attr, mono, blink) \subseteq FuncCodesOf
         /\ ~mono => Graph \notin FuncCode(attr, mono, blink)
<1> DEFINE bits == attr \intersect (IF mono THEN 0..7 \ {3} ELSE {0, 1, 2, 4, 5})
<1>1. \A b \in FuncBits : (CASE b = 0 -> Secret [] b = 2 -> Reversed [] b = 7 -> Graph
                             [] b = 4 -> Upper [] b = 5 -> Under) \in FuncCodesOf
  BY DEF FuncBits, FuncCodesOf
<1>2. chk_funcbit(bits) \subseteq FuncCodesOf
  BY <1>1 DEF chk_funcbit
<1>3. ~mono => Graph \notin chk_funcbit(bits)
  <2>1. SUFFICES ASSUME ~mono PROVE Graph \notin chk_funcbit(bits)
    OBVIOUS
  <2>2. \A b \in bits \intersect FuncBits : b \in {0, 2, 4, 5}
    BY <2>1 DEF FuncBits
  <2>3. \A b \in {0, 2, 4, 5} : (CASE b = 0 -> Secret [] b = 2 -> Reversed [] b = 7 -> Graph
                                   [] b = 4 -> Upper [] b = 5 -> Under) # Graph
    BY DEF Secret, Reversed, Graph, Upper, Under
  <2> HIDE DEF bits
  <2>4. QED
    BY <2>2, <2>3 DEF chk_funcbit
<1>4. Secret \in FuncCodesOf /\ Secret # Graph
  BY DEF FuncCodesOf, Secret, Graph
<1>5. convfunc(attr, mono) = chk_funcbit(bits)
  BY DEF convfunc
<1> HIDE DEF bits
<1>6. QED
  BY <1>2, <1>3, <1>4, <1>5 DEF FuncCode

\* The reference of a cell's colour, and of its functions, goes by the same
\* pairs as the code.
LEMMA ColourRight ==
  ASSUME NEW a \in AnArea, NEW s \in Settings, NEW c \in Carries, NEW j \in Cells
  PROVE  /\ movcolor(cache(a), s, c)[j] = ColourRef(a, s, c, j)
         /\ ColourRef(a, s, c, j) \subseteq IF s.mono THEN White ELSE White \union {Graph}
<1> DEFINE kind == Colouring(a, s)
           before == {i \in kind : From(a, i) <= j}
           black == [l \in Cells |-> {}]
<1>1. s.mono \in BOOLEAN /\ c.color \subseteq White \union {Graph}
  BY DrawingAssumption
<1>2. CASE s.mono
  BY <1>2 DEF movcolor, ColourRef
<1>3. CASE ~s.mono
  <2>1. \A i \in 1..Pairs : /\ cache(a)[i].attr = a[i].attr
                            /\ cache(a)[i].col = From(a, i) /\ cache(a)[i].col \in Nat
    BY CacheRight
  <2>2. Colours(cache(a), FALSE) = kind /\ kind \in SUBSET (1..Pairs)
    BY <1>3, <2>1 DEF Colours, Colouring
  <2>3. \A i \in kind : ColorCodes(cache(a))[i] = GRB2RGB(a[i].attr)
    BY <2>1, <2>2 DEF ColorCodes
  <2>4. Reaching(cache(a), kind, j) = before
    BY <2>1, <2>2 DEF Reaching
  <2>5. InOrder(cache(a))
    BY CacheInOrder
  <2>6. movcolor(cache(a), s, c) = Spread(cache(a), kind, ColorCodes(cache(a)),
                                          black, {}, c.color)
    BY <1>3, <2>2 DEF movcolor
  <2>7. before # {} => Max(before) \in before /\ Max(before) \in kind
    <3>1. before \in SUBSET Nat /\ Pairs \in Nat /\ \A i \in before : i <= Pairs
      BY <2>2, AttribAssumption
    <3>2. QED
      BY <3>1, MaxIs
  <2> HIDE DEF kind, before
  <2>8. movcolor(cache(a), s, c)[j] =
          IF before # {} THEN Put({}, {}, ColorCodes(cache(a))[Max(before)])
          ELSE IF kind # {} THEN Put({}, {}, c.color) ELSE {}
    <3> DEFINE none == {}
    <3>1. \A i \in kind : ColorCodes(cache(a))[i] \intersect none = {}
      OBVIOUS
    <3>2. black[j] = {}
      OBVIOUS
    <3> HIDE DEF black, none
    <3>3. Spread(cache(a), kind, ColorCodes(cache(a)), black, none, c.color)[j] =
            IF before # {} THEN Put(black[j], none, ColorCodes(cache(a))[Max(before)])
            ELSE IF kind # {} THEN Put(black[j], none, c.color) ELSE black[j]
      BY <2>1, <2>2, <2>4, <2>5, <3>1, SpreadRight
    <3>4. QED
      BY <2>6, <3>2, <3>3 DEF none
  <2>9. \A x : Put({}, {}, x) = x
    BY DEF Put
  <2>10. movcolor(cache(a), s, c)[j] =
           IF before # {} THEN GRB2RGB(a[Max(before)].attr)
           ELSE IF kind # {} THEN c.color ELSE {}
    BY <2>3, <2>7, <2>8, <2>9
  <2>11. ColourRef(a, s, c, j) =
           IF before # {} THEN GRB2RGB(a[Max(before)].attr)
           ELSE IF kind # {} THEN c.color ELSE {}
    BY <1>3 DEF ColourRef, kind, before
  <2>12. QED
    BY <1>1, <1>3, <2>10, <2>11, ColourBits
<1>4. QED
  BY <1>1, <1>2, <1>3

LEMMA AttrRight ==
  ASSUME NEW a \in AnArea, NEW s \in Settings, NEW c \in Carries, NEW j \in Cells
  PROVE  movattr(cache(a), movcolor(cache(a), s, c), s, c)[j] =
           LET plain == ColourRef(a, s, c, j) \union FuncRef(a, s, c, j)
           IN IF s.reverse THEN Flip(plain, {Reversed}) ELSE plain
<1> DEFINE kind == Functional(a, s)
           before == {i \in kind : From(a, i) <= j}
           mask == IF s.mono THEN White ELSE White \union {Graph}
           cells == movcolor(cache(a), s, c)
           codes == FuncCodes(cache(a), s)
           given == Spread(cache(a), kind, codes, cells, mask, c.func)
<1>1. s.mono \in BOOLEAN /\ Pairs \in Nat \ {0}
  BY DrawingAssumption, AttribAssumption
<1>2. \A i \in 1..Pairs : /\ cache(a)[i].attr = a[i].attr
                          /\ cache(a)[i].col = From(a, i) /\ cache(a)[i].col \in Nat
  BY CacheRight
<1>3. Funcs(cache(a), s.mono) = kind /\ kind \in SUBSET (1..Pairs)
  BY <1>2 DEF Funcs, Functional
<1>4. \A i \in kind : codes[i] = FuncCode(a[i].attr, s.mono, s.blink)
  BY <1>2, <1>3 DEF FuncCodes
<1>5. Reaching(cache(a), kind, j) = before
  BY <1>2, <1>3 DEF Reaching
<1>6. InOrder(cache(a))
  BY CacheInOrder
<1>7. before # {} => Max(before) \in before
  <2>1. before \in SUBSET Nat /\ Pairs \in Nat /\ \A i \in before : i <= Pairs
    BY <1>1, <1>3
  <2>2. QED
    BY <2>1, MaxIs
<1>8. s.mono => kind # {}
  <2>1. 1 \in 1..Pairs
    BY <1>1
  <2>2. QED
    BY <2>1 DEF Functional
<1>9. \A i \in kind : codes[i] \intersect mask = {}
  <2>1. SUFFICES ASSUME NEW i \in kind PROVE codes[i] \intersect mask = {}
    OBVIOUS
  <2>2. codes[i] \subseteq FuncCodesOf /\ (~s.mono => Graph \notin codes[i])
    BY <1>1, <1>4, FuncCodeBits
  <2>3. FuncCodesOf \intersect White = {}
    BY DEF FuncCodesOf, White, Upper, Graph, Reversed, Secret, Under
  <2>4. QED
    BY <2>2, <2>3
<1>10. movattr(cache(a), cells, s, c)[j] =
         IF s.reverse THEN Flip(given[j], {Reversed}) ELSE given[j]
  BY <1>3 DEF movattr
<1>11. cells[j] = ColourRef(a, s, c, j) /\ ColourRef(a, s, c, j) \subseteq mask
  BY ColourRight
<1> HIDE DEF kind, before, cells, codes, mask
<1>12. given[j] = IF before # {} THEN Put(cells[j], mask, codes[Max(before)])
                  ELSE IF kind # {} THEN Put(cells[j], mask, c.func) ELSE cells[j]
  BY <1>2, <1>3, <1>5, <1>6, <1>9, SpreadRight
<1>13. \A x : Put(cells[j], mask, x) = cells[j] \union x
  BY <1>11 DEF Put
<1>14. FuncRef(a, s, c, j) =
         IF before # {} THEN codes[Max(before)] ELSE IF kind # {} THEN c.func ELSE {}
  BY <1>4, <1>7 DEF FuncRef, kind, before
<1>15. given[j] = ColourRef(a, s, c, j) \union FuncRef(a, s, c, j)
  BY <1>11, <1>12, <1>13, <1>14
<1> HIDE DEF given
<1>16. QED
  BY <1>10, <1>15 DEF cells

\* What a line carries over is of the attribute that reaches its last cell.
OnLine(a, kind) == {i \in kind : From(a, i) <= Cols - 1}

LEMMA CarriedRight ==
  ASSUME NEW a \in AnArea, NEW kind \in SUBSET (1..Pairs), NEW code, NEW carried
  PROVE  Carried(cache(a), kind, code, carried) =
           IF OnLine(a, kind) # {} THEN code[Max(OnLine(a, kind))] ELSE carried
<1>1. \A i \in kind : cache(a)[i].col = From(a, i) /\ cache(a)[i].col \in Nat
  BY CacheRight
<1>2. {i \in kind : cache(a)[i].col < Cols} = {i \in kind : From(a, i) <= Cols - 1}
  <2>1. \A n \in Nat : n < Cols <=> n <= Cols - 1
    BY AttribAssumption
  <2>2. QED
    BY <1>1, <2>1
<1>3. QED
  BY <1>2 DEF Carried, OnLine
-----------------------------------------------------------------------------
(* From cells to pixels *)

LEMMA Divided ==
  ASSUME NEW c \in Nat \ {0}, NEW r \in Nat, NEW k \in 0..(c - 1)
  PROVE  (c * r + k) % c = k /\ (c * r + k) \div c = r
<1> DEFINE n == c * r + k
           q == n \div c
           m == n % c
<1>1. n \in Nat /\ c * r \in Nat
  OBVIOUS
<1>2. q \in Int /\ m \in 0..(c - 1) /\ n = c * q + m
  BY <1>1
<1> HIDE DEF q, m
<1>3. CASE q > r
  <2>1. q >= r + 1 /\ c * q >= c * (r + 1) /\ c * (r + 1) = c * r + c
    BY <1>2, <1>3
  <2>2. QED
    BY <1>2, <2>1
<1>4. CASE q < r
  <2>1. r >= q + 1 /\ c * r >= c * (q + 1) /\ c * (q + 1) = c * q + c
    BY <1>2, <1>4
  <2>2. QED
    BY <1>2, <2>1
<1>5. CASE q = r
  BY <1>2, <1>5 DEF q, m
<1>6. QED
  BY <1>2, <1>3, <1>4, <1>5

LEMMA Sizes ==
  ASSUME NEW s \in Settings
  PROVE  /\ s.variant \in {"m5", "atom"} /\ s.wide \in BOOLEAN /\ s.lines25 \in BOOLEAN
         /\ CellWidth(s) = IF s.variant = "m5" THEN (IF s.wide THEN 8 ELSE 4)
                           ELSE (IF s.wide THEN 16 ELSE 8)
         /\ Count(s) \in Nat /\ Width(s) = Count(s) * CellWidth(s)
         /\ \A n \in 0..(Count(s) - 1) : CellOf(s, n) \in Cells
<1>1. Cols \in Nat \ {0}
  BY AttribAssumption
<1>2. s.variant \in {"m5", "atom"} /\ s.wide \in BOOLEAN /\ s.lines25 \in BOOLEAN
  BY DrawingAssumption
<1>3. Count(s) \in Nat /\ Count(s) <= Cols /\ (s.wide => 2 * Count(s) <= Cols)
  BY <1>1, <1>2 DEF Count
<1>4. ASSUME NEW n \in 0..(Count(s) - 1) PROVE CellOf(s, n) \in Cells
  BY <1>1, <1>2, <1>3 DEF CellOf, Cells
<1>5. QED
  BY <1>2, <1>3, <1>4 DEF CellWidth, Width

LEMMA RowsRight ==
  ASSUME NEW s \in Settings
  PROVE  LastRow(s) \in Nat /\ Rows(s) = 0..LastRow(s)
<1>1. FontRows \in Nat \ {0} /\ s.lines25 \in BOOLEAN
  BY DrawingAssumption
<1> DEFINE n == IF s.lines25 THEN FontRows ELSE FontRows + 2
<1>2. n \in Nat /\ n >= 1 /\ n - 1 \in Nat
  BY <1>1
<1>3. Rows(s) = 0..(n - 1)
  BY DEF Rows
<1> HIDE DEF n
<1>4. Rows(s) \in SUBSET Nat /\ n - 1 \in Rows(s) /\ \A r \in Rows(s) : r <= n - 1
  BY <1>2, <1>3
<1>5. Max(Rows(s)) \in Rows(s) /\ Max(Rows(s)) >= n - 1
  BY <1>2, <1>4, MaxIs
<1>6. LastRow(s) = n - 1
  BY <1>2, <1>4, <1>5 DEF LastRow
<1>7. QED
  BY <1>2, <1>3, <1>6

\* A row of a character has the bits the reference lights.
LEMMA RowRight ==
  ASSUME NEW s \in Settings, NEW t \in TextLines, NEW j \in Cells, NEW pac,
         NEW r \in Rows(s), NEW b \in 0..7
  PROVE  b \in Row(t[j], pac, s, r) <=> BitLit(t[j], pac, s, b, r)
<1> DEFINE fontRow == IF s.lines25 THEN r ELSE r - 1
           glyph == IF fontRow \in 0..(FontRows - 1) /\ Secret \notin pac
                    THEN Font[<<t[j], CharSet(pac, s), fontRow>>] ELSE {}
           over == (Under \in pac /\ r = UnderlineRow(s)) \/ (Upper \in pac /\ r = 0)
           lined == IF over THEN 0..7 ELSE glyph
<1>1. LastRow(s) \in Nat /\ Rows(s) = 0..LastRow(s) /\ FontRows \in Nat
  BY RowsRight, DrawingAssumption
<1>2. s.variant \in {"m5", "atom"} /\ s.wide \in BOOLEAN /\ s.lines25 \in BOOLEAN
  BY Sizes
<1>3. Row(t[j], pac, s, r) = IF Reversed \in pac THEN 0..7 \ lined ELSE lined
  BY DEF Row
<1>4. s.lines25 => LastRow(s) < FontRows + 1
  <2>1. SUFFICES ASSUME s.lines25 PROVE LastRow(s) < FontRows + 1
    OBVIOUS
  <2>2. 0..LastRow(s) = 0..(FontRows - 1)
    BY <1>1, <2>1 DEF Rows
  <2>3. LastRow(s) \in 0..(FontRows - 1)
    BY <1>1, <2>2
  <2>4. QED
    BY <1>1, <2>3
<1>5. over <=> \/ Upper \in pac /\ r = 0
               \/ Under \in pac /\ r = LastRow(s) /\ ~(s.variant = "m5" /\ ~s.wide /\ s.lines25)
  <2>1. CASE s.variant = "m5" /\ ~s.wide /\ s.lines25
    <3>1. UnderlineRow(s) = FontRows + 1 /\ r # FontRows + 1
      BY <1>1, <1>4, <2>1 DEF UnderlineRow
    <3>2. QED
      BY <2>1, <3>1
  <2>2. CASE ~(s.variant = "m5" /\ ~s.wide /\ s.lines25)
    BY <2>2 DEF UnderlineRow
  <2>3. QED
    BY <2>1, <2>2
<1>6. b \in lined <=> over \/ b \in glyph
  OBVIOUS
<1>7. b \in glyph <=> /\ Secret \notin pac /\ fontRow \in 0..(FontRows - 1)
                      /\ b \in Font[<<t[j], CharSet(pac, s), fontRow>>]
  OBVIOUS
<1>8. b \in Row(t[j], pac, s, r) <=> ((over \/ b \in glyph) # (Reversed \in pac))
  <2> HIDE DEF lined, glyph, over
  <2>1. CASE Reversed \in pac
    BY <1>3, <1>6, <2>1
  <2>2. CASE Reversed \notin pac
    BY <1>3, <1>6, <2>2
  <2>3. QED
    BY <2>1, <2>2
<1>9. BitLit(t[j], pac, s, b, r) <=> ((over \/ b \in glyph) # (Reversed \in pac))
  <2> HIDE DEF over, glyph
  <2>1. QED
    BY <1>5, <1>7 DEF BitLit, fontRow
<1>10. QED
  BY <1>8, <1>9

\* Two bits make one.
LEMMA HalfRight ==
  ASSUME NEW bits \in SUBSET (0..7), NEW at \in 0..3
  PROVE  /\ halfBit(bits) \subseteq 4..7
         /\ 7 - at \in halfBit(bits) <=> 7 - 2 * at \in bits \/ 6 - 2 * at \in bits
<1>1. \A n \in 1..4, c \in 0..7 : c \in Left(bits, n) <=> c - n \in bits
  <2>1. SUFFICES ASSUME NEW n \in 1..4, NEW c \in 0..7 PROVE c \in Left(bits, n) <=> c - n \in bits
    OBVIOUS
  <2>2. \A b \in bits : b + n = c => b = c - n
    OBVIOUS
  <2>3. c - n + n = c
    OBVIOUS
  <2>4. QED
    BY <2>2, <2>3 DEF Left
<1>2. /\ 7 \in halfBit(bits) <=> 7 \in bits \/ 6 \in bits
      /\ 6 \in halfBit(bits) <=> 5 \in bits \/ 4 \in bits
      /\ 5 \in halfBit(bits) <=> 3 \in bits \/ 2 \in bits
      /\ 4 \in halfBit(bits) <=> 1 \in bits \/ 0 \in bits
  BY <1>1 DEF halfBit
<1>3. halfBit(bits) \subseteq 4..7
  BY DEF halfBit
<1>4. at = 0 \/ at = 1 \/ at = 2 \/ at = 3
  OBVIOUS
<1>5. QED
  BY <1>2, <1>3, <1>4

LEMMA RowBits ==
  ASSUME NEW s \in Settings, NEW t \in TextLines, NEW j \in Cells, NEW pac, NEW r
  PROVE  Row(t[j], pac, s, r) \in SUBSET (0..7)
<1>1. CharSet(pac, s) \in {"graph", "pcg", "font"}
  BY DEF CharSet
<1>2. \A row \in 0..(FontRows - 1) : Font[<<t[j], CharSet(pac, s), row>>] \subseteq 0..7
  BY <1>1, DrawingAssumption
<1>3. QED
  BY <1>2 DEF Row

\* What is drawn stands in the caches.
Ready == set \in Settings /\ text \in TextLines /\ textcach = text

LEMMA RightRight ==
  ASSUME NEW bits \in SUBSET Int, NEW c \in 0..7
  PROVE  c \in Right(bits, 4) <=> c + 4 \in bits
<1>1. \A b \in bits : b - 4 = c <=> b = c + 4
  OBVIOUS
<1>2. QED
  BY <1>1 DEF Right

LEMMA WideBitmap ==
  ASSUME Ready, set.variant = "m5", set.wide, NEW n \in 0..(Count(set) - 1),
         NEW count \in 1..(Count(set) - n), NEW x \in 0..(8 * count - 1), NEW r \in Rows(set)
  PROVE  7 - (x % 8) \in RunBytes(set, n, count)[count * r + (x \div 8)]
           <=> PixelLit(<<8 * n + x, r>>)
<1> DEFINE k == x \div 8
           b == 7 - (x % 8)
           at == count * r + k
           j == CellOf(set, n + k)
<1>1. /\ CellWidth(set) = 8 /\ Count(set) \in Nat
      /\ \A m \in 0..(Count(set) - 1) : CellOf(set, m) \in Cells
  BY Sizes DEF Ready
<1>2. LastRow(set) \in Nat /\ Rows(set) = 0..LastRow(set)
  BY RowsRight DEF Ready
<1>3. k \in 0..(count - 1) /\ b \in 0..7
  BY <1>1
<1>4. (8 * n + x) \div 8 = n + k /\ (8 * n + x) % 8 = x % 8
  BY <1>1
<1>5. j \in Cells
  BY <1>1, <1>3
<1>6. count \in Nat \ {0} /\ r \in Nat /\ r <= LastRow(set)
  BY <1>1, <1>2
<1> HIDE DEF k, b
<1>7. at % count = k /\ at \div count = r
  BY <1>3, <1>6, Divided
<1>8. at \in 0..(count * (LastRow(set) + 1) - 1)
  <2>1. count * r \in Nat /\ count * (LastRow(set) + 1) = count * LastRow(set) + count
    BY <1>2, <1>6
  <2>2. count * r <= count * LastRow(set)
    BY <1>2, <1>6
  <2>3. count * LastRow(set) \in Nat
    BY <1>2, <1>6
  <2>4. QED
    BY <1>3, <1>6, <2>1, <2>2, <2>3
<1> HIDE DEF at
<1>9. RunBytes(set, n, count)[at] = Row(textcach[j], eval_attr[j], set, r)
  BY <1>7, <1>8 DEF RunBytes
<1>10. b \in Row(text[j], eval_attr[j], set, r) <=> BitLit(text[j], eval_attr[j], set, b, r)
  BY <1>3, <1>5, RowRight DEF Ready
<1>11. PixelCell(set, 8 * n + x) = j
  BY <1>1, <1>4 DEF PixelCell, k
<1>12. PixelBits(set, 8 * n + x) = {b}
  BY <1>1, <1>4 DEF PixelBits, b
<1>13. PixelLit(<<8 * n + x, r>>) <=> BitLit(text[j], eval_attr[j], set, b, r)
  BY <1>11, <1>12 DEF PixelLit
<1>14. QED
  BY <1>9, <1>10, <1>13 DEF at, b, k, Ready

LEMMA NarrowBitmap ==
  ASSUME Ready, set.variant = "m5", ~set.wide, NEW n \in 0..(Count(set) - 1),
         NEW count \in 1..(Count(set) - n), NEW rowBytes, rowBytes = (count + 1) \div 2,
         NEW x \in 0..(8 * rowBytes - 1), NEW r \in Rows(set)
  PROVE  7 - (x % 8) \in HalfRunBytes(set, n, count)[rowBytes * r + (x \div 8)]
           <=> x < 4 * count /\ PixelLit(<<4 * n + x, r>>)
<1> DEFINE k == x \div 8
           b == 7 - (x % 8)
           at == rowBytes * r + k
           Half(i) == IF i < count
                      THEN halfBit(Row(textcach[n + i], eval_attr[n + i], set, r)) ELSE {}
           byte == Half(2 * k) \union Right(Half(2 * k + 1), 4)
           i == x \div 4
           bit == x % 4
<1>1. /\ CellWidth(set) = 4 /\ Count(set) \in Nat
      /\ \A m \in 0..(Count(set) - 1) : CellOf(set, m) \in Cells /\ CellOf(set, m) = m
  BY Sizes DEF Ready, CellOf
<1>2. LastRow(set) \in Nat /\ Rows(set) = 0..LastRow(set)
  BY RowsRight DEF Ready
<1>3. count \in Nat \ {0} /\ rowBytes \in Nat \ {0} /\ n \in Nat
  BY <1>1
<1>4. r \in Nat /\ r <= LastRow(set)
  BY <1>2
<1>5. x \in Nat /\ k \in 0..(rowBytes - 1) /\ i \in Nat /\ bit \in 0..3 /\ b \in 0..7
  BY <1>3
<1>6. i < count <=> x < 4 * count
  BY <1>3, <1>5
<1>7. IF x % 8 < 4 THEN i = 2 * k /\ b = 7 - bit ELSE i = 2 * k + 1 /\ b = 3 - bit
  BY <1>3, <1>5
<1>8. (4 * n + x) \div 4 = n + i /\ (4 * n + x) % 4 = bit
  <2>1. x = 4 * i + bit
    BY <1>5
  <2> HIDE DEF i, bit
  <2> DEFINE q == n + i
             c == 4
  <2>2. 4 * n + x = c * q + bit /\ q \in Nat /\ c \in Nat \ {0} /\ bit \in 0..(c - 1)
    BY <1>3, <1>5, <2>1
  <2> HIDE DEF q, c
  <2>3. (c * q + bit) \div c = q /\ (c * q + bit) % c = bit
    BY <2>2, Divided
  <2>4. QED
    BY <2>2, <2>3 DEF q, c
<1> HIDE DEF k, b, i, bit
<1>9. at % rowBytes = k /\ at \div rowBytes = r
  BY <1>3, <1>4, <1>5, Divided, SMTT(60)
<1>10. at \in 0..(rowBytes * (LastRow(set) + 1) - 1)
  <2>1. rowBytes * r \in Nat /\ rowBytes * (LastRow(set) + 1) = rowBytes * LastRow(set) + rowBytes
    BY <1>2, <1>3, <1>4
  <2>2. rowBytes * r <= rowBytes * LastRow(set)
    BY <1>2, <1>3, <1>4
  <2>3. rowBytes * LastRow(set) \in Nat
    BY <1>2, <1>3
  <2>4. QED
    BY <1>3, <1>5, <2>1, <2>2, <2>3
<1> HIDE DEF at
<1>11. HalfRunBytes(set, n, count)[at] = byte
  <2>1. HalfRunBytes(set, n, count) =
          [a \in 0..(rowBytes * (LastRow(set) + 1) - 1) |->
             (IF 2 * (a % rowBytes) < count
              THEN halfBit(Row(textcach[n + 2 * (a % rowBytes)], eval_attr[n + 2 * (a % rowBytes)],
                               set, a \div rowBytes)) ELSE {})
             \union Right(IF 2 * (a % rowBytes) + 1 < count
                          THEN halfBit(Row(textcach[n + (2 * (a % rowBytes) + 1)],
                                           eval_attr[n + (2 * (a % rowBytes) + 1)],
                                           set, a \div rowBytes)) ELSE {}, 4)]
    BY DEF HalfRunBytes
  <2>2. QED
    BY <1>9, <1>10, <2>1
<1>12. ASSUME NEW l \in Nat, l < count
       PROVE  /\ n + l \in Cells
              /\ Row(textcach[n + l], eval_attr[n + l], set, r) \in SUBSET (0..7)
  <2>1. n + l \in 0..(Count(set) - 1)
    BY <1>1, <1>3, <1>12
  <2>2. n + l \in Cells
    BY <1>1, <2>1
  <2>3. QED
    BY <2>2, RowBits DEF Ready
<1>13. \A l \in Nat : Half(l) \subseteq 4..7
  <2>1. SUFFICES ASSUME NEW l \in Nat PROVE Half(l) \subseteq 4..7
    OBVIOUS
  <2>2. CASE l < count
    <3> DEFINE row == Row(textcach[n + l], eval_attr[n + l], set, r)
    <3>1. row \in SUBSET (0..7) /\ 0 \in 0..3
      BY <1>12, <2>2
    <3>2. Half(l) = halfBit(row)
      BY <2>2
    <3> HIDE DEF row, Half
    <3>3. QED
      BY <3>1, <3>2, HalfRight
  <2>3. CASE ~(l < count)
    BY <2>3
  <2>4. QED
    BY <2>2, <2>3
<1>14. 2 * k \in Nat /\ 2 * k + 1 \in Nat
  BY <1>5
<1>15. b \in byte <=> 7 - bit \in Half(i)
  <2>1. \A c \in 0..7 : c \in Right(Half(2 * k + 1), 4) <=> c + 4 \in Half(2 * k + 1)
    <3> HIDE DEF Half
    <3>1. Half(2 * k + 1) \in SUBSET Int
      BY <1>13, <1>14
    <3>2. QED
      BY <3>1, RightRight
  <2> HIDE DEF Half
  <2>2. CASE x % 8 < 4
    <3>1. i = 2 * k /\ b = 7 - bit /\ b + 4 \notin 4..7
      BY <1>5, <1>7, <2>2
    <3>2. b \notin Right(Half(2 * k + 1), 4)
      BY <1>5, <1>13, <1>14, <2>1, <3>1
    <3>3. QED
      BY <3>1, <3>2
  <2>3. CASE ~(x % 8 < 4)
    <3>1. i = 2 * k + 1 /\ b + 4 = 7 - bit /\ b \notin 4..7
      BY <1>5, <1>7, <2>3
    <3>2. b \notin Half(2 * k)
      BY <1>13, <1>14, <3>1
    <3>3. QED
      BY <1>5, <2>1, <3>1, <3>2
  <2>4. QED
    BY <2>2, <2>3
<1>16. PixelCell(set, 4 * n + x) = n + i
  BY <1>1, <1>8 DEF PixelCell, CellOf
<1>17. PixelBits(set, 4 * n + x) = {7 - 2 * bit, 6 - 2 * bit}
  BY <1>1, <1>8 DEF PixelBits
<1>18. PixelLit(<<4 * n + x, r>>) <=>
         \E c \in {7 - 2 * bit, 6 - 2 * bit} : BitLit(text[n + i], eval_attr[n + i], set, c, r)
  BY <1>16, <1>17 DEF PixelLit
<1>19. CASE i < count
  <2> DEFINE row == Row(textcach[n + i], eval_attr[n + i], set, r)
  <2>1. n + i \in Cells /\ row \in SUBSET (0..7)
    BY <1>5, <1>12, <1>19
  <2>2. Half(i) = halfBit(row)
    BY <1>19
  <2>3. \A c \in 0..7 : c \in row <=> BitLit(text[n + i], eval_attr[n + i], set, c, r)
    BY <2>1, RowRight DEF Ready
  <2> HIDE DEF row, Half
  <2>4. 7 - bit \in halfBit(row) <=> 7 - 2 * bit \in row \/ 6 - 2 * bit \in row
    BY <1>5, <2>1, HalfRight
  <2>5. 7 - 2 * bit \in 0..7 /\ 6 - 2 * bit \in 0..7
    BY <1>5
  <2>6. b \in byte <=> PixelLit(<<4 * n + x, r>>)
    BY <1>15, <1>18, <2>2, <2>3, <2>4, <2>5
  <2>7. QED
    BY <1>6, <1>11, <1>19, <2>6 DEF at, b, k
<1>20. CASE ~(i < count)
  BY <1>6, <1>11, <1>15, <1>20 DEF at, b, k
<1>21. QED
  BY <1>19, <1>20

LEMMA CellBits ==
  ASSUME Ready, set.variant = "atom", NEW n \in 0..(Count(set) - 1),
         NEW x \in 0..(CellWidth(set) - 1), NEW r \in Rows(set), NEW bits,
         bits = Row(textcach[CellOf(set, n)], eval_attr[CellOf(set, n)], set, r)
  PROVE  CellWidth(set) - 1 - x \in (IF set.wide THEN wideBit(bits) ELSE bits)
           <=> PixelLit(<<n * CellWidth(set) + x, r>>)
<1> DEFINE j == CellOf(set, n)
           w == CellWidth(set)
<1>1. /\ w = IF set.wide THEN 16 ELSE 8
      /\ Count(set) \in Nat /\ j \in Cells /\ set.wide \in BOOLEAN
  BY Sizes DEF Ready
<1>2. (n * w + x) \div w = n /\ (n * w + x) % w = x
  BY <1>1
<1>3. bits \in SUBSET (0..7) /\ \A b \in 0..7 : b \in bits <=> BitLit(text[j], eval_attr[j], set, b, r)
  <2>1. textcach = text /\ text \in TextLines /\ set \in Settings
    BY DEF Ready
  <2>2. bits = Row(text[j], eval_attr[j], set, r)
    BY <2>1
  <2>3. QED
    BY <1>1, <2>1, <2>2, RowBits, RowRight
<1>4. PixelCell(set, n * w + x) = j
  BY <1>2 DEF PixelCell
<1> HIDE DEF j
<1>5. CASE set.wide
  <2>1. w = 16 /\ x \in 0..15
    BY <1>1, <1>5
  <2>2. PixelBits(set, n * w + x) = {7 - (x \div 2)}
    BY <1>2, <2>1 DEF PixelBits
  <2>3. 7 - (x \div 2) \in 0..7
    BY <2>1
  <2>4. \A b \in 0..7 : 15 - x = 2 * b \/ 15 - x = 2 * b + 1 <=> b = 7 - (x \div 2)
    BY <2>1
  <2>5. 15 - x \in wideBit(bits) <=> 7 - (x \div 2) \in bits
    BY <1>3, <2>3, <2>4 DEF wideBit
  <2>6. PixelLit(<<n * w + x, r>>) <=> BitLit(text[j], eval_attr[j], set, 7 - (x \div 2), r)
    BY <1>4, <2>2 DEF PixelLit
  <2>7. w - 1 - x = 15 - x
    BY <2>1
  <2>8. QED
    BY <1>3, <1>5, <2>3, <2>5, <2>6, <2>7
<1>6. CASE ~set.wide
  <2>1. w = 8 /\ x \in 0..7
    BY <1>1, <1>6
  <2>2. PixelBits(set, n * w + x) = {7 - x}
    BY <1>2, <2>1 DEF PixelBits
  <2>3. 7 - x \in 0..7 /\ w - 1 - x = 7 - x
    BY <2>1
  <2>4. PixelLit(<<n * w + x, r>>) <=> BitLit(text[j], eval_attr[j], set, 7 - x, r)
    BY <1>4, <2>2 DEF PixelLit
  <2>5. QED
    BY <1>3, <1>6, <2>3, <2>4
<1>7. QED
  BY <1>1, <1>5, <1>6

\* What the panel must show between two columns of pixels.
PixelsFrom(a, b) ==
  {<<p[1], p[2], ColourOf(eval_attr[PixelCell(set, p[1])])>> :
     p \in {q \in (a..(b - 1)) \X Rows(set) : PixelLit(q)}}

\* The same, as they are drawn: from a on, in the space of m pixels.
LitFrom(a, len, m) ==
  {p \in (0..(m - 1)) \X Rows(set) : p[1] < len /\ PixelLit(<<a + p[1], p[2]>>)}

DrawnFrom(a, len, m, colour) == {<<a + p[1], p[2], colour>> : p \in LitFrom(a, len, m)}

OneColour(a, len, colour) ==
  \A x \in 0..(len - 1) : ColourOf(eval_attr[PixelCell(set, a + x)]) = colour

LEMMA PixelsRight ==
  ASSUME NEW a \in Nat, NEW len \in Nat, NEW m \in Nat, len <= m, NEW colour,
         OneColour(a, len, colour), NEW b, b = a + len,
         NEW drawn, drawn = DrawnFrom(a, len, m, colour)
  PROVE  drawn = PixelsFrom(a, b)
<1> DEFINE lit == LitFrom(a, len, m)
           asked == {q \in (a..(a + len - 1)) \X Rows(set) : PixelLit(q)}
<1>1. ASSUME NEW p \in lit PROVE <<a + p[1], p[2], colour>> \in PixelsFrom(a, a + len)
  <2>1. /\ p[1] \in 0..(len - 1) /\ p[2] \in Rows(set)
        /\ PixelLit(<<a + p[1], p[2]>>)
    <3>1. p \in (0..(m - 1)) \X Rows(set) /\ p[1] < len
      BY <1>1 DEF LitFrom
    <3>2. QED
      BY <1>1, <3>1 DEF LitFrom
  <2> DEFINE q == <<a + p[1], p[2]>>
  <2>2. q \in asked
    BY <2>1
  <2>3. ColourOf(eval_attr[PixelCell(set, q[1])]) = colour
    BY <2>1 DEF OneColour
  <2>4. <<q[1], q[2], ColourOf(eval_attr[PixelCell(set, q[1])])>> \in PixelsFrom(a, a + len)
    BY <2>2 DEF PixelsFrom
  <2>5. QED
    BY <2>3, <2>4
<1>2. ASSUME NEW q \in asked
      PROVE <<q[1], q[2], ColourOf(eval_attr[PixelCell(set, q[1])])>> \in drawn
  <2>1. q \in (a..(a + len - 1)) \X Rows(set) /\ PixelLit(q)
    BY <1>2
  <2>2. q[1] \in a..(a + len - 1) /\ q[2] \in Rows(set) /\ q = <<q[1], q[2]>>
    BY <2>1
  <2> DEFINE p == <<q[1] - a, q[2]>>
  <2>3. q[1] - a \in 0..(len - 1) /\ a + (q[1] - a) = q[1] /\ q[1] - a \in 0..(m - 1)
    BY <2>2
  <2>4. p \in lit
    <3>1. PixelLit(<<a + p[1], p[2]>>)
      BY <2>1, <2>2, <2>3
    <3>2. p \in (0..(m - 1)) \X Rows(set) /\ p[1] < len
      BY <2>2, <2>3
    <3>3. QED
      BY <3>1, <3>2 DEF LitFrom
  <2>5. <<a + p[1], p[2], colour>> = <<q[1], q[2], ColourOf(eval_attr[PixelCell(set, q[1])])>>
    BY <2>2, <2>3 DEF OneColour
  <2> HIDE DEF p
  <2>6. QED
    BY <2>4, <2>5 DEF DrawnFrom
<1>3. drawn \subseteq PixelsFrom(a, a + len)
  BY <1>1 DEF DrawnFrom
<1>4. PixelsFrom(a, a + len) \subseteq drawn
  BY <1>2 DEF PixelsFrom
<1>5. QED
  BY <1>3, <1>4

LEMMA PixelsJoin ==
  ASSUME NEW a \in Nat, NEW len \in Nat
  PROVE  /\ PixelsFrom(0, a + len) = PixelsFrom(0, a) \union PixelsFrom(a, a + len)
         /\ \A p \in PixelsFrom(a, a + len) : p[1] \in a..(a + len - 1)
<1>1. 0..(a + len - 1) = 0..(a - 1) \union a..(a + len - 1)
  OBVIOUS
<1>2. QED
  BY <1>1 DEF PixelsFrom
-----------------------------------------------------------------------------
(* The line *)

\* What cell and carry are once the attributes are evaluated.
Evaluated ==
  /\ DOMAIN eval_attr = Cells /\ \A j \in Cells : eval_attr[j] = CellRef(j)
  /\ prev = [color |-> CarriedColor(cache(area), set, carry),
             func |-> CarriedFunc(cache(area), set, carry)]
  /\ set.cursor < Cols => textcach = text

\* The pixels left of the next cell are those of the line; on the Atom stale
\* ones may be right of it.
Edge == (IF col <= Count(set) THEN col ELSE Count(set)) * CellWidth(set)

PictureRight ==
  /\ {p \in picture : p[1] < Edge} = PixelsFrom(0, Edge)
  /\ \A p \in picture : /\ p[1] \in Nat /\ p[1] < Width(set)
                        /\ set.variant = "m5" => p[1] < Edge

DrawingInv ==
  /\ set \in Settings /\ area \in Areas /\ text \in TextLines /\ carry \in Carries
  /\ step \in {"cache", "eval", "draw", "done"} /\ col \in Nat
  /\ step \in {"cache", "eval"} => textcach = text /\ col = 0 /\ picture \in Stale(set)
  /\ step = "eval" => attrcach = cache(area)
  /\ step \in {"draw", "done"} => Evaluated
  /\ step \in {"draw", "done"} /\ set.cursor < Cols => PictureRight
  /\ step = "done" => col >= Count(set)

LEMMA InitRight ==
  ASSUME Init
  PROVE  DrawingInv
  BY DEF Init, DrawingInv

LEMMA CacheStep ==
  ASSUME DrawingInv, Cache
  PROVE  DrawingInv'
  BY DEF DrawingInv, Cache, inputVars, Stale, Width, Count, CellWidth, Rows

LEMMA EvalStep ==
  ASSUME DrawingInv, Eval
  PROVE  DrawingInv'
<1>1. /\ set \in Settings /\ area \in AnArea /\ area \in Areas /\ text \in TextLines /\ carry \in Carries
      /\ step = "eval" /\ attrcach = cache(area) /\ textcach = text /\ col = 0 /\ picture \in Stale(set)
  BY DrawingAssumption DEF DrawingInv, Eval, AnArea
<1>2. UNCHANGED <<set, area, text, carry, attrcach, col, picture>> /\ step' = "draw"
  BY DEF Eval, inputVars
<1> DEFINE cells == movattr(cache(area), movcolor(cache(area), set, carry), set, carry)
           At(j) == CursorShown(set) /\ j = set.cursor
<1>3. /\ eval_attr' = [j \in Cells |-> IF At(j) THEN CursorCell(cells[j]) ELSE cells[j]]
      /\ textcach' = [j \in Cells |-> IF At(j + Cols) THEN CursorCell(textcach[j]) ELSE textcach[j]]
      /\ prev' = [color |-> CarriedColor(cache(area), set, carry),
                  func |-> CarriedFunc(cache(area), set, carry)]
  BY <1>1 DEF Eval
<1>4. ASSUME NEW j \in Cells PROVE eval_attr'[j] = CellRef(j)
  <2> DEFINE plain == ColourRef(area, set, carry, j) \union FuncRef(area, set, carry, j)
  <2>1. cells[j] = IF set.reverse THEN Flip(plain, {Reversed}) ELSE plain
    BY <1>1, AttrRight
  <2>2. Flip(Flip(plain, {Reversed}), {Reversed}) = plain
    BY DEF Flip
  <2>3. eval_attr'[j] = IF At(j) THEN CursorCell(cells[j]) ELSE cells[j]
    BY <1>3
  <2>4. set.reverse \in BOOLEAN
    BY <1>1, DrawingAssumption
  <2>5. CellRef(j) = (IF (CursorShown(set) /\ set.cursor = j) # set.reverse
                      THEN Flip(plain, {Reversed}) ELSE plain)
                       \union (IF CursorShown(set) /\ set.cursor = j THEN White ELSE {})
    BY DEF CellRef
  <2> HIDE DEF plain, cells
  <2>6. CASE At(j)
    <3>1. eval_attr'[j] = Flip(cells[j], {Reversed}) \union White
      BY <2>3, <2>6 DEF CursorCell
    <3>2. CASE set.reverse
      BY <2>1, <2>2, <2>4, <2>5, <2>6, <3>1, <3>2
    <3>3. CASE ~set.reverse
      BY <2>1, <2>4, <2>5, <2>6, <3>1, <3>3
    <3>4. QED
      BY <3>2, <3>3
  <2>7. CASE ~At(j)
    <3>1. CASE set.reverse
      BY <2>1, <2>3, <2>4, <2>5, <2>7, <3>1
    <3>2. CASE ~set.reverse
      BY <2>1, <2>3, <2>4, <2>5, <2>7, <3>2
    <3>3. QED
      BY <3>1, <3>2
  <2>8. QED
    BY <2>6, <2>7
<1>5. \A j \in Cells : CellRef(j)' = CellRef(j)
  BY <1>2 DEF CellRef
<1>6. ASSUME set.cursor < Cols PROVE textcach' = text
  <2>1. \A j \in Cells : ~At(j + Cols)
    <3>1. Cols \in Nat /\ set.cursor \in Int
      BY <1>1, AttribAssumption, DrawingAssumption DEF NoCursor
    <3>2. QED
      BY <1>6, <3>1 DEF Cells
  <2>2. text \in [Cells -> Bytes]
    BY <1>1, DrawingAssumption
  <2> HIDE DEF At
  <2>3. QED
    BY <1>1, <1>3, <2>1, <2>2
<1>7. Evaluated'
  <2>1. DOMAIN eval_attr' = Cells /\ \A j \in Cells : eval_attr'[j] = CellRef(j)'
    BY <1>3, <1>4, <1>5
  <2>2. QED
    BY <1>2, <1>3, <1>6, <2>1 DEF Evaluated
<1>8. PictureRight'
  <2>1. Count(set) \in Nat /\ CellWidth(set) \in {4, 8, 16}
        /\ Width(set) = Count(set) * CellWidth(set) /\ set.variant \in {"m5", "atom"}
    BY <1>1, Sizes
  <2>2. set' = set /\ picture' = picture /\ col' = 0
    BY <1>1, <1>2
  <2>3. Edge' = 0 * CellWidth(set)
    BY <2>1, <2>2 DEF Edge, Count, CellWidth
  <2>4. Edge' = 0
    BY <2>1, <2>3
  <2>5. PixelsFrom(0, Edge)' = {}
    <3>1. 0..(0 - 1) = {}
      OBVIOUS
    <3>2. QED
      BY <2>4, <3>1 DEF PixelsFrom
  <2>6. \A p \in picture : p[1] \in 0..(Width(set) - 1)
    BY <1>1, <2>1 DEF Stale
  <2>7. set.variant = "m5" => picture = {}
    BY <1>1 DEF Stale
  <2>8. \A p \in picture : p[1] \in Nat /\ p[1] < Width(set) /\ ~(p[1] < 0)
    BY <2>1, <2>6
  <2>9. Width(set)' = Width(set)
    BY <2>2 DEF Width, Count, CellWidth
  <2>10. QED
    BY <2>2, <2>4, <2>5, <2>7, <2>8, <2>9 DEF PictureRight
<1>9. QED
  BY <1>1, <1>2, <1>7, <1>8 DEF DrawingInv

drawVars == <<inputVars, step, attrcach, textcach, eval_attr, prev>>

LEMMA DrawingKeeps ==
  ASSUME UNCHANGED drawVars
  PROVE  /\ set' = set /\ area' = area /\ text' = text /\ carry' = carry /\ step' = step
         /\ Evaluated' <=> Evaluated
         /\ eval_attr' = eval_attr /\ \A q : PixelLit(q)' <=> PixelLit(q)
         /\ Count(set)' = Count(set) /\ CellWidth(set)' = CellWidth(set) /\ Width(set)' = Width(set)
<1>1. UNCHANGED <<set, area, text, carry, step, textcach, eval_attr, prev>>
  BY DEF drawVars, inputVars
<1>2. \A j : CellRef(j)' = CellRef(j)
  BY <1>1 DEF CellRef
<1>3. Evaluated' <=> Evaluated
  BY <1>1, <1>2 DEF Evaluated
<1>4. \A q : PixelLit(q)' <=> PixelLit(q)
  BY <1>1 DEF PixelLit
<1>5. QED
  BY <1>1, <1>3, <1>4

\* Some cells more are drawn.
LEMMA PictureGrows ==
  ASSUME set \in Settings, PictureRight, UNCHANGED drawVars,
         col \in Nat, col < Count(set), NEW count \in 1..(Count(set) - col),
         NEW w, w = CellWidth(set),
         col' \in Nat, IF col' <= Count(set) THEN col' = col + count ELSE Count(set) = col + count,
         NEW kept \in SUBSET picture, picture' = kept \union PixelsFrom(w * col, w * (col + count)),
         \A p \in picture : p[1] < w * col => p \in kept,
         \A p \in kept : p[1] \notin (w * col)..(w * (col + count) - 1)
  PROVE  PictureRight'
<1>1. /\ Count(set) \in Nat /\ w \in {4, 8, 16} /\ Width(set) = w * Count(set)
      /\ set.variant \in {"m5", "atom"}
  BY Sizes
<1>2. Edge = w * col
  BY <1>1 DEF Edge
<1> DEFINE edge == w * (col + count)
           new == PixelsFrom(w * col, edge)
<1>3. Edge' = edge
  <2>1. Edge' = (IF col' <= Count(set) THEN col' ELSE Count(set)) * w
    BY DrawingKeeps DEF Edge
  <2>2. Edge' = (col + count) * w
    BY <2>1
  <2>3. QED
    BY <1>1, <2>2
<1>4. w * col \in Nat /\ w * count \in Nat /\ edge = w * col + w * count /\ edge <= Width(set)
      /\ edge \in Nat /\ Width(set) \in Nat
  BY <1>1
<1>5. /\ PixelsFrom(0, edge) = PixelsFrom(0, w * col) \union new
      /\ \A p \in new : p[1] \in (w * col)..(edge - 1)
  <2> DEFINE a == w * col
             l == w * count
  <2>1. a \in Nat /\ l \in Nat /\ edge = a + l
    BY <1>4
  <2> HIDE DEF a, l, edge
  <2>2. /\ PixelsFrom(0, a + l) = PixelsFrom(0, a) \union PixelsFrom(a, a + l)
        /\ \A p \in PixelsFrom(a, a + l) : p[1] \in a..(a + l - 1)
    BY <2>1, PixelsJoin
  <2>3. new = PixelsFrom(a, edge)
    BY DEF a
  <2> HIDE DEF new
  <2>4. QED
    BY <2>1, <2>2, <2>3 DEF a
<1> HIDE DEF edge, new
<1>6. /\ {p \in picture : p[1] < w * col} = PixelsFrom(0, w * col)
      /\ \A p \in picture : /\ p[1] \in Nat /\ p[1] < Width(set)
                            /\ set.variant = "m5" => p[1] < w * col
  BY <1>2 DEF PictureRight
<1>7. \A p \in kept : p[1] < edge <=> p[1] < w * col
  <2>1. SUFFICES ASSUME NEW p \in kept PROVE p[1] < edge <=> p[1] < w * col
    OBVIOUS
  <2>2. p[1] \in Nat /\ p[1] \notin (w * col)..(edge - 1)
    BY <1>6 DEF edge
  <2>3. w * col <= edge
    BY <1>4
  <2>4. QED
    BY <1>4, <2>2, <2>3
<1>8. \A p \in new : p[1] \in Nat /\ p[1] < edge /\ p[1] < Width(set)
  BY <1>4, <1>5
<1>9. picture' = kept \union new
  BY DEF new, edge
<1>10. {p \in kept : p[1] < edge} = {p \in picture : p[1] < w * col}
  BY <1>7
<1>11. {p \in picture' : p[1] < edge} = {p \in kept : p[1] < edge} \union new
  BY <1>8, <1>9
<1>12. {p \in picture' : p[1] < edge} = PixelsFrom(0, edge)
  BY <1>5, <1>6, <1>10, <1>11
<1>13. \A p \in picture' : /\ p[1] \in Nat /\ p[1] < Width(set)
                           /\ set.variant = "m5" => p[1] < edge
  BY <1>6, <1>7, <1>8, <1>9
<1>14. PixelsFrom(0, Edge)' = PixelsFrom(0, edge) /\ Width(set)' = Width(set) /\ set' = set
  <2>1. set' = set /\ eval_attr' = eval_attr /\ (\A q : PixelLit(q)' <=> PixelLit(q))
        /\ Width(set)' = Width(set)
    BY DrawingKeeps
  <2>2. QED
    BY <1>3, <2>1 DEF PixelsFrom
<1>15. QED
  BY <1>3, <1>12, <1>13, <1>14 DEF PictureRight

LEMMA RunOfOneColour ==
  ASSUME set \in Settings, col \in Nat, col < Count(set),
         NEW found, found = sameColorCount(set, col)
  PROVE  /\ found \in Nat /\ found >= 1
         /\ \A k \in 0..(found - 1) : col + k < Count(set) =>
              ColourOf(eval_attr[CellOf(set, col + k)]) = ColourOf(eval_attr[CellOf(set, col)])
<1> DEFINE Same(k) == ColourOf(EvalAt(CellOf(set, col + k))) = ColourOf(EvalAt(CellOf(set, col)))
           m == Max({Count(set) - col, 2})
           differing == {k \in 1..m : k >= m \/ ~Same(k)}
<1>1. Count(set) \in Nat /\ \A n \in 0..(Count(set) - 1) : CellOf(set, n) \in Cells
  BY Sizes
<1>2. m \in Nat /\ m >= 2
  <2> DEFINE both == {Count(set) - col, 2}
  <2>1. both \in SUBSET Nat /\ both # {} /\ \A n \in both : n <= Count(set) + 2
    BY <1>1
  <2>2. 2 \in both /\ Count(set) + 2 \in Nat
    BY <1>1
  <2> HIDE DEF both
  <2>3. Max(both) \in both /\ Max(both) >= 2
    BY <2>1, <2>2, MaxIs
  <2>4. QED
    BY <2>1, <2>3 DEF both
<1>3. found = Min(differing)
  BY DEF sameColorCount
<1> HIDE DEF m, Same
<1>4. differing \in SUBSET Nat /\ m \in differing
  BY <1>2
<1>5. found \in differing /\ \A k \in differing : found <= k
  BY <1>3, <1>4, MinIs
<1>6. found \in 1..m
  BY <1>5
<1>7. ASSUME NEW k \in 0..(found - 1), col + k < Count(set)
      PROVE  ColourOf(eval_attr[CellOf(set, col + k)]) = ColourOf(eval_attr[CellOf(set, col)])
  <2>1. \A n \in 0..(Count(set) - 1) : EvalAt(CellOf(set, n)) = eval_attr[CellOf(set, n)]
    <3>1. \A j \in Cells : j < Cols
      BY AttribAssumption DEF Cells
    <3>2. QED
      BY <1>1, <3>1 DEF EvalAt
  <2>2. col \in 0..(Count(set) - 1) /\ col + k \in 0..(Count(set) - 1)
    BY <1>1, <1>7
  <2>3. CASE k = 0
    BY <2>3
  <2>4. CASE k # 0
    <3>1. k \in 1..m /\ ~(found <= k)
      BY <1>2, <1>6, <1>7, <2>4
    <3>2. Same(k)
      BY <1>5, <3>1
    <3>3. QED
      BY <2>1, <2>2, <3>2 DEF Same
  <2>5. QED
    BY <2>3, <2>4
<1>8. QED
  BY <1>2, <1>6, <1>7

RunOf(n, count, colour) ==
  \A k \in 0..(count - 1) : ColourOf(eval_attr[CellOf(set, n + k)]) = colour

\* A run of one colour on the M5 lights what the reference lights.
LEMMA RunPixels ==
  ASSUME Ready, set.variant = "m5", NEW n \in 0..(Count(set) - 1),
         NEW count \in 1..(Count(set) - n), NEW colour,
         RunOf(n, count, colour),
         NEW bytes, bytes = IF set.wide THEN RunBytes(set, n, count) ELSE HalfRunBytes(set, n, count),
         NEW rowBytes, rowBytes = IF set.wide THEN count ELSE (count + 1) \div 2,
         NEW w, w = CellWidth(set)
  PROVE  Bitmap(bytes, rowBytes, Rows(set), n * w, colour) = PixelsFrom(w * n, w * (n + count))
<1> DEFINE a == n * w
           len == w * count
           m == 8 * rowBytes
           lit == {p \in (0..(m - 1)) \X Rows(set) :
                     7 - (p[1] % 8) \in bytes[rowBytes * p[2] + (p[1] \div 8)]}
<1>1. w = (IF set.wide THEN 8 ELSE 4) /\ Count(set) \in Nat /\ set.wide \in BOOLEAN
  BY Sizes DEF Ready
<1>2. rowBytes \in Nat /\ m \in Nat /\ a \in Nat /\ len \in Nat /\ len <= m
  <2>1. CASE set.wide
    BY <1>1, <2>1
  <2>2. CASE ~set.wide
    <3>1. rowBytes \in Nat /\ 2 * rowBytes >= count
      BY <1>1, <2>2
    <3>2. QED
      BY <1>1, <2>2, <3>1
  <2>3. QED
    BY <1>1, <2>1, <2>2
<1>3. ASSUME NEW x \in 0..(m - 1), NEW r \in Rows(set)
      PROVE  7 - (x % 8) \in bytes[rowBytes * r + (x \div 8)]
               <=> x < len /\ PixelLit(<<a + x, r>>)
  <2>1. CASE set.wide
    <3>1. x \in 0..(8 * count - 1) /\ a = 8 * n /\ len = 8 * count
      BY <1>1, <2>1
    <3>2. 7 - (x % 8) \in RunBytes(set, n, count)[count * r + (x \div 8)] <=> PixelLit(<<8 * n + x, r>>)
      BY <2>1, <3>1, WideBitmap
    <3>3. x < len
      BY <3>1
    <3>4. QED
      BY <2>1, <3>1, <3>2, <3>3
  <2>2. CASE ~set.wide
    <3>1. x \in 0..(8 * rowBytes - 1) /\ a = 4 * n /\ len = 4 * count /\ rowBytes = (count + 1) \div 2
      BY <1>1, <2>2
    <3>2. 7 - (x % 8) \in HalfRunBytes(set, n, count)[rowBytes * r + (x \div 8)]
            <=> x < 4 * count /\ PixelLit(<<4 * n + x, r>>)
      BY <2>2, <3>1, NarrowBitmap
    <3>3. QED
      BY <2>2, <3>1, <3>2
  <2>3. QED
    BY <1>1, <2>1, <2>2
<1>4. lit = LitFrom(a, len, m)
  <2>1. ASSUME NEW p \in (0..(m - 1)) \X Rows(set)
        PROVE  7 - (p[1] % 8) \in bytes[rowBytes * p[2] + (p[1] \div 8)]
                 <=> p[1] < len /\ PixelLit(<<a + p[1], p[2]>>)
    <3>1. p[1] \in 0..(m - 1) /\ p[2] \in Rows(set)
      BY <2>1
    <3> HIDE DEF m, len, a
    <3>2. QED
      BY <1>3, <3>1
  <2> HIDE DEF m, len, a
  <2>2. QED
    BY <2>1 DEF LitFrom
<1>5. OneColour(a, len, colour)
  <2> SUFFICES ASSUME NEW x \in 0..(len - 1)
               PROVE  ColourOf(eval_attr[PixelCell(set, a + x)]) = colour
    BY DEF OneColour
  <2>1. (n * w + x) \div w = n + (x \div w) /\ x \div w \in 0..(count - 1)
    <3>1. CASE w = 8
      BY <3>1
    <3>2. CASE w = 4
      BY <3>2
    <3>3. QED
      BY <1>1, <3>1, <3>2
  <2>2. PixelCell(set, a + x) = CellOf(set, n + (x \div w))
    BY <2>1 DEF PixelCell
  <2>3. QED
    BY <2>1, <2>2 DEF RunOf
<1>6. Bitmap(bytes, rowBytes, Rows(set), a, colour) = {<<a + p[1], p[2], colour>> : p \in lit}
  BY DEF Bitmap
<1>7. a = w * n /\ a + len = w * (n + count)
  BY <1>1
<1> DEFINE drawn == Bitmap(bytes, rowBytes, Rows(set), a, colour)
<1> HIDE DEF a, len, m, lit
<1>8. drawn = DrawnFrom(a, len, m, colour)
  BY <1>4, <1>6 DEF DrawnFrom
<1> HIDE DEF drawn
<1>9. drawn = PixelsFrom(a, a + len)
  BY <1>2, <1>5, <1>8, PixelsRight
<1>10. QED
  BY <1>7, <1>9 DEF a, drawn

LEMMA DrawRunStep ==
  ASSUME DrawingInv, DrawRun
  PROVE  DrawingInv'
<1>1. /\ set \in Settings /\ area \in Areas /\ text \in TextLines /\ carry \in Carries
      /\ step = "draw" /\ set.variant = "m5" /\ col \in Nat /\ col < Count(set)
      /\ Evaluated /\ (set.cursor < Cols => PictureRight)
  BY DEF DrawingInv, DrawRun
<1>2. UNCHANGED drawVars
  BY DEF DrawRun, drawVars, inputVars
<1> DEFINE found == sameColorCount(set, col)
           rest == Count(set) - col
           count == Min({found, rest})
           colour == ColourOf(eval_attr[CellOf(set, col)])
           bytes == IF set.wide THEN RunBytes(set, col, count) ELSE HalfRunBytes(set, col, count)
           rowBytes == IF set.wide THEN count ELSE (count + 1) \div 2
           w == CellWidth(set)
<1>3. /\ picture' = picture \union Bitmap(bytes, rowBytes, Rows(set), col * w, colour)
      /\ col' = col + found
  BY DEF DrawRun
<1>4. found \in Nat /\ found >= 1 /\ \A k \in 0..(found - 1) :
        col + k < Count(set) => ColourOf(eval_attr[CellOf(set, col + k)]) = colour
  BY <1>1, RunOfOneColour
<1> HIDE DEF found, bytes, rowBytes, colour
<1>5. Count(set) \in Nat /\ rest \in Nat /\ rest >= 1 /\ col + rest = Count(set)
      /\ w \in {4, 8, 16}
  BY <1>1, Sizes
<1>6. /\ count \in 1..rest /\ count <= found
      /\ IF col' <= Count(set) THEN col' = col + count ELSE Count(set) = col + count
  <2> HIDE DEF rest
  <2>1. {found, rest} \in SUBSET Nat /\ {found, rest} # {}
    BY <1>4, <1>5
  <2>2. count \in {found, rest} /\ count <= found /\ count <= rest
    BY <2>1, MinIs
  <2>3. QED
    BY <1>1, <1>3, <1>4, <1>5, <2>2
<1>7. col' \in Nat /\ col \in 0..(Count(set) - 1)
  BY <1>1, <1>3, <1>4, <1>5
<1> HIDE DEF count, w, rest
<1>8. RunOf(col, count, colour)
  BY <1>1, <1>4, <1>5, <1>6 DEF RunOf
<1>9. ASSUME set.cursor < Cols PROVE PictureRight'
  <2>1. Ready /\ PictureRight
    BY <1>1, <1>9 DEF Evaluated, Ready
  <2>2. Bitmap(bytes, rowBytes, Rows(set), col * w, colour) = PixelsFrom(w * col, w * (col + count))
    BY <1>1, <1>6, <1>7, <1>8, <2>1, RunPixels DEF bytes, rowBytes, w, rest
  <2>3. picture' = picture \union PixelsFrom(w * col, w * (col + count))
    BY <1>3, <2>2
  <2>4. \A p \in picture : p[1] \in Nat /\ p[1] < w * col
    BY <1>1, <1>5, <2>1 DEF PictureRight, Edge, w
  <2>5. \A p \in picture : p[1] \notin (w * col)..(w * (col + count) - 1)
    <3> DEFINE a == w * col
               b == w * (col + count) - 1
    <3>1. a \in Nat /\ b \in Int
      BY <1>1, <1>5, <1>6
    <3> HIDE DEF a, b
    <3>2. \A p \in picture : p[1] \notin a..b
      BY <2>4, <3>1 DEF a
    <3>3. QED
      BY <3>2 DEF a, b
  <2>6. QED
    BY <1>1, <1>2, <1>6, <1>7, <2>1, <2>3, <2>5, PictureGrows DEF w, rest
<1>10. /\ set' = set /\ area' = area /\ text' = text /\ carry' = carry /\ step' = step
       /\ Evaluated'
  BY <1>1, <1>2, DrawingKeeps
<1>11. QED
  BY <1>1, <1>7, <1>9, <1>10 DEF DrawingInv

LEMMA DrawCellStep ==
  ASSUME DrawingInv, DrawCell
  PROVE  DrawingInv'
<1>1. /\ set \in Settings /\ area \in Areas /\ text \in TextLines /\ carry \in Carries
      /\ step = "draw" /\ set.variant = "atom" /\ col \in Nat /\ col < Count(set)
      /\ Evaluated /\ (set.cursor < Cols => PictureRight)
  BY DEF DrawingInv, DrawCell
<1>2. UNCHANGED drawVars
  BY DEF DrawCell, drawVars, inputVars
<1> DEFINE j == CellOf(set, col)
           pac == eval_attr[j]
           w == CellWidth(set)
           left == col * w
           Bits(r) == LET bits == Row(textcach[j], pac, set, r)
                      IN IF set.wide THEN wideBit(bits) ELSE bits
           lit == {p \in (0..(w - 1)) \X Rows(set) : w - 1 - p[1] \in Bits(p[2])}
           kept == {p \in picture : p[1] \notin left..(left + w - 1)}
           drawn == {<<left + p[1], p[2], ColourOf(pac)>> : p \in lit}
<1>3. picture' = kept \union drawn /\ col' = col + 1
  BY DEF DrawCell
<1>4. Count(set) \in Nat /\ w \in {8, 16}
  BY <1>1, Sizes
<1>5. col \in 0..(Count(set) - 1) /\ left \in Nat /\ left = w * col /\ left + w = w * (col + 1)
  BY <1>1, <1>4
<1>6. ASSUME set.cursor < Cols PROVE PictureRight'
  <2>1. Ready /\ PictureRight
    BY <1>1, <1>6 DEF Evaluated, Ready
  <2>2. \A x \in 0..(w - 1), r \in Rows(set) :
          w - 1 - x \in Bits(r) <=> PixelLit(<<left + x, r>>)
    BY <1>1, <1>5, <2>1, CellBits
  <2>3. lit = LitFrom(left, w, w)
    <3>1. ASSUME NEW p \in (0..(w - 1)) \X Rows(set)
          PROVE  w - 1 - p[1] \in Bits(p[2]) <=> p[1] < w /\ PixelLit(<<left + p[1], p[2]>>)
      <4>1. p[1] \in 0..(w - 1) /\ p[2] \in Rows(set)
        BY <3>1
      <4> HIDE DEF w, Bits, left
      <4>2. p[1] < w
        BY <1>4, <4>1
      <4>3. QED
        BY <2>2, <4>1, <4>2
    <3> HIDE DEF w, Bits, left
    <3>2. QED
      BY <3>1 DEF LitFrom
  <2>4. OneColour(left, w, ColourOf(pac))
    <3> SUFFICES ASSUME NEW x \in 0..(w - 1)
                 PROVE  ColourOf(eval_attr[PixelCell(set, left + x)]) = ColourOf(pac)
      BY DEF OneColour
    <3>1. (left + x) \div w = col
      BY <1>1, <1>4, <1>5, Divided
    <3>2. PixelCell(set, left + x) = j
      BY <3>1 DEF PixelCell
    <3>3. QED
      BY <3>2
  <2> HIDE DEF lit, left
  <2>5. drawn = DrawnFrom(left, w, w, ColourOf(pac))
    BY <2>3 DEF DrawnFrom
  <2> HIDE DEF drawn, w, pac
  <2>6. drawn = PixelsFrom(left, w * (col + 1))
    BY <1>4, <1>5, <2>4, <2>5, PixelsRight
  <2>7. \A p \in picture : p[1] < w * col => p[1] \notin left..(left + w - 1)
    <3>1. \A p \in picture : p[1] \in Nat
      BY <2>1 DEF PictureRight
    <3>2. \A n \in Nat : n < left => n \notin left..(left + w - 1)
      BY <1>4, <1>5
    <3>3. QED
      BY <1>5, <3>1, <3>2
  <2>8. kept \in SUBSET picture /\ (\A p \in picture : p[1] < w * col => p \in kept)
    BY <2>7
  <2>9. \A p \in kept : p[1] \notin (w * col)..(w * (col + 1) - 1)
    <3>1. (w * col)..(w * (col + 1) - 1) = left..(left + w - 1)
      BY <1>1, <1>4, <1>5
    <3>2. QED
      BY <3>1
  <2>10. picture' = kept \union PixelsFrom(w * col, w * (col + 1))
    BY <1>3, <1>5, <2>6
  <2> HIDE DEF kept
  <2>11. 1 \in 1..(Count(set) - col) /\ col' \in Nat
         /\ IF col' <= Count(set) THEN col' = col + 1 ELSE Count(set) = col + 1
    BY <1>1, <1>3, <1>4
  <2>12. QED
    BY <1>1, <1>2, <1>4, <2>1, <2>8, <2>9, <2>10, <2>11, PictureGrows DEF w
<1>7. col' \in Nat
  BY <1>1, <1>3
<1>8. /\ set' = set /\ area' = area /\ text' = text /\ carry' = carry /\ step' = step
      /\ Evaluated'
  BY <1>1, <1>2, DrawingKeeps
<1>9. QED
  BY <1>1, <1>6, <1>7, <1>8 DEF DrawingInv

\* Nothing that the invariant speaks of changes but the step.
LEMMA PictureKept ==
  ASSUME UNCHANGED <<inputVars, attrcach, textcach, eval_attr, prev, col, picture>>
  PROVE  /\ Evaluated' <=> Evaluated
         /\ PictureRight' <=> PictureRight
         /\ Stale(set)' = Stale(set) /\ Count(set)' = Count(set)
<1>1. UNCHANGED <<set, area, text, carry, attrcach, textcach, eval_attr, prev, col, picture>>
  BY DEF inputVars
<1>2. \A j : CellRef(j)' = CellRef(j)
  BY <1>1 DEF CellRef
<1>3. Evaluated' <=> Evaluated
  BY <1>1, <1>2 DEF Evaluated
<1>4. \A q : PixelLit(q)' <=> PixelLit(q)
  BY <1>1 DEF PixelLit
<1>5. PixelsFrom(0, Edge)' = PixelsFrom(0, Edge) /\ Edge' = Edge /\ Width(set)' = Width(set)
  BY <1>1, <1>4 DEF PixelsFrom, Edge, Width, Count, CellWidth
<1>6. PictureRight' <=> PictureRight
  BY <1>1, <1>5 DEF PictureRight
<1>7. QED
  BY <1>1, <1>3, <1>6

LEMMA DrawnStep ==
  ASSUME DrawingInv, Drawn
  PROVE  DrawingInv'
<1>1. /\ step = "draw" /\ step' = "done" /\ col >= Count(set)
      /\ UNCHANGED <<inputVars, attrcach, textcach, eval_attr, prev, col, picture>>
      /\ UNCHANGED <<set, area, text, carry, col>>
  BY DEF Drawn, inputVars
<1>2. /\ Evaluated' <=> Evaluated
      /\ PictureRight' <=> PictureRight
      /\ Count(set)' = Count(set)
  BY <1>1, PictureKept
<1>3. QED
  BY <1>1, <1>2 DEF DrawingInv

LEMMA DrawingStutter ==
  ASSUME DrawingInv, UNCHANGED vars
  PROVE  DrawingInv'
<1>1. /\ UNCHANGED <<inputVars, attrcach, textcach, eval_attr, prev, col, picture>>
      /\ UNCHANGED <<set, area, text, carry, attrcach, textcach, col, picture, step>>
  BY DEF vars, inputVars
<1>2. /\ Evaluated' <=> Evaluated
      /\ PictureRight' <=> PictureRight
      /\ Stale(set)' = Stale(set) /\ Count(set)' = Count(set)
  BY <1>1, PictureKept
<1>3. QED
  BY <1>1, <1>2 DEF DrawingInv

(***************************************************************************)
(* The inductive invariant of a line on its way to the panel: what the     *)
(* cells are once evaluated, and that what lies left of the next cell to   *)
(* draw is what the line asks for.                                         *)
(***************************************************************************)
THEOREM DrawingRight == Spec => []DrawingInv
<1>1. Init => DrawingInv
  BY InitRight
<1>2. DrawingInv /\ [Next]_vars => DrawingInv'
  <2> SUFFICES ASSUME DrawingInv, [Next]_vars PROVE DrawingInv'
    OBVIOUS
  <2>1. CASE Cache
    BY <2>1, CacheStep
  <2>2. CASE Eval
    BY <2>2, EvalStep
  <2>3. CASE DrawRun
    BY <2>3, DrawRunStep
  <2>4. CASE DrawCell
    BY <2>4, DrawCellStep
  <2>5. CASE Drawn
    BY <2>5, DrawnStep
  <2>6. CASE UNCHANGED vars
    BY <2>6, DrawingStutter
  <2>7. QED
    BY <2>1, <2>2, <2>3, <2>4, <2>5, <2>6 DEF Next
<1>3. QED
  BY <1>1, <1>2, PTL DEF Spec

(***************************************************************************)
(* For every line, whatever it carries over, and every setting: each cell  *)
(* is given the attributes that the pairs in memory say, in any order and  *)
(* with columns repeated or past the line (_n80_attr_cache, _movcolor,     *)
(* _movattr, _n80_eval_attrib).                                            *)
(***************************************************************************)
THEOREM CellsAreRight == Spec => []CellsRight
<1>1. DrawingInv => CellsRight
  BY DEF DrawingInv, Evaluated, CellsRight
<1>2. QED
  BY <1>1, DrawingRight, PTL

(***************************************************************************)
(* What a line carries over to the one below is what its last cell has by  *)
(* the memory, where the line sets anything (_prevcolor and _prevfunc).    *)
(***************************************************************************)
THEOREM CarryOfLastCell == Spec => []CarryIsLastCell
<1>1. DrawingInv => CarryIsLastCell
  <2> SUFFICES ASSUME DrawingInv, step = "draw", Functional(area, set) # {},
                      set.mono \/ Colouring(area, set) # {}
               PROVE  CarryIsLastCell
    BY DEF CarryIsLastCell
  <2> DEFINE last == Cols - 1
             funcs == Functional(area, set)
             colours == Colouring(area, set)
             beforeF == OnLine(area, funcs)
             beforeC == OnLine(area, colours)
             funcCodes == FuncCodes(cache(area), set)
             colourCodes == ColorCodes(cache(area))
  <2>1. /\ set \in Settings /\ area \in AnArea /\ carry \in Carries /\ set.mono \in BOOLEAN
        /\ prev = [color |-> CarriedColor(cache(area), set, carry),
                   func |-> CarriedFunc(cache(area), set, carry)]
    BY DrawingAssumption DEF DrawingInv, Evaluated, AnArea
  <2>2. \A i \in 1..Pairs : cache(area)[i].attr = area[i].attr
    BY <2>1, CacheRight
  <2>3. funcs \in SUBSET (1..Pairs) /\ colours \in SUBSET (1..Pairs)
        /\ Funcs(cache(area), set.mono) = funcs /\ Colours(cache(area), set.mono) = colours
    BY <2>1, <2>2 DEF Funcs, Functional, Colours, Colouring
  <2>4. /\ \A i \in funcs : funcCodes[i] = FuncCode(area[i].attr, set.mono, set.blink)
        /\ \A i \in colours : colourCodes[i] = GRB2RGB(area[i].attr)
    BY <2>2, <2>3 DEF FuncCodes, ColorCodes
  <2>5. /\ beforeF # {} => Max(beforeF) \in funcs
        /\ beforeC # {} => Max(beforeC) \in colours
    <3>1. beforeF \in SUBSET Nat /\ beforeC \in SUBSET Nat /\ Pairs \in Nat
          /\ (\A i \in beforeF : i <= Pairs) /\ (\A i \in beforeC : i <= Pairs)
      BY <2>3, AttribAssumption DEF OnLine
    <3>2. beforeF # {} => Max(beforeF) \in beforeF
      BY <3>1, MaxIs
    <3>3. beforeC # {} => Max(beforeC) \in beforeC
      BY <3>1, MaxIs
    <3>4. QED
      BY <3>2, <3>3 DEF OnLine
  <2>6. prev.func = IF beforeF # {} THEN funcCodes[Max(beforeF)] ELSE carry.func
    <3> HIDE DEF funcs, funcCodes
    <3>1. Carried(cache(area), funcs, funcCodes, carry.func) =
            IF beforeF # {} THEN funcCodes[Max(beforeF)] ELSE carry.func
      BY <2>1, <2>3, CarriedRight
    <3>2. CarriedFunc(cache(area), set, carry) = Carried(cache(area), funcs, funcCodes, carry.func)
      BY <2>3 DEF CarriedFunc, funcCodes
    <3>3. QED
      BY <2>1, <3>1, <3>2
  <2>7. prev.color = IF beforeC # {} THEN colourCodes[Max(beforeC)] ELSE carry.color
    <3> HIDE DEF colours, colourCodes
    <3>1. Carried(cache(area), colours, colourCodes, carry.color) =
            IF beforeC # {} THEN colourCodes[Max(beforeC)] ELSE carry.color
      BY <2>1, <2>3, CarriedRight
    <3>2. CarriedColor(cache(area), set, carry) = Carried(cache(area), colours, colourCodes, carry.color)
      BY <2>3 DEF CarriedColor, colourCodes
    <3>3. QED
      BY <2>1, <3>1, <3>2
  <2>8. FuncRef(area, set, carry, last) = prev.func
    BY <2>4, <2>5, <2>6 DEF FuncRef, OnLine
  <2>9. CASE set.mono
    <3>1. colours = {}
      BY <2>9 DEF Colouring
    <3>2. prev.color = carry.color
      BY <2>7, <3>1 DEF OnLine
    <3>3. ColourRef(area, set, carry, last) = White
      BY <2>9 DEF ColourRef
    <3>4. QED
      BY <2>8, <2>9, <3>2, <3>3 DEF CarryIsLastCell
  <2>10. CASE ~set.mono
    <3>1. ColourRef(area, set, carry, last) = prev.color
      BY <2>4, <2>5, <2>7, <2>10 DEF ColourRef, OnLine
    <3>2. prev = [color |-> prev.color, func |-> prev.func]
      BY <2>1
    <3>3. QED
      BY <2>8, <2>10, <3>1, <3>2 DEF CarryIsLastCell
  <2>11. QED
    BY <2>1, <2>9, <2>10
<1>2. QED
  BY <1>1, DrawingRight, PTL

(***************************************************************************)
(* When a line is drawn, the panel shows it and nothing else: for every    *)
(* font, text, width of line, run of one colour, and panel before it       *)
(* (the drawing functions of n80_attr.cpp and of the Atom's display).      *)
(***************************************************************************)
THEOREM LineIsShown == Spec => []LineShown
<1>1. DrawingInv => LineShown
  <2> SUFFICES ASSUME DrawingInv, step = "done", set.cursor < Cols
               PROVE  picture = PixelsFrom(0, Width(set))
    BY DEF LineShown, PixelsFrom
  <2>1. PictureRight /\ col >= Count(set) /\ set \in Settings /\ col \in Nat
    BY DEF DrawingInv
  <2>2. Count(set) \in Nat /\ Width(set) = Count(set) * CellWidth(set)
    BY <2>1, Sizes
  <2>3. Edge = Width(set)
    BY <2>1, <2>2 DEF Edge
  <2>4. {p \in picture : p[1] < Width(set)} = PixelsFrom(0, Width(set))
    BY <2>1, <2>3 DEF PictureRight
  <2>5. \A p \in picture : p[1] < Width(set)
    BY <2>1 DEF PictureRight
  <2>6. QED
    BY <2>4, <2>5
<1>2. QED
  BY <1>1, DrawingRight, PTL
=============================================================================

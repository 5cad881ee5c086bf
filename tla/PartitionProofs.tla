--------------------------- MODULE PartitionProofs ---------------------------
(* Theorems about SeqlenBalancing, for any rows, any lengths and any number of *)
(* parts: the largest differencing method shares out every row exactly once,   *)
(* however the heap orders its states, and so do the partitions, the balanced  *)
(* batch and the micro batches made with it; restoring them gives the rows     *)
(* back in their order.                                                        *)
EXTENDS SeqlenBalancing, FiniteSetTheorems, FunctionTheorems, SequenceTheorems,
        NaturalsInduction, TLAPS

-----------------------------------------------------------------------------
(* Sorting *)

\* A set of naturals has a least element.
LEMMA LeastExists ==
  ASSUME NEW S \in SUBSET Nat, S # {}
  PROVE  \E i \in S : \A j \in S : i <= j
<1> DEFINE R == OpToRel(<, Nat)
<1>1. IsWellFoundedOn(R, Nat)
  BY NatLessThanWellFounded
<1>2. \A x, y \in Nat : x < y => <<x, y>> \in R
  BY DEF OpToRel
<1> HIDE DEF R
<1>3. PICK x \in S : \A y \in S : ~(<<y, x>> \in R)
  BY <1>1, WFMin
<1>4. ASSUME NEW y \in S PROVE x <= y
  <2>1. x \in Nat /\ y \in Nat
    OBVIOUS
  <2>2. ~(y < x)
    BY <2>1, <1>2, <1>3
  <2> QED BY <2>1, <2>2
<1> QED BY <1>4

\* Induction over the naturals, for a set
LEMMA EachNatural ==
  ASSUME NEW S, 0 \in S, \A m \in Nat : m \in S => m + 1 \in S
  PROVE  Nat \subseteq S
<1> DEFINE Bad == Nat \ S
<1>1. ASSUME Bad # {} PROVE FALSE
  <2>1. PICK m \in Bad : \A j \in Bad : m <= j
    BY <1>1, LeastExists
  <2>2. m # 0 /\ m \in Nat
    BY <2>1
  <2>3. m - 1 \in Nat /\ m - 1 \notin Bad
    BY <2>1, <2>2
  <2>4. (m - 1) + 1 \in S
    BY <2>3
  <2> QED
    BY <2>1, <2>2, <2>4
<1> QED
  BY <1>1

\* A function on 1..n is a sequence.
LEMMA FunctionLength ==
  ASSUME NEW n \in Nat, NEW T, NEW f \in [1..n -> T]
  PROVE  f \in Seq(T) /\ Len(f) = n
<1>1. f \in Seq(T)
  BY SeqDef
<1>2. DOMAIN f = 1..Len(f) /\ Len(f) \in Nat
  BY <1>1, LenProperties
<1>3. DOMAIN f = 1..n
  OBVIOUS
<1>4. PICK l \in Nat : l = Len(f)
  BY <1>2
<1>5. 1..l = 1..n
  BY <1>2, <1>3, <1>4
<1>6. l = n
  <2>1. ASSUME l < n PROVE FALSE
    <3>1. n \in 1..n /\ n \notin 1..l
      BY <2>1
    <3> QED
      BY <1>5, <3>1
  <2>2. ASSUME n < l PROVE FALSE
    <3>1. l \in 1..l /\ l \notin 1..n
      BY <2>2
    <3> QED
      BY <1>5, <3>1
  <2> QED
    BY <2>1, <2>2
<1> QED
  BY <1>1, <1>4, <1>6

\* The places of a linear order, given by what is up to each position
LinearOrder(n, upto) ==
  /\ \A i \in 1..n : i \in upto[i]
  /\ \A i, j \in 1..n : i \in upto[j] \/ j \in upto[i]
  /\ \A i, j \in 1..n : i \in upto[j] /\ j \in upto[i] => i = j
  /\ \A i, j, k \in 1..n : i \in upto[j] /\ j \in upto[k] => i \in upto[k]
SizesOf(n, upto) == [j \in 1..n |-> Cardinality(upto[j])]

\* Counting what is up to each position numbers the positions in their order.
LEMMA Positions ==
  ASSUME NEW n \in Nat, NEW upto \in [1..n -> SUBSET (1..n)], LinearOrder(n, upto)
  PROVE  /\ SizesOf(n, upto) \in Bijection(1..n, 1..n)
         /\ \A i, j \in 1..n : SizesOf(n, upto)[i] < SizesOf(n, upto)[j] => i \in upto[j]
<1>p. PICK place : place = SizesOf(n, upto)
  OBVIOUS
<1>s. place = [j \in 1..n |-> Cardinality(upto[j])]
  BY <1>p DEF SizesOf
<1>w. /\ \A i \in 1..n : i \in upto[i]
      /\ \A i, j \in 1..n : i \in upto[j] \/ j \in upto[i]
      /\ \A i, j \in 1..n : i \in upto[j] /\ j \in upto[i] => i = j
      /\ \A i, j, k \in 1..n : i \in upto[j] /\ j \in upto[k] => i \in upto[k]
  BY DEF LinearOrder
<1>0. IsFiniteSet(1..n) /\ Cardinality(1..n) = n
  BY FS_Interval
<1>1. ASSUME NEW j \in 1..n
      PROVE  IsFiniteSet(upto[j]) /\ Cardinality(upto[j]) \in 1..n
  <2>1. upto[j] \in SUBSET (1..n) /\ j \in upto[j]
    BY <1>w
  <2>2. IsFiniteSet(upto[j]) /\ Cardinality(upto[j]) <= n
    BY <1>0, <2>1, FS_Subset
  <2>3. Cardinality(upto[j]) \in Nat /\ Cardinality(upto[j]) # 0
    BY <2>1, <2>2, FS_CardinalityType, FS_EmptySet
  <2> QED
    BY <2>2, <2>3
<1>2. ASSUME NEW i \in 1..n, NEW j \in 1..n, i \in upto[j], i # j
      PROVE  Cardinality(upto[i]) < Cardinality(upto[j])
  <2>1. upto[i] \in SUBSET upto[j]
    BY <1>2, <1>w
  <2>2. j \in upto[j] /\ j \notin upto[i]
    BY <1>2, <1>w
  <2>3. Cardinality(upto[i]) <= Cardinality(upto[j]) /\ Cardinality(upto[i]) # Cardinality(upto[j])
    BY <1>1, <2>1, <2>2, FS_Subset
  <2>4. Cardinality(upto[i]) \in Int /\ Cardinality(upto[j]) \in Int
    BY <1>1
  <2> QED
    BY <2>3, <2>4
<1>4. place \in [1..n -> 1..n]
  BY <1>1, <1>s
<1>5. \A i, j \in 1..n : place[i] = place[j] => i = j
  <2> SUFFICES ASSUME NEW i \in 1..n, NEW j \in 1..n, place[i] = place[j], i # j PROVE FALSE
    OBVIOUS
  <2>1. Cardinality(upto[i]) = Cardinality(upto[j])
    BY <1>s
  <2> QED
    BY SMTT(30), <1>1, <1>2, <1>w, <2>1
<1>6. place \in Injection(1..n, 1..n)
  BY <1>4, <1>5, Fun_IsInj
<1>7. place \in Surjection(1..n, 1..n)
  BY <1>0, <1>6, FS_Injection
<1>8. ASSUME NEW i \in 1..n, NEW j \in 1..n, place[i] < place[j] PROVE i \in upto[j]
  <2>1. ASSUME j \in upto[i], i # j PROVE FALSE
    <3>1. Cardinality(upto[j]) < Cardinality(upto[i])
      BY <1>2, <2>1
    <3>2. Cardinality(upto[i]) < Cardinality(upto[j])
      BY <1>8, <1>s
    <3> QED
      BY <1>1, <3>1, <3>2
  <2> QED
    BY <2>1, <1>w
<1> QED
  BY <1>6, <1>7, <1>8, <1>p DEF Bijection

\* What is read in the order of the places
At(n, place, m) == CHOOSE j \in 1..n : place[j] = m
Read(n, place) == [m \in 1..n |-> At(n, place, m)]

\* Reading the places in turn is a permutation.
LEMMA ReadInOrder ==
  ASSUME NEW n \in Nat, NEW place \in Bijection(1..n, 1..n),
         NEW f, f = Read(n, place)
  PROVE  /\ f \in Bijection(1..n, 1..n) /\ f \in [1..n -> 1..n]
         /\ \A m \in 1..n : place[f[m]] = m
<1>1. /\ place \in [1..n -> 1..n]
      /\ \A i, j \in 1..n : place[i] = place[j] => i = j
      /\ \A m \in 1..n : \E j \in 1..n : place[j] = m
  BY ZenonT(60), Fun_BijectionProperties
<1>2. \A m \in 1..n : f[m] \in 1..n /\ place[f[m]] = m
  BY <1>1 DEF Read, At
<1>3. f \in [1..n -> 1..n]
  BY <1>2 DEF Read
<1>4. \A i, j \in 1..n : f[i] = f[j] => i = j
  BY <1>2
<1>5. ASSUME NEW j \in 1..n PROVE f[place[j]] = j
  BY <1>1, <1>2
<1>6. \A t \in 1..n : \E s \in 1..n : f[s] = t
  BY <1>1, <1>5
<1>7. f \in Injection(1..n, 1..n) /\ f \in Surjection(1..n, 1..n)
  BY <1>3, <1>4, <1>6, Fun_IsInj, Fun_IsSurj
<1> QED
  BY <1>2, <1>3, <1>7 DEF Bijection

\* SortedBy, given which positions of the sequence hold elements that are Before others
UpTo(n, B) == [j \in 1..n |-> {i \in 1..n : i \in B[j] \/ (i <= j /\ j \notin B[i])}]
PlaceIn(n, B) ==
  [j \in 1..n |-> Cardinality({i \in 1..n : i \in B[j] \/ (i <= j /\ j \notin B[i])})]
InPlace(s, n, place) == SubSeq([m \in 1..n |-> s[At(n, place, m)]], 1, n)

WeakOrder(n, B) ==
  /\ \A i, j \in 1..n : i \in B[j] => j \notin B[i]
  /\ \A i, j, k \in 1..n : i \in B[k] => i \in B[j] \/ j \in B[k]
SortedTo(q, s, n, B) ==
  \E f \in Bijection(1..n, 1..n) :
    /\ q = [m \in 1..n |-> s[f[m]]]
    /\ \A i, j \in 1..n : i < j => f[j] \notin B[f[i]]

\* What SortedBy returns: the elements of s, none behind one it is before
LEMMA Sorting ==
  ASSUME NEW n \in Nat, NEW T, NEW s \in [1..n -> T], NEW B, WeakOrder(n, B)
  PROVE  SortedTo(InPlace(s, n, PlaceIn(n, B)), s, n, B)
<1>p. PICK place : place = PlaceIn(n, B)
  OBVIOUS
<1>q. PICK q : q = InPlace(s, n, place)
  OBVIOUS
<1>w. /\ \A i, j \in 1..n : i \in B[j] => j \notin B[i]
      /\ \A i, j, k \in 1..n : i \in B[k] => i \in B[j] \/ j \in B[k]
  BY DEF WeakOrder
<1>0. PICK upto : upto = UpTo(n, B)
  OBVIOUS
<1>1. upto \in [1..n -> SUBSET (1..n)]
  BY <1>0 DEF UpTo
<1>2. \A i, j \in 1..n :
        /\ (i \in B[j] \/ (i <= j /\ j \notin B[i])) => i \in upto[j]
        /\ i \in upto[j] => (i \in B[j] \/ (i <= j /\ j \notin B[i]))
  BY <1>0 DEF UpTo
<1>3. place = SizesOf(n, upto)
  BY <1>0, <1>p DEF UpTo, PlaceIn, SizesOf
<1>4. \A i \in 1..n : i \in upto[i]
  BY <1>2, <1>w
<1>5. \A i, j \in 1..n : i \in upto[j] \/ j \in upto[i]
  BY <1>2, <1>w
<1>6. \A i, j \in 1..n : i \in upto[j] /\ j \in upto[i] => i = j
  BY <1>2, <1>w
<1>7. \A i, j, k \in 1..n : i \in upto[j] /\ j \in upto[k] => i \in upto[k]
  <2> SUFFICES ASSUME NEW i \in 1..n, NEW j \in 1..n, NEW k \in 1..n,
                      i \in upto[j], j \in upto[k], i \notin upto[k]
               PROVE  FALSE
    OBVIOUS
  <2>1. j \notin B[i] /\ k \notin B[j]
    BY <1>2, <1>w
  <2>2. k \notin B[i] /\ i \notin B[k]
    BY <1>2, <1>w, <2>1
  <2>3. i <= j /\ j <= k
    BY <1>2, <1>w, <2>1, <2>2
  <2> QED
    BY <1>2, <1>w, <2>2, <2>3
<1>8. /\ place \in Bijection(1..n, 1..n)
      /\ \A i, j \in 1..n : place[i] < place[j] => i \in upto[j]
  <2>1. LinearOrder(n, upto)
    BY <1>4, <1>5, <1>6, <1>7 DEF LinearOrder
  <2> QED
    BY <1>1, <1>3, <2>1, Positions
<1>10. PICK f : f = Read(n, place)
  OBVIOUS
<1>9. f \in Bijection(1..n, 1..n) /\ f \in [1..n -> 1..n] /\ \A m \in 1..n : place[f[m]] = m
  BY <1>8, <1>10, ReadInOrder
<1>11. \A m \in 1..n : f[m] = At(n, place, m)
  BY <1>10 DEF Read
<1>12. q = [m \in 1..n |-> s[f[m]]]
  <2> DEFINE g == [m \in 1..n |-> s[f[m]]]
  <2>1. g \in Seq(T) /\ Len(g) = n
    BY <1>9
  <2> DEFINE h == [m \in 1..n |-> s[At(n, place, m)]]
  <2>4. ASSUME NEW m \in 1..n PROVE h[m] = g[m]
    BY <1>11
  <2>2. h = g
    BY <2>4, Zenon
  <2> HIDE DEF g
  <2>3. SubSeq(g, 1, n) = g
    BY <2>1, SubSeqFull
  <2> QED
    BY <1>q, <2>2, <2>3, Zenon DEF g, InPlace
<1>13. ASSUME NEW i \in 1..n, NEW j \in 1..n, i < j PROVE f[j] \notin B[f[i]]
  <2>1. f[i] \in 1..n /\ f[j] \in 1..n /\ place[f[i]] < place[f[j]]
    BY <1>9, <1>13
  <2>2. f[i] \in upto[f[j]]
    BY <1>8, <2>1
  <2> QED
    BY <1>2, <1>w, <2>1, <2>2
<1> QED
  BY <1>9, <1>12, <1>13, <1>p, <1>q DEF SortedTo

PartType(n) == [sum : Nat, rows : Seq(1..n)]

\* Larger compares sums, then numbers of rows, then the first rows
LEMMA LargerKeys ==
  ASSUME NEW n \in Nat, NEW p \in PartType(n), NEW q \in PartType(n), NEW a, NEW b,
         a = IF p.rows = <<>> THEN 0 ELSE p.rows[1],
         b = IF q.rows = <<>> THEN 0 ELSE q.rows[1]
  PROVE  /\ a \in Nat /\ b \in Nat
         /\ Len(p.rows) \in Nat /\ Len(q.rows) \in Nat
         /\ p.sum \in Nat /\ q.sum \in Nat
         /\ Larger(p, q) =>
              \/ p.sum > q.sum
              \/ p.sum = q.sum /\ Len(p.rows) > Len(q.rows)
              \/ p.sum = q.sum /\ Len(p.rows) = Len(q.rows) /\ a > b
         /\ (\/ p.sum > q.sum
             \/ p.sum = q.sum /\ Len(p.rows) > Len(q.rows)
             \/ p.sum = q.sum /\ Len(p.rows) = Len(q.rows) /\ a > b)
            => Larger(p, q)
<1>1. p.rows \in Seq(1..n) /\ q.rows \in Seq(1..n) /\ p.sum \in Nat /\ q.sum \in Nat
  BY DEF PartType
<1>2. \A s \in Seq(1..n) : Len(s) \in Nat /\ (s = <<>> <=> Len(s) = 0) /\ (s # <<>> => s[1] \in 1..n)
  OBVIOUS
<1>3. a \in Nat /\ b \in Nat
  BY SMTT(30), <1>1, <1>2
<1>4. CASE Len(p.rows) # Len(q.rows)
  BY <1>1, <1>2, <1>3, <1>4 DEF Larger
<1>5. CASE Len(p.rows) = Len(q.rows) /\ p.rows = <<>>
  BY <1>1, <1>2, <1>3, <1>5 DEF Larger
<1>6. CASE Len(p.rows) = Len(q.rows) /\ p.rows # <<>>
  <2>1. a = p.rows[1] /\ b = q.rows[1]
    BY <1>1, <1>2, <1>6
  <2> QED
    BY <1>1, <1>2, <1>3, <1>6, <2>1 DEF Larger
<1> QED
  BY <1>4, <1>5, <1>6

FirstRow(p) == IF p.rows = <<>> THEN 0 ELSE p.rows[1]

\* Larger is a weak order.
LEMMA LargerOrders ==
  ASSUME NEW n \in Nat
  PROVE  /\ \A p, q \in PartType(n) : Larger(p, q) => ~Larger(q, p)
         /\ \A p, q, r \in PartType(n) : Larger(p, r) => Larger(p, q) \/ Larger(q, r)
<1> DEFINE Above(a1, a2, a3, b1, b2, b3) ==
       a1 > b1 \/ (a1 = b1 /\ a2 > b2) \/ (a1 = b1 /\ a2 = b2 /\ a3 > b3)
<1>1. ASSUME NEW p \in PartType(n), NEW q \in PartType(n)
      PROVE  /\ FirstRow(p) \in Nat /\ FirstRow(q) \in Nat
             /\ Len(p.rows) \in Nat /\ Len(q.rows) \in Nat
             /\ p.sum \in Nat /\ q.sum \in Nat
             /\ Larger(p, q) =>
                  Above(p.sum, Len(p.rows), FirstRow(p), q.sum, Len(q.rows), FirstRow(q))
             /\ Above(p.sum, Len(p.rows), FirstRow(p), q.sum, Len(q.rows), FirstRow(q))
                  => Larger(p, q)
  <2>1. FirstRow(p) = (IF p.rows = <<>> THEN 0 ELSE p.rows[1])
        /\ FirstRow(q) = (IF q.rows = <<>> THEN 0 ELSE q.rows[1])
    BY DEF FirstRow
  <2> QED
    BY <2>1, LargerKeys
<1>2. \A a1, a2, a3, b1, b2, b3 \in Nat :
         Above(a1, a2, a3, b1, b2, b3) => ~Above(b1, b2, b3, a1, a2, a3)
  OBVIOUS
<1>3. \A a1, a2, a3, b1, b2, b3, c1, c2, c3 \in Nat :
         Above(a1, a2, a3, c1, c2, c3) =>
           Above(a1, a2, a3, b1, b2, b3) \/ Above(b1, b2, b3, c1, c2, c3)
  OBVIOUS
<1> HIDE DEF Above
<1>4. ASSUME NEW p \in PartType(n), NEW q \in PartType(n), Larger(p, q)
      PROVE  ~Larger(q, p)
  BY <1>1, <1>2, <1>4
<1>5. ASSUME NEW p \in PartType(n), NEW q \in PartType(n), NEW r \in PartType(n), Larger(p, r)
      PROVE  Larger(p, q) \/ Larger(q, r)
  <2>1. Above(p.sum, Len(p.rows), FirstRow(p), r.sum, Len(r.rows), FirstRow(r))
    BY <1>1, <1>5
  <2>2. \/ Above(p.sum, Len(p.rows), FirstRow(p), q.sum, Len(q.rows), FirstRow(q))
        \/ Above(q.sum, Len(q.rows), FirstRow(q), r.sum, Len(r.rows), FirstRow(r))
    BY <1>1, <1>3, <2>1
  <2> QED
    BY <1>1, <2>2
<1> QED
  BY <1>4, <1>5

\* State.__init__: the parts of a state, the larger ones first
LEMMA OrderedIs ==
  ASSUME NEW n \in Nat, NEW parts \in Seq(PartType(n))
  PROVE  \E f \in Bijection(1..Len(parts), 1..Len(parts)) :
           /\ Ordered(parts) = [m \in 1..Len(parts) |-> parts[f[m]]]
           /\ \A i, j \in 1..Len(parts) : i < j => ~Larger(parts[f[j]], parts[f[i]])
<1>1. PICK B : B = [j \in 1..Len(parts) |-> {i \in 1..Len(parts) : Larger(parts[i], parts[j])}]
  OBVIOUS
<1>2. \A i, j \in 1..Len(parts) : i \in B[j] <=> Larger(parts[i], parts[j])
  BY <1>1
<1>5. Len(parts) \in Nat /\ parts \in [1..Len(parts) -> PartType(n)]
  BY LenProperties
<1>3. \A i, j \in 1..Len(parts) : i \in B[j] => j \notin B[i]
  BY <1>2, <1>5, LargerOrders
<1>4. \A i, j, m \in 1..Len(parts) : i \in B[m] => i \in B[j] \/ j \in B[m]
  BY <1>2, <1>5, LargerOrders
<1>6. Ordered(parts) = InPlace(parts, Len(parts), PlaceIn(Len(parts), B))
  <2> DEFINE place == [j \in 1..Len(parts) |-> Cardinality({i \in 1..Len(parts) :
                Larger(parts[i], parts[j]) \/ (i <= j /\ ~Larger(parts[j], parts[i]))})]
  <2>1. ASSUME NEW j \in 1..Len(parts)
        PROVE  {i \in 1..Len(parts) : Larger(parts[i], parts[j]) \/ (i <= j /\ ~Larger(parts[j], parts[i]))}
               = {i \in 1..Len(parts) : i \in B[j] \/ (i <= j /\ j \notin B[i])}
    BY <1>2
  <2>2. place = PlaceIn(Len(parts), B)
    BY <2>1, Zenon DEF PlaceIn
  <2>3. Ordered(parts) = InPlace(parts, Len(parts), place)
    BY Zenon DEF Ordered, SortedBy, InPlace, At
  <2> QED
    BY <2>2, <2>3, Zenon
<1>7. SortedTo(Ordered(parts), parts, Len(parts), B)
  <2>1. WeakOrder(Len(parts), B)
    BY <1>3, <1>4 DEF WeakOrder
  <2> QED
    BY <1>5, <1>6, <2>1, Sorting
<1>8. PICK f \in Bijection(1..Len(parts), 1..Len(parts)) :
           /\ Ordered(parts) = [m \in 1..Len(parts) |-> parts[f[m]]]
           /\ \A i, j \in 1..Len(parts) : i < j => f[j] \notin B[f[i]]
  BY <1>7 DEF SortedTo
<1>9. f \in [1..Len(parts) -> 1..Len(parts)]
  BY Fun_BijectionProperties
<1>10. \A i, j \in 1..Len(parts) : i < j => ~Larger(parts[f[j]], parts[f[i]])
  BY <1>2, <1>8, <1>9
<1> QED
  BY <1>8, <1>10

-----------------------------------------------------------------------------
(* Sums *)

SumsTo(work, rows, f) ==
  f = [i \in 0..Len(rows) |-> IF i = 0 THEN 0 ELSE f[i - 1] + work[rows[i]]]

\* The running sums of the work of rows
LEMMA SumsExist ==
  ASSUME NEW work, NEW rows, Len(rows) \in Nat
  PROVE  \E f : SumsTo(work, rows, f)
<1> DEFINE Upto(m, f) == f = [i \in 0..m |-> IF i = 0 THEN 0 ELSE f[i - 1] + work[rows[i]]]
           S == {m \in Nat : \E f : Upto(m, f)}
<1>1. 0 \in S
  <2> DEFINE f == [i \in 0..0 |-> 0]
  <2>1. f = [i \in 0..0 |-> IF i = 0 THEN 0 ELSE f[i - 1] + work[rows[i]]]
    OBVIOUS
  <2> QED
    BY <2>1
<1>2. ASSUME NEW m \in Nat, m \in S PROVE m + 1 \in S
  <2>1. PICK f : Upto(m, f)
    BY <1>2
  <2> DEFINE g == [i \in 0..(m + 1) |-> IF i = m + 1 THEN f[m] + work[rows[m + 1]] ELSE f[i]]
  <2>2. \A i \in 0..m : f[i] = IF i = 0 THEN 0 ELSE f[i - 1] + work[rows[i]]
    BY <2>1, Zenon
  <2>3. ASSUME NEW i \in 0..(m + 1) PROVE g[i] = IF i = 0 THEN 0 ELSE g[i - 1] + work[rows[i]]
    <3>1. CASE i = m + 1
      BY <3>1
    <3>2. CASE i # m + 1
      <4>1. i \in 0..m /\ (i # 0 => i - 1 \in 0..m /\ i - 1 # m + 1)
        BY <3>2
      <4>2. g[i] = f[i] /\ (i # 0 => g[i - 1] = f[i - 1])
        BY <3>2, <4>1
      <4> HIDE DEF g
      <4> QED
        BY <2>2, <4>1, <4>2
    <3> QED
      BY <3>1, <3>2
  <2>4. g = [i \in 0..(m + 1) |-> g[i]]
    OBVIOUS
  <2> HIDE DEF g
  <2>5. g = [i \in 0..(m + 1) |-> IF i = 0 THEN 0 ELSE g[i - 1] + work[rows[i]]]
    BY <2>3, <2>4
  <2> QED
    BY <2>5
<1> HIDE DEF S
<1>3. Nat \subseteq S
  BY <1>1, <1>2, EachNatural
<1> QED
  BY <1>3 DEF S, SumsTo

\* Total adds the work of the rows one after another
LEMMA TotalIs ==
  ASSUME NEW n \in Nat, NEW work \in [1..n -> Int], NEW rows \in Seq(1..n)
  PROVE  \E f \in [0..Len(rows) -> Int] :
           /\ f[0] = 0
           /\ \A i \in 1..Len(rows) : f[i] = f[i - 1] + work[rows[i]]
           /\ Total(work, rows) = f[Len(rows)]
<1>0. Len(rows) \in Nat /\ \A i \in 1..Len(rows) : rows[i] \in 1..n
  OBVIOUS
<1>1. \E f : SumsTo(work, rows, f)
  BY <1>0, SumsExist
<1> DEFINE f == CHOOSE f : SumsTo(work, rows, f)
<1>2. SumsTo(work, rows, f)
  BY <1>1, Zenon
<1>3. Total(work, rows) = f[Len(rows)]
  BY Zenon DEF Total, SumsTo
<1> HIDE DEF f
<1>4. \A i \in 0..Len(rows) : f[i] = IF i = 0 THEN 0 ELSE f[i - 1] + work[rows[i]]
  BY <1>2, Zenon DEF SumsTo
<1>5. f[0] = 0 /\ \A i \in 1..Len(rows) : f[i] = f[i - 1] + work[rows[i]]
  BY <1>0, <1>4
<1>6. \A i \in 0..Len(rows) : f[i] \in Int
  <2> DEFINE S == {m \in Nat : m <= Len(rows) => f[m] \in Int}
  <2>1. 0 \in S
    BY <1>0, <1>5
  <2>2. ASSUME NEW m \in Nat, m \in S PROVE m + 1 \in S
    <3> SUFFICES ASSUME m + 1 <= Len(rows) PROVE f[m + 1] \in Int
      OBVIOUS
    <3>1. m + 1 \in 1..Len(rows) /\ f[m] \in Int
      BY <1>0, <2>2
    <3>2. rows[m + 1] \in 1..n
      BY <1>0, <3>1
    <3>3. work[rows[m + 1]] \in Int /\ f[m + 1] = f[m] + work[rows[m + 1]]
      BY <1>5, <3>1, <3>2
    <3> QED
      BY SMTT(30), <3>1, <3>3
  <2> HIDE DEF S
  <2>3. Nat \subseteq S
    BY <2>1, <2>2, EachNatural
  <2> QED
    BY <1>0, <2>3 DEF S
<1>7. f = [i \in 0..Len(rows) |-> f[i]]
  BY <1>2, Zenon DEF SumsTo
<1>8. f \in [0..Len(rows) -> Int]
  BY <1>6, <1>7
<1> QED
  BY <1>3, <1>5, <1>8

\* A sum is a natural, and positive when there are rows and each has some work.
LEMMA TotalType ==
  ASSUME NEW n \in Nat, NEW work \in [1..n -> Nat], NEW rows \in Seq(1..n)
  PROVE  /\ Total(work, rows) \in Nat
         /\ rows = <<>> => Total(work, rows) = 0
         /\ (\A r \in 1..n : work[r] > 0) /\ rows # <<>> => Total(work, rows) > 0
<1>1. PICK f \in [0..Len(rows) -> Int] :
           /\ f[0] = 0
           /\ \A i \in 1..Len(rows) : f[i] = f[i - 1] + work[rows[i]]
           /\ Total(work, rows) = f[Len(rows)]
  <2>1. work \in [1..n -> Int]
    OBVIOUS
  <2> QED
    BY <2>1, TotalIs
<1>2. Len(rows) \in Nat /\ (rows = <<>> <=> Len(rows) = 0)
  OBVIOUS
<1>5. \A i \in 0..Len(rows) : f[i] \in Int
  OBVIOUS
<1>4. \A i \in 0..Len(rows) : f[i] >= 0
  <2> DEFINE S == {m \in Nat : m <= Len(rows) => f[m] >= 0}
  <2>1. 0 \in S
    BY <1>1
  <2>2. ASSUME NEW m \in Nat, m \in S PROVE m + 1 \in S
    <3> SUFFICES ASSUME m + 1 <= Len(rows) PROVE f[m + 1] >= 0
      OBVIOUS
    <3>0. m \in 0..Len(rows) /\ m + 1 \in 1..Len(rows) /\ m = (m + 1) - 1
      BY <1>2
    <3>4. m <= Len(rows)
      BY <3>0
    <3>5. f[m] >= 0
      BY <2>2, <3>4
    <3>1. m + 1 \in 1..Len(rows) /\ f[m] >= 0 /\ f[m] \in Int
      BY <1>5, <3>0, <3>5
    <3>2. rows[m + 1] \in 1..n
      BY <3>1
    <3>3. work[rows[m + 1]] \in Nat /\ f[m + 1] = f[m] + work[rows[m + 1]]
      BY <1>1, <3>0, <3>1, <3>2
    <3> QED
      BY SMTT(30), <3>1, <3>3
  <2> HIDE DEF S
  <2>3. Nat \subseteq S
    BY <2>1, <2>2, EachNatural
  <2> QED
    BY <1>2, <2>3 DEF S
<1>3. ASSUME \A r \in 1..n : work[r] > 0, rows # <<>> PROVE Total(work, rows) > 0
  <2>1. Len(rows) \in 1..Len(rows) /\ Len(rows) - 1 \in 0..Len(rows)
    BY <1>2, <1>3
  <2>2. rows[Len(rows)] \in 1..n
    BY <2>1
  <2>3. f[Len(rows)] = f[Len(rows) - 1] + work[rows[Len(rows)]] /\ f[Len(rows) - 1] \in Nat
    <3>1. f[Len(rows)] = f[Len(rows) - 1] + work[rows[Len(rows)]]
      BY <1>1, <2>1
    <3>2. f[Len(rows) - 1] \in Int /\ f[Len(rows) - 1] >= 0
      BY <1>4, <1>5, <2>1
    <3> QED
      BY <3>1, <3>2
  <2>4. work[rows[Len(rows)]] > 0 /\ work[rows[Len(rows)]] \in Nat
    BY <1>3, <2>2
  <2>5. f[Len(rows)] > 0
    BY <2>3, <2>4
  <2> QED
    BY <1>1, <2>5
<1> QED
  BY <1>1, <1>2, <1>3, <1>4

-----------------------------------------------------------------------------
(* Shares of rows 1..n: k sequences of rows *)

\* Row r is in one of the shares.
Holds(S, r) == \E i \in DOMAIN S : \E a \in 1..Len(S[i]) : S[i][a] = r
\* No row is twice in them.
Once(S) ==
  \A i, j \in DOMAIN S : \A a \in 1..Len(S[i]), b \in 1..Len(S[j]) :
    S[i][a] = S[j][b] => i = j /\ a = b
\* As many rows in each, or one row at most while some are empty
Even(S, equal) ==
  IF equal THEN \A i, j \in DOMAIN S : Len(S[i]) = Len(S[j])
  ELSE (\E i \in DOMAIN S : Len(S[i]) = 0) => \A i \in DOMAIN S : Len(S[i]) <= 1
Rowed(S, n, k) == S \in [1..k -> Seq(1..n)]
Shares(S, n, k, equal) ==
  /\ Rowed(S, n, k)
  /\ \E i \in 1..k : Len(S[i]) > 0
  /\ Once(S)
  /\ Even(S, equal)
\* The empty ones are the last.
Falling(S) == \A i, j \in DOMAIN S : i < j /\ Len(S[i]) = 0 => Len(S[j]) = 0

\* The shares are sequences of rows.
LEMMA ShareTypes ==
  ASSUME NEW n \in Nat, NEW k \in Nat, NEW S, Rowed(S, n, k)
  PROVE  /\ DOMAIN S = 1..k
         /\ \A i \in 1..k : Len(S[i]) \in Nat /\ S[i] \in Seq(1..n)
BY LenProperties DEF Rowed

\* Once, for one row in two places
LEMMA OnceAt ==
  ASSUME NEW S, Once(S), NEW i \in DOMAIN S, NEW j \in DOMAIN S,
         NEW a \in 1..Len(S[i]), NEW b \in 1..Len(S[j]), S[i][a] = S[j][b]
  PROVE  i = j /\ a = b
BY DEF Once

\* What stands somewhere in the shares is held.
LEMMA HoldsAt ==
  ASSUME NEW S, NEW i \in DOMAIN S, NEW a \in 1..Len(S[i]), NEW r, r = S[i][a]
  PROVE  Holds(S, r)
BY DEF Holds

\* In another order
Moved(U, S, f, k) ==
  /\ f \in Bijection(1..k, 1..k)
  /\ \A i \in 1..k : U[i] = S[f[i]]

\* The facts of a bijection, for shares in another order
LEMMA MovedAt ==
  ASSUME NEW k \in Nat, NEW U, NEW S, NEW f, Moved(U, S, f, k)
  PROVE  /\ \A i \in 1..k : f[i] \in 1..k /\ U[i] = S[f[i]]
         /\ \A i, j \in 1..k : f[i] = f[j] => i = j
         /\ \A m \in 1..k : \E i \in 1..k : f[i] = m
<1>1. PICK g \in Bijection(1..k, 1..k) : g = f
  BY DEF Moved
<1>2. g \in [1..k -> 1..k]
  BY ZenonT(60), Fun_BijectionProperties
<1>3. \A i, j \in 1..k : g[i] = g[j] => i = j
  BY ZenonT(60), Fun_BijectionProperties
<1>4. \A m \in 1..k : \E i \in 1..k : g[i] = m
  BY ZenonT(60), Fun_BijectionProperties
<1> QED
  BY <1>1, <1>2, <1>3, <1>4 DEF Moved

\* Shares in another order are shares of the same rows.
LEMMA SharesMoved ==
  ASSUME NEW n \in Nat, NEW k \in Nat, NEW equal, NEW S, Shares(S, n, k, equal),
         NEW U, Rowed(U, n, k), NEW f, Moved(U, S, f, k)
  PROVE  /\ Shares(U, n, k, equal)
         /\ \A r : Holds(U, r) <=> Holds(S, r)
<1>1. Rowed(S, n, k) /\ Once(S) /\ Even(S, equal)
  BY DEF Shares
<1>2. DOMAIN S = 1..k /\ DOMAIN U = 1..k
  BY <1>1, ShareTypes
<1>3. /\ \A i \in 1..k : f[i] \in 1..k /\ U[i] = S[f[i]]
      /\ \A i, j \in 1..k : f[i] = f[j] => i = j
      /\ \A m \in 1..k : \E i \in 1..k : f[i] = m
  BY MovedAt
<1>4. \E i \in 1..k : Len(U[i]) > 0
  <2>1. PICK m \in 1..k : Len(S[m]) > 0
    BY DEF Shares
  <2>2. PICK i \in 1..k : f[i] = m
    BY <1>3
  <2>3. U[i] = S[m]
    BY <1>3, <2>2
  <2> QED
    BY <2>1, <2>3
<1>5. Once(U)
  <2>1. ASSUME NEW i \in 1..k, NEW j \in 1..k, NEW a \in 1..Len(U[i]), NEW b \in 1..Len(U[j]),
               U[i][a] = U[j][b]
        PROVE  i = j /\ a = b
    <3>1. PICK x \in 1..k : x = f[i]
      BY <1>3
    <3>2. PICK y \in 1..k : y = f[j]
      BY <1>3
    <3>3. a \in 1..Len(S[x]) /\ b \in 1..Len(S[y]) /\ S[x][a] = S[y][b]
      BY <1>3, <2>1, <3>1, <3>2
    <3>4. x = y /\ a = b
      <4>1. Once(S) /\ x \in DOMAIN S /\ y \in DOMAIN S
        BY <1>1, <1>2
      <4> QED
        BY <3>3, <4>1, OnceAt
    <3> QED
      BY <1>3, <3>1, <3>2, <3>4
  <2> QED
    BY <1>2, <2>1 DEF Once
<1>6. Even(U, equal)
  <2>1. ASSUME NEW i \in 1..k PROVE \E m \in 1..k : U[i] = S[m]
    BY <1>3
  <2>2. CASE equal
    <3>1. ASSUME NEW i \in 1..k, NEW j \in 1..k PROVE Len(U[i]) = Len(U[j])
      <4>1. PICK x \in 1..k : U[i] = S[x]
        BY <2>1
      <4>2. PICK y \in 1..k : U[j] = S[y]
        BY <2>1
      <4>3. Len(S[x]) = Len(S[y])
        BY <1>1, <1>2, <2>2 DEF Even
      <4> QED
        BY <4>1, <4>2, <4>3
    <3> QED
      BY <1>2, <2>2, <3>1 DEF Even
  <2>3. CASE ~equal
    <3>1. ASSUME NEW i \in 1..k, NEW j \in 1..k, Len(U[i]) = 0 PROVE Len(U[j]) <= 1
      <4>1. PICK x \in 1..k : U[i] = S[x]
        BY <2>1
      <4>2. PICK y \in 1..k : U[j] = S[y]
        BY <2>1
      <4>3. Len(S[x]) = 0
        BY <3>1, <4>1
      <4>4. Len(S[y]) <= 1
        BY <1>1, <1>2, <2>3, <4>3 DEF Even
      <4> QED
        BY <4>2, <4>4
    <3> QED
      BY <1>2, <2>3, <3>1 DEF Even
  <2> QED
    BY <2>2, <2>3
<1>7. ASSUME NEW r PROVE Holds(U, r) <=> Holds(S, r)
  <2>1. ASSUME Holds(U, r) PROVE Holds(S, r)
    <3>1. PICK i \in 1..k : \E a \in 1..Len(U[i]) : U[i][a] = r
      BY <1>2, <2>1 DEF Holds
    <3>2. PICK m \in 1..k : U[i] = S[m]
      BY <1>3
    <3>3. \E a \in 1..Len(S[m]) : S[m][a] = r
      BY <3>1, <3>2
    <3> QED
      BY <1>2, <3>3 DEF Holds
  <2>2. ASSUME Holds(S, r) PROVE Holds(U, r)
    <3>1. PICK m \in 1..k : \E a \in 1..Len(S[m]) : S[m][a] = r
      BY <1>2, <2>2 DEF Holds
    <3>2. PICK i \in 1..k : f[i] = m
      BY <1>3
    <3>3. U[i] = S[m]
      BY <1>3, <3>2
    <3>4. \E a \in 1..Len(U[i]) : U[i][a] = r
      BY <3>1, <3>3
    <3> QED
      BY <1>2, <3>4 DEF Holds
  <2> QED
    BY <2>1, <2>2
<1> QED
  BY <1>4, <1>5, <1>6, <1>7 DEF Shares

\* One sequence behind another
Behind(z, x, y) ==
  /\ Len(z) = Len(x) + Len(y)
  /\ \A a \in 1..Len(x) : a \in 1..Len(z) /\ z[a] = x[a]
  /\ \A a \in 1..Len(y) : a + Len(x) \in 1..Len(z) /\ z[a + Len(x)] = y[a]

\* Concatenation puts one sequence behind the other.
LEMMA BehindIs ==
  ASSUME NEW T, NEW x \in Seq(T), NEW y \in Seq(T)
  PROVE  x \o y \in Seq(T) /\ Behind(x \o y, x, y)
<1>1. x \o y \in Seq(T)
  OBVIOUS
<1>2. PICK z \in Seq(T) : z = x \o y
  BY <1>1
<1>3. Len(x) \in Nat /\ Len(y) \in Nat
  BY LenProperties
<1>4. /\ Len(z) = Len(x) + Len(y)
      /\ \A a \in 1..(Len(x) + Len(y)) : z[a] = IF a <= Len(x) THEN x[a] ELSE y[a - Len(x)]
  BY <1>2
<1>5. ASSUME NEW a \in 1..Len(y) PROVE a + Len(x) \in 1..Len(z) /\ z[a + Len(x)] = y[a]
  <2>1. PICK b \in Int : b = a + Len(x)
    BY <1>3
  <2>2. b \in 1..(Len(x) + Len(y)) /\ ~(b <= Len(x)) /\ b - Len(x) = a
    BY <1>3, <2>1
  <2>3. z[b] = y[b - Len(x)]
    BY <1>4, <2>2
  <2> QED
    BY <1>4, <2>1, <2>2, <2>3
<1>6. ASSUME NEW a \in 1..Len(x) PROVE a \in 1..Len(z) /\ z[a] = x[a]
  BY <1>3, <1>4
<1>7. Behind(z, x, y)
  BY <1>4, <1>5, <1>6 DEF Behind
<1> QED
  BY <1>1, <1>2, <1>7

\* Every element is of one of the two.
LEMMA BehindAt ==
  ASSUME NEW x, NEW y, NEW z, Behind(z, x, y), Len(x) \in Nat, Len(y) \in Nat,
         NEW a \in 1..Len(z)
  PROVE  \/ a \in 1..Len(x) /\ z[a] = x[a]
         \/ \E b \in 1..Len(y) : b = a - Len(x) /\ z[a] = y[b]
<1>1. Len(z) = Len(x) + Len(y)
  BY DEF Behind
<1>2. a \in Int
  BY <1>1
<1>3. CASE a <= Len(x)
  BY <1>1, <1>2, <1>3 DEF Behind
<1>4. CASE ~(a <= Len(x))
  <2>1. PICK b \in 1..Len(y) : b = a - Len(x)
    BY <1>1, <1>2, <1>4
  <2>2. z[b + Len(x)] = y[b]
    BY DEF Behind
  <2>3. b + Len(x) = a
    BY <1>2, <2>1
  <2> QED
    BY <2>1, <2>2, <2>3
<1> QED
  BY <1>3, <1>4

\* The shares of one state behind those of another, the last share first
Paired(U, S, T, k) == \A i, j \in 1..k : j = k + 1 - i => U[i] = S[i] \o T[j]

\* Two states merged: the shares of both, and no row twice, when they have none in common
LEMMA SharesPaired ==
  ASSUME NEW n \in Nat, NEW k \in Nat, NEW equal,
         NEW S, Shares(S, n, k, equal), Falling(S), NEW T, Shares(T, n, k, equal), Falling(T),
         \A r : ~(Holds(S, r) /\ Holds(T, r)),
         NEW U, Rowed(U, n, k), Paired(U, S, T, k)
  PROVE  /\ Shares(U, n, k, equal)
         /\ \A r : Holds(U, r) <=> Holds(S, r) \/ Holds(T, r)
<1>1. /\ Rowed(S, n, k) /\ Rowed(T, n, k)
      /\ Once(S) /\ Once(T) /\ Even(S, equal) /\ Even(T, equal)
  BY DEF Shares
<1>2. DOMAIN S = 1..k /\ DOMAIN T = 1..k /\ DOMAIN U = 1..k
  BY <1>1, ShareTypes
<1>3. \A i \in 1..k : Len(S[i]) \in Nat /\ Len(T[i]) \in Nat /\ Len(U[i]) \in Nat
  BY <1>1, ShareTypes
<1>4. ASSUME NEW i \in 1..k, NEW j \in 1..k, j = k + 1 - i PROVE Behind(U[i], S[i], T[j])
  <2>1. PICK x \in Seq(1..n) : x = S[i]
    BY <1>1, ShareTypes
  <2>2. PICK y \in Seq(1..n) : y = T[j]
    BY <1>1, ShareTypes
  <2>3. U[i] = x \o y
    BY <1>4, <2>1, <2>2 DEF Paired
  <2> QED
    BY <2>1, <2>2, <2>3, BehindIs
<1>5. ASSUME NEW i \in 1..k, NEW j \in 1..k, j = k + 1 - i
      PROVE  /\ Len(U[i]) = Len(S[i]) + Len(T[j])
             /\ \A a \in 1..Len(U[i]) :
                  \/ a \in 1..Len(S[i]) /\ U[i][a] = S[i][a]
                  \/ \E b \in 1..Len(T[j]) : b = a - Len(S[i]) /\ U[i][a] = T[j][b]
  <2>1. Behind(U[i], S[i], T[j])
    BY <1>4, <1>5
  <2>2. Len(S[i]) \in Nat /\ Len(T[j]) \in Nat
    BY <1>3
  <2>3. Len(U[i]) = Len(S[i]) + Len(T[j])
    BY <2>1 DEF Behind
  <2>4. ASSUME NEW a \in 1..Len(U[i])
        PROVE  \/ a \in 1..Len(S[i]) /\ U[i][a] = S[i][a]
               \/ \E b \in 1..Len(T[j]) : b = a - Len(S[i]) /\ U[i][a] = T[j][b]
    <3>1. PICK x : x = S[i]
      OBVIOUS
    <3>2. PICK y : y = T[j]
      OBVIOUS
    <3>3. PICK z : z = U[i]
      OBVIOUS
    <3>5. Behind(z, x, y) /\ Len(x) \in Nat /\ Len(y) \in Nat
      BY <2>1, <2>2, <3>1, <3>2, <3>3
    <3>6. a \in 1..Len(z)
      BY <3>3
    <3>4. \/ a \in 1..Len(x) /\ z[a] = x[a]
          \/ \E b \in 1..Len(y) : b = a - Len(x) /\ z[a] = y[b]
      BY <3>5, <3>6, BehindAt
    <3> QED
      BY <3>1, <3>2, <3>3, <3>4
  <2> QED
    BY <2>3, <2>4
<1>6. \E i \in 1..k : Len(U[i]) > 0
  <2>1. PICK i \in 1..k : Len(S[i]) > 0
    BY DEF Shares
  <2>2. PICK j \in 1..k : j = k + 1 - i
    OBVIOUS
  <2>3. Len(U[i]) = Len(S[i]) + Len(T[j]) /\ Len(S[i]) \in Nat /\ Len(T[j]) \in Nat
    BY <1>3, <1>5, <2>2
  <2>4. Len(U[i]) > 0
    <3>1. PICK p \in Nat : p = Len(S[i])
      BY <2>3
    <3>2. PICK q \in Nat : q = Len(T[j])
      BY <2>3
    <3>3. PICK l : l = Len(U[i])
      OBVIOUS
    <3>4. l = p + q /\ p > 0
      BY <2>1, <2>3, <3>1, <3>2, <3>3
    <3>5. l > 0
      BY <3>4
    <3> QED
      BY <3>3, <3>5
  <2> QED
    BY <2>4
<1>7. Once(U)
  <2>1. ASSUME NEW i \in 1..k, NEW j \in 1..k, NEW a \in 1..Len(U[i]), NEW b \in 1..Len(U[j]),
               U[i][a] = U[j][b]
        PROVE  i = j /\ a = b
    <3>1. PICK x \in 1..k : x = k + 1 - i
      OBVIOUS
    <3>2. PICK y \in 1..k : y = k + 1 - j
      OBVIOUS
    <3>3. PICK r : r = U[i][a]
      OBVIOUS
    <3>4. \/ a \in 1..Len(S[i]) /\ r = S[i][a]
          \/ \E d \in 1..Len(T[x]) : d = a - Len(S[i]) /\ r = T[x][d]
      BY ZenonT(60), <1>5, <3>1, <3>3
    <3>5. \/ b \in 1..Len(S[j]) /\ r = S[j][b]
          \/ \E d \in 1..Len(T[y]) : d = b - Len(S[j]) /\ r = T[y][d]
      <4>1. r = U[j][b]
        BY <2>1, <3>3
      <4> QED
        BY <1>5, <3>2, <4>1
    <3>6. CASE (a \in 1..Len(S[i]) /\ r = S[i][a]) /\ (b \in 1..Len(S[j]) /\ r = S[j][b])
      <4>1. S[i][a] = S[j][b]
        BY <3>6
      <4>2. Once(S) /\ i \in DOMAIN S /\ j \in DOMAIN S
        BY <1>1, <1>2
      <4>3. a \in 1..Len(S[i]) /\ b \in 1..Len(S[j])
        BY <3>6
      <4> QED
        BY <4>1, <4>2, <4>3, OnceAt
    <3>7. CASE (\E d \in 1..Len(T[x]) : d = a - Len(S[i]) /\ r = T[x][d])
                 /\ (\E d \in 1..Len(T[y]) : d = b - Len(S[j]) /\ r = T[y][d])
      <4>1. PICK d \in 1..Len(T[x]) : d = a - Len(S[i]) /\ r = T[x][d]
        BY <3>7
      <4>2. PICK e \in 1..Len(T[y]) : e = b - Len(S[j]) /\ r = T[y][e]
        BY <3>7
      <4>3. T[x][d] = T[y][e]
        BY <4>1, <4>2
      <4>4. x = y /\ d = e
        <5>1. Once(T) /\ x \in DOMAIN T /\ y \in DOMAIN T
          BY <1>1, <1>2
        <5> QED
          BY <4>3, <5>1, OnceAt
      <4>5. i = j
        <5>1. k + 1 - i = k + 1 - j
          BY <3>1, <3>2, <4>4
        <5> QED
          BY <5>1
      <4>6. Len(S[i]) \in Nat /\ Len(U[i]) \in Nat
        BY <1>3
      <4>7. a \in Int /\ b \in Int
        BY <4>5, <4>6
      <4>8. PICK l \in Nat : l = Len(S[i])
        BY <4>6
      <4>9. d = a - l /\ e = b - l
        BY <4>1, <4>2, <4>5, <4>8
      <4>10. a = b
        <5>1. a - l = b - l
          BY <4>4, <4>9
        <5> QED
          BY <4>7, <5>1
      <4> QED
        BY <4>5, <4>10
    <3>8. CASE (a \in 1..Len(S[i]) /\ r = S[i][a])
                 /\ (\E d \in 1..Len(T[y]) : d = b - Len(S[j]) /\ r = T[y][d])
      BY <1>2, <3>8, HoldsAt
    <3>9. CASE (\E d \in 1..Len(T[x]) : d = a - Len(S[i]) /\ r = T[x][d])
                 /\ (b \in 1..Len(S[j]) /\ r = S[j][b])
      BY <1>2, <3>9, HoldsAt
    <3> QED
      BY <3>4, <3>5, <3>6, <3>7, <3>8, <3>9
  <2> QED
    BY <1>2, <2>1 DEF Once
<1>8. Even(U, equal)
  <2>1. CASE equal
    <3>1. ASSUME NEW i \in 1..k, NEW j \in 1..k PROVE Len(U[i]) = Len(U[j])
      <4>1. PICK x \in 1..k : x = k + 1 - i
        OBVIOUS
      <4>2. PICK y \in 1..k : y = k + 1 - j
        OBVIOUS
      <4>3. Len(S[i]) = Len(S[j]) /\ Len(T[x]) = Len(T[y])
        BY <1>1, <1>2, <2>1 DEF Even
      <4>4. Len(U[i]) = Len(S[i]) + Len(T[x]) /\ Len(U[j]) = Len(S[j]) + Len(T[y])
        BY <1>5, <4>1, <4>2
      <4> QED
        BY <4>3, <4>4
    <3> QED
      BY <1>2, <2>1, <3>1 DEF Even
  <2>2. CASE ~equal
    <3>1. ASSUME NEW i \in 1..k, Len(U[i]) = 0, NEW j \in 1..k
          PROVE  Len(U[j]) <= 1
      <4>1. PICK x \in 1..k : x = k + 1 - i
        OBVIOUS
      <4>2. PICK y \in 1..k : y = k + 1 - j
        OBVIOUS
      <4>3. Len(U[i]) = Len(S[i]) + Len(T[x]) /\ Len(U[j]) = Len(S[j]) + Len(T[y])
        BY <1>5, <4>1, <4>2
      <4>4. /\ Len(S[i]) \in Nat /\ Len(S[j]) \in Nat
            /\ Len(T[x]) \in Nat /\ Len(T[y]) \in Nat
        BY <1>3
      <4>5. Len(S[i]) = 0 /\ Len(T[x]) = 0
        <5>1. PICK p \in Nat : p = Len(S[i])
          BY <4>4
        <5>2. PICK q \in Nat : q = Len(T[x])
          BY <4>4
        <5>3. p + q = 0
          BY <3>1, <4>3, <5>1, <5>2
        <5>4. p = 0 /\ q = 0
          BY <5>3
        <5> QED
          BY <5>1, <5>2, <5>4
      <4>6. Len(S[j]) <= 1 /\ Len(T[y]) <= 1
        BY <1>1, <1>2, <2>2, <4>5 DEF Even
      <4>7. x = k + 1 - i /\ y = k + 1 - j
        BY <4>1, <4>2
      <4>8. CASE i <= j
        <5>1. Len(S[j]) = 0
          BY <1>2, <4>5, <4>8 DEF Falling
        <5> QED
          BY <4>3, <4>4, <4>6, <5>1
      <4>9. CASE j < i
        <5>1. x < y
          BY <4>7, <4>9
        <5>2. Len(T[y]) = 0
          BY <1>2, <4>5, <5>1 DEF Falling
        <5> QED
          BY <4>3, <4>4, <4>6, <5>2
      <4> QED
        BY <4>8, <4>9
    <3> QED
      BY <1>2, <2>2, <3>1 DEF Even
  <2> QED
    BY <2>1, <2>2
<1>9. ASSUME NEW r PROVE Holds(U, r) <=> Holds(S, r) \/ Holds(T, r)
  <2>1. ASSUME Holds(U, r) PROVE Holds(S, r) \/ Holds(T, r)
    <3>1. PICK i \in 1..k : \E a \in 1..Len(U[i]) : U[i][a] = r
      BY <1>2, <2>1 DEF Holds
    <3>2. PICK x \in 1..k : x = k + 1 - i
      OBVIOUS
    <3>3. PICK a \in 1..Len(U[i]) : U[i][a] = r
      BY <3>1
    <3>4. \/ a \in 1..Len(S[i]) /\ r = S[i][a]
          \/ \E d \in 1..Len(T[x]) : r = T[x][d]
      BY <1>5, <3>2, <3>3
    <3> QED
      BY <1>2, <3>4, HoldsAt
  <2>2. ASSUME Holds(S, r) PROVE Holds(U, r)
    <3>1. PICK i \in 1..k : \E a \in 1..Len(S[i]) : S[i][a] = r
      BY <1>2, <2>2 DEF Holds
    <3>2. PICK a \in 1..Len(S[i]) : S[i][a] = r
      BY <3>1
    <3>3. PICK x \in 1..k : x = k + 1 - i
      OBVIOUS
    <3>4. a \in 1..Len(U[i]) /\ U[i][a] = S[i][a]
      BY <1>4, <3>3 DEF Behind
    <3> QED
      BY <1>2, <3>2, <3>4, HoldsAt
  <2>3. ASSUME Holds(T, r) PROVE Holds(U, r)
    <3>1. PICK x \in 1..k : \E a \in 1..Len(T[x]) : T[x][a] = r
      BY <1>2, <2>3 DEF Holds
    <3>2. PICK a \in 1..Len(T[x]) : T[x][a] = r
      BY <3>1
    <3>3. PICK i \in 1..k : i = k + 1 - x
      OBVIOUS
    <3>4. x = k + 1 - i
      BY <3>3
    <3>5. PICK d : d = a + Len(S[i])
      OBVIOUS
    <3>6. d \in 1..Len(U[i]) /\ U[i][d] = T[x][a]
      BY <1>4, <3>4, <3>5 DEF Behind
    <3> QED
      BY <1>2, <3>2, <3>6, HoldsAt
  <2> QED
    BY <2>1, <2>2, <2>3
<1> QED
  BY <1>6, <1>7, <1>8, <1>9 DEF Shares

-----------------------------------------------------------------------------
(* Largest differencing: what a state is *)

RowsOf(s) == [i \in DOMAIN s |-> s[i].rows]
Parted(s, n, k) == s \in [1..k -> PartType(n)]
\* The sum of a part is positive just when it has rows.
Weighed(s, k) ==
  \A i \in 1..k : (s[i].sum > 0 => Len(s[i].rows) > 0) /\ (Len(s[i].rows) > 0 => s[i].sum > 0)
Sound(s, n, k, equal) ==
  /\ Parted(s, n, k)
  /\ Weighed(s, k)
  /\ Shares(RowsOf(s), n, k, equal)

\* The type of a part
LEMMA PartFacts ==
  ASSUME NEW n \in Nat, NEW p \in PartType(n)
  PROVE  p.sum \in Nat /\ p.rows \in Seq(1..n) /\ Len(p.rows) \in Nat
BY DEF PartType

\* The rows of a state are shares.
LEMMA RowsOfFacts ==
  ASSUME NEW n \in Nat, NEW k \in Nat, NEW s, Parted(s, n, k)
  PROVE  /\ DOMAIN s = 1..k
         /\ Rowed(RowsOf(s), n, k)
         /\ \A i \in 1..k : /\ s[i] \in PartType(n)
                            /\ RowsOf(s)[i] = s[i].rows
                            /\ s[i].sum \in Nat /\ Len(s[i].rows) \in Nat
<1>1. DOMAIN s = 1..k /\ \A i \in 1..k : s[i] \in PartType(n)
  BY DEF Parted
<1>2. ASSUME NEW i \in 1..k
      PROVE  s[i].rows \in Seq(1..n) /\ s[i].sum \in Nat /\ Len(s[i].rows) \in Nat
  BY <1>1, PartFacts
<1>3. RowsOf(s) = [i \in 1..k |-> s[i].rows]
  BY <1>1 DEF RowsOf
<1>4. \A i \in 1..k : RowsOf(s)[i] = s[i].rows
  BY <1>3
<1>5. Rowed(RowsOf(s), n, k)
  BY <1>2, <1>3 DEF Rowed
<1> QED
  BY <1>1, <1>2, <1>4, <1>5

\* An ordering of a state: the same parts, the larger ones first
Sorts(q, s, f, n, k) ==
  /\ Moved(q, s, f, k)
  /\ \A i, j \in 1..k : i < j => ~Larger(q[j], q[i])

\* Ordered sorts the parts of a state.
LEMMA OrderedSorts ==
  ASSUME NEW n \in Nat, NEW k \in Nat, NEW s, Parted(s, n, k)
  PROVE  Parted(Ordered(s), n, k) /\ \E f : Sorts(Ordered(s), s, f, n, k)
<1>1. PICK z : z = s
  OBVIOUS
<1>a. z \in [1..k -> PartType(n)]
  BY <1>1 DEF Parted
<1>b. z \in Seq(PartType(n)) /\ Len(z) = k /\ DOMAIN z = 1..k
  BY <1>a
<1>2. PICK f \in Bijection(1..k, 1..k) :
           /\ Ordered(z) = [m \in 1..k |-> z[f[m]]]
           /\ \A i, j \in 1..k : i < j => ~Larger(z[f[j]], z[f[i]])
  BY <1>b, OrderedIs
<1>3. f \in [1..k -> 1..k]
  BY Fun_BijectionProperties
<1>4. PICK q : q = Ordered(z)
  OBVIOUS
<1>5. DOMAIN q = 1..k /\ \A i \in 1..k : f[i] \in 1..k /\ q[i] = z[f[i]]
  BY <1>2, <1>3, <1>4
<1>6. \A i \in 1..k : z[i] \in PartType(n)
  BY <1>a
<1>7. q \in [1..k -> PartType(n)]
  BY <1>2, <1>3, <1>4, <1>6
<1>8. ASSUME NEW i \in 1..k, NEW j \in 1..k, i < j PROVE ~Larger(q[j], q[i])
  <2>1. ~Larger(z[f[j]], z[f[i]])
    BY <1>2, <1>8
  <2>2. q[j] = z[f[j]] /\ q[i] = z[f[i]]
    BY <1>5
  <2> QED
    BY <2>1, <2>2
<1>9. Moved(q, z, f, k)
  BY <1>5 DEF Moved
<1>10. Sorts(q, z, f, n, k)
  BY <1>8, <1>9 DEF Sorts
<1> QED
  BY <1>1, <1>4, <1>7, <1>10 DEF Parted

\* A state that is sorted stays sound, and its empty parts come last.
LEMMA SortedSound ==
  ASSUME NEW n \in Nat, NEW k \in Nat, NEW equal, NEW s, Sound(s, n, k, equal),
         NEW q, Parted(q, n, k), NEW f, Sorts(q, s, f, n, k)
  PROVE  /\ Sound(q, n, k, equal)
         /\ Falling(RowsOf(q))
         /\ \A r : Holds(RowsOf(q), r) <=> Holds(RowsOf(s), r)
<1>1. Moved(q, s, f, k)
  BY DEF Sorts
<1>2. Parted(s, n, k) /\ Weighed(s, k) /\ Shares(RowsOf(s), n, k, equal)
  BY DEF Sound
<1>3. \A i \in 1..k : f[i] \in 1..k /\ q[i] = s[f[i]]
  BY <1>1, MovedAt
<1>4. /\ DOMAIN q = 1..k /\ Rowed(RowsOf(q), n, k)
      /\ \A i \in 1..k : /\ RowsOf(q)[i] = q[i].rows
                         /\ q[i].sum \in Nat /\ Len(q[i].rows) \in Nat
  BY RowsOfFacts
<1>5. \A i \in 1..k : RowsOf(s)[i] = s[i].rows
  BY <1>2, RowsOfFacts
<1>6. Moved(RowsOf(q), RowsOf(s), f, k)
  <2>1. ASSUME NEW i \in 1..k PROVE RowsOf(q)[i] = RowsOf(s)[f[i]]
    <3>1. PICK m \in 1..k : m = f[i]
      BY <1>3
    <3>2. RowsOf(q)[i] = q[i].rows /\ q[i] = s[m] /\ RowsOf(s)[m] = s[m].rows
      BY <1>3, <1>4, <1>5, <3>1
    <3> QED
      BY <3>1, <3>2
  <2> QED
    BY <1>1, <2>1 DEF Moved
<1>7. Shares(RowsOf(q), n, k, equal) /\ \A r : Holds(RowsOf(q), r) <=> Holds(RowsOf(s), r)
  BY <1>2, <1>4, <1>6, SharesMoved
<1>8. Weighed(q, k)
  <2>1. ASSUME NEW i \in 1..k
        PROVE  (q[i].sum > 0 => Len(q[i].rows) > 0) /\ (Len(q[i].rows) > 0 => q[i].sum > 0)
    <3>1. PICK m \in 1..k : q[i] = s[m]
      BY <1>3
    <3>2. (s[m].sum > 0 => Len(s[m].rows) > 0) /\ (Len(s[m].rows) > 0 => s[m].sum > 0)
      BY <1>2 DEF Weighed
    <3> QED
      BY <3>1, <3>2
  <2> QED
    BY <2>1 DEF Weighed
<1>9. Falling(RowsOf(q))
  <2>1. ASSUME NEW i \in 1..k, NEW j \in 1..k, i < j, Len(q[i].rows) = 0
        PROVE  Len(q[j].rows) = 0
    <3>1. ~(q[j].sum > q[i].sum)
      BY <2>1 DEF Sorts, Larger
    <3>2. PICK a \in Nat : a = q[i].sum
      BY <1>4
    <3>3. PICK b \in Nat : b = q[j].sum
      BY <1>4
    <3>4. PICK l \in Nat : l = Len(q[j].rows)
      BY <1>4
    <3>5. ~(a > 0) /\ ~(b > a) /\ (l > 0 => b > 0)
      BY <1>8, <2>1, <3>1, <3>2, <3>3, <3>4 DEF Weighed
    <3>6. l = 0
      BY <3>5
    <3> QED
      BY <3>4, <3>6
  <2>2. DOMAIN RowsOf(q) = 1..k
    BY <1>4 DEF RowsOf
  <2>3. ASSUME NEW i \in 1..k, NEW j \in 1..k, i < j, Len(RowsOf(q)[i]) = 0
        PROVE  Len(RowsOf(q)[j]) = 0
    BY <1>4, <2>1, <2>3
  <2> QED
    BY <2>2, <2>3 DEF Falling
<1> QED
  BY <1>7, <1>8, <1>9 DEF Sound

\* So does what Ordered makes of it.
LEMMA OrderedSound ==
  ASSUME NEW n \in Nat, NEW k \in Nat, NEW equal, NEW s, Sound(s, n, k, equal)
  PROVE  /\ Sound(Ordered(s), n, k, equal)
         /\ Falling(RowsOf(Ordered(s)))
         /\ \A r : Holds(RowsOf(Ordered(s)), r) <=> Holds(RowsOf(s), r)
<1>1. Parted(s, n, k)
  BY DEF Sound
<1>2. PICK q : q = Ordered(s)
  OBVIOUS
<1>3. PICK f : Sorts(q, s, f, n, k)
  BY <1>1, <1>2, OrderedSorts
<1>4. Parted(q, n, k)
  BY <1>1, <1>2, OrderedSorts
<1>5. /\ Sound(q, n, k, equal)
      /\ Falling(RowsOf(q))
      /\ \A r : Holds(RowsOf(q), r) <=> Holds(RowsOf(s), r)
  BY <1>3, <1>4, SortedSound
<1> QED
  BY <1>2, <1>5

\* Two states with no row in common, as the heap has them
Heaped(s, n, k, equal) == Sound(s, n, k, equal) /\ Falling(RowsOf(s))
Apart(s, t) == \A r : ~(Holds(RowsOf(s), r) /\ Holds(RowsOf(t), r))

Layered(s, t) == [i \in DOMAIN s |-> Joined(s[i], t[Len(s) + 1 - i])]

\* The parts of two states joined, the largest with the smallest
LEMMA LayeredAt ==
  ASSUME NEW n \in Nat, NEW k \in Nat, NEW s, Parted(s, n, k), NEW t, Parted(t, n, k),
         NEW u, u = Layered(s, t)
  PROVE  /\ DOMAIN u = 1..k
         /\ \A i, j \in 1..k : j = k + 1 - i => u[i] = Joined(s[i], t[j])
<1>1. DOMAIN s = 1..k /\ Len(s) = k
  BY DEF Parted
<1> QED
  BY <1>1 DEF Layered

\* That makes a sound state of the rows of both.
LEMMA LayeredSound ==
  ASSUME NEW n \in Nat, NEW k \in Nat, NEW equal,
         NEW s, Heaped(s, n, k, equal), NEW t, Heaped(t, n, k, equal), Apart(s, t),
         NEW u, u = Layered(s, t)
  PROVE  /\ Sound(u, n, k, equal)
         /\ \A r : Holds(RowsOf(u), r) <=> Holds(RowsOf(s), r) \/ Holds(RowsOf(t), r)
<1>1. /\ Parted(s, n, k) /\ Weighed(s, k) /\ Shares(RowsOf(s), n, k, equal) /\ Falling(RowsOf(s))
      /\ Parted(t, n, k) /\ Weighed(t, k) /\ Shares(RowsOf(t), n, k, equal) /\ Falling(RowsOf(t))
  BY DEF Heaped, Sound
<1>2. /\ DOMAIN u = 1..k
      /\ \A i, j \in 1..k : j = k + 1 - i => u[i] = Joined(s[i], t[j])
  BY <1>1, LayeredAt
<1>3. ASSUME NEW i \in 1..k, NEW j \in 1..k, j = k + 1 - i
      PROVE  /\ u[i] \in PartType(n)
             /\ u[i].sum = s[i].sum + t[j].sum
             /\ u[i].rows = s[i].rows \o t[j].rows
  <2>1. PICK p \in PartType(n) : p = s[i]
    BY <1>1, RowsOfFacts
  <2>2. PICK q \in PartType(n) : q = t[j]
    BY <1>1, RowsOfFacts
  <2>3. u[i] = Joined(p, q)
    BY <1>2, <1>3, <2>1, <2>2
  <2>4. u[i] = [sum |-> p.sum + q.sum, rows |-> p.rows \o q.rows]
    BY <2>3 DEF Joined
  <2>5. p.sum + q.sum \in Nat
    BY PartFacts
  <2>6. p.rows \o q.rows \in Seq(1..n)
    <3>1. p.rows \in Seq(1..n) /\ q.rows \in Seq(1..n)
      BY PartFacts
    <3> QED
      BY <3>1
  <2>7. u[i] \in PartType(n)
    BY <2>4, <2>5, <2>6 DEF PartType
  <2>8. u[i].sum = p.sum + q.sum
    BY <2>4
  <2>9. u[i].rows = p.rows \o q.rows
    <3>1. PICK z : z = p.rows \o q.rows
      OBVIOUS
    <3>2. u[i] = [sum |-> p.sum + q.sum, rows |-> z]
      BY <2>4, <3>1
    <3>3. u[i].rows = z
      BY <3>2
    <3> QED
      BY <3>1, <3>3
  <2>10. u[i].sum = s[i].sum + t[j].sum
    BY <2>1, <2>2, <2>8
  <2>11. u[i].rows = s[i].rows \o t[j].rows
    BY <2>1, <2>2, <2>9
  <2> QED
    BY <2>7, <2>10, <2>11
<1>4. ASSUME NEW i \in 1..k PROVE \E j \in 1..k : j = k + 1 - i
  OBVIOUS
<1>5. Parted(u, n, k)
  <2>1. \A i \in 1..k : u[i] \in PartType(n)
    BY <1>3, <1>4
  <2>2. u = [i \in DOMAIN u |-> u[i]]
    BY DEF Layered
  <2> QED
    BY <1>2, <2>1, <2>2 DEF Parted
<1>6. Paired(RowsOf(u), RowsOf(s), RowsOf(t), k)
  <2>1. ASSUME NEW i \in 1..k, NEW j \in 1..k, j = k + 1 - i
        PROVE  RowsOf(u)[i] = RowsOf(s)[i] \o RowsOf(t)[j]
    <3>1. u[i].rows = s[i].rows \o t[j].rows
      BY <1>3, <2>1
    <3>2. RowsOf(u)[i] = u[i].rows /\ RowsOf(s)[i] = s[i].rows /\ RowsOf(t)[j] = t[j].rows
      BY <1>1, <1>5, RowsOfFacts
    <3> QED
      BY <3>1, <3>2
  <2> QED
    BY <2>1 DEF Paired
<1>7. Rowed(RowsOf(u), n, k)
  BY <1>5, RowsOfFacts
<1>8. /\ Shares(RowsOf(u), n, k, equal)
      /\ \A r : Holds(RowsOf(u), r) <=> Holds(RowsOf(s), r) \/ Holds(RowsOf(t), r)
  <2>1. \A r : ~(Holds(RowsOf(s), r) /\ Holds(RowsOf(t), r))
    BY DEF Apart
  <2> QED
    BY <1>1, <1>6, <1>7, <2>1, SharesPaired
<1>9. Weighed(u, k)
  <2>1. ASSUME NEW i \in 1..k
        PROVE  (u[i].sum > 0 => Len(u[i].rows) > 0) /\ (Len(u[i].rows) > 0 => u[i].sum > 0)
    <3>1. PICK j \in 1..k : j = k + 1 - i
      BY <1>4
    <3>2. PICK a \in Nat : a = s[i].sum
      BY <1>1, RowsOfFacts
    <3>3. PICK b \in Nat : b = t[j].sum
      BY <1>1, RowsOfFacts
    <3>4. PICK x \in Seq(1..n) : x = s[i].rows
      <4>1. RowsOf(s)[i] = s[i].rows /\ Rowed(RowsOf(s), n, k)
        BY <1>1, RowsOfFacts
      <4> QED
        BY <4>1, ShareTypes
    <3>5. PICK y \in Seq(1..n) : y = t[j].rows
      <4>1. RowsOf(t)[j] = t[j].rows /\ Rowed(RowsOf(t), n, k)
        BY <1>1, RowsOfFacts
      <4> QED
        BY <4>1, ShareTypes
    <3>6. Len(x) \in Nat /\ Len(y) \in Nat /\ Len(x \o y) = Len(x) + Len(y)
      OBVIOUS
    <3>7. /\ (a > 0 => Len(x) > 0) /\ (Len(x) > 0 => a > 0)
          /\ (b > 0 => Len(y) > 0) /\ (Len(y) > 0 => b > 0)
      BY <1>1, <3>2, <3>3, <3>4, <3>5 DEF Weighed
    <3>8. PICK l : l = Len(x \o y)
      OBVIOUS
    <3>9. PICK d : d = a + b
      OBVIOUS
    <3>10. (d > 0 => l > 0) /\ (l > 0 => d > 0)
      BY <3>6, <3>7, <3>8, <3>9
    <3>11. u[i].sum = d /\ Len(u[i].rows) = l
      BY <1>3, <3>1, <3>2, <3>3, <3>4, <3>5, <3>8, <3>9
    <3> QED
      BY <3>10, <3>11
  <2> QED
    BY <2>1 DEF Weighed
<1> QED
  BY <1>5, <1>8, <1>9 DEF Sound

\* What a merge is: a state with the rows of both
LEMMA MergedSound ==
  ASSUME NEW n \in Nat, NEW k \in Nat, NEW equal,
         NEW s, Heaped(s, n, k, equal), NEW t, Heaped(t, n, k, equal), Apart(s, t)
  PROVE  /\ Heaped(Merged(s, t), n, k, equal)
         /\ \A r : Holds(RowsOf(Merged(s, t)), r) <=> Holds(RowsOf(s), r) \/ Holds(RowsOf(t), r)
<1>1. PICK u : u = Layered(s, t)
  OBVIOUS
<1>2. /\ Sound(u, n, k, equal)
      /\ \A r : Holds(RowsOf(u), r) <=> Holds(RowsOf(s), r) \/ Holds(RowsOf(t), r)
  BY <1>1, LayeredSound
<1>3. Merged(s, t) = Ordered(u)
  BY <1>1 DEF Merged, Layered
<1>4. /\ Sound(Ordered(u), n, k, equal)
      /\ Falling(RowsOf(Ordered(u)))
      /\ \A r : Holds(RowsOf(Ordered(u)), r) <=> Holds(RowsOf(u), r)
  BY <1>2, OrderedSound
<1> QED
  BY <1>2, <1>3, <1>4 DEF Heaped

-----------------------------------------------------------------------------
(* Largest differencing: the heap *)

\* above[s]: what comes before s.
Ranking(S, above) ==
  /\ \A s, t, u \in S : t \in above[s] /\ u \in above[t] => u \in above[s]
  /\ \A s \in S : s \notin above[s]
  /\ \A s, t \in S : s # t => s \in above[t] \/ t \in above[s]

\* A finite set that is ranked has a first element.
LEMMA TopExists ==
  ASSUME NEW S, IsFiniteSet(S), S # {}, NEW above \in [S -> SUBSET S], Ranking(S, above)
  PROVE  \E s \in S : \A t \in S \ {s} : s \in above[t]
<1>r. /\ \A s, t, u \in S : t \in above[s] /\ u \in above[t] => u \in above[s]
      /\ \A s \in S : s \notin above[s]
      /\ \A s, t \in S : s # t => s \in above[t] \/ t \in above[s]
  BY DEF Ranking
<1>1. \A s \in S : IsFiniteSet(above[s]) /\ Cardinality(above[s]) \in Nat
  BY FS_Subset, FS_CardinalityType
<1> DEFINE N == {Cardinality(above[s]) : s \in S}
<1>2. N \in SUBSET Nat /\ N # {}
  BY <1>1
<1>3. PICK m \in N : \A j \in N : m <= j
  BY <1>2, LeastExists
<1>4. PICK s \in S : m = Cardinality(above[s])
  BY <1>3
<1>5. \A t \in S : Cardinality(above[s]) <= Cardinality(above[t])
  BY <1>3, <1>4
<1>6. ASSUME NEW t \in S, t # s PROVE s \in above[t]
  <2>1. SUFFICES ASSUME t \in above[s] PROVE FALSE
    BY <1>6, <1>r
  <2>2. above[t] \subseteq above[s]
    BY <1>r, <2>1
  <2>3. above[t] # above[s]
    BY <1>r, <2>1
  <2>4. Cardinality(above[t]) < Cardinality(above[s])
    <3>1. PICK A \in SUBSET S : A = above[s]
      OBVIOUS
    <3>2. PICK B \in SUBSET A : B = above[t]
      BY <2>2, <3>1
    <3>3. IsFiniteSet(A) /\ Cardinality(A) \in Nat /\ Cardinality(B) \in Nat
      BY <1>1, <3>1, <3>2
    <3>4. Cardinality(B) <= Cardinality(A) /\ (Cardinality(A) = Cardinality(B) => A = B)
      BY <3>3, FS_Subset
    <3>5. A # B
      BY <2>3, <3>1, <3>2
    <3>6. Cardinality(B) < Cardinality(A)
      BY <3>3, <3>4, <3>5
    <3> QED
      BY <3>1, <3>2, <3>6
  <2> QED
    BY <1>1, <1>5, <2>4
<1> QED
  BY <1>6

\* s comes before t from the heap.
Pops(s, t) == \/ Spread(s) > Spread(t)
              \/ Spread(s) = Spread(t) /\ Larger(s[1], t[1])

\* The states of a heap: sound, and no row in two of them
Heap(H, n, k, equal) ==
  /\ IsFiniteSet(H)
  /\ \A s \in H : Heaped(s, n, k, equal)
  /\ \A s, t \in H : s # t => Apart(s, t)

\* The first part of a state in the heap has rows.
LEMMA HeadFacts ==
  ASSUME NEW n \in Nat, NEW k \in Nat, NEW equal, NEW s, Heaped(s, n, k, equal)
  PROVE  /\ k > 0 /\ s[1] \in PartType(n) /\ Len(s[1].rows) > 0
         /\ Spread(s) \in Int
         /\ Holds(RowsOf(s), s[1].rows[1])
<1>1. Parted(s, n, k) /\ Shares(RowsOf(s), n, k, equal) /\ Falling(RowsOf(s))
  BY DEF Heaped, Sound
<1>2. PICK i \in 1..k : Len(RowsOf(s)[i]) > 0
  BY <1>1 DEF Shares
<1>3. /\ DOMAIN s = 1..k /\ DOMAIN RowsOf(s) = 1..k
      /\ \A j \in 1..k : /\ s[j] \in PartType(n)
                         /\ RowsOf(s)[j] = s[j].rows
                         /\ s[j].sum \in Nat /\ Len(s[j].rows) \in Nat
  BY <1>1, RowsOfFacts DEF RowsOf
<1>4. 1 \in 1..k /\ k \in 1..k /\ Len(s) = k
  BY <1>1 DEF Parted
<1>5. Len(s[1].rows) > 0
  <2>1. PICK l \in Nat : l = Len(s[1].rows)
    BY <1>3, <1>4
  <2>2. CASE l = 0
    <3>a. RowsOf(s)[1] = s[1].rows
      BY <1>3, <1>4
    <3>b. Len(RowsOf(s)[1]) = 0
      BY <2>1, <2>2, <3>a
    <3>c. PICK z : z = Len(RowsOf(s)[1])
      OBVIOUS
    <3>1. i # 1
      <4>1. SUFFICES ASSUME i = 1 PROVE FALSE
        OBVIOUS
      <4>2. z > 0
        BY <1>2, <3>c, <4>1
      <4> QED
        BY <3>b, <3>c, <4>2
    <3>2. 1 < i /\ Len(RowsOf(s)[1]) = 0
      BY <3>1, <3>b
    <3>3. Len(RowsOf(s)[i]) = 0
      BY <1>1, <1>3, <1>4, <3>2 DEF Falling
    <3>4. PICK y : y = Len(RowsOf(s)[i])
      OBVIOUS
    <3>5. y = 0 /\ y > 0
      BY <1>2, <3>3, <3>4
    <3> QED
      BY <3>5
  <2>3. CASE l > 0
    BY <2>1, <2>3
  <2> QED
    BY <2>2, <2>3
<1>6. Spread(s) \in Int
  <2>1. PICK a \in Nat : a = s[1].sum
    BY <1>3, <1>4
  <2>2. PICK b \in Nat : b = s[k].sum
    BY <1>3, <1>4
  <2>3. Spread(s) = a - b
    BY <1>4, <2>1, <2>2 DEF Spread
  <2> QED
    BY <2>3
<1>7. Holds(RowsOf(s), s[1].rows[1])
  <2>1. PICK l \in Nat : l = Len(s[1].rows)
    BY <1>3, <1>4
  <2>2. 1 \in 1..l
    BY <1>5, <2>1
  <2>3. 1 \in 1..Len(RowsOf(s)[1]) /\ RowsOf(s)[1] = s[1].rows
    BY <1>3, <1>4, <2>1, <2>2
  <2> QED
    BY <1>3, <1>4, <2>3, HoldsAt
<1> QED
  BY <1>3, <1>4, <1>5, <1>6, <1>7

\* Of two parts with different first rows one is the larger.
LEMMA LargerTotal ==
  ASSUME NEW n \in Nat, NEW p \in PartType(n), NEW q \in PartType(n),
         Len(p.rows) > 0, Len(q.rows) > 0, p.rows[1] # q.rows[1]
  PROVE  Larger(p, q) \/ Larger(q, p)
<1>1. p.rows \in Seq(1..n) /\ q.rows \in Seq(1..n)
  BY PartFacts
<1>2. p.rows # <<>> /\ q.rows # <<>>
  BY <1>1
<1>3. PICK a \in Nat : a = p.rows[1]
  BY <1>1
<1>4. PICK b \in Nat : b = q.rows[1]
  BY <1>1
<1>5. PICK l \in Nat : l = Len(p.rows)
  BY PartFacts
<1>6. PICK m \in Nat : m = Len(q.rows)
  BY PartFacts
<1>7. PICK c \in Nat : c = p.sum
  BY PartFacts
<1>8. PICK d \in Nat : d = q.sum
  BY PartFacts
<1>9. \/ c > d \/ d > c \/ (c = d /\ l > m) \/ (c = d /\ m > l)
      \/ (c = d /\ l = m /\ a > b) \/ (c = d /\ l = m /\ b > a)
  BY <1>3, <1>4
<1> QED
  BY <1>2, <1>3, <1>4, <1>5, <1>6, <1>7, <1>8, <1>9 DEF Larger

\* The heap has a state to pop: _heapq finds one that comes before every other.
LEMMA FirstPoppedIn ==
  ASSUME NEW n \in Nat, NEW k \in Nat, NEW equal, NEW H, Heap(H, n, k, equal), H # {}
  PROVE  FirstPopped(H) \in H
<1> DEFINE up == [t \in H |-> {s \in H : Pops(s, t)}]
<1>1. PICK above : above = up
  OBVIOUS
<1>2. above \in [H -> SUBSET H] /\ \A s, t \in H : s \in above[t] <=> Pops(s, t)
  BY <1>1
<1> HIDE DEF up
<1>3. ASSUME NEW s \in H
      PROVE  /\ s[1] \in PartType(n) /\ Len(s[1].rows) > 0
             /\ Spread(s) \in Int
             /\ Holds(RowsOf(s), s[1].rows[1])
  <2>1. Heaped(s, n, k, equal)
    BY DEF Heap
  <2> QED
    BY <2>1, HeadFacts
<1>4. ASSUME NEW s \in H, NEW t \in H, Pops(s, t) PROVE ~Pops(t, s)
  <2>1. PICK a \in Int : a = Spread(s)
    BY <1>3
  <2>2. PICK b \in Int : b = Spread(t)
    BY <1>3
  <2>3. Larger(s[1], t[1]) => ~Larger(t[1], s[1])
    BY <1>3, LargerOrders
  <2> QED
    BY <1>4, <2>1, <2>2, <2>3 DEF Pops
<1>5. ASSUME NEW s \in H, NEW t \in H, s # t PROVE Pops(s, t) \/ Pops(t, s)
  <2>1. PICK a \in Int : a = Spread(s)
    BY <1>3
  <2>2. PICK b \in Int : b = Spread(t)
    BY <1>3
  <2>3. Apart(s, t)
    BY <1>5 DEF Heap
  <2>4. s[1].rows[1] # t[1].rows[1]
    BY <1>3, <2>3 DEF Apart
  <2>5. Larger(s[1], t[1]) \/ Larger(t[1], s[1])
    BY <1>3, <2>4, LargerTotal
  <2> QED
    BY <2>1, <2>2, <2>5 DEF Pops
<1>6. ASSUME NEW s \in H, NEW t \in H, NEW u \in H, Pops(t, s), Pops(u, t) PROVE Pops(u, s)
  <2>1. PICK a \in Int : a = Spread(s)
    BY <1>3
  <2>2. PICK b \in Int : b = Spread(t)
    BY <1>3
  <2>3. PICK c \in Int : c = Spread(u)
    BY <1>3
  <2>4. Larger(u[1], t[1]) /\ Larger(t[1], s[1]) => Larger(u[1], s[1])
    <3>1. /\ Larger(t[1], s[1]) => ~Larger(s[1], t[1])
          /\ Larger(u[1], t[1]) => Larger(u[1], s[1]) \/ Larger(s[1], t[1])
      BY <1>3, LargerOrders
    <3> QED
      BY <3>1
  <2> QED
    BY <1>6, <2>1, <2>2, <2>3, <2>4 DEF Pops
<1>7. Ranking(H, above)
  <2>1. ASSUME NEW s \in H, NEW t \in H, NEW u \in H, t \in above[s], u \in above[t]
        PROVE  u \in above[s]
    BY <1>2, <1>6, <2>1
  <2>2. ASSUME NEW s \in H PROVE s \notin above[s]
    BY <1>2, <1>4
  <2>3. ASSUME NEW s \in H, NEW t \in H, s # t PROVE s \in above[t] \/ t \in above[s]
    BY <1>2, <1>5, <2>3
  <2> QED
    BY <2>1, <2>2, <2>3 DEF Ranking
<1>8. PICK s \in H : \A t \in H \ {s} : s \in above[t]
  <2>1. IsFiniteSet(H)
    BY DEF Heap
  <2> QED
    BY <1>2, <1>7, <2>1, TopExists
<1>9. \E x \in H : \A t \in H \ {x} :
         \/ Spread(x) > Spread(t)
         \/ Spread(x) = Spread(t) /\ Larger(x[1], t[1])
  BY <1>2, <1>8 DEF Pops
<1> QED
  BY Zenon, <1>9 DEF FirstPopped

\* The last two states popped are one again.
LEMMA MergeTwoHeap ==
  ASSUME NEW n \in Nat, NEW k \in Nat, NEW equal, NEW H, Heap(H, n, k, equal),
         NEW l \in Nat, Cardinality(H) = l + 2
  PROVE  /\ Heap(MergeTwo(H), n, k, equal)
         /\ Cardinality(MergeTwo(H)) = l + 1
         /\ \A r : (\E s \in H : Holds(RowsOf(s), r)) => \E s \in MergeTwo(H) : Holds(RowsOf(s), r)
<1>1. IsFiniteSet(H) /\ \A s \in H : Heaped(s, n, k, equal)
  BY DEF Heap
<1>2. H # {}
  <2>1. SUFFICES ASSUME H = {} PROVE FALSE
    OBVIOUS
  <2>2. Cardinality(H) = 0
    BY <2>1, FS_EmptySet
  <2> QED
    BY <2>2
<1>3. PICK s \in H : s = FirstPopped(H)
  BY <1>2, FirstPoppedIn
<1>4. PICK G : G = H \ {s}
  OBVIOUS
<1>5. IsFiniteSet(G) /\ Cardinality(G) = l + 1
  <2>1. IsFiniteSet(H \ {s}) /\ Cardinality(H \ {s}) = Cardinality(H) - 1
    BY <1>1, FS_RemoveElement
  <2> QED
    BY <1>4, <2>1
<1>6. Heap(G, n, k, equal)
  BY <1>4, <1>5 DEF Heap
<1>7. G # {}
  <2>1. SUFFICES ASSUME G = {} PROVE FALSE
    OBVIOUS
  <2>2. Cardinality(G) = 0
    BY <2>1, FS_EmptySet
  <2> QED
    BY <1>5, <2>2
<1>8. PICK t \in G : t = FirstPopped(G)
  BY <1>6, <1>7, FirstPoppedIn
<1>9. PICK R : R = H \ {s, t}
  OBVIOUS
<1>10. IsFiniteSet(R) /\ Cardinality(R) = l
  <2>1. IsFiniteSet(G \ {t}) /\ Cardinality(G \ {t}) = Cardinality(G) - 1
    BY <1>5, FS_RemoveElement
  <2>2. R = G \ {t}
    BY <1>4, <1>9
  <2> QED
    BY <1>5, <2>1, <2>2
<1>11. PICK u : u = Merged(s, t)
  OBVIOUS
<1>12. MergeTwo(H) = R \cup {u}
  BY Zenon, <1>3, <1>4, <1>8, <1>9, <1>11 DEF MergeTwo
<1>13. s # t /\ t \in H /\ Apart(s, t)
  BY <1>4, <1>8 DEF Heap
<1>14. /\ Heaped(u, n, k, equal)
       /\ \A r : Holds(RowsOf(u), r) <=> Holds(RowsOf(s), r) \/ Holds(RowsOf(t), r)
  <2>1. Heaped(s, n, k, equal) /\ Heaped(t, n, k, equal)
    BY <1>1, <1>13
  <2> QED
    BY <1>11, <1>13, <2>1, MergedSound
<1>15. ASSUME NEW v \in R PROVE Apart(v, u) /\ Apart(u, v)
  <2>1. v \in H /\ v # s /\ v # t
    BY <1>9
  <2>2. Apart(v, s) /\ Apart(v, t)
    BY <1>13, <2>1 DEF Heap
  <2> QED
    BY <1>14, <2>2 DEF Apart
<1>16. u \notin R
  <2>1. SUFFICES ASSUME u \in R PROVE FALSE
    OBVIOUS
  <2>2. Holds(RowsOf(u), u[1].rows[1])
    BY <1>14, HeadFacts
  <2>3. Apart(u, u)
    BY <1>15, <2>1
  <2> QED
    BY <2>2, <2>3 DEF Apart
<1>17. IsFiniteSet(R \cup {u}) /\ Cardinality(R \cup {u}) = l + 1
  BY <1>10, <1>16, FS_AddElement
<1>18. Heap(R \cup {u}, n, k, equal)
  <2>1. \A v \in R \cup {u} : Heaped(v, n, k, equal)
    BY <1>1, <1>9, <1>14
  <2>2. \A v, w \in R : v # w => Apart(v, w)
    BY <1>9 DEF Heap
  <2>3. \A v, w \in R \cup {u} : v # w => Apart(v, w)
    BY <1>15, <2>2
  <2> QED
    BY <1>17, <2>1, <2>3 DEF Heap
<1>19. ASSUME NEW r, NEW v \in H, Holds(RowsOf(v), r)
       PROVE  \E w \in R \cup {u} : Holds(RowsOf(w), r)
  BY <1>9, <1>14, <1>19
<1> QED
  BY <1>12, <1>17, <1>18, <1>19

-----------------------------------------------------------------------------
(* What is sorted is the same elements in another order. *)

Permuted(q, s, n) == \E f \in Bijection(1..n, 1..n) : q = [m \in 1..n |-> s[f[m]]]

\* What is sorted is a permutation.
LEMMA SortedPermuted ==
  ASSUME NEW n, NEW q, NEW s, NEW B, SortedTo(q, s, n, B)
  PROVE  Permuted(q, s, n)
BY DEF SortedTo, Permuted

\* The sort of the rows by their work keeps them.
LEMMA ByWorkPermuted ==
  ASSUME NEW n \in Nat, NEW work \in [1..n -> Nat], NEW rows \in Seq(1..n)
  PROVE  Permuted(ByWork(work, rows), rows, Len(rows))
<1>1. PICK B : B = [j \in 1..Len(rows) |-> {i \in 1..Len(rows) : Lighter(work, rows[i], rows[j])}]
  OBVIOUS
<1>2. \A i, j \in 1..Len(rows) : i \in B[j] <=> Lighter(work, rows[i], rows[j])
  BY <1>1
<1>3. Len(rows) \in Nat /\ rows \in [1..Len(rows) -> 1..n]
  BY LenProperties
<1>4. /\ \A p, q \in 1..n : Lighter(work, p, q) => ~Lighter(work, q, p)
      /\ \A p, q, r \in 1..n : Lighter(work, p, r) => Lighter(work, p, q) \/ Lighter(work, q, r)
  <2>1. \A p \in 1..n : work[p] \in Nat
    OBVIOUS
  <2>2. ASSUME NEW p \in 1..n, NEW q \in 1..n PROVE Lighter(work, p, q) => ~Lighter(work, q, p)
    BY <2>1 DEF Lighter
  <2>3. ASSUME NEW p \in 1..n, NEW q \in 1..n, NEW r \in 1..n
        PROVE  Lighter(work, p, r) => Lighter(work, p, q) \/ Lighter(work, q, r)
    BY <2>1 DEF Lighter
  <2> QED
    BY <2>2, <2>3
<1>5. WeakOrder(Len(rows), B)
  <2>1. \A i, j \in 1..Len(rows) : i \in B[j] => j \notin B[i]
    BY <1>2, <1>3, <1>4
  <2>2. \A i, j, m \in 1..Len(rows) : i \in B[m] => i \in B[j] \/ j \in B[m]
    BY <1>2, <1>3, <1>4
  <2> QED
    BY <2>1, <2>2 DEF WeakOrder
<1>6. ByWork(work, rows) = InPlace(rows, Len(rows), PlaceIn(Len(rows), B))
  <2> DEFINE place == [j \in 1..Len(rows) |-> Cardinality({i \in 1..Len(rows) :
                Lighter(work, rows[i], rows[j]) \/ (i <= j /\ ~Lighter(work, rows[j], rows[i]))})]
  <2>1. ASSUME NEW j \in 1..Len(rows)
        PROVE  {i \in 1..Len(rows) :
                   Lighter(work, rows[i], rows[j]) \/ (i <= j /\ ~Lighter(work, rows[j], rows[i]))}
               = {i \in 1..Len(rows) : i \in B[j] \/ (i <= j /\ j \notin B[i])}
    BY <1>2
  <2>2. place = PlaceIn(Len(rows), B)
    BY <2>1, Zenon DEF PlaceIn
  <2>3. ByWork(work, rows) = InPlace(rows, Len(rows), place)
    BY Zenon DEF ByWork, SortedBy, InPlace, At
  <2> QED
    BY <2>2, <2>3, Zenon
<1>7. SortedTo(ByWork(work, rows), rows, Len(rows), B)
  BY <1>3, <1>5, <1>6, Sorting
<1> QED
  BY <1>7, SortedPermuted

\* The sort of a partition into ascending rows keeps them.
LEMMA InOrderPermuted ==
  ASSUME NEW n \in Nat, NEW rows \in Seq(1..n)
  PROVE  Permuted(InOrder(rows), rows, Len(rows))
<1>1. PICK B : B = [j \in 1..Len(rows) |-> {i \in 1..Len(rows) : rows[i] < rows[j]}]
  OBVIOUS
<1>2. \A i, j \in 1..Len(rows) : i \in B[j] <=> rows[i] < rows[j]
  BY <1>1
<1>3. Len(rows) \in Nat /\ rows \in [1..Len(rows) -> 1..n]
  BY LenProperties
<1>4. \A i \in 1..Len(rows) : rows[i] \in Nat
  BY <1>3
<1>5. WeakOrder(Len(rows), B)
  <2>1. ASSUME NEW i \in 1..Len(rows), NEW j \in 1..Len(rows), i \in B[j] PROVE j \notin B[i]
    <3>1. rows[i] < rows[j] /\ rows[i] \in Nat /\ rows[j] \in Nat
      BY <1>2, <1>4, <2>1
    <3>2. ~(rows[j] < rows[i])
      BY <3>1
    <3> QED
      BY <1>2, <3>2
  <2>2. ASSUME NEW i \in 1..Len(rows), NEW j \in 1..Len(rows), NEW m \in 1..Len(rows), i \in B[m]
        PROVE  i \in B[j] \/ j \in B[m]
    <3>1. rows[i] < rows[m] /\ rows[i] \in Nat /\ rows[j] \in Nat /\ rows[m] \in Nat
      BY <1>2, <1>4, <2>2
    <3>2. rows[i] < rows[j] \/ rows[j] < rows[m]
      BY <3>1
    <3> QED
      BY <1>2, <3>2
  <2> QED
    BY <2>1, <2>2 DEF WeakOrder
<1>6. InOrder(rows) = InPlace(rows, Len(rows), PlaceIn(Len(rows), B))
  <2> DEFINE place == [j \in 1..Len(rows) |-> Cardinality({i \in 1..Len(rows) :
                rows[i] < rows[j] \/ (i <= j /\ ~(rows[j] < rows[i]))})]
  <2>1. ASSUME NEW j \in 1..Len(rows)
        PROVE  {i \in 1..Len(rows) : rows[i] < rows[j] \/ (i <= j /\ ~(rows[j] < rows[i]))}
               = {i \in 1..Len(rows) : i \in B[j] \/ (i <= j /\ j \notin B[i])}
    BY <1>2
  <2>2. place = PlaceIn(Len(rows), B)
    BY <2>1, Zenon DEF PlaceIn
  <2>3. InOrder(rows) = InPlace(rows, Len(rows), place)
    BY Zenon DEF InOrder, SortedBy, InPlace, At
  <2> QED
    BY <2>2, <2>3, Zenon
<1>7. SortedTo(InOrder(rows), rows, Len(rows), B)
  BY <1>3, <1>5, <1>6, Sorting
<1> QED
  BY <1>7, SortedPermuted

\* Sequences of rows none of which is empty
Filled(n) == {rows \in Seq(1..n) : rows # <<>>}

\* The sort of the micro batches by their work keeps them.
LEMMA ByTotalPermuted ==
  ASSUME NEW n \in Nat, NEW work \in [1..n -> Nat], NEW parts \in Seq(Filled(n))
  PROVE  Permuted(ByTotal(work, parts), parts, Len(parts))
<1>1. PICK B : B = [j \in 1..Len(parts) |-> {i \in 1..Len(parts) : Heavier(work, parts[i], parts[j])}]
  OBVIOUS
<1>2. \A i, j \in 1..Len(parts) : i \in B[j] <=> Heavier(work, parts[i], parts[j])
  BY <1>1
<1>3. Len(parts) \in Nat /\ parts \in [1..Len(parts) -> Filled(n)]
  BY LenProperties
<1>4. /\ \A p, q \in Filled(n) : Heavier(work, p, q) => ~Heavier(work, q, p)
      /\ \A p, q, r \in Filled(n) : Heavier(work, p, r) => Heavier(work, p, q) \/ Heavier(work, q, r)
  <2>1. ASSUME NEW p \in Filled(n) PROVE Total(work, p) \in Nat /\ p[1] \in Nat
    <3>1. p \in Seq(1..n) /\ p # <<>>
      BY DEF Filled
    <3>2. p[1] \in 1..n
      BY <3>1
    <3>3. Total(work, p) \in Nat
      BY <3>1, TotalType
    <3>4. p[1] \in Nat
      BY <3>2
    <3> QED
      BY <3>3, <3>4
  <2>2. ASSUME NEW p \in Filled(n), NEW q \in Filled(n), Heavier(work, p, q) PROVE ~Heavier(work, q, p)
    BY <2>1, <2>2 DEF Heavier
  <2>3. ASSUME NEW p \in Filled(n), NEW q \in Filled(n), NEW r \in Filled(n), Heavier(work, p, r)
        PROVE  Heavier(work, p, q) \/ Heavier(work, q, r)
    BY <2>1, <2>3 DEF Heavier
  <2> QED
    BY <2>2, <2>3
<1>5. WeakOrder(Len(parts), B)
  <2>1. \A i, j \in 1..Len(parts) : i \in B[j] => j \notin B[i]
    BY <1>2, <1>3, <1>4
  <2>2. \A i, j, m \in 1..Len(parts) : i \in B[m] => i \in B[j] \/ j \in B[m]
    BY <1>2, <1>3, <1>4
  <2> QED
    BY <2>1, <2>2 DEF WeakOrder
<1>6. ByTotal(work, parts) = InPlace(parts, Len(parts), PlaceIn(Len(parts), B))
  <2> DEFINE place == [j \in 1..Len(parts) |-> Cardinality({i \in 1..Len(parts) :
                Heavier(work, parts[i], parts[j]) \/ (i <= j /\ ~Heavier(work, parts[j], parts[i]))})]
  <2>1. ASSUME NEW j \in 1..Len(parts)
        PROVE  {i \in 1..Len(parts) :
                   Heavier(work, parts[i], parts[j]) \/ (i <= j /\ ~Heavier(work, parts[j], parts[i]))}
               = {i \in 1..Len(parts) : i \in B[j] \/ (i <= j /\ j \notin B[i])}
    BY <1>2
  <2>2. place = PlaceIn(Len(parts), B)
    BY <2>1, Zenon DEF PlaceIn
  <2>3. ByTotal(work, parts) = InPlace(parts, Len(parts), place)
    BY Zenon DEF ByTotal, SortedBy, InPlace, At
  <2> QED
    BY <2>2, <2>3, Zenon
<1>7. SortedTo(ByTotal(work, parts), parts, Len(parts), B)
  BY <1>3, <1>5, <1>6, Sorting
<1> QED
  BY <1>7, SortedPermuted

-----------------------------------------------------------------------------
(* Rows in groups of a size *)

\* The i-th of group o, of k each
Slot(k, o, i) == o * k + i

\* Division with remainder
LEMMA DivMod ==
  ASSUME NEW e \in Nat, e > 0, NEW x \in Nat
  PROVE  x % e \in 0..(e - 1) /\ x \div e \in Nat /\ x = (x \div e) * e + (x % e)
<1>1. x % e \in 0..(e - 1)
  OBVIOUS
<1>2. x \div e \in Nat
  OBVIOUS
<1>3. x = (x \div e) * e + (x % e)
  OBVIOUS
<1> QED
  BY <1>1, <1>2, <1>3

\* Groups of k rows do not overlap.
LEMMA Groups ==
  ASSUME NEW k \in Nat, NEW i \in Int, NEW j \in Int, i < j
  PROVE  i * k \in Int /\ j * k \in Int /\ i * k + k <= j * k
<1> DEFINE d == j - i - 1
<1>1. d \in Nat /\ j = i + 1 + d
  OBVIOUS
<1>2. d * k \in Nat
  BY <1>1
<1>3. j * k = i * k + k + d * k
  BY <1>1
<1>4. i * k \in Int /\ j * k \in Int
  OBVIOUS
<1> HIDE DEF d
<1> QED
  BY <1>2, <1>3, <1>4

\* Every row number is one slot of one group.
LEMMA Slots ==
  ASSUME NEW c \in Nat, NEW k \in Nat, k > 0
  PROVE  /\ c * k \in Nat
         /\ \A o \in Nat, i \in 1..k : Slot(k, o, i) \in Nat \ {0}
         /\ \A o \in 0..(c - 1), i \in 1..k : Slot(k, o, i) \in 1..(c * k)
         /\ \A o, p \in Nat, i, j \in 1..k : Slot(k, o, i) = Slot(k, p, j) => o = p /\ i = j
         /\ \A m \in 1..(c * k) : \E o \in 0..(c - 1), i \in 1..k : m = Slot(k, o, i)
<1>1. c * k \in Nat
  OBVIOUS
<1>a. ASSUME NEW o \in Nat PROVE o * k \in Nat
  OBVIOUS
<1>2. ASSUME NEW o \in 0..(c - 1), NEW i \in 1..k PROVE Slot(k, o, i) \in 1..(c * k)
  <2>1. o * k + k <= c * k
    BY Groups
  <2>2. PICK x \in Nat : x = o * k
    BY <1>a
  <2>3. PICK y \in Nat : y = c * k
    BY <1>1
  <2>4. x + k <= y
    BY <2>1, <2>2, <2>3
  <2>5. Slot(k, o, i) = x + i
    BY <2>2 DEF Slot
  <2>6. x + i \in 1..y
    BY <2>4
  <2> QED
    BY <2>3, <2>5, <2>6
<1>b. ASSUME NEW o \in Nat, NEW i \in 1..k PROVE Slot(k, o, i) \in Nat \ {0}
  <2>2. PICK x \in Nat : x = o * k
    BY <1>a
  <2>5. Slot(k, o, i) = x + i
    BY <2>2 DEF Slot
  <2> QED
    BY <2>5
<1>3. ASSUME NEW o \in Nat, NEW p \in Nat, NEW i \in 1..k, NEW j \in 1..k, o < p
      PROVE  Slot(k, o, i) < Slot(k, p, j)
  <2>1. o * k + k <= p * k
    BY <1>3, Groups
  <2>2. PICK x \in Nat : x = o * k
    BY <1>a
  <2>3. PICK y \in Nat : y = p * k
    BY <1>a
  <2>4. x + k <= y
    BY <2>1, <2>2, <2>3
  <2>5. Slot(k, o, i) = x + i /\ Slot(k, p, j) = y + j
    BY <2>2, <2>3 DEF Slot
  <2>6. x + i < y + j
    BY <2>4
  <2> QED
    BY <2>5, <2>6
<1>4. ASSUME NEW o \in Nat, NEW p \in Nat, NEW i \in 1..k, NEW j \in 1..k,
             Slot(k, o, i) = Slot(k, p, j)
      PROVE  o = p /\ i = j
  <2>1. PICK a \in Nat : a = Slot(k, o, i)
    BY <1>b
  <2>2. PICK b \in Nat : b = Slot(k, p, j)
    BY <1>b
  <2>3. ~(o < p)
    BY <1>3, <1>4, <2>1, <2>2
  <2>4. ~(p < o)
    BY <1>3, <1>4, <2>1, <2>2
  <2>5. o = p
    BY <2>3, <2>4
  <2>6. PICK x \in Nat : x = o * k
    BY <1>a
  <2>7. Slot(k, o, i) = x + i /\ Slot(k, p, j) = x + j
    BY <2>5, <2>6 DEF Slot
  <2>8. x + i = x + j
    BY <1>4, <2>7
  <2>9. i = j
    BY <2>8
  <2> QED
    BY <2>5, <2>9
<1>5. ASSUME NEW m \in 1..(c * k) PROVE \E o \in 0..(c - 1), i \in 1..k : m = Slot(k, o, i)
  <2>1. m \in Nat /\ m - 1 \in Nat
    BY <1>1
  <2>2. PICK o \in Nat : o = (m - 1) \div k
    BY <2>1, DivMod
  <2>3. PICK r \in 0..(k - 1) : r = (m - 1) % k
    BY <2>1, DivMod
  <2>4. m - 1 = o * k + r
    BY <2>1, <2>2, <2>3, DivMod
  <2>5. PICK i \in 1..k : i = r + 1
    OBVIOUS
  <2>6. PICK x \in Nat : x = o * k
    BY <1>a
  <2>7. m = x + i
    BY <2>1, <2>4, <2>5, <2>6
  <2>8. o < c
    <3>1. SUFFICES ASSUME ~(o < c) PROVE FALSE
      OBVIOUS
    <3>2. c = o \/ c < o
      BY <3>1
    <3>3. PICK y \in Nat : y = c * k
      BY <1>1
    <3>4. y <= x
      <4>1. CASE c = o
        BY <2>6, <3>3, <4>1
      <4>2. CASE c < o
        <5>1. c * k + k <= o * k
          BY <4>2, Groups
        <5>2. y + k <= x
          BY <2>6, <3>3, <5>1
        <5> QED
          BY <5>2
      <4> QED
        BY <3>2, <4>1, <4>2
    <3>5. m <= y
      BY <2>1, <3>3
    <3> QED
      BY <2>7, <3>4, <3>5
  <2>9. m = Slot(k, o, i)
    BY <2>6, <2>7 DEF Slot
  <2> QED
    BY <2>8, <2>9
<1> QED
  BY <1>1, <1>2, <1>4, <1>5, <1>b

-----------------------------------------------------------------------------
(* Largest differencing: the states at first *)

Weights(work, n) == work \in [1..n -> Nat] /\ \A r \in 1..n : work[r] > 0

Permutation(f, n) == f \in Bijection(1..n, 1..n)

\* What a permutation of 1..n is
LEMMA PermutationFacts ==
  ASSUME NEW n \in Nat, NEW f, Permutation(f, n)
  PROVE  /\ f \in [1..n -> 1..n]
         /\ \A i, j \in 1..n : f[i] = f[j] => i = j
         /\ \A m \in 1..n : \E i \in 1..n : f[i] = m
<1>1. PICK g \in Bijection(1..n, 1..n) : g = f
  BY DEF Permutation
<1>2. /\ g \in [1..n -> 1..n]
      /\ \A i, j \in 1..n : g[i] = g[j] => i = j
      /\ \A m \in 1..n : \E i \in 1..n : g[i] = m
  BY ZenonT(60), Fun_BijectionProperties
<1> QED
  BY <1>1, <1>2

\* The rows in ascending order of their work are a permutation.
LEMMA AscendingIs ==
  ASSUME NEW n \in Nat, NEW work, Weights(work, n)
  PROVE  Permutation(Ascending(work), n)
<1>1. work \in [1..n -> Nat] /\ DOMAIN work = 1..n
  BY DEF Weights
<1>2. PICK id : id = [i \in 1..n |-> i]
  OBVIOUS
<1>3. id \in Seq(1..n) /\ Len(id) = n
  BY <1>2
<1>4. Ascending(work) = ByWork(work, id)
  BY <1>1, <1>2 DEF Ascending
<1>5. Permuted(ByWork(work, id), id, Len(id))
  BY <1>1, <1>3, ByWorkPermuted
<1>6. PICK f \in Bijection(1..n, 1..n) : ByWork(work, id) = [m \in 1..n |-> id[f[m]]]
  BY <1>3, <1>5 DEF Permuted
<1>7. f \in [1..n -> 1..n]
  BY Fun_BijectionProperties
<1>8. [m \in 1..n |-> id[f[m]]] = f
  BY <1>2, <1>7
<1> QED
  BY <1>4, <1>6, <1>8 DEF Permutation

\* A sequence of one element
LEMMA OneTuple ==
  ASSUME NEW T, NEW r \in T
  PROVE  \E w \in Seq(T) : w = <<r>> /\ Len(w) = 1 /\ w[1] = r /\ w # <<>>
<1>1. <<r>> \in Seq(T) /\ Len(<<r>>) = 1 /\ <<r>>[1] = r /\ <<r>> # <<>>
  OBVIOUS
<1> QED
  BY <1>1

\* The empty sequence
LEMMA NoTuple ==
  ASSUME NEW T
  PROVE  \E w \in Seq(T) : w = <<>> /\ Len(w) = 0
<1>1. <<>> \in Seq(T) /\ Len(<<>>) = 0
  OBVIOUS
<1> QED
  BY <1>1

\* A part with one row has its work as its sum.
LEMMA OneRowPart ==
  ASSUME NEW n \in Nat, NEW work, Weights(work, n), NEW r \in 1..n,
         NEW p, p = Part(work, <<r>>)
  PROVE  /\ p \in PartType(n)
         /\ Len(p.rows) = 1 /\ p.rows[1] = r
         /\ p.sum > 0
<1>1. PICK w \in Seq(1..n) : w = <<r>> /\ Len(w) = 1 /\ w[1] = r /\ w # <<>>
  BY OneTuple
<1>2. Len(w) = 1 /\ w[1] = r /\ w # <<>>
  BY <1>1
<1>3. PICK t \in Nat : t = Total(work, w) /\ t > 0
  <2>1. work \in [1..n -> Nat] /\ \A q \in 1..n : work[q] > 0
    BY DEF Weights
  <2>2. Total(work, w) \in Nat /\ Total(work, w) > 0
    BY <1>2, <2>1, TotalType
  <2> QED
    BY <2>2
<1>4. p = [sum |-> t, rows |-> w]
  BY <1>1, <1>3 DEF Part
<1>5. p.sum = t /\ p.rows = w /\ p \in PartType(n)
  BY <1>4 DEF PartType
<1> QED
  BY <1>2, <1>3, <1>5

\* A part without rows has the sum 0.
LEMMA NoRowPart ==
  ASSUME NEW n \in Nat, NEW work, Weights(work, n), NEW p, p = Part(work, <<>>)
  PROVE  /\ p \in PartType(n)
         /\ Len(p.rows) = 0
         /\ p.sum = 0
<1>1. PICK w \in Seq(1..n) : w = <<>> /\ Len(w) = 0
  BY NoTuple
<1>2. Len(w) = 0
  BY <1>1
<1>3. Total(work, w) = 0
  <2>1. work \in [1..n -> Nat]
    BY DEF Weights
  <2> QED
    BY <1>1, <2>1, TotalType
<1>4. p = [sum |-> 0, rows |-> w]
  BY <1>1, <1>3 DEF Part
<1>5. p.sum = 0 /\ p.rows = w /\ p \in PartType(n)
  BY <1>4 DEF PartType
<1> QED
  BY <1>2, <1>5

\* A state of parts of one row, h[i] in the i-th
OneEach(s, h, n, k) ==
  /\ DOMAIN s = 1..k /\ s = [i \in DOMAIN s |-> s[i]]
  /\ \A i \in 1..k : /\ s[i] \in PartType(n)
                     /\ Len(s[i].rows) = 1 /\ s[i].rows[1] = h[i]
                     /\ s[i].sum > 0
  /\ \A i, j \in 1..k : h[i] = h[j] => i = j

Among(r, h, k) == \E i \in 1..k : r = h[i]

\* A state with one row in each part is sound.
LEMMA OneEachSound ==
  ASSUME NEW n \in Nat, NEW k \in Nat, k > 0, NEW h, NEW s, OneEach(s, h, n, k)
  PROVE  /\ Sound(s, n, k, TRUE)
         /\ \A r : Holds(RowsOf(s), r) <=> Among(r, h, k)
<1>1. Parted(s, n, k)
  BY DEF OneEach, Parted
<1>2. Weighed(s, k)
  <2>1. ASSUME NEW i \in 1..k
        PROVE  (s[i].sum > 0 => Len(s[i].rows) > 0) /\ (Len(s[i].rows) > 0 => s[i].sum > 0)
    <3>1. Len(s[i].rows) = 1 /\ s[i].sum > 0
      BY DEF OneEach
    <3>2. PICK l : l = Len(s[i].rows)
      OBVIOUS
    <3>3. l > 0
      BY <3>1, <3>2
    <3> QED
      BY <3>1, <3>2, <3>3
  <2> QED
    BY <2>1 DEF Weighed
<1>3. PICK S : S = RowsOf(s)
  OBVIOUS
<1>4. Rowed(S, n, k) /\ DOMAIN S = 1..k
  BY <1>1, <1>3, RowsOfFacts DEF RowsOf
<1>5. ASSUME NEW i \in 1..k PROVE Len(S[i]) = 1 /\ S[i][1] = h[i]
  <2>1. S[i] = s[i].rows
    BY <1>1, <1>3, RowsOfFacts
  <2>2. Len(s[i].rows) = 1 /\ s[i].rows[1] = h[i]
    BY DEF OneEach
  <2> QED
    BY <2>1, <2>2
<1>6. ASSUME NEW i \in 1..k, NEW a \in 1..Len(S[i]) PROVE a = 1
  <2>1. PICK l : l = Len(S[i])
    OBVIOUS
  <2>2. l = 1 /\ a \in 1..l
    BY <1>5, <2>1
  <2> QED
    BY <2>2
<1>7. Once(S)
  <2>1. ASSUME NEW i \in 1..k, NEW j \in 1..k, NEW a \in 1..Len(S[i]), NEW b \in 1..Len(S[j]),
               S[i][a] = S[j][b]
        PROVE  i = j /\ a = b
    <3>1. a = 1 /\ b = 1
      BY <1>6
    <3>2. h[i] = h[j]
      BY <1>5, <2>1, <3>1
    <3> QED
      BY <3>1, <3>2 DEF OneEach
  <2> QED
    BY <1>4, <2>1 DEF Once
<1>8. Even(S, TRUE)
  <2>1. ASSUME NEW i \in 1..k, NEW j \in 1..k PROVE Len(S[i]) = Len(S[j])
    BY <1>5
  <2> QED
    BY <1>4, <2>1 DEF Even
<1>9. \E i \in 1..k : Len(S[i]) > 0
  <2>1. 1 \in 1..k
    OBVIOUS
  <2>2. PICK l : l = Len(S[1])
    OBVIOUS
  <2>3. l > 0
    BY <1>5, <2>1, <2>2
  <2> QED
    BY <2>1, <2>2, <2>3
<1>10. Sound(s, n, k, TRUE)
  BY <1>1, <1>2, <1>3, <1>4, <1>7, <1>8, <1>9 DEF Sound, Shares
<1>11. ASSUME NEW r PROVE Holds(S, r) <=> \E i \in 1..k : r = h[i]
  <2>1. ASSUME Holds(S, r) PROVE \E i \in 1..k : r = h[i]
    <3>1. PICK i \in 1..k : \E a \in 1..Len(S[i]) : S[i][a] = r
      BY <1>4, <2>1 DEF Holds
    <3>2. PICK a \in 1..Len(S[i]) : S[i][a] = r
      BY <3>1
    <3>3. a = 1
      BY <1>6
    <3>4. r = h[i]
      BY <1>5, <3>2, <3>3
    <3> QED
      BY <3>4
  <2>2. ASSUME NEW i \in 1..k, r = h[i] PROVE Holds(S, r)
    <3>1. r = S[i][1]
      BY <1>5, <2>2
    <3>2. 1 \in 1..Len(S[i])
      BY <1>5
    <3> QED
      BY <1>4, <3>1, <3>2, HoldsAt
  <2> QED
    BY <2>1, <2>2
<1> QED
  BY <1>3, <1>10, <1>11 DEF Among

\* One row in each part: group o of the rows in ascending order
GroupState(work, k, row, o) == [i \in 1..k |-> Part(work, <<row[o * k + i]>>)]
Grouped(n, c, k) == n = c * k

\* The slots of c groups of k are the rows 1..n.
LEMMA SlotsOf ==
  ASSUME NEW n \in Nat, NEW c \in Nat, NEW k \in Nat, k > 0, Grouped(n, c, k)
  PROVE  /\ \A o \in 0..(c - 1), i \in 1..k : Slot(k, o, i) \in 1..n
         /\ \A o, p \in Nat, i, j \in 1..k : Slot(k, o, i) = Slot(k, p, j) => o = p /\ i = j
         /\ \A m \in 1..n : \E o \in 0..(c - 1), i \in 1..k : m = Slot(k, o, i)
BY Slots DEF Grouped

\* Row r is in group o.
InGroup(r, row, k, o) == \E i \in 1..k : r = row[Slot(k, o, i)]

\* The state of one group is sound, and has the rows of that group.
LEMMA GroupSound ==
  ASSUME NEW n \in Nat, NEW work, Weights(work, n), NEW k \in Nat, k > 0,
         NEW row, Permutation(row, n), NEW c \in Nat, Grouped(n, c, k), NEW o \in 0..(c - 1),
         NEW s, s = GroupState(work, k, row, o)
  PROVE  /\ Sound(s, n, k, TRUE)
         /\ \A r : Holds(RowsOf(s), r) <=> InGroup(r, row, k, o)
<1>1. row \in [1..n -> 1..n]
  BY PermutationFacts
<1>a. \A i, j \in 1..n : row[i] = row[j] => i = j
  BY PermutationFacts
<1>2. ASSUME NEW i \in 1..k
      PROVE  /\ Slot(k, o, i) \in 1..n
             /\ \A j \in 1..k : Slot(k, o, i) = Slot(k, o, j) => i = j
  <2>1. o \in Nat /\ o \in 0..(c - 1)
    OBVIOUS
  <2>2. \A p \in 0..(c - 1), j \in 1..k : Slot(k, p, j) \in 1..n
    BY SlotsOf
  <2>3. \A p, q \in Nat, j, l \in 1..k : Slot(k, p, j) = Slot(k, q, l) => p = q /\ j = l
    BY SlotsOf
  <2> QED
    BY <2>1, <2>2, <2>3
<1>3. ASSUME NEW i \in 1..k PROVE row[Slot(k, o, i)] \in 1..n
  BY <1>1, <1>2
<1>4. PICK h \in [1..k -> 1..n] : \A i \in 1..k : h[i] = row[Slot(k, o, i)]
  <2>1. [i \in 1..k |-> row[Slot(k, o, i)]] \in [1..k -> 1..n]
    BY <1>3
  <2> QED
    BY <2>1
<1>5. DOMAIN s = 1..k /\ s = [i \in DOMAIN s |-> s[i]]
  BY DEF GroupState
<1>6. ASSUME NEW i \in 1..k
      PROVE  /\ s[i] \in PartType(n) /\ s[i].sum > 0
             /\ Len(s[i].rows) = 1 /\ s[i].rows[1] = h[i]
  <2>1. PICK r \in 1..n : r = h[i]
    OBVIOUS
  <2>2. s[i] = Part(work, <<r>>)
    BY <1>4, <2>1 DEF GroupState, Slot
  <2> QED
    BY <2>1, <2>2, OneRowPart
<1>7. ASSUME NEW i \in 1..k, NEW j \in 1..k, h[i] = h[j] PROVE i = j
  <2>1. Slot(k, o, i) = Slot(k, o, j)
    BY <1>a, <1>2, <1>4, <1>7
  <2> QED
    BY <1>2, <2>1
<1>8. OneEach(s, h, n, k)
  BY <1>5, <1>6, <1>7 DEF OneEach
<1>9. Sound(s, n, k, TRUE)
  BY <1>8, OneEachSound
<1>10. ASSUME NEW r PROVE Holds(RowsOf(s), r) <=> Among(r, h, k)
  BY <1>8, OneEachSound
<1> QED
  BY <1>4, <1>9, <1>10 DEF Among, InGroup

\* One row in the first part, and the others empty
RowState(work, k, r) == [i \in 1..k |-> Part(work, IF i = 1 THEN <<r>> ELSE <<>>)]
OneFirst(s, x, n, k) ==
  /\ DOMAIN s = 1..k /\ s = [i \in DOMAIN s |-> s[i]]
  /\ \A i \in 1..k : s[i] \in PartType(n)
  /\ Len(s[1].rows) = 1 /\ s[1].rows[1] = x /\ s[1].sum > 0
  /\ \A i \in 2..k : Len(s[i].rows) = 0 /\ s[i].sum = 0

\* x is the only row in the shares.
Only(S, x) == \A r : Holds(S, r) <=> r = x

\* A state with one row in its first part is sound, and has that row.
LEMMA OneFirstSound ==
  ASSUME NEW n \in Nat, NEW k \in Nat, k > 0, NEW x, NEW s, OneFirst(s, x, n, k)
  PROVE  /\ Heaped(s, n, k, FALSE)
         /\ Only(RowsOf(s), x)
<1>0. 1 \in 1..k /\ \A i \in 1..k : i = 1 \/ i \in 2..k
  OBVIOUS
<1>1. Parted(s, n, k)
  BY DEF OneFirst, Parted
<1>2. Weighed(s, k)
  <2>1. ASSUME NEW i \in 1..k
        PROVE  (s[i].sum > 0 => Len(s[i].rows) > 0) /\ (Len(s[i].rows) > 0 => s[i].sum > 0)
    <3>1. PICK l : l = Len(s[i].rows)
      OBVIOUS
    <3>2. PICK t : t = s[i].sum
      OBVIOUS
    <3>3. (l = 1 /\ t > 0) \/ (l = 0 /\ t = 0)
      BY <1>0, <3>1, <3>2 DEF OneFirst
    <3>4. (t > 0 => l > 0) /\ (l > 0 => t > 0)
      BY <3>3
    <3> QED
      BY <3>1, <3>2, <3>4
  <2> QED
    BY <2>1 DEF Weighed
<1>3. PICK S : S = RowsOf(s)
  OBVIOUS
<1>4. Rowed(S, n, k) /\ DOMAIN S = 1..k /\ \A i \in 1..k : S[i] = s[i].rows
  BY <1>1, <1>3, RowsOfFacts DEF RowsOf
<1>5. Len(S[1]) = 1 /\ S[1][1] = x
  BY <1>0, <1>4 DEF OneFirst
<1>6. ASSUME NEW i \in 1..k, i # 1 PROVE Len(S[i]) = 0
  <2>1. S[i] = s[i].rows /\ i \in 2..k
    BY <1>0, <1>4, <1>6
  <2> QED
    BY <2>1 DEF OneFirst
<1>7. ASSUME NEW i \in 1..k, NEW a \in 1..Len(S[i]) PROVE i = 1 /\ a = 1 /\ S[i][a] = x
  <2>1. PICK l : l = Len(S[i])
    OBVIOUS
  <2>2. a \in 1..l
    BY <2>1
  <2>3. i = 1
    <3>1. SUFFICES ASSUME i # 1 PROVE FALSE
      OBVIOUS
    <3>2. l = 0
      BY <1>6, <2>1, <3>1
    <3> QED
      BY <2>2, <3>2
  <2>4. l = 1
    BY <1>5, <2>1, <2>3
  <2>5. a = 1
    BY <2>2, <2>4
  <2> QED
    BY <1>5, <2>3, <2>5
<1>8. Once(S)
  BY <1>4, <1>7 DEF Once
<1>9. ASSUME NEW i \in 1..k PROVE Len(S[i]) <= 1
  <2>1. PICK l : l = Len(S[i])
    OBVIOUS
  <2>2. l = 1 \/ l = 0
    BY <1>5, <1>6, <2>1
  <2>3. l <= 1
    BY <2>2
  <2> QED
    BY <2>1, <2>3
<1>10. Even(S, FALSE)
  BY <1>4, <1>9 DEF Even
<1>11. Falling(S)
  <2>1. ASSUME NEW i \in 1..k, NEW j \in 1..k, i < j PROVE Len(S[j]) = 0
    <3>1. j # 1
      BY <2>1
    <3> QED
      BY <1>6, <3>1
  <2> QED
    BY <1>4, <2>1 DEF Falling
<1>12. \E i \in 1..k : Len(S[i]) > 0
  <2>1. PICK l : l = Len(S[1])
    OBVIOUS
  <2>2. l > 0
    BY <1>5, <2>1
  <2> QED
    BY <1>0, <2>1, <2>2
<1>13. Shares(S, n, k, FALSE)
  BY <1>4, <1>8, <1>10, <1>12 DEF Shares
<1>14. ASSUME NEW r PROVE Holds(S, r) <=> r = x
  <2>1. ASSUME Holds(S, r) PROVE r = x
    BY <1>4, <1>7, <2>1 DEF Holds
  <2>2. ASSUME r = x PROVE Holds(S, r)
    <3>1. 1 \in 1..Len(S[1])
      BY <1>5
    <3>2. r = S[1][1]
      BY <1>5, <2>2
    <3> QED
      BY <1>0, <1>4, <3>1, <3>2, HoldsAt
  <2> QED
    BY <2>1, <2>2
<1> QED
  BY <1>1, <1>2, <1>3, <1>11, <1>13, <1>14 DEF Heaped, Sound, Only

\* karmarkar_karp puts each row in the first part of a state of its own.
LEMMA RowSound ==
  ASSUME NEW n \in Nat, NEW work, Weights(work, n), NEW k \in Nat, k > 0, NEW x \in 1..n,
         NEW s, s = RowState(work, k, x)
  PROVE  /\ Heaped(s, n, k, FALSE)
         /\ Only(RowsOf(s), x)
<1>1. /\ DOMAIN s = 1..k /\ s = [i \in DOMAIN s |-> s[i]] /\ s[1] = Part(work, <<x>>)
      /\ \A i \in 2..k : s[i] = Part(work, <<>>)
  BY DEF RowState
<1>2. s[1] \in PartType(n) /\ Len(s[1].rows) = 1 /\ s[1].rows[1] = x /\ s[1].sum > 0
  BY <1>1, OneRowPart
<1>3. ASSUME NEW i \in 2..k PROVE s[i] \in PartType(n) /\ Len(s[i].rows) = 0 /\ s[i].sum = 0
  BY <1>1, NoRowPart
<1>4. \A i \in 1..k : i = 1 \/ i \in 2..k
  OBVIOUS
<1>5. OneFirst(s, x, n, k)
  BY <1>1, <1>2, <1>3, <1>4 DEF OneFirst
<1>6. Heaped(s, n, k, FALSE)
  BY <1>5, OneFirstSound
<1>7. Only(RowsOf(s), x)
  BY <1>5, OneFirstSound
<1> QED
  BY <1>6, <1>7

Covers(H, n) == \A r \in 1..n : \E s \in H : Holds(RowsOf(s), r)

\* The image of a finite set is finite.
LEMMA ImageFinite ==
  ASSUME NEW D, IsFiniteSet(D), NEW f, DOMAIN f = D
  PROVE  IsFiniteSet({f[d] : d \in D})
<1>1. PICK T : T = {f[d] : d \in D}
  OBVIOUS
<1>2. [d \in D |-> f[d]] \in Surjection(D, T)
  <2>1. [d \in D |-> f[d]] \in [D -> T]
    BY <1>1
  <2>2. \A t \in T : \E d \in D : [e \in D |-> f[e]][d] = t
    BY <1>1
  <2> QED
    BY <2>1, <2>2, Fun_IsSurj
<1>3. IsFiniteSet(T)
  BY <1>2, FS_Surjection
<1> QED
  BY <1>1, <1>3

\* The number of groups, as the code computes it
LEMMA GroupCount ==
  ASSUME NEW n \in Nat, NEW c \in Nat, NEW k \in Nat, k > 0, Grouped(n, c, k)
  PROVE  n \div k = c
<1>1. PICK q \in Nat : q = n \div k
  BY DivMod
<1>2. PICK r \in 0..(k - 1) : r = n % k
  BY DivMod
<1>3. n = q * k + r
  BY <1>1, <1>2, DivMod
<1>4. PICK x \in Nat : x = q * k
  OBVIOUS
<1>5. PICK y \in Nat : y = c * k
  OBVIOUS
<1>6. y = x + r
  BY <1>3, <1>4, <1>5 DEF Grouped
<1>7. ASSUME q < c PROVE FALSE
  <2>1. q * k + k <= c * k
    BY <1>7, Groups
  <2>2. x + k <= y
    BY <1>4, <1>5, <2>1
  <2> QED
    BY <1>6, <2>2
<1>8. ASSUME c < q PROVE FALSE
  <2>1. c * k + k <= q * k
    BY <1>8, Groups
  <2>2. y + k <= x
    BY <1>4, <1>5, <2>1
  <2> QED
    BY <1>6, <2>2
<1> QED
  BY <1>1, <1>7, <1>8

\* As many rows to each part
LEMMA FirstGroups ==
  ASSUME NEW n \in Nat, n > 0, NEW work, Weights(work, n), NEW k \in Nat, k > 0,
         NEW c \in Nat, Grouped(n, c, k)
  PROVE  LET H == FirstStates(work, k, TRUE) IN
           Heap(H, n, k, TRUE) /\ Covers(H, n) /\ H # {}
<1>1. Len(work) = n
  BY DEF Weights
<1>2. Len(work) \div k = c
  BY <1>1, GroupCount
<1>3. /\ \A o, p \in Nat, i, j \in 1..k : Slot(k, o, i) = Slot(k, p, j) => o = p /\ i = j
      /\ \A m \in 1..n : \E o \in 0..(c - 1), i \in 1..k : m = Slot(k, o, i)
      /\ \A o \in 0..(c - 1), i \in 1..k : Slot(k, o, i) \in 1..n
  <2>1. \A o, p \in Nat, i, j \in 1..k : Slot(k, o, i) = Slot(k, p, j) => o = p /\ i = j
    BY SlotsOf
  <2>2. \A m \in 1..n : \E o \in 0..(c - 1), i \in 1..k : m = Slot(k, o, i)
    BY SlotsOf
  <2>3. \A o \in 0..(c - 1), i \in 1..k : Slot(k, o, i) \in 1..n
    BY SlotsOf
  <2> QED
    BY <2>1, <2>2, <2>3
<1>4. PICK row : row = Ascending(work) /\ Permutation(row, n)
  BY AscendingIs
<1>5. row \in [1..n -> 1..n]
  BY <1>4, PermutationFacts
<1>6. \A i, j \in 1..n : row[i] = row[j] => i = j
  BY <1>4, PermutationFacts
<1>b. Permutation(row, n)
  BY <1>4
<1>7. \A m \in 1..n : \E i \in 1..n : row[i] = m
  BY <1>b, PermutationFacts
<1>8. PICK f : f = [o \in 0..(c - 1) |-> Ordered(GroupState(work, k, row, o))]
  OBVIOUS
<1>9. DOMAIN f = 0..(c - 1) /\ \A o \in 0..(c - 1) : f[o] = Ordered(GroupState(work, k, row, o))
  BY <1>8
<1>10. PICK H : H = {f[o] : o \in 0..(c - 1)}
  OBVIOUS
<1>11. FirstStates(work, k, TRUE) = H
  <2>1. FirstStates(work, k, TRUE) =
          {Ordered([i \in 1..k |-> Part(work, <<row[o * k + i]>>)]) : o \in 0..(c - 1)}
    BY Zenon, <1>2, <1>4 DEF FirstStates
  <2>2. {Ordered([i \in 1..k |-> Part(work, <<row[o * k + i]>>)]) : o \in 0..(c - 1)}
        = {Ordered(GroupState(work, k, row, o)) : o \in 0..(c - 1)}
    BY Zenon DEF GroupState
  <2>3. {Ordered(GroupState(work, k, row, o)) : o \in 0..(c - 1)} = H
    BY <1>9, <1>10
  <2> QED
    BY <2>1, <2>2, <2>3
<1>12. ASSUME NEW o \in 0..(c - 1)
       PROVE  /\ Heaped(f[o], n, k, TRUE)
              /\ \A r : Holds(RowsOf(f[o]), r) <=> InGroup(r, row, k, o)
  <2>1. PICK s : s = GroupState(work, k, row, o)
    OBVIOUS
  <2>2. /\ Sound(s, n, k, TRUE)
        /\ \A r : Holds(RowsOf(s), r) <=> InGroup(r, row, k, o)
    BY <1>4, <2>1, GroupSound
  <2>3. f[o] = Ordered(s)
    BY <1>9, <2>1
  <2>5. /\ Sound(Ordered(s), n, k, TRUE) /\ Falling(RowsOf(Ordered(s)))
        /\ \A r : Holds(RowsOf(Ordered(s)), r) <=> Holds(RowsOf(s), r)
    BY <2>2, OrderedSound
  <2>4. /\ Sound(f[o], n, k, TRUE) /\ Falling(RowsOf(f[o]))
        /\ \A r : Holds(RowsOf(f[o]), r) <=> Holds(RowsOf(s), r)
    BY <2>3, <2>5
  <2> QED
    BY <2>2, <2>4 DEF Heaped
<1>13. IsFiniteSet(H)
  <2>1. IsFiniteSet(0..(c - 1))
    BY FS_Interval
  <2> QED
    BY <1>9, <1>10, <2>1, ImageFinite
<1>14. ASSUME NEW s \in H, NEW t \in H, s # t PROVE Apart(s, t)
  <2>1. PICK o \in 0..(c - 1) : s = f[o]
    BY <1>10
  <2>2. PICK p \in 0..(c - 1) : t = f[p]
    BY <1>10
  <2>3. o # p
    BY <1>14, <2>1, <2>2
  <2>4. ASSUME NEW r, Holds(RowsOf(s), r), Holds(RowsOf(t), r) PROVE FALSE
    <3>1. PICK i \in 1..k : r = row[Slot(k, o, i)]
      BY <1>12, <2>1, <2>4 DEF InGroup
    <3>2. PICK j \in 1..k : r = row[Slot(k, p, j)]
      BY <1>12, <2>2, <2>4 DEF InGroup
    <3>3. Slot(k, o, i) \in 1..n /\ Slot(k, p, j) \in 1..n
      BY <1>3
    <3>4. Slot(k, o, i) = Slot(k, p, j)
      BY <1>6, <3>1, <3>2, <3>3
    <3>5. o \in Nat /\ p \in Nat
      OBVIOUS
    <3>6. o = p
      BY <1>3, <3>4, <3>5
    <3> QED
      BY <2>3, <3>6
  <2> QED
    BY <2>4 DEF Apart
<1>15. Heap(H, n, k, TRUE)
  <2>1. \A s \in H : Heaped(s, n, k, TRUE)
    BY <1>10, <1>12
  <2> QED
    BY <1>13, <1>14, <2>1 DEF Heap
<1>16. ASSUME NEW r \in 1..n PROVE \E s \in H : Holds(RowsOf(s), r)
  <2>1. PICK m \in 1..n : row[m] = r
    BY <1>7
  <2>2. PICK o \in 0..(c - 1), i \in 1..k : m = Slot(k, o, i)
    BY <1>3
  <2>a. InGroup(r, row, k, o)
    BY <2>1, <2>2 DEF InGroup
  <2>3. Holds(RowsOf(f[o]), r)
    BY <1>12, <2>a
  <2> QED
    BY <1>10, <2>3
<1>17. H # {}
  <2>1. 1 \in 1..n
    OBVIOUS
  <2> QED
    BY <1>16, <2>1
<1> QED
  BY <1>11, <1>15, <1>16, <1>17 DEF Covers

\* One row, and empty parts
LEMMA FirstRows ==
  ASSUME NEW n \in Nat, n > 0, NEW work, Weights(work, n), NEW k \in Nat, k > 0
  PROVE  LET H == FirstStates(work, k, FALSE) IN
           Heap(H, n, k, FALSE) /\ Covers(H, n) /\ H # {}
<1>1. DOMAIN work = 1..n
  BY DEF Weights
<1>2. PICK f : f = [r \in 1..n |-> RowState(work, k, r)]
  OBVIOUS
<1>3. DOMAIN f = 1..n /\ \A r \in 1..n : f[r] = RowState(work, k, r)
  BY <1>2
<1>4. PICK H : H = {f[r] : r \in 1..n}
  OBVIOUS
<1>5. FirstStates(work, k, FALSE) = H
  <2>1. FirstStates(work, k, FALSE) =
          {[i \in 1..k |-> Part(work, IF i = 1 THEN <<r>> ELSE <<>>)] : r \in 1..n}
    BY Zenon, <1>1 DEF FirstStates
  <2>2. {[i \in 1..k |-> Part(work, IF i = 1 THEN <<r>> ELSE <<>>)] : r \in 1..n}
        = {RowState(work, k, r) : r \in 1..n}
    BY Zenon DEF RowState
  <2>3. {RowState(work, k, r) : r \in 1..n} = H
    BY <1>3, <1>4
  <2> QED
    BY <2>1, <2>2, <2>3
<1>6. ASSUME NEW x \in 1..n
      PROVE  Heaped(f[x], n, k, FALSE) /\ \A r : Holds(RowsOf(f[x]), r) <=> r = x
  <2>1. f[x] = RowState(work, k, x)
    BY <1>3
  <2>2. PICK s : s = f[x]
    OBVIOUS
  <2>a. s = RowState(work, k, x)
    BY <2>1, <2>2
  <2>b. Heaped(s, n, k, FALSE)
    BY <2>a, RowSound
  <2>c. Only(RowsOf(s), x)
    BY <2>a, RowSound
  <2>3. Heaped(s, n, k, FALSE) /\ \A r : Holds(RowsOf(s), r) <=> r = x
    BY <2>b, <2>c DEF Only
  <2> QED
    BY <2>2, <2>3
<1>7. IsFiniteSet(H)
  <2>1. IsFiniteSet(1..n)
    BY FS_Interval
  <2> QED
    BY <1>3, <1>4, <2>1, ImageFinite
<1>8. Heap(H, n, k, FALSE)
  <2>1. \A s \in H : Heaped(s, n, k, FALSE)
    BY <1>4, <1>6
  <2>2. \A s, t \in H : s # t => Apart(s, t)
    BY <1>4, <1>6 DEF Apart
  <2> QED
    BY <1>7, <2>1, <2>2 DEF Heap
<1>9. Covers(H, n)
  BY <1>4, <1>6 DEF Covers
<1>10. H # {}
  <2>1. 1 \in 1..n
    OBVIOUS
  <2> QED
    BY <1>4, <2>1
<1> QED
  BY <1>5, <1>8, <1>9, <1>10

-----------------------------------------------------------------------------
(* Largest differencing: the last state *)

MergesTo(first, c, f) == f = [i \in 0..c |-> IF i = 0 THEN first ELSE MergeTwo(f[i - 1])]

\* Merging again and again, as a sequence of heaps
LEMMA MergesExist ==
  ASSUME NEW first, NEW c \in Nat
  PROVE  \E f : MergesTo(first, c, f)
<1> DEFINE S == {m \in Nat : \E f : MergesTo(first, m, f)}
<1>1. 0 \in S
  <2> DEFINE f == [i \in 0..0 |-> first]
  <2>1. f = [i \in 0..0 |-> IF i = 0 THEN first ELSE MergeTwo(f[i - 1])]
    OBVIOUS
  <2> QED
    BY <2>1 DEF MergesTo
<1>2. ASSUME NEW m \in Nat, m \in S PROVE m + 1 \in S
  <2>1. PICK f : MergesTo(first, m, f)
    BY <1>2
  <2> DEFINE g == [i \in 0..(m + 1) |-> IF i = m + 1 THEN MergeTwo(f[m]) ELSE f[i]]
  <2>2. \A i \in 0..m : f[i] = IF i = 0 THEN first ELSE MergeTwo(f[i - 1])
    BY <2>1, Zenon DEF MergesTo
  <2>3. ASSUME NEW i \in 0..(m + 1) PROVE g[i] = IF i = 0 THEN first ELSE MergeTwo(g[i - 1])
    <3>1. CASE i = m + 1
      BY <3>1
    <3>2. CASE i # m + 1
      <4>1. i \in 0..m /\ (i # 0 => i - 1 \in 0..m /\ i - 1 # m + 1)
        BY <3>2
      <4>2. g[i] = f[i] /\ (i # 0 => g[i - 1] = f[i - 1])
        BY <3>2, <4>1
      <4> HIDE DEF g
      <4> QED
        BY <2>2, <4>1, <4>2
    <3> QED
      BY <3>1, <3>2
  <2>4. g = [i \in 0..(m + 1) |-> g[i]]
    OBVIOUS
  <2> HIDE DEF g
  <2>5. g = [i \in 0..(m + 1) |-> IF i = 0 THEN first ELSE MergeTwo(g[i - 1])]
    BY <2>3, <2>4
  <2> QED
    BY <2>5 DEF MergesTo
<1> HIDE DEF S
<1>3. Nat \subseteq S
  BY <1>1, <1>2, EachNatural
<1> QED
  BY <1>3 DEF S

\* A heap of c states that has every row
Stage(H, n, k, equal, c) == Heap(H, n, k, equal) /\ Covers(H, n) /\ Cardinality(H) = c

\* A merge takes one state from the heap and loses no row.
LEMMA MergeTwoStage ==
  ASSUME NEW n \in Nat, NEW k \in Nat, NEW equal, NEW l \in Nat,
         NEW H, Stage(H, n, k, equal, l + 2)
  PROVE  Stage(MergeTwo(H), n, k, equal, l + 1)
<1>1. Heap(H, n, k, equal) /\ Covers(H, n) /\ Cardinality(H) = l + 2
  BY DEF Stage
<1>2. /\ Heap(MergeTwo(H), n, k, equal)
      /\ Cardinality(MergeTwo(H)) = l + 1
      /\ \A r : (\E s \in H : Holds(RowsOf(s), r)) => \E s \in MergeTwo(H) : Holds(RowsOf(s), r)
  BY <1>1, MergeTwoHeap
<1>3. Covers(MergeTwo(H), n)
  BY <1>1, <1>2 DEF Covers
<1> QED
  BY <1>2, <1>3 DEF Stage

\* After all merges one state is left.
LEMMA LastStage ==
  ASSUME NEW n \in Nat, NEW k \in Nat, NEW equal, NEW c \in Nat,
         NEW first, Stage(first, n, k, equal, c + 1), NEW f, MergesTo(first, c, f)
  PROVE  Stage(f[c], n, k, equal, 1)
<1> DEFINE S == {m \in Nat : \A l \in Nat : l + m = c => Stage(f[m], n, k, equal, l + 1)}
<1>1. \A i \in 0..c : f[i] = IF i = 0 THEN first ELSE MergeTwo(f[i - 1])
  BY Zenon DEF MergesTo
<1>2. 0 \in S
  <2>1. f[0] = first
    BY <1>1
  <2>2. \A l \in Nat : l + 0 = c => l + 1 = c + 1
    OBVIOUS
  <2> QED
    BY <2>1, <2>2
<1>3. ASSUME NEW m \in Nat, m \in S PROVE m + 1 \in S
  <2> SUFFICES ASSUME NEW l \in Nat, l + (m + 1) = c PROVE Stage(f[m + 1], n, k, equal, l + 1)
    OBVIOUS
  <2>1. PICK p \in Nat : p = l + 1
    OBVIOUS
  <2>2. p + m = c /\ p + 1 = l + 2
    BY <2>1
  <2>3. Stage(f[m], n, k, equal, l + 2)
    BY <1>3, <2>2
  <2>4. m + 1 \in 0..c /\ m + 1 # 0 /\ (m + 1) - 1 = m
    OBVIOUS
  <2>5. f[m + 1] = MergeTwo(f[m])
    BY <1>1, <2>4
  <2> QED
    BY <2>3, <2>5, MergeTwoStage
<1> HIDE DEF S
<1>4. Nat \subseteq S
  BY <1>2, <1>3, EachNatural
<1>5. \A l \in Nat : l + c = c => Stage(f[c], n, k, equal, l + 1)
  BY <1>4 DEF S
<1>6. 0 + c = c /\ 0 + 1 = 1
  OBVIOUS
<1> QED
  BY <1>5, <1>6

\* The rows 1..n in k parts
Complete(s, n, k, equal) ==
  Sound(s, n, k, equal) /\ \A r \in 1..n : Holds(RowsOf(s), r)

\* The state that is left has every row once.
LEMMA OneStage ==
  ASSUME NEW n \in Nat, NEW k \in Nat, NEW equal, NEW H, Stage(H, n, k, equal, 1)
  PROVE  Complete(CHOOSE s \in H : TRUE, n, k, equal)
<1>1. Heap(H, n, k, equal) /\ Covers(H, n) /\ Cardinality(H) = 1 /\ IsFiniteSet(H)
  BY DEF Stage, Heap
<1>2. PICK x : H = {x}
  BY <1>1, FS_Singleton
<1>3. PICK d : d = CHOOSE s \in H : TRUE
  OBVIOUS
<1>4. d \in H /\ d = x
  BY <1>2, <1>3
<1>5. Sound(d, n, k, equal)
  BY <1>1, <1>4 DEF Heap, Heaped
<1>6. \A r \in 1..n : Holds(RowsOf(d), r)
  BY <1>1, <1>2, <1>4 DEF Covers
<1> QED
  BY <1>3, <1>5, <1>6 DEF Complete

\* That is what Differenced returns.
LEMMA LastSound ==
  ASSUME NEW n \in Nat, NEW k \in Nat, NEW equal, NEW work,
         NEW H, H = FirstStates(work, k, equal),
         Heap(H, n, k, equal), Covers(H, n), H # {}
  PROVE  Complete(Differenced(work, k, equal), n, k, equal)
<1>1. IsFiniteSet(H)
  BY DEF Heap
<1>2. Cardinality(H) \in Nat /\ Cardinality(H) # 0
  BY <1>1, FS_CardinalityType, FS_EmptySet
<1>3. PICK c \in Nat : c = Cardinality(H) - 1
  BY <1>2
<1>4. Cardinality(H) = c + 1
  BY <1>2, <1>3
<1>5. Stage(H, n, k, equal, c + 1)
  BY <1>4 DEF Stage
<1> DEFINE f == CHOOSE f : MergesTo(H, c, f)
<1>6. MergesTo(H, c, f)
  BY MergesExist, Zenon
<1>7. Differenced(work, k, equal) = CHOOSE s \in f[c] : TRUE
  BY ZenonT(40), <1>3 DEF Differenced, MergesTo
<1> HIDE DEF f
<1>8. Stage(f[c], n, k, equal, 1)
  BY <1>5, <1>6, LastStage
<1> QED
  BY <1>7, <1>8, OneStage

\* Rows can be shared out evenly when their number is one of the groups'.
Shareable(n, k, equal) == equal = FALSE \/ (equal = TRUE /\ \E c \in Nat : Grouped(n, c, k))

\* karmarkar_karp gives a state that has every row once.
LEMMA DifferencedComplete ==
  ASSUME NEW n \in Nat, n > 0, NEW work, Weights(work, n), NEW k \in Nat, k > 0,
         NEW equal, Shareable(n, k, equal)
  PROVE  Complete(Differenced(work, k, equal), n, k, equal)
<1>1. PICK H : H = FirstStates(work, k, equal)
  OBVIOUS
<1>2. Heap(H, n, k, equal) /\ Covers(H, n) /\ H # {}
  <2>1. CASE equal = FALSE
    BY <1>1, <2>1, FirstRows
  <2>2. CASE equal = TRUE /\ \E c \in Nat : Grouped(n, c, k)
    <3>1. PICK c \in Nat : Grouped(n, c, k)
      BY <2>2
    <3> QED
      BY <1>1, <2>2, <3>1, FirstGroups
  <2> QED
    BY <2>1, <2>2 DEF Shareable
<1> QED
  BY <1>1, <1>2, LastSound

-----------------------------------------------------------------------------
(* Sequences one after another *)

FlatTo(S, k, f) == f = [i \in 1..k |-> IF i = 1 THEN S[i] ELSE f[i - 1] \o S[i]]

\* The concatenations of the first sequences
LEMMA FlatExists ==
  ASSUME NEW S, NEW c \in Nat
  PROVE  \E f : FlatTo(S, c + 1, f)
<1> DEFINE Z == {m \in Nat : \E f : FlatTo(S, m + 1, f)}
<1>1. 0 \in Z
  <2> DEFINE f == [i \in 1..(0 + 1) |-> S[i]]
  <2>1. \A i \in 1..(0 + 1) : i = 1
    OBVIOUS
  <2>2. f = [i \in 1..(0 + 1) |-> IF i = 1 THEN S[i] ELSE f[i - 1] \o S[i]]
    BY <2>1
  <2> QED
    BY <2>2 DEF FlatTo
<1>2. ASSUME NEW m \in Nat, m \in Z PROVE m + 1 \in Z
  <2>a. PICK n \in Nat : n = m + 1
    OBVIOUS
  <2>1. PICK f : FlatTo(S, n, f)
    BY <1>2, <2>a
  <2> DEFINE g == [i \in 1..(n + 1) |-> IF i = n + 1 THEN f[n] \o S[n + 1] ELSE f[i]]
  <2>2. \A i \in 1..n : f[i] = IF i = 1 THEN S[i] ELSE f[i - 1] \o S[i]
    BY <2>1, Zenon DEF FlatTo
  <2>3. ASSUME NEW i \in 1..(n + 1) PROVE g[i] = IF i = 1 THEN S[i] ELSE g[i - 1] \o S[i]
    <3>1. CASE i = n + 1
      <4>1. i # 1 /\ i - 1 = n /\ n \in 1..(n + 1) /\ n # n + 1
        BY <2>a, <3>1
      <4>2. g[n] = f[n]
        BY <4>1
      <4>3. g[i] = f[n] \o S[i]
        BY <3>1
      <4> HIDE DEF g
      <4> QED
        BY <4>1, <4>2, <4>3
    <3>2. CASE i # n + 1
      <4>1. i \in 1..n /\ (i # 1 => i - 1 \in 1..n /\ i - 1 # n + 1)
        BY <3>2
      <4>2. g[i] = f[i] /\ (i # 1 => g[i - 1] = f[i - 1])
        BY <3>2, <4>1
      <4> HIDE DEF g
      <4> QED
        BY <2>2, <4>1, <4>2
    <3> QED
      BY <3>1, <3>2
  <2>4. g = [i \in 1..(n + 1) |-> g[i]]
    OBVIOUS
  <2> HIDE DEF g
  <2>5. g = [i \in 1..(n + 1) |-> IF i = 1 THEN S[i] ELSE g[i - 1] \o S[i]]
    BY <2>3, <2>4
  <2>6. \E h : FlatTo(S, n + 1, h)
    BY <2>5 DEF FlatTo
  <2> QED
    BY <2>6, <2>a
<1> HIDE DEF Z
<1>3. Nat \subseteq Z
  BY <1>1, <1>2, EachNatural
<1> QED
  BY <1>3 DEF Z

\* What FlattenSeq has after each of the sequences
Flat(S, k, f) ==
  /\ f[1] = S[1]
  /\ \A i \in 1..k : i > 1 => f[i] = f[i - 1] \o S[i]

\* FlattenSeq is the last of them.
LEMMA FlattenIs ==
  ASSUME NEW k \in Nat, k > 0, NEW S, Len(S) = k
  PROVE  \E f : Flat(S, k, f) /\ FlattenSeq(S) = f[k]
<1>1. PICK c \in Nat : c + 1 = k
  <2>1. k - 1 \in Nat /\ (k - 1) + 1 = k
    OBVIOUS
  <2> QED
    BY <2>1
<1> DEFINE f == CHOOSE f : FlatTo(S, k, f)
<1>2. FlatTo(S, k, f)
  <2>1. \E g : FlatTo(S, k, g)
    BY <1>1, FlatExists
  <2> QED
    BY <2>1, Zenon
<1>3. FlattenSeq(S) = f[k]
  <2>1. Len(S) # 0
    OBVIOUS
  <2> QED
    BY Zenon, <2>1 DEF FlattenSeq, FlatTo
<1> HIDE DEF f
<1>4. \A i \in 1..k : f[i] = IF i = 1 THEN S[i] ELSE f[i - 1] \o S[i]
  BY <1>2, Zenon DEF FlatTo
<1>5. Flat(S, k, f)
  <2>1. 1 \in 1..k /\ \A i \in 1..k : i > 1 => ~(i = 1)
    OBVIOUS
  <2>2. ASSUME NEW i \in 1..k, i > 1 PROVE f[i] = f[i - 1] \o S[i]
    <3>1. ~(i = 1)
      BY <2>1, <2>2
    <3> QED
      BY Zenon, <1>4, <3>1
  <2>3. f[1] = S[1]
    BY Zenon, <1>4, <2>1
  <2> QED
    BY Zenon, <2>2, <2>3 DEF Flat
<1> QED
  BY <1>3, <1>5

\* x has the elements of the first m of the sequences, each once.
Laid(x, S, m, n) ==
  /\ x \in Seq(1..n)
  /\ \A p, q \in 1..Len(x) : x[p] = x[q] => p = q
  /\ \A i \in 1..m : \A a \in 1..Len(S[i]) : \E p \in 1..Len(x) : x[p] = S[i][a]
  /\ \A p \in 1..Len(x) : \E i \in 1..m : \E a \in 1..Len(S[i]) : x[p] = S[i][a]

\* One more sequence, and the rows laid out are still each there once.
LEMMA LaidStep ==
  ASSUME NEW n \in Nat, NEW k \in Nat, NEW S, Rowed(S, n, k), Once(S),
         NEW m \in Nat, m + 1 \in 1..k, NEW x, Laid(x, S, m, n)
  PROVE  Laid(x \o S[m + 1], S, m + 1, n)
<1>1. DOMAIN S = 1..k /\ \A i \in 1..k : S[i] \in Seq(1..n) /\ Len(S[i]) \in Nat
  BY ShareTypes
<1>2. PICK y \in Seq(1..n) : y = S[m + 1]
  BY <1>1
<1>3. PICK z \in Seq(1..n) : z = x \o y /\ Behind(z, x, y)
  BY BehindIs DEF Laid
<1>4. Len(x) \in Nat /\ Len(y) \in Nat
  BY LenProperties DEF Laid
<1>5. \A i \in 1..m : i \in 1..k /\ i # m + 1 /\ i \in 1..(m + 1)
  OBVIOUS
<1>6. \A i \in 1..(m + 1) : i \in 1..m \/ i = m + 1
  OBVIOUS
<1>7. ASSUME NEW p \in 1..Len(z)
      PROVE  \/ p \in 1..Len(x) /\ z[p] = x[p]
             \/ \E b \in 1..Len(y) : b = p - Len(x) /\ z[p] = y[b]
  <2>1. Behind(z, x, y)
    BY <1>3
  <2>2. Len(x) \in Nat /\ Len(y) \in Nat
    BY <1>4
  <2>3. p \in 1..Len(z)
    OBVIOUS
  <2> QED
    BY <1>4, <2>1, <2>2, <2>3, BehindAt
<1>8. ASSUME NEW p \in 1..Len(x), NEW b \in 1..Len(y), x[p] = y[b] PROVE FALSE
  <2>1. PICK i \in 1..m : \E a \in 1..Len(S[i]) : x[p] = S[i][a]
    BY DEF Laid
  <2>2. PICK a \in 1..Len(S[i]) : x[p] = S[i][a]
    BY <2>1
  <2>3. S[i][a] = S[m + 1][b]
    BY <1>2, <1>8, <2>2
  <2>4. i \in DOMAIN S /\ m + 1 \in DOMAIN S /\ b \in 1..Len(S[m + 1])
    BY <1>1, <1>2, <1>5
  <2>5. i = m + 1
    BY <2>3, <2>4, OnceAt
  <2> QED
    BY <1>5, <2>5
<1>9. ASSUME NEW b \in 1..Len(y), NEW c \in 1..Len(y), y[b] = y[c] PROVE b = c
  <2>1. m + 1 \in DOMAIN S /\ b \in 1..Len(S[m + 1]) /\ c \in 1..Len(S[m + 1])
    BY <1>1, <1>2
  <2>2. S[m + 1][b] = S[m + 1][c]
    BY <1>2, <1>9
  <2> QED
    BY <2>1, <2>2, OnceAt
<1>10. ASSUME NEW p \in 1..Len(z), NEW q \in 1..Len(z), z[p] = z[q] PROVE p = q
  <2>1. CASE p \in 1..Len(x) /\ z[p] = x[p]
    <3>1. CASE q \in 1..Len(x) /\ z[q] = x[q]
      BY <1>10, <2>1, <3>1 DEF Laid
    <3>2. CASE \E b \in 1..Len(y) : b = q - Len(x) /\ z[q] = y[b]
      BY <1>8, <1>10, <2>1, <3>2
    <3> QED
      BY <1>7, <3>1, <3>2
  <2>2. CASE \E b \in 1..Len(y) : b = p - Len(x) /\ z[p] = y[b]
    <3>a. PICK b \in 1..Len(y) : b = p - Len(x) /\ z[p] = y[b]
      BY <2>2
    <3>1. CASE q \in 1..Len(x) /\ z[q] = x[q]
      <4>1. x[q] = y[b]
        BY <1>10, <3>a, <3>1
      <4> QED
        BY <1>8, <3>1, <4>1
    <3>2. CASE \E c \in 1..Len(y) : c = q - Len(x) /\ z[q] = y[c]
      <4>1. PICK c \in 1..Len(y) : c = q - Len(x) /\ z[q] = y[c]
        BY <3>2
      <4>2. y[b] = y[c]
        BY <1>10, <3>a, <4>1
      <4>3. b = c
        BY <1>9, <4>2
      <4>4. Len(z) \in Nat
        BY LenProperties
      <4>5. PICK l \in Nat : l = Len(x)
        BY <1>4
      <4>6. p \in Int /\ q \in Int /\ p - l = q - l
        BY <3>a, <4>1, <4>3, <4>4, <4>5
      <4> QED
        BY <4>6
    <3> QED
      BY <1>7, <3>1, <3>2
  <2> QED
    BY <1>7, <2>1, <2>2
<1>11. ASSUME NEW i \in 1..(m + 1), NEW a \in 1..Len(S[i])
       PROVE  \E p \in 1..Len(z) : z[p] = S[i][a]
  <2>1. CASE i \in 1..m
    <3>1. PICK p \in 1..Len(x) : x[p] = S[i][a]
      BY <2>1 DEF Laid
    <3>2. p \in 1..Len(z) /\ z[p] = x[p]
      BY <1>3 DEF Behind
    <3> QED
      BY <3>1, <3>2
  <2>2. CASE i = m + 1
    <3>1. a \in 1..Len(y) /\ S[i][a] = y[a]
      BY <1>2, <2>2
    <3>2. a + Len(x) \in 1..Len(z) /\ z[a + Len(x)] = y[a]
      BY <1>3, <3>1 DEF Behind
    <3> QED
      BY <3>1, <3>2
  <2> QED
    BY <1>6, <2>1, <2>2
<1>12. ASSUME NEW p \in 1..Len(z)
       PROVE  \E i \in 1..(m + 1) : \E a \in 1..Len(S[i]) : z[p] = S[i][a]
  <2>1. CASE p \in 1..Len(x) /\ z[p] = x[p]
    <3>1. PICK i \in 1..m : \E a \in 1..Len(S[i]) : x[p] = S[i][a]
      BY <2>1 DEF Laid
    <3>2. i \in 1..(m + 1) /\ \E a \in 1..Len(S[i]) : z[p] = S[i][a]
      BY <1>5, <2>1, <3>1
    <3> QED
      BY <3>2
  <2>2. CASE \E b \in 1..Len(y) : b = p - Len(x) /\ z[p] = y[b]
    <3>1. PICK b \in 1..Len(y) : z[p] = y[b]
      BY <2>2
    <3>2. b \in 1..Len(S[m + 1]) /\ z[p] = S[m + 1][b]
      BY <1>2, <3>1
    <3>3. m + 1 \in 1..(m + 1)
      OBVIOUS
    <3> QED
      BY <3>2, <3>3
  <2> QED
    BY <1>7, <2>1, <2>2
<1>13. Laid(z, S, m + 1, n)
  BY <1>10, <1>11, <1>12 DEF Laid
<1> QED
  BY <1>2, <1>3, <1>13

\* The first sequence
LEMMA LaidFirst ==
  ASSUME NEW n \in Nat, NEW k \in Nat, k > 0, NEW S, Rowed(S, n, k), Once(S)
  PROVE  Laid(S[1], S, 1, n)
<1>1. DOMAIN S = 1..k /\ \A i \in 1..k : S[i] \in Seq(1..n) /\ Len(S[i]) \in Nat
  BY ShareTypes
<1>2. 1 \in 1..k /\ 1 \in 1..1 /\ \A i \in 1..1 : i = 1
  OBVIOUS
<1>3. PICK x \in Seq(1..n) : x = S[1]
  BY <1>1, <1>2
<1>4. ASSUME NEW p \in 1..Len(x), NEW q \in 1..Len(x), x[p] = x[q] PROVE p = q
  BY <1>1, <1>2, <1>3, <1>4, OnceAt
<1>5. Laid(x, S, 1, n)
  BY <1>2, <1>3, <1>4 DEF Laid
<1> QED
  BY <1>3, <1>5

\* All of them
LEMMA LaidAll ==
  ASSUME NEW n \in Nat, NEW k \in Nat, k > 0, NEW S, Rowed(S, n, k), Once(S),
         NEW f, Flat(S, k, f)
  PROVE  Laid(f[k], S, k, n)
<1> DEFINE Z == {m \in Nat : m + 1 <= k => Laid(f[m + 1], S, m + 1, n)}
<1>1. 0 \in Z
  <2>1. Laid(f[1], S, 1, n)
    BY LaidFirst DEF Flat
  <2>2. 0 + 1 = 1
    OBVIOUS
  <2> QED
    BY <2>1, <2>2
<1>2. ASSUME NEW m \in Nat, m \in Z PROVE m + 1 \in Z
  <2> SUFFICES ASSUME (m + 1) + 1 <= k PROVE Laid(f[(m + 1) + 1], S, (m + 1) + 1, n)
    OBVIOUS
  <2>1. PICK j \in Nat : j = m + 1
    OBVIOUS
  <2>2. j + 1 \in 1..k /\ j <= k /\ j + 1 > 1 /\ (j + 1) - 1 = j
    BY <2>1
  <2>3. Laid(f[j], S, j, n)
    BY <1>2, <2>1, <2>2
  <2>4. f[j + 1] = f[j] \o S[j + 1]
    BY <2>2 DEF Flat
  <2>5. PICK x : x = f[j]
    OBVIOUS
  <2>6. Laid(x \o S[j + 1], S, j + 1, n)
    BY <2>2, <2>3, <2>5, LaidStep
  <2> QED
    BY <2>1, <2>4, <2>5, <2>6
<1> HIDE DEF Z
<1>3. Nat \subseteq Z
  BY <1>1, <1>2, EachNatural
<1>4. PICK m \in Nat : m + 1 = k
  <2>1. k - 1 \in Nat /\ (k - 1) + 1 = k
    OBVIOUS
  <2> QED
    BY <2>1
<1>5. Laid(f[m + 1], S, m + 1, n)
  BY <1>3, <1>4 DEF Z
<1> QED
  BY <1>4, <1>5

\* A sequence with every row once
LEMMA OneToOne ==
  ASSUME NEW n \in Nat, NEW x \in Seq(1..n),
         \A p, q \in 1..Len(x) : x[p] = x[q] => p = q,
         \A r \in 1..n : \E p \in 1..Len(x) : x[p] = r
  PROVE  Permutation(x, n) /\ Len(x) = n /\ DOMAIN x = 1..n
<1>1. Len(x) \in Nat /\ x \in [1..Len(x) -> 1..n] /\ DOMAIN x = 1..Len(x)
  BY LenProperties
<1>2. x \in Bijection(1..Len(x), 1..n)
  <2>1. x \in Injection(1..Len(x), 1..n)
    BY <1>1, Fun_IsInj
  <2>2. x \in Surjection(1..Len(x), 1..n)
    BY <1>1, Fun_IsSurj
  <2> QED
    BY <2>1, <2>2 DEF Bijection
<1>3. Cardinality(1..n) = Cardinality(1..Len(x))
  <2>1. ExistsBijection(1..Len(x), 1..n)
    BY <1>2, Fun_ExistsBij
  <2>2. IsFiniteSet(1..Len(x))
    BY FS_Interval
  <2> QED
    BY <2>1, <2>2, FS_Bijection
<1>4. Len(x) = n
  <2>1. PICK l \in Nat : l = Len(x)
    BY <1>1
  <2>2. Cardinality(1..n) = n /\ Cardinality(1..l) = l
    BY FS_Interval
  <2> QED
    BY <1>3, <2>1, <2>2
<1> QED
  BY <1>1, <1>2, <1>4 DEF Permutation

\* Shares of all rows, one after another, are a permutation of the rows.
LEMMA FlattenPermutation ==
  ASSUME NEW n \in Nat, NEW k \in Nat, k > 0, NEW S, Rowed(S, n, k), Once(S),
         \A r \in 1..n : Holds(S, r)
  PROVE  /\ Permutation(FlattenSeq(S), n)
         /\ FlattenSeq(S) \in Seq(1..n)
         /\ Len(FlattenSeq(S)) = n
         /\ DOMAIN FlattenSeq(S) = 1..n
<1>1. Len(S) = k
  BY LenProperties DEF Rowed
<1>2. PICK f : Flat(S, k, f) /\ FlattenSeq(S) = f[k]
  BY <1>1, FlattenIs
<1>3. PICK x : x = f[k]
  OBVIOUS
<1>4. Laid(x, S, k, n)
  BY <1>2, <1>3, LaidAll
<1>5. DOMAIN S = 1..k
  BY ShareTypes
<1>6. ASSUME NEW r \in 1..n PROVE \E p \in 1..Len(x) : x[p] = r
  <2>1. PICK i \in 1..k : \E a \in 1..Len(S[i]) : S[i][a] = r
    BY <1>5 DEF Holds
  <2>2. PICK a \in 1..Len(S[i]) : S[i][a] = r
    BY <2>1
  <2>3. \E p \in 1..Len(x) : x[p] = S[i][a]
    BY <1>4 DEF Laid
  <2> QED
    BY <2>2, <2>3
<1>7. x \in Seq(1..n) /\ \A p, q \in 1..Len(x) : x[p] = x[q] => p = q
  BY <1>4 DEF Laid
<1>8. Permutation(x, n) /\ Len(x) = n /\ DOMAIN x = 1..n
  BY <1>6, <1>7, OneToOne
<1> QED
  BY <1>2, <1>3, <1>7, <1>8

-----------------------------------------------------------------------------
(* The partitions *)

\* A permuted sequence has the same length and elements.
LEMMA PermutedFacts ==
  ASSUME NEW T, NEW s \in Seq(T), NEW q, Permuted(q, s, Len(s))
  PROVE  q \in Seq(T) /\ Len(q) = Len(s) /\ \E f : Moved(q, s, f, Len(s))
<1>1. PICK n \in Nat : n = Len(s)
  BY LenProperties
<1>2. PICK f \in Bijection(1..n, 1..n) : q = [m \in 1..n |-> s[f[m]]]
  BY <1>1 DEF Permuted
<1>3. f \in [1..n -> 1..n]
  BY Fun_BijectionProperties
<1>4. s \in [1..n -> T]
  BY <1>1, LenProperties
<1>5. q \in [1..n -> T]
  BY <1>2, <1>3, <1>4
<1>6. q \in Seq(T) /\ Len(q) = n
  BY <1>5
<1>7. \A i \in 1..n : q[i] = s[f[i]]
  BY <1>2
<1>8. Moved(q, s, f, n)
  BY <1>7 DEF Moved
<1> QED
  BY <1>1, <1>6, <1>8

\* The same shares, each in another order
Shuffled(U, S, k) == \A i \in 1..k : Len(U[i]) = Len(S[i]) /\ \E f : Moved(U[i], S[i], f, Len(S[i]))

\* u is s in another order, by f.
Reorder(u, s, f) ==
  /\ \A a \in 1..Len(u) : f[a] \in 1..Len(s) /\ u[a] = s[f[a]]
  /\ \A a, b \in 1..Len(u) : f[a] = f[b] => a = b
  /\ \A m \in 1..Len(s) : \E a \in 1..Len(u) : f[a] = m

\* Each share is reordered.
LEMMA ShuffledAt ==
  ASSUME NEW n \in Nat, NEW k \in Nat, NEW S, Rowed(S, n, k), NEW U, Rowed(U, n, k),
         Shuffled(U, S, k), NEW i \in 1..k
  PROVE  /\ Len(U[i]) = Len(S[i])
         /\ \E f : Reorder(U[i], S[i], f)
<1>1. PICK l \in Nat : l = Len(S[i])
  BY ShareTypes
<1>2. PICK u : u = U[i]
  OBVIOUS
<1>3. PICK s : s = S[i]
  OBVIOUS
<1>4. Len(u) = l /\ \E f : Moved(u, s, f, l)
  BY <1>1, <1>2, <1>3 DEF Shuffled
<1>5. PICK f : Moved(u, s, f, l)
  BY <1>4
<1>6. /\ \A a \in 1..l : f[a] \in 1..l /\ u[a] = s[f[a]]
      /\ \A a, b \in 1..l : f[a] = f[b] => a = b
      /\ \A m \in 1..l : \E a \in 1..l : f[a] = m
  BY <1>5, MovedAt
<1>7. Len(s) = l
  BY <1>1, <1>3
<1>8. Reorder(u, s, f)
  BY <1>4, <1>6, <1>7 DEF Reorder
<1> QED
  BY <1>1, <1>2, <1>3, <1>4, <1>8

\* Reordering within the shares keeps them shares of the same rows.
LEMMA SharesShuffled ==
  ASSUME NEW n \in Nat, NEW k \in Nat, NEW equal, NEW S, Shares(S, n, k, equal),
         NEW U, Rowed(U, n, k), Shuffled(U, S, k)
  PROVE  /\ Shares(U, n, k, equal)
         /\ \A r : Holds(S, r) => Holds(U, r)
<1>1. Rowed(S, n, k) /\ Once(S) /\ Even(S, equal)
  BY DEF Shares
<1>2. DOMAIN S = 1..k /\ DOMAIN U = 1..k
  BY <1>1, ShareTypes
<1>3. ASSUME NEW i \in 1..k
      PROVE  /\ Len(U[i]) = Len(S[i])
             /\ \E f : Reorder(U[i], S[i], f)
  BY <1>1, ShuffledAt
<1>4. \E i \in 1..k : Len(U[i]) > 0
  <2>1. PICK i \in 1..k : Len(S[i]) > 0
    BY DEF Shares
  <2>2. Len(U[i]) = Len(S[i])
    BY <1>3
  <2> QED
    BY <2>1, <2>2
<1>5. Once(U)
  <2>1. ASSUME NEW i \in 1..k, NEW j \in 1..k, NEW a \in 1..Len(U[i]), NEW b \in 1..Len(U[j]),
               U[i][a] = U[j][b]
        PROVE  i = j /\ a = b
    <3>a. PICK f : Reorder(U[i], S[i], f)
      BY <1>3
    <3>b. PICK g : Reorder(U[j], S[j], g)
      BY <1>3
    <3>1. /\ \A c \in 1..Len(U[i]) : f[c] \in 1..Len(S[i]) /\ U[i][c] = S[i][f[c]]
          /\ \A c, d \in 1..Len(U[i]) : f[c] = f[d] => c = d
      BY Zenon, <3>a DEF Reorder
    <3>2. \A c \in 1..Len(U[j]) : g[c] \in 1..Len(S[j]) /\ U[j][c] = S[j][g[c]]
      BY Zenon, <3>b DEF Reorder
    <3>3. PICK x \in 1..Len(S[i]) : x = f[a] /\ U[i][a] = S[i][x]
      BY <3>1
    <3>4. PICK y \in 1..Len(S[j]) : y = g[b] /\ U[j][b] = S[j][y]
      BY <3>2
    <3>5. S[i][x] = S[j][y]
      BY <2>1, <3>3, <3>4
    <3>6. i = j
      BY <1>1, <1>2, <3>5, OnceAt
    <3>7. b \in 1..Len(U[i])
      BY <3>6
    <3>8. PICK z \in 1..Len(S[i]) : z = f[b] /\ U[i][b] = S[i][z]
      BY <3>1, <3>7
    <3>9. S[i][x] = S[i][z]
      BY <2>1, <3>3, <3>6, <3>8
    <3>10. x = z
      <4>1. Once(S) /\ i \in DOMAIN S
        BY <1>1, <1>2
      <4> QED
        BY <3>9, <4>1, OnceAt
    <3>11. a = b
      BY <3>1, <3>3, <3>7, <3>8, <3>10
    <3> QED
      BY <3>6, <3>11
  <2> QED
    BY <1>2, <2>1 DEF Once
<1>6. Even(U, equal)
  <2>1. ASSUME NEW i \in 1..k PROVE Len(U[i]) = Len(S[i])
    BY <1>3
  <2>2. CASE equal
    BY <1>1, <1>2, <2>1, <2>2 DEF Even
  <2>3. CASE ~equal
    BY <1>1, <1>2, <2>1, <2>3 DEF Even
  <2> QED
    BY <2>2, <2>3
<1>7. ASSUME NEW r, Holds(S, r) PROVE Holds(U, r)
  <2>1. PICK i \in 1..k : \E m \in 1..Len(S[i]) : S[i][m] = r
    BY <1>2, <1>7 DEF Holds
  <2>2. PICK m \in 1..Len(S[i]) : S[i][m] = r
    BY <2>1
  <2>a. PICK f : Reorder(U[i], S[i], f)
    BY <1>3
  <2>3. /\ \A c \in 1..Len(U[i]) : f[c] \in 1..Len(S[i]) /\ U[i][c] = S[i][f[c]]
        /\ \A d \in 1..Len(S[i]) : \E a \in 1..Len(U[i]) : f[a] = d
    BY Zenon, <2>a DEF Reorder
  <2>4. PICK a \in 1..Len(U[i]) : f[a] = m
    BY <2>3
  <2>5. r = U[i][a]
    BY <2>2, <2>3, <2>4
  <2> QED
    BY <1>2, <2>5, HoldsAt
<1> QED
  BY <1>4, <1>5, <1>6, <1>7 DEF Shares

\* A whole: the rows 1..n, each in one of k shares
Whole(P, n, k, equal) == Shares(P, n, k, equal) /\ \A r \in 1..n : Holds(P, r)

(* get_seqlen_balanced_partitions: whatever the sequence lengths, each row is in *)
(* exactly one of the k partitions, whether or not they are to be of equal size.   *)
THEOREM PartitionsWhole ==
  ASSUME NEW n \in Nat, n > 0, NEW work, Weights(work, n), NEW k \in Nat, k > 0,
         NEW equal, Shareable(n, k, equal)
  PROVE  Whole(Partitions(work, k, equal), n, k, equal)
<1>1. PICK s : s = Differenced(work, k, equal)
  OBVIOUS
<1>2. Complete(s, n, k, equal)
  BY <1>1, DifferencedComplete
<1>3. Sound(s, n, k, equal) /\ Parted(s, n, k) /\ Shares(RowsOf(s), n, k, equal)
  BY <1>2 DEF Complete, Sound
<1>4. PICK P : P = [i \in 1..k |-> InOrder(s[i].rows)]
  OBVIOUS
<1>5. Partitions(work, k, equal) = P
  BY Zenon, <1>1, <1>4 DEF Partitions
<1>6. DOMAIN P = 1..k /\ P = [i \in 1..k |-> P[i]] /\ \A i \in 1..k : P[i] = InOrder(s[i].rows)
  BY <1>4
<1>7. PICK S : S = RowsOf(s)
  OBVIOUS
<1>8. Rowed(S, n, k) /\ \A i \in 1..k : S[i] = s[i].rows
  BY <1>3, <1>7, RowsOfFacts
<1>9. ASSUME NEW i \in 1..k
      PROVE  P[i] \in Seq(1..n) /\ Len(P[i]) = Len(S[i]) /\ \E f : Moved(P[i], S[i], f, Len(S[i]))
  <2>1. PICK q \in Seq(1..n) : q = S[i]
    BY <1>8, ShareTypes
  <2>2. P[i] = InOrder(q)
    BY <1>6, <1>8, <2>1
  <2>3. Permuted(InOrder(q), q, Len(q))
    BY InOrderPermuted
  <2>4. PICK u : u = P[i]
    OBVIOUS
  <2>5. Permuted(u, q, Len(q))
    BY <2>2, <2>3, <2>4
  <2>6. u \in Seq(1..n) /\ Len(u) = Len(q) /\ \E f : Moved(u, q, f, Len(q))
    BY <2>5, PermutedFacts
  <2> QED
    BY <2>1, <2>4, <2>6
<1>10. Rowed(P, n, k)
  BY <1>6, <1>9 DEF Rowed
<1>11. Shuffled(P, S, k)
  BY <1>9 DEF Shuffled
<1>12. Shares(P, n, k, equal) /\ \A r : Holds(S, r) => Holds(P, r)
  BY <1>3, <1>7, <1>10, <1>11, SharesShuffled
<1>13. \A r \in 1..n : Holds(P, r)
  BY <1>2, <1>7, <1>12 DEF Complete
<1>14. Whole(P, n, k, equal)
  BY <1>12, <1>13 DEF Whole
<1> QED
  BY <1>5, <1>14

Multiple(l, m) == m * l

\* Multiples of a length, one by one
LEMMA Multiples ==
  ASSUME NEW l \in Nat
  PROVE  /\ \A m \in Nat : Multiple(l, m) \in Nat /\ Multiple(l, m + 1) = Multiple(l, m) + l
         /\ Multiple(l, 1) = l /\ Multiple(l, 0) = 0
<1>1. ASSUME NEW m \in Nat PROVE Multiple(l, m) \in Nat /\ Multiple(l, m + 1) = Multiple(l, m) + l
  BY DEF Multiple
<1>2. Multiple(l, 1) = l /\ Multiple(l, 0) = 0
  BY DEF Multiple
<1> QED
  BY <1>1, <1>2

\* Sequences of one length one after another
Lengths(S, k, T, l) == \A i \in 1..k : S[i] \in Seq(T) /\ Len(S[i]) = l

\* k sequences of length l make one of length k * l.
LEMMA FlatEvenly ==
  ASSUME NEW k \in Nat, k > 0, NEW T, NEW l \in Nat, NEW S, Lengths(S, k, T, l),
         NEW f, Flat(S, k, f)
  PROVE  f[k] \in Seq(T) /\ Len(f[k]) = Multiple(l, k)
<1> DEFINE Z == {m \in Nat : m + 1 <= k => f[m + 1] \in Seq(T) /\ Len(f[m + 1]) = Multiple(l, m + 1)}
<1>1. 0 \in Z
  <2>1. f[1] = S[1] /\ 1 \in 1..k
    BY DEF Flat
  <2>2. f[1] \in Seq(T) /\ Len(f[1]) = l
    BY <2>1 DEF Lengths
  <2>3. 0 + 1 = 1
    OBVIOUS
  <2> QED
    BY <2>2, <2>3, Multiples
<1>2. ASSUME NEW m \in Nat, m \in Z PROVE m + 1 \in Z
  <2> SUFFICES ASSUME (m + 1) + 1 <= k
               PROVE  f[(m + 1) + 1] \in Seq(T) /\ Len(f[(m + 1) + 1]) = Multiple(l, (m + 1) + 1)
    OBVIOUS
  <2>1. PICK j \in Nat : j = m + 1
    OBVIOUS
  <2>2. j + 1 \in 1..k /\ j <= k /\ j + 1 > 1 /\ (j + 1) - 1 = j
    BY <2>1
  <2>3. f[j] \in Seq(T) /\ Len(f[j]) = Multiple(l, j)
    BY <1>2, <2>1, <2>2
  <2>4. f[j + 1] = f[j] \o S[j + 1]
    BY <2>2 DEF Flat
  <2>5. PICK x \in Seq(T) : x = f[j]
    BY <2>3
  <2>6. PICK y \in Seq(T) : y = S[j + 1] /\ Len(y) = l
    BY <2>2 DEF Lengths
  <2>7. x \o y \in Seq(T) /\ Len(x \o y) = Len(x) + Len(y)
    OBVIOUS
  <2>8. Multiple(l, j + 1) = Multiple(l, j) + l
    BY Multiples
  <2>9. f[j + 1] = x \o y /\ Len(x) = Multiple(l, j)
    BY <2>3, <2>4, <2>5, <2>6
  <2>10. Len(x \o y) = Multiple(l, j + 1)
    BY <2>6, <2>7, <2>8, <2>9
  <2> QED
    BY <2>1, <2>7, <2>9, <2>10
<1> HIDE DEF Z
<1>3. Nat \subseteq Z
  BY <1>1, <1>2, EachNatural
<1>4. PICK m \in Nat : m + 1 = k
  <2>1. k - 1 \in Nat /\ (k - 1) + 1 = k
    OBVIOUS
  <2> QED
    BY <2>1
<1>5. f[m + 1] \in Seq(T) /\ Len(f[m + 1]) = Multiple(l, m + 1)
  BY <1>3, <1>4 DEF Z
<1> QED
  BY <1>4, <1>5

\* No part is empty when there is a row for each.
LEMMA WholeFilled ==
  ASSUME NEW n \in Nat, NEW k \in Nat, k <= n, NEW P, Whole(P, n, k, FALSE)
  PROVE  \A i \in 1..k : Len(P[i]) > 0
<1>1. Rowed(P, n, k) /\ Once(P) /\ Even(P, FALSE) /\ \A r \in 1..n : Holds(P, r)
  BY DEF Whole, Shares
<1>2. DOMAIN P = 1..k /\ \A i \in 1..k : Len(P[i]) \in Nat
  BY <1>1, ShareTypes
<1>3. SUFFICES ASSUME NEW j \in 1..k, Len(P[j]) = 0 PROVE FALSE
  <2>1. ASSUME NEW i \in 1..k, Len(P[i]) # 0 PROVE Len(P[i]) > 0
    <3>1. PICK l \in Nat : l = Len(P[i])
      BY <1>2
    <3> QED
      BY <2>1, <3>1
  <2> QED
    BY <2>1
<1>4. ASSUME NEW i \in 1..k, NEW a \in 1..Len(P[i]) PROVE a = 1 /\ i # j
  <2>1. PICK l \in Nat : l = Len(P[i])
    BY <1>2
  <2>2. l <= 1
    BY <1>1, <1>2, <1>3, <2>1 DEF Even
  <2>3. a \in 1..l
    BY <2>1
  <2>4. l # 0
    BY <2>3
  <2> QED
    BY <1>3, <2>1, <2>2, <2>3, <2>4
<1>5. \A r \in 1..n : \E i \in (1..k) \ {j} : P[i][1] = r /\ 1 \in 1..Len(P[i])
  <2>1. ASSUME NEW r \in 1..n PROVE \E i \in (1..k) \ {j} : P[i][1] = r /\ 1 \in 1..Len(P[i])
    <3>1. PICK i \in 1..k : \E a \in 1..Len(P[i]) : P[i][a] = r
      BY <1>1, <1>2 DEF Holds
    <3>2. PICK a \in 1..Len(P[i]) : P[i][a] = r
      BY <3>1
    <3>3. a = 1 /\ i # j
      BY <1>4
    <3> QED
      BY <3>2, <3>3
  <2> QED
    BY <2>1
<1>6. PICK K : K = (1..k) \ {j}
  OBVIOUS
<1>7. IsFiniteSet(K) /\ Cardinality(K) = k - 1
  <2>1. IsFiniteSet(1..k) /\ Cardinality(1..k) = k
    BY FS_Interval
  <2> QED
    BY <1>6, <2>1, FS_RemoveElement
<1>8. IsFiniteSet(1..n) /\ Cardinality(1..n) = n
  BY FS_Interval
<1>9. PICK f : f = [r \in 1..n |-> CHOOSE i \in K : P[i][1] = r]
  OBVIOUS
<1>10. ASSUME NEW r \in 1..n PROVE f[r] \in K /\ P[f[r]][1] = r
  <2>1. \E i \in K : P[i][1] = r
    BY <1>5, <1>6
  <2>2. f[r] = CHOOSE i \in K : P[i][1] = r
    BY <1>9
  <2> QED
    BY <2>1, <2>2
<1>11. f \in [1..n -> K]
  BY <1>9, <1>10
<1>12. Cardinality(K) < Cardinality(1..n)
  BY <1>7, <1>8
<1>13. PICK x, y \in 1..n : x # y /\ f[x] = f[y]
  BY <1>7, <1>8, <1>11, <1>12, FS_PigeonHole
<1>14. P[f[x]][1] = x /\ P[f[y]][1] = y
  BY <1>10
<1> QED
  BY <1>13, <1>14

\* As many rows to each, when they are to be equal.
LEMMA WholeEven ==
  ASSUME NEW n \in Nat, NEW k \in Nat, k > 0, NEW P, Whole(P, n, k, TRUE)
  PROVE  \E l \in Nat \ {0} : (\A i \in 1..k : Len(P[i]) = l) /\ Multiple(l, k) = n
<1>1. Rowed(P, n, k) /\ Once(P) /\ Even(P, TRUE) /\ \A r \in 1..n : Holds(P, r)
  BY DEF Whole, Shares
<1>2. DOMAIN P = 1..k /\ \A i \in 1..k : Len(P[i]) \in Nat /\ P[i] \in Seq(1..n)
  BY <1>1, ShareTypes
<1>3. PICK j \in 1..k : Len(P[j]) > 0
  BY DEF Whole, Shares
<1>4. PICK l \in Nat : l = Len(P[j])
  BY <1>2
<1>5. l # 0
  BY <1>3, <1>4
<1>6. \A i \in 1..k : Len(P[i]) = l
  BY <1>1, <1>2, <1>4 DEF Even
<1>7. Lengths(P, k, 1..n, l)
  BY <1>2, <1>6 DEF Lengths
<1>8. Len(P) = k
  BY <1>1, LenProperties DEF Rowed
<1>9. PICK f : Flat(P, k, f) /\ FlattenSeq(P) = f[k]
  BY <1>8, FlattenIs
<1>10. Len(f[k]) = Multiple(l, k)
  BY <1>7, <1>9, FlatEvenly
<1>11. Len(FlattenSeq(P)) = n
  BY <1>1, FlattenPermutation
<1> QED
  BY <1>5, <1>6, <1>9, <1>10, <1>11

-----------------------------------------------------------------------------
(* Reordered by hand: the small ones first and last *)

\* Rounding up and down makes two halves.
LEMMA Halves ==
  ASSUME NEW n \in Nat
  PROVE  \E e, o \in Nat : /\ e = (n + 1) \div 2 /\ o = n \div 2 /\ e + o = n
                           /\ (n = 2 * o /\ e = o) \/ (n = 2 * o + 1 /\ e = o + 1)
<1>1. (n + 1) \div 2 \in Nat /\ n \div 2 \in Nat
  OBVIOUS
<1>2. PICK e \in Nat : e = (n + 1) \div 2
  BY <1>1
<1>3. PICK o \in Nat : o = n \div 2
  BY <1>1
<1>4. (n = 2 * o /\ e = o) \/ (n = 2 * o + 1 /\ e = o + 1)
  BY <1>2, <1>3
<1> QED
  BY <1>2, <1>3, <1>4

\* An injection of 1..n into itself is a permutation.
LEMMA InjectionPermutes ==
  ASSUME NEW n \in Nat, NEW f \in [1..n -> 1..n], \A i, j \in 1..n : f[i] = f[j] => i = j
  PROVE  f \in Bijection(1..n, 1..n)
<1>1. f \in Injection(1..n, 1..n)
  BY Fun_IsInj
<1>2. IsFiniteSet(1..n)
  BY FS_Interval
<1>3. f \in Surjection(1..n, 1..n)
  BY <1>1, <1>2, FS_Injection
<1> QED
  BY <1>1, <1>3 DEF Bijection

\* What the halves and a reversed sequence are
HalvesOf(n, e, o) ==
  /\ e = (n + 1) \div 2 /\ o = n \div 2 /\ e + o = n
  /\ (n = 2 * o /\ e = o) \/ (n = 2 * o + 1 /\ e = o + 1)
EvensOf(u, s, e) == u = Evens(s) /\ Len(u) = e /\ \A i \in 1..e : u[i] = s[2 * i - 1]
OddsOf(v, s, o) == v = Odds(s) /\ Len(v) = o /\ \A i \in 1..o : v[i] = s[2 * i]
Reversed(w, x, l) == w = Reverse(x) /\ Len(w) = l /\ \A i \in 1..l : w[i] = x[(l - i) + 1]

\* What the slices [::2] and [1::2] have
LEMMA EvensOdds ==
  ASSUME NEW T, NEW s \in Seq(T), NEW n \in Nat, n = Len(s), NEW e \in Nat, NEW o \in Nat,
         e = (n + 1) \div 2, o = n \div 2,
         (n = 2 * o /\ e = o) \/ (n = 2 * o + 1 /\ e = o + 1)
  PROVE  /\ Evens(s) \in Seq(T) /\ Len(Evens(s)) = e
         /\ Odds(s) \in Seq(T) /\ Len(Odds(s)) = o
         /\ EvensOf(Evens(s), s, e) /\ OddsOf(Odds(s), s, o)
<1>1. s \in [1..n -> T]
  BY LenProperties
<1>2. \A i \in 1..e : 2 * i - 1 \in 1..n
  OBVIOUS
<1>3. \A i \in 1..o : 2 * i \in 1..n
  OBVIOUS
<1>4. Evens(s) = [i \in 1..e |-> s[2 * i - 1]] /\ Odds(s) = [i \in 1..o |-> s[2 * i]]
  BY DEF Evens, Odds
<1>5. [i \in 1..e |-> s[2 * i - 1]] \in [1..e -> T]
  BY <1>1, <1>2
<1>6. [i \in 1..o |-> s[2 * i]] \in [1..o -> T]
  BY <1>1, <1>3
<1>7. PICK u \in [1..e -> T] : u = Evens(s) /\ \A i \in 1..e : u[i] = s[2 * i - 1]
  BY <1>4, <1>5
<1>8. PICK v \in [1..o -> T] : v = Odds(s) /\ \A i \in 1..o : v[i] = s[2 * i]
  BY <1>4, <1>6
<1>9. u \in Seq(T) /\ Len(u) = e /\ v \in Seq(T) /\ Len(v) = o
  BY FunctionLength
<1>10. EvensOf(u, s, e)
  BY <1>7, <1>9 DEF EvensOf
<1>11. OddsOf(v, s, o)
  BY <1>8, <1>9 DEF OddsOf
<1> QED
  BY <1>7, <1>8, <1>9, <1>10, <1>11

\* The halves of a length
LEMMA HalvesAre ==
  ASSUME NEW n \in Nat
  PROVE  \E e, o \in Nat : HalvesOf(n, e, o)
BY Halves DEF HalvesOf

\* The first, third, ... element
LEMMA EvensAre ==
  ASSUME NEW T, NEW s \in Seq(T), NEW n \in Nat, n = Len(s), NEW e \in Nat, NEW o \in Nat,
         HalvesOf(n, e, o)
  PROVE  \E u \in Seq(T) : EvensOf(u, s, e)
<1>1. PICK u : u = Evens(s)
  OBVIOUS
<1>a. /\ e = (n + 1) \div 2 /\ o = n \div 2
      /\ (n = 2 * o /\ e = o) \/ (n = 2 * o + 1 /\ e = o + 1)
  BY DEF HalvesOf
<1>2. u \in Seq(T) /\ EvensOf(u, s, e)
  BY <1>1, <1>a, EvensOdds
<1> QED
  BY <1>2

\* The second, fourth, ... element
LEMMA OddsAre ==
  ASSUME NEW T, NEW s \in Seq(T), NEW n \in Nat, n = Len(s), NEW e \in Nat, NEW o \in Nat,
         HalvesOf(n, e, o)
  PROVE  \E v \in Seq(T) : OddsOf(v, s, o)
<1>1. PICK v : v = Odds(s)
  OBVIOUS
<1>a. /\ e = (n + 1) \div 2 /\ o = n \div 2
      /\ (n = 2 * o /\ e = o) \/ (n = 2 * o + 1 /\ e = o + 1)
  BY DEF HalvesOf
<1>2. v \in Seq(T) /\ OddsOf(v, s, o)
  BY <1>1, <1>a, EvensOdds
<1> QED
  BY <1>2

\* The slice [::-1]
LEMMA ReverseIs ==
  ASSUME NEW T, NEW x \in Seq(T), NEW l \in Nat, l = Len(x)
  PROVE  /\ Reverse(x) \in Seq(T) /\ Len(Reverse(x)) = l
         /\ \A i \in 1..l : (l - i) + 1 \in 1..l /\ Reverse(x)[i] = x[(l - i) + 1]
<1>1. x \in [1..l -> T]
  BY LenProperties
<1>2. \A i \in 1..l : (l - i) + 1 \in 1..l
  OBVIOUS
<1>3. Reverse(x) = [i \in 1..l |-> x[(l - i) + 1]]
  BY DEF Reverse
<1>4. [i \in 1..l |-> x[(l - i) + 1]] \in [1..l -> T]
  BY <1>1, <1>2
<1>5. PICK v \in [1..l -> T] : v = Reverse(x) /\ \A i \in 1..l : v[i] = x[(l - i) + 1]
  BY <1>3, <1>4
<1>6. v \in Seq(T) /\ Len(v) = l
  OBVIOUS
<1> QED
  BY <1>2, <1>5, <1>6

\* The same, as a sequence to reason about
LEMMA ReversedIs ==
  ASSUME NEW T, NEW x \in Seq(T), NEW l \in Nat, l = Len(x)
  PROVE  \E w \in Seq(T) : Reversed(w, x, l)
<1>1. PICK w : w = Reverse(x)
  OBVIOUS
<1>2. w \in Seq(T) /\ Len(w) = l /\ \A i \in 1..l : w[i] = x[(l - i) + 1]
  BY <1>1, ReverseIs
<1> QED
  BY <1>1, <1>2 DEF Reversed

\* An order of 1..n
Orders(f, n) == f \in [1..n -> 1..n] /\ \A i, j \in 1..n : f[i] = f[j] => i = j

\* z reads s in the order f.
Reads(z, s, f, n) == \A m \in 1..n : z[m] = s[f[m]]

\* What is read in some order is a permutation.
LEMMA ReadsPermuted ==
  ASSUME NEW T, NEW s \in Seq(T), NEW n \in Nat, n = Len(s), NEW z \in Seq(T), Len(z) = n,
         NEW f, Orders(f, n), Reads(z, s, f, n)
  PROVE  Permuted(z, s, n)
<1>1. f \in Bijection(1..n, 1..n)
  BY InjectionPermutes DEF Orders
<1>2. z = [m \in 1..n |-> z[m]]
  BY LenProperties
<1>3. \A m \in 1..n : z[m] = s[f[m]]
  BY DEF Reads
<1>4. [m \in 1..n |-> z[m]] = [m \in 1..n |-> s[f[m]]]
  BY <1>3
<1>5. z = [m \in 1..n |-> s[f[m]]]
  BY <1>2, <1>4
<1> QED
  BY <1>1, <1>5 DEF Permuted

\* A position behind the first e
LEMMA Beyond ==
  ASSUME NEW e \in Nat, NEW o \in Nat, NEW m \in (e + 1)..(e + o)
  PROVE  \E a \in 1..o : a = m - e /\ a + e = m
<1>1. m - e \in 1..o /\ (m - e) + e = m
  OBVIOUS
<1> QED
  BY <1>1

\* z is x, of e elements, and then y, of o.
Halfway(z, x, y, e, o) ==
  /\ Len(z) = e + o
  /\ \A m \in 1..e : z[m] = x[m]
  /\ \A a \in 1..o : z[a + e] = y[a]

\* Where the elements of a concatenation are
LEMMA BehindPlaces ==
  ASSUME NEW T, NEW x \in Seq(T), NEW y \in Seq(T), NEW e \in Nat, e = Len(x), NEW o \in Nat, o = Len(y)
  PROVE  \E z \in Seq(T) : z = x \o y /\ Halfway(z, x, y, e, o)
<1>1. PICK z : z = x \o y
  OBVIOUS
<1>2. z \in Seq(T) /\ Behind(z, x, y)
  BY <1>1, BehindIs
<1>3. Halfway(z, x, y, e, o)
  BY <1>2 DEF Behind, Halfway
<1> QED
  BY <1>1, <1>2, <1>3

\* The order from outside in, and from inside out
OutIndex(n, e) == [m \in 1..n |-> IF m <= e THEN 2 * m - 1 ELSE 2 * (n + 1 - m)]
InIndex(n, e) == [m \in 1..n |-> IF m <= e THEN 2 * (e + 1 - m) - 1 ELSE 2 * (m - e)]

FromOutside(f, e, o) ==
  /\ \A m \in 1..e : f[m] = 2 * m - 1
  /\ \A a \in 1..o : f[a + e] = 2 * (o - a + 1)
FromInside(f, e, o) ==
  /\ \A m \in 1..e : f[m] = 2 * (e - m + 1) - 1
  /\ \A a \in 1..o : f[a + e] = 2 * a

\* From outside in every position is read once,
LEMMA OutIndexIs ==
  ASSUME NEW n \in Nat, NEW e \in Nat, NEW o \in Nat, HalvesOf(n, e, o), NEW f, f = OutIndex(n, e)
  PROVE  Orders(f, n) /\ FromOutside(f, e, o)
<1>1. (n = 2 * o /\ e = o) \/ (n = 2 * o + 1 /\ e = o + 1)
  BY DEF HalvesOf
<1>2. \A m \in 1..n : f[m] = IF m <= e THEN 2 * m - 1 ELSE 2 * (n + 1 - m)
  BY DEF OutIndex
<1>3. \A m \in 1..n : f[m] \in 1..n
  BY <1>1, <1>2
<1>4. ASSUME NEW i \in 1..n, NEW j \in 1..n, f[i] = f[j] PROVE i = j
  <2>1. (IF i <= e THEN 2 * i - 1 ELSE 2 * (n + 1 - i)) = (IF j <= e THEN 2 * j - 1 ELSE 2 * (n + 1 - j))
    BY <1>2, <1>4
  <2> QED
    BY <2>1
<1>5. \A m \in 1..e : m \in 1..n /\ m <= e
  BY <1>1
<1>6. \A a \in 1..o : a + e \in 1..n /\ ~(a + e <= e) /\ n + 1 - (a + e) = o - a + 1
  BY <1>1
<1>7. f \in [1..n -> 1..n]
  BY <1>3 DEF OutIndex
<1> QED
  BY <1>2, <1>4, <1>5, <1>6, <1>7 DEF Orders, FromOutside

\* and from inside out too.
LEMMA InIndexIs ==
  ASSUME NEW n \in Nat, NEW e \in Nat, NEW o \in Nat, HalvesOf(n, e, o), NEW f, f = InIndex(n, e)
  PROVE  Orders(f, n) /\ FromInside(f, e, o)
<1>1. (n = 2 * o /\ e = o) \/ (n = 2 * o + 1 /\ e = o + 1)
  BY DEF HalvesOf
<1>2. \A m \in 1..n : f[m] = IF m <= e THEN 2 * (e + 1 - m) - 1 ELSE 2 * (m - e)
  BY DEF InIndex
<1>3. \A m \in 1..n : f[m] \in 1..n
  BY <1>1, <1>2
<1>4. ASSUME NEW i \in 1..n, NEW j \in 1..n, f[i] = f[j] PROVE i = j
  <2>1. (IF i <= e THEN 2 * (e + 1 - i) - 1 ELSE 2 * (i - e)) = (IF j <= e THEN 2 * (e + 1 - j) - 1 ELSE 2 * (j - e))
    BY <1>2, <1>4
  <2> QED
    BY <2>1
<1>5. \A m \in 1..e : m \in 1..n /\ m <= e /\ e + 1 - m = e - m + 1
  BY <1>1
<1>6. \A a \in 1..o : a + e \in 1..n /\ ~(a + e <= e) /\ (a + e) - e = a
  BY <1>1
<1>7. f \in [1..n -> 1..n]
  BY <1>3 DEF InIndex
<1> QED
  BY <1>2, <1>4, <1>5, <1>6, <1>7 DEF Orders, FromInside

\* A position is in the first half or in the second.
LEMMA SplitPlaces ==
  ASSUME NEW n \in Nat, NEW e \in Nat, NEW o \in Nat, HalvesOf(n, e, o), NEW m \in 1..n
  PROVE  m \in 1..e \/ \E a \in 1..o : m = a + e
<1>1. e + o = n
  BY DEF HalvesOf
<1>2. CASE m <= e
  BY <1>2
<1>3. CASE ~(m <= e)
  <2>1. m - e \in 1..o /\ m = (m - e) + e
    BY <1>1, <1>3
  <2> QED
    BY <2>1
<1> QED
  BY <1>2, <1>3

\* The small rows of a rank at both ends
LEMMA OutsideIn ==
  ASSUME NEW T, NEW s \in Seq(T)
  PROVE  Permuted(Evens(s) \o Reverse(Odds(s)), s, Len(s))
<1>1. PICK n \in Nat : n = Len(s)
  BY LenProperties
<1>2. PICK e, o \in Nat : HalvesOf(n, e, o)
  BY HalvesAre
<1>3. PICK u \in Seq(T) : EvensOf(u, s, e)
  BY <1>1, <1>2, EvensAre
<1>4. PICK v \in Seq(T) : OddsOf(v, s, o)
  BY <1>1, <1>2, OddsAre
<1>a. o = Len(v) /\ e = Len(u)
  BY <1>3, <1>4 DEF EvensOf, OddsOf
<1>5. PICK w \in Seq(T) : Reversed(w, v, o)
  BY <1>a, ReversedIs
<1>b. o = Len(w)
  BY <1>5 DEF Reversed
<1>6. PICK z \in Seq(T) : z = u \o w /\ Halfway(z, u, w, e, o)
  BY <1>a, <1>b, BehindPlaces
<1>7. PICK f : Orders(f, n) /\ FromOutside(f, e, o)
  BY <1>2, OutIndexIs
<1>9. /\ \A m \in 1..e : f[m] = 2 * m - 1
      /\ \A a \in 1..o : f[a + e] = 2 * (o - a + 1)
  BY <1>7 DEF FromOutside
<1>10. Len(z) = n
  BY <1>2, <1>6 DEF HalvesOf, Halfway
<1>11. ASSUME NEW m \in 1..n PROVE z[m] = s[f[m]]
  <2>1. CASE m \in 1..e
    BY <1>3, <1>6, <1>9, <2>1 DEF EvensOf, Halfway
  <2>2. CASE \E a \in 1..o : m = a + e
    <3>1. PICK a \in 1..o : m = a + e
      BY <2>2
    <3>2. PICK b \in 1..o : b = o - a + 1
      OBVIOUS
    <3>3. z[m] = w[a] /\ w[a] = v[b]
      BY <1>5, <1>6, <3>1, <3>2 DEF Reversed, Halfway
    <3>4. v[b] = s[2 * b]
      BY <1>4 DEF OddsOf
    <3>5. f[m] = 2 * b
      BY <1>9, <3>1, <3>2
    <3> QED
      BY <3>3, <3>4, <3>5
  <2>3. m \in 1..e \/ \E a \in 1..o : m = a + e
    BY <1>2, SplitPlaces, ZenonT(60)
  <2> QED
    BY <2>1, <2>2, <2>3
<1>12. Reads(z, s, f, n)
  BY <1>11 DEF Reads
<1>13. Permuted(z, s, n)
  BY <1>1, <1>7, <1>10, <1>12, ReadsPermuted
<1>14. z = Evens(s) \o Reverse(Odds(s))
  BY <1>3, <1>4, <1>5, <1>6 DEF EvensOf, OddsOf, Reversed
<1> QED
  BY <1>1, <1>13, <1>14

\* The small micro batches first and last
LEMMA InsideOut ==
  ASSUME NEW T, NEW s \in Seq(T)
  PROVE  Permuted(Reverse(Evens(s)) \o Odds(s), s, Len(s))
<1>1. PICK n \in Nat : n = Len(s)
  BY LenProperties
<1>2. PICK e, o \in Nat : HalvesOf(n, e, o)
  BY HalvesAre
<1>3. PICK u \in Seq(T) : EvensOf(u, s, e)
  BY <1>1, <1>2, EvensAre
<1>4. PICK v \in Seq(T) : OddsOf(v, s, o)
  BY <1>1, <1>2, OddsAre
<1>a. o = Len(v) /\ e = Len(u)
  BY <1>3, <1>4 DEF EvensOf, OddsOf
<1>5. PICK w \in Seq(T) : Reversed(w, u, e)
  BY <1>a, ReversedIs
<1>b. e = Len(w)
  BY <1>5 DEF Reversed
<1>6. PICK z \in Seq(T) : z = w \o v /\ Halfway(z, w, v, e, o)
  BY <1>a, <1>b, BehindPlaces
<1>7. PICK f : Orders(f, n) /\ FromInside(f, e, o)
  BY <1>2, InIndexIs
<1>9. /\ \A m \in 1..e : f[m] = 2 * (e - m + 1) - 1
      /\ \A a \in 1..o : f[a + e] = 2 * a
  BY <1>7 DEF FromInside
<1>10. Len(z) = n
  BY <1>2, <1>6 DEF HalvesOf, Halfway
<1>11. ASSUME NEW m \in 1..n PROVE z[m] = s[f[m]]
  <2>1. CASE m \in 1..e
    <3>1. PICK b \in 1..e : b = e - m + 1
      BY <2>1
    <3>2. z[m] = w[m] /\ w[m] = u[b]
      BY <1>5, <1>6, <2>1, <3>1 DEF Reversed, Halfway
    <3>3. u[b] = s[2 * b - 1]
      BY <1>3 DEF EvensOf
    <3>4. f[m] = 2 * b - 1
      BY <1>9, <2>1, <3>1
    <3> QED
      BY <3>2, <3>3, <3>4
  <2>2. CASE \E a \in 1..o : m = a + e
    <3>1. PICK a \in 1..o : m = a + e
      BY <2>2
    <3>2. z[m] = v[a]
      BY <1>6, <3>1 DEF Halfway
    <3>3. v[a] = s[2 * a]
      BY <1>4 DEF OddsOf
    <3>4. f[m] = 2 * a
      BY <1>9, <3>1
    <3> QED
      BY <3>2, <3>3, <3>4
  <2>3. m \in 1..e \/ \E a \in 1..o : m = a + e
    BY <1>2, SplitPlaces, ZenonT(60)
  <2> QED
    BY <2>1, <2>2, <2>3
<1>12. Reads(z, s, f, n)
  BY <1>11 DEF Reads
<1>13. Permuted(z, s, n)
  BY <1>1, <1>7, <1>10, <1>12, ReadsPermuted
<1>14. z = Reverse(Evens(s)) \o Odds(s)
  BY <1>3, <1>4, <1>5, <1>6 DEF EvensOf, OddsOf, Reversed
<1> QED
  BY <1>1, <1>13, <1>14

-----------------------------------------------------------------------------
(* What becomes of the partitions *)

\* A permutation of a permutation
LEMMA PermutedTwice ==
  ASSUME NEW n \in Nat, NEW p, NEW s, NEW q, Permuted(s, p, n), Permuted(q, s, n)
  PROVE  Permuted(q, p, n)
<1>1. PICK f \in Bijection(1..n, 1..n) : s = [m \in 1..n |-> p[f[m]]]
  BY DEF Permuted
<1>2. PICK g \in Bijection(1..n, 1..n) : q = [m \in 1..n |-> s[g[m]]]
  BY DEF Permuted
<1>3. f \in [1..n -> 1..n] /\ \A i, j \in 1..n : f[i] = f[j] => i = j
  BY Fun_BijectionProperties
<1>4. g \in [1..n -> 1..n] /\ \A i, j \in 1..n : g[i] = g[j] => i = j
  BY Fun_BijectionProperties
<1>5. PICK h : h = [m \in 1..n |-> f[g[m]]]
  OBVIOUS
<1>6. h \in [1..n -> 1..n] /\ \A m \in 1..n : h[m] = f[g[m]] /\ g[m] \in 1..n
  BY <1>3, <1>4, <1>5
<1>7. \A i, j \in 1..n : h[i] = h[j] => i = j
  BY <1>3, <1>4, <1>6
<1>8. h \in Bijection(1..n, 1..n)
  BY <1>6, <1>7, InjectionPermutes
<1>9. \A m \in 1..n : s[g[m]] = p[h[m]]
  BY <1>1, <1>6
<1>10. q = [m \in 1..n |-> p[h[m]]]
  BY <1>2, <1>9
<1> QED
  BY <1>8, <1>10 DEF Permuted

\* Shares of all rows, in another order
LEMMA WholeMoved ==
  ASSUME NEW n \in Nat, NEW k \in Nat, NEW equal, NEW P, Whole(P, n, k, equal),
         NEW U, Permuted(U, P, k)
  PROVE  Whole(U, n, k, equal)
<1>1. Rowed(P, n, k)
  BY DEF Whole, Shares
<1>2. P \in Seq(Seq(1..n)) /\ Len(P) = k
  BY <1>1 DEF Rowed
<1>3. U \in Seq(Seq(1..n)) /\ Len(U) = k /\ \E f : Moved(U, P, f, k)
  BY <1>2, PermutedFacts
<1>4. Rowed(U, n, k)
  BY <1>3, LenProperties DEF Rowed
<1>5. PICK f : Moved(U, P, f, k)
  BY <1>3
<1>6. Shares(P, n, k, equal) /\ \A r \in 1..n : Holds(P, r)
  BY DEF Whole
<1>7. Shares(U, n, k, equal) /\ \A r : Holds(U, r) <=> Holds(P, r)
  BY <1>4, <1>5, <1>6, SharesMoved
<1> QED
  BY <1>6, <1>7 DEF Whole

\* The shares of all rows are a sequence of sequences.
LEMMA WholeRows ==
  ASSUME NEW n \in Nat, NEW k \in Nat, NEW equal, NEW P, Whole(P, n, k, equal)
  PROVE  P \in Seq(Seq(1..n)) /\ Len(P) = k /\ DOMAIN P = 1..k
<1>1. P \in [1..k -> Seq(1..n)]
  BY DEF Whole, Shares, Rowed
<1> QED
  BY <1>1

(* rearrange_micro_batches: whatever the sequence lengths and for any number of    *)
(* micro batches the mini batch has rows for, each of its rows is in exactly one.  *)
THEOREM MicroBatchesWhole ==
  ASSUME NEW n \in Nat, n > 0, NEW work, Weights(work, n), NEW k \in Nat, k > 0, k <= n
  PROVE  Whole(MicroBatches(work, k), n, k, FALSE)
<1>1. PICK P : P = Partitions(work, k, FALSE)
  OBVIOUS
<1>2. Whole(P, n, k, FALSE)
  BY <1>1, PartitionsWhole DEF Shareable
<1>3. P \in Seq(Seq(1..n)) /\ Len(P) = k /\ DOMAIN P = 1..k
  BY <1>2, WholeRows
<1>4. \A i \in 1..k : Len(P[i]) > 0
  BY <1>2, WholeFilled
<1>5. P \in Seq(Filled(n))
  <2>1. \A i \in 1..k : P[i] \in Seq(1..n)
    BY <1>3
  <2>2. ASSUME NEW i \in 1..k PROVE P[i] \in Filled(n)
    <3>1. PICK x \in Seq(1..n) : x = P[i]
      BY <2>1
    <3>2. Len(x) > 0
      BY <1>4, <3>1
    <3>3. x # <<>>
      BY <3>2
    <3> QED
      BY <3>1, <3>3 DEF Filled
  <2>3. P \in [1..k -> Filled(n)]
    BY <1>3, <2>2
  <2> QED
    BY <2>3
<1>6. PICK B : B = ByTotal(work, P)
  OBVIOUS
<1>7. Permuted(B, P, k)
  <2>1. work \in [1..n -> Nat]
    BY DEF Weights
  <2> QED
    BY <1>3, <1>5, <1>6, <2>1, ByTotalPermuted
<1>8. Whole(B, n, k, FALSE)
  BY <1>2, <1>7, WholeMoved
<1>9. B \in Seq(Seq(1..n)) /\ Len(B) = k
  BY <1>8, WholeRows
<1>10. PICK M : M = Reverse(Evens(B)) \o Odds(B)
  OBVIOUS
<1>11. Permuted(M, B, k)
  BY <1>9, <1>10, InsideOut
<1>12. Whole(M, n, k, FALSE)
  BY <1>8, <1>11, WholeMoved
<1>13. MicroBatches(work, k) = M
  BY Zenon, <1>1, <1>6, <1>10 DEF MicroBatches
<1> QED
  BY <1>12, <1>13

\* The rows of a part as they are arranged in a balanced batch
ArrangedRows(work, p) == Evens(ByWork(work, p)) \o Reverse(Odds(ByWork(work, p)))

\* _balance_batch only reorders the rows of a rank,
LEMMA ArrangedPermuted ==
  ASSUME NEW n \in Nat, NEW work \in [1..n -> Nat], NEW p \in Seq(1..n)
  PROVE  Permuted(ArrangedRows(work, p), p, Len(p))
<1>1. PICK l \in Nat : l = Len(p)
  BY LenProperties
<1>2. PICK s : s = ByWork(work, p)
  OBVIOUS
<1>3. Permuted(s, p, l)
  BY <1>1, <1>2, ByWorkPermuted
<1>4. s \in Seq(1..n) /\ Len(s) = l
  BY <1>1, <1>3, PermutedFacts
<1>5. PICK q : q = Evens(s) \o Reverse(Odds(s))
  OBVIOUS
<1>6. Permuted(q, s, l)
  BY <1>4, <1>5, OutsideIn
<1>7. Permuted(q, p, l)
  BY <1>3, <1>6, PermutedTwice
<1>8. ArrangedRows(work, p) = q
  BY Zenon, <1>2, <1>5 DEF ArrangedRows
<1> QED
  BY <1>1, <1>7, <1>8

Arrangement(work, P) == [r \in DOMAIN P |-> ArrangedRows(work, P[r])]

\* so that all ranks together still have every row once,
LEMMA ArrangedWhole ==
  ASSUME NEW n \in Nat, NEW work \in [1..n -> Nat], NEW k \in Nat, NEW equal,
         NEW P, Whole(P, n, k, equal)
  PROVE  Whole(Arrangement(work, P), n, k, equal)
<1>0. PICK U : U = Arrangement(work, P)
  OBVIOUS
<1>1. P \in Seq(Seq(1..n)) /\ Len(P) = k /\ DOMAIN P = 1..k
  BY WholeRows
<1>2. DOMAIN U = 1..k /\ U = [i \in 1..k |-> U[i]] /\ \A i \in 1..k : U[i] = ArrangedRows(work, P[i])
  BY <1>0, <1>1 DEF Arrangement
<1>3. ASSUME NEW i \in 1..k
      PROVE  U[i] \in Seq(1..n) /\ Len(U[i]) = Len(P[i]) /\ \E f : Moved(U[i], P[i], f, Len(P[i]))
  <2>1. PICK p \in Seq(1..n) : p = P[i]
    BY <1>1
  <2>2. PICK u : u = U[i]
    OBVIOUS
  <2>3. Permuted(u, p, Len(p))
    BY <1>2, <2>1, <2>2, ArrangedPermuted
  <2>4. u \in Seq(1..n) /\ Len(u) = Len(p) /\ \E f : Moved(u, p, f, Len(p))
    BY <2>3, PermutedFacts
  <2> QED
    BY <2>1, <2>2, <2>4
<1>4. Rowed(U, n, k)
  BY <1>2, <1>3 DEF Rowed
<1>5. Shuffled(U, P, k)
  BY <1>3 DEF Shuffled
<1>6. Shares(P, n, k, equal) /\ \A r \in 1..n : Holds(P, r)
  BY DEF Whole
<1>7. Shares(U, n, k, equal) /\ \A r : Holds(P, r) => Holds(U, r)
  BY <1>4, <1>5, <1>6, SharesShuffled
<1> QED
  BY <1>0, <1>6, <1>7 DEF Whole

\* and what the batch is reordered by is a permutation.
LEMMA WholeFlat ==
  ASSUME NEW n \in Nat, NEW k \in Nat, k > 0, NEW equal, NEW P, Whole(P, n, k, equal)
  PROVE  /\ Permutation(FlattenSeq(P), n)
         /\ FlattenSeq(P) \in Seq(1..n)
         /\ Len(FlattenSeq(P)) = n
         /\ DOMAIN FlattenSeq(P) = 1..n
<1>1. Rowed(P, n, k) /\ Once(P) /\ \A r \in 1..n : Holds(P, r)
  BY DEF Whole, Shares
<1> QED
  BY <1>1, FlattenPermutation

\* restore_dynamic_batch gives the rows in their order again.
Taken(D, indices) == [i \in DOMAIN indices |-> D[indices[i]]]

(* restore_dynamic_batch undoes the reordering into micro batches: the outputs     *)
(* come back in the order of the rows, for any data and any permutation.           *)
THEOREM RestoredIs ==
  ASSUME NEW n \in Nat, NEW T, NEW D \in Seq(T), Len(D) = n,
         NEW indices, Permutation(indices, n), DOMAIN indices = 1..n
  PROVE  /\ Restored(Taken(D, indices), indices) = D
         /\ Taken(D, indices) \in Seq(T) /\ Len(Taken(D, indices)) = n
<1>1. /\ indices \in [1..n -> 1..n]
      /\ \A i, j \in 1..n : indices[i] = indices[j] => i = j
      /\ \A m \in 1..n : \E i \in 1..n : indices[i] = m
  <2>1. indices \in [1..n -> 1..n]
    BY ZenonT(60), PermutationFacts
  <2>2. \A i, j \in 1..n : indices[i] = indices[j] => i = j
    BY ZenonT(60), PermutationFacts
  <2>3. \A m \in 1..n : \E i \in 1..n : indices[i] = m
    BY ZenonT(60), PermutationFacts
  <2> QED
    BY <2>1, <2>2, <2>3
<1>2. PICK c : c = Taken(D, indices)
  OBVIOUS
<1>3. D \in [1..n -> T]
  BY LenProperties
<1>4. c = [i \in 1..n |-> D[indices[i]]]
  BY <1>2 DEF Taken
<1>5. c \in [1..n -> T] /\ \A i \in 1..n : c[i] = D[indices[i]]
  BY <1>1, <1>3, <1>4
<1>6. c \in Seq(T) /\ Len(c) = n /\ DOMAIN c = 1..n
  BY <1>5, FunctionLength
<1>8. PICK g : g = ReverseIndex(indices)
  OBVIOUS
<1>9. ASSUME NEW r \in 1..n PROVE g[r] \in 1..n /\ indices[g[r]] = r
  <2>1. DOMAIN indices = 1..n
    BY <1>1
  <2>2. g[r] = CHOOSE i \in 1..n : indices[i] = r
    BY <1>8, <2>1 DEF ReverseIndex
  <2> QED
    BY <1>1, <2>2
<1>10. \A r \in 1..n : c[g[r]] = D[r]
  BY <1>5, <1>9
<1>11. Restored(c, indices) = [r \in 1..n |-> c[g[r]]]
  BY <1>6, <1>8 DEF Restored
<1>12. D = [r \in 1..n |-> D[r]]
  BY <1>3
<1>13. Restored(c, indices) = D
  BY <1>10, <1>11, <1>12
<1> QED
  BY <1>2, <1>6, <1>13

(* The assertions of get_seqlen_balanced_partitions hold: no partition is empty    *)
(* when there are as many rows as partitions.                                      *)
THEOREM FairParts ==
  ASSUME NEW n \in Nat, NEW k \in Nat, k > 0, k <= n, NEW P, Whole(P, n, k, FALSE), NEW rows
  PROVE  Fair(P, rows, FALSE)
<1>1. P \in Seq(Seq(1..n)) /\ Len(P) = k /\ DOMAIN P = 1..k
  BY WholeRows
<1>2. \A i \in 1..k : Len(P[i]) > 0
  BY WholeFilled
<1>3. ASSUME NEW i \in 1..k PROVE P[i] # <<>>
  <2>1. PICK x \in Seq(1..n) : x = P[i]
    BY <1>1
  <2>2. Len(x) > 0
    BY <1>2, <2>1
  <2> QED
    BY <2>1, <2>2
<1> QED
  BY <1>1, <1>3 DEF Fair

\* The same for parts that are to be equal, which have as many rows each
LEMMA FairRanks ==
  ASSUME NEW n \in Nat, NEW k \in Nat, k > 0, NEW P, Whole(P, n, k, TRUE)
  PROVE  Fair(P, n, TRUE)
<1>1. P \in Seq(Seq(1..n)) /\ Len(P) = k /\ DOMAIN P = 1..k
  BY WholeRows
<1>2. PICK l \in Nat \ {0} : (\A i \in 1..k : Len(P[i]) = l) /\ Multiple(l, k) = n
  BY WholeEven
<1>3. ASSUME NEW i \in 1..k PROVE P[i] # <<>> /\ Len(P[i]) * Len(P) = n
  <2>1. PICK x \in Seq(1..n) : x = P[i]
    BY <1>1
  <2>2. Len(x) = l
    BY <1>2, <2>1
  <2>3. x # <<>>
    BY <2>2
  <2>4. l * k = n
    BY <1>2 DEF Multiple
  <2> QED
    BY <1>1, <2>1, <2>2, <2>3, <2>4
<1> QED
  BY <1>1, <1>3 DEF Fair

-----------------------------------------------------------------------------
(* A sequence in pieces of a size *)

Pieces(l, z) == (l + z - 1) \div z
EndAt(m, z) == m * z
Piece(x, m, z) == SubSeq(x, EndAt(m, z) - z + 1, IF EndAt(m, z) < Len(x) THEN EndAt(m, z) ELSE Len(x))
\* What the pieces up to one cover
Covered(l, m, z) == IF EndAt(m, z) < l THEN EndAt(m, z) ELSE l

\* Where a piece ends, and how many there are
LEMMA PieceBounds ==
  ASSUME NEW l \in Nat \ {0}, NEW z \in Nat \ {0}, NEW m \in Nat \ {0}
  PROVE  /\ EndAt(m, z) \in Nat /\ EndAt(m - 1, z) \in Nat /\ EndAt(m, z) = EndAt(m - 1, z) + z
         /\ EndAt(0, z) = 0 /\ EndAt(1, z) = z
         /\ Pieces(l, z) \in Nat
         /\ m <= Pieces(l, z) => EndAt(m - 1, z) < l
         /\ EndAt(m - 1, z) < l => m <= Pieces(l, z)
<1>1. EndAt(m, z) \in Nat /\ EndAt(m - 1, z) \in Nat /\ EndAt(m, z) = EndAt(m - 1, z) + z
  BY DEF EndAt
<1>2. EndAt(0, z) = 0 /\ EndAt(1, z) = z
  BY DEF EndAt
<1>3. PICK x \in Nat : x = l + z - 1
  OBVIOUS
<1>4. PICK q \in Nat : q = x \div z
  BY DivMod
<1>5. PICK r \in 0..(z - 1) : r = x % z
  BY DivMod
<1>6. x = EndAt(q, z) + r
  BY <1>4, <1>5, DivMod DEF EndAt
<1>7. Pieces(l, z) = q
  BY <1>3, <1>4 DEF Pieces
<1>8. PICK a \in Nat : a = EndAt(m - 1, z)
  BY <1>1
<1>9. PICK b \in Nat : b = EndAt(q, z)
  BY DEF EndAt
<1>10. l + z - 1 = b + r
  BY <1>3, <1>6, <1>9
<1>11. ASSUME m <= q PROVE a < l
  <2>1. a + z <= b
    <3>1. (m - 1) * z + z <= q * z
      <4>1. m - 1 \in Int /\ m - 1 < q
        BY <1>11
      <4> QED
        BY <4>1, Groups
    <3> QED
      BY <1>8, <1>9, <3>1 DEF EndAt
  <2> QED
    BY <1>10, <2>1
<1>12. ASSUME a < l PROVE m <= q
  <2>1. SUFFICES ASSUME q < m PROVE FALSE
    OBVIOUS
  <2>2. b <= a
    <3>1. CASE q = m - 1
      BY <1>8, <1>9, <3>1
    <3>2. CASE q < m - 1
      <4>1. q * z + z <= (m - 1) * z
        <5>1. m - 1 \in Int
          OBVIOUS
        <5> QED
          BY <3>2, <5>1, Groups
      <4>2. b + z <= a
        BY <1>8, <1>9, <4>1 DEF EndAt
      <4> QED
        BY <4>2
    <3> QED
      BY <2>1, <3>1, <3>2
  <2> QED
    BY <1>10, <1>12, <2>2
<1> QED
  BY <1>1, <1>2, <1>7, <1>8, <1>11, <1>12

\* u is x behind a, up to b.
Slice(u, x, a, b) == Len(u) = b - a /\ \A i \in 1..(b - a) : u[i] = x[a + i]

\* A slice of a sequence is what the code slices.
LEMMA SliceIs ==
  ASSUME NEW T, NEW x \in Seq(T), NEW a \in Nat, NEW b \in Nat, a <= b, b <= Len(x)
  PROVE  SubSeq(x, a + 1, b) \in Seq(T) /\ Slice(SubSeq(x, a + 1, b), x, a, b)
<1>1. PICK c \in Int : c = a + 1
  OBVIOUS
<1>2. \A i \in c..b : x[i] \in T
  BY <1>1
<1>3. PICK u : u = SubSeq(x, c, b)
  OBVIOUS
<1>4. /\ u \in Seq(T)
      /\ Len(u) = IF c <= b THEN b - c + 1 ELSE 0
      /\ \A i \in 1..(b - c + 1) : u[i] = x[c + i - 1]
  BY <1>2, <1>3, SubSeqProperties
<1>5. Len(u) = b - a
  BY <1>1, <1>4
<1>6. ASSUME NEW i \in 1..(b - a) PROVE u[i] = x[a + i]
  <2>1. i \in 1..(b - c + 1) /\ c + i - 1 = a + i
    BY <1>1
  <2> QED
    BY <1>4, <2>1
<1>7. Slice(u, x, a, b)
  BY <1>5, <1>6 DEF Slice
<1> QED
  BY <1>1, <1>3, <1>4, <1>7

\* Two slices that meet make one.
LEMMA SlicesJoin ==
  ASSUME NEW x, NEW a \in Nat, NEW b \in Nat, a <= b, NEW u, NEW v, NEW y,
         Slice(u, x, 0, a), Slice(v, x, a, b), Behind(y, u, v)
  PROVE  Slice(y, x, 0, b)
<1>1. Len(u) = a /\ Len(v) = b - a
  BY DEF Slice
<1>2. Len(y) = b
  BY <1>1 DEF Behind
<1>3. ASSUME NEW i \in 1..b PROVE y[i] = x[0 + i]
  <2>1. CASE i <= a
    <3>1. i \in 1..Len(u) /\ i \in 1..(a - 0)
      BY <1>1, <2>1
    <3>2. y[i] = u[i] /\ u[i] = x[0 + i]
      BY <3>1 DEF Behind, Slice
    <3> QED
      BY <3>2
  <2>2. CASE ~(i <= a)
    <3>1. PICK c \in 1..(b - a) : c = i - a
      BY <2>2
    <3>2. y[c + Len(u)] = v[c]
      BY <1>1 DEF Behind
    <3>3. v[c] = x[a + c]
      BY DEF Slice
    <3>4. c + Len(u) = i /\ a + c = 0 + i
      BY <1>1, <3>1
    <3> QED
      BY <3>2, <3>3, <3>4
  <2> QED
    BY <2>1, <2>2
<1>4. b = b - 0
  OBVIOUS
<1> QED
  BY <1>2, <1>3, <1>4 DEF Slice

\* The slices between the same ends are equal.
LEMMA SlicesEqual ==
  ASSUME NEW T, NEW x, NEW b \in Nat, NEW u \in Seq(T), NEW v \in Seq(T),
         Slice(u, x, 0, b), Slice(v, x, 0, b)
  PROVE  u = v
<1>1. Len(u) = b /\ Len(v) = b
  BY DEF Slice
<1>2. ASSUME NEW i \in 1..b PROVE u[i] = v[i]
  <2>1. i \in 1..(b - 0)
    OBVIOUS
  <2> QED
    BY <2>1 DEF Slice
<1> QED
  BY <1>1, <1>2, SeqEqual

\* Two successive parts of a sequence
LEMMA SubSeqParts ==
  ASSUME NEW T, NEW x \in Seq(T), NEW a \in Nat, NEW b \in Nat, a <= b, b <= Len(x)
  PROVE  /\ SubSeq(x, 1, a) \in Seq(T) /\ Len(SubSeq(x, 1, a)) = a
         /\ SubSeq(x, a + 1, b) \in Seq(T) /\ Len(SubSeq(x, a + 1, b)) = b - a
         /\ SubSeq(x, 1, b) \in Seq(T)
         /\ SubSeq(x, 1, a) \o SubSeq(x, a + 1, b) = SubSeq(x, 1, b)
<1>1. 0 \in Nat /\ 0 + 1 = 1 /\ 0 <= a /\ a <= Len(x) /\ 0 <= b
  BY LenProperties
<1>2. SubSeq(x, 0 + 1, a) \in Seq(T) /\ Slice(SubSeq(x, 0 + 1, a), x, 0, a)
  BY <1>1, SliceIs
<1>3. SubSeq(x, 0 + 1, b) \in Seq(T) /\ Slice(SubSeq(x, 0 + 1, b), x, 0, b)
  BY <1>1, SliceIs
<1>4. SubSeq(x, a + 1, b) \in Seq(T) /\ Slice(SubSeq(x, a + 1, b), x, a, b)
  BY SliceIs
<1>5. PICK u \in Seq(T) : u = SubSeq(x, 1, a) /\ Slice(u, x, 0, a)
  BY <1>1, <1>2
<1>6. PICK v \in Seq(T) : v = SubSeq(x, a + 1, b) /\ Slice(v, x, a, b)
  BY <1>4
<1>7. PICK w \in Seq(T) : w = SubSeq(x, 1, b) /\ Slice(w, x, 0, b)
  BY <1>1, <1>3
<1>8. PICK y \in Seq(T) : y = u \o v /\ Behind(y, u, v)
  BY BehindIs
<1>9. Slice(y, x, 0, b)
  BY <1>5, <1>6, <1>8, SlicesJoin
<1>10. y = w
  BY <1>7, <1>9, SlicesEqual
<1>11. Len(u) = a /\ Len(v) = b - a
  BY <1>5, <1>6 DEF Slice
<1> QED
  BY <1>5, <1>6, <1>7, <1>8, <1>10, <1>11

PieceLen(l, m, z) == Covered(l, m, z) - Covered(l, m - 1, z)

\* A piece follows those before it.
Joins(x, l, m, z) ==
  SubSeq(x, 1, Covered(l, m - 1, z)) \o Piece(x, m, z) = SubSeq(x, 1, Covered(l, m, z))

\* A piece is not empty, and follows those before it.
LEMMA PieceFacts ==
  ASSUME NEW l \in Nat \ {0}, NEW z \in Nat \ {0}, NEW m \in Nat \ {0}, m <= Pieces(l, z),
         NEW T, NEW x \in Seq(T), Len(x) = l
  PROVE  /\ Piece(x, m, z) \in Seq(T)
         /\ Len(Piece(x, m, z)) = PieceLen(l, m, z)
         /\ PieceLen(l, m, z) \in Nat \ {0}
         /\ Joins(x, l, m, z)
<1>1. PICK a \in Nat : a = EndAt(m - 1, z)
  BY PieceBounds
<1>2. PICK b \in Nat : b = EndAt(m, z)
  BY PieceBounds
<1>3. b = a + z /\ a < l
  BY <1>1, <1>2, PieceBounds
<1>4. PICK c \in Nat : c = IF b < l THEN b ELSE l
  OBVIOUS
<1>5. Covered(l, m - 1, z) = a /\ Covered(l, m, z) = c
  BY <1>1, <1>2, <1>3, <1>4 DEF Covered
<1>6. a <= c /\ c <= l /\ a < c /\ b - z + 1 = a + 1
  BY <1>3, <1>4
<1>7. Piece(x, m, z) = SubSeq(x, a + 1, c)
  BY <1>2, <1>4, <1>6 DEF Piece
<1>8. /\ SubSeq(x, a + 1, c) \in Seq(T) /\ Len(SubSeq(x, a + 1, c)) = c - a
      /\ SubSeq(x, 1, a) \o SubSeq(x, a + 1, c) = SubSeq(x, 1, c)
  BY <1>6, SubSeqParts
<1>9. PieceLen(l, m, z) = c - a /\ c - a \in Nat \ {0}
  BY <1>5, <1>6 DEF PieceLen
<1>10. Joins(x, l, m, z)
  BY <1>5, <1>7, <1>8 DEF Joins
<1> QED
  BY <1>5, <1>7, <1>8, <1>9, <1>10

\* The pieces up to the last one cover the sequence.
LEMMA PiecesEnd ==
  ASSUME NEW l \in Nat \ {0}, NEW z \in Nat \ {0}, NEW m \in Nat \ {0}
  PROVE  /\ m > Pieces(l, z) => Covered(l, m - 1, z) = l
         /\ Covered(l, 0, z) = 0 /\ Covered(l, 1, l) = l
         /\ 1 <= Pieces(l, z) /\ Pieces(l, l) = 1
         /\ Covered(l, m, z) \in Nat /\ Covered(l, m, z) <= l
<1>1. PICK a \in Nat : a = EndAt(m - 1, z)
  BY PieceBounds
<1>2. m > Pieces(l, z) => ~(a < l)
  BY <1>1, PieceBounds
<1>3. EndAt(0, z) = 0 /\ EndAt(1, l) = l /\ EndAt(0, z) < l
  BY PieceBounds
<1>4. m > Pieces(l, z) => Covered(l, m - 1, z) = l
  BY <1>1, <1>2 DEF Covered
<1>5. Covered(l, 0, z) = 0 /\ Covered(l, 1, l) = l
  BY <1>3 DEF Covered
<1>6. 1 <= Pieces(l, z)
  <2>1. 1 \in Nat \ {0} /\ 1 - 1 = 0
    OBVIOUS
  <2> QED
    BY <1>3, <2>1, PieceBounds
<1>7. Pieces(l, l) = 1
  <2>1. 2 \in Nat \ {0} /\ 2 - 1 = 1
    OBVIOUS
  <2>2. ~(EndAt(1, l) < l)
    BY <1>3
  <2>3. 2 <= Pieces(l, l) => EndAt(1, l) < l
    BY <2>1, PieceBounds
  <2>4. Pieces(l, l) \in Nat
    BY PieceBounds
  <2>5. 1 <= Pieces(l, l)
    <3>1. 1 \in Nat \ {0} /\ 1 - 1 = 0 /\ EndAt(0, l) < l
      BY PieceBounds
    <3> QED
      BY <3>1, PieceBounds
  <2> QED
    BY <2>2, <2>3, <2>4, <2>5
<1>8. Covered(l, m, z) \in Nat /\ Covered(l, m, z) <= l
  <2>1. PICK b \in Nat : b = EndAt(m, z)
    BY PieceBounds
  <2> QED
    BY <2>1 DEF Covered
<1> QED
  BY <1>4, <1>5, <1>6, <1>7, <1>8

-----------------------------------------------------------------------------
(* The same rows: as many, and in the same order where that matters *)

Alike(u, v, exact) == Len(u) = Len(v) /\ ToSet(u) = ToSet(v) /\ (exact => u = v)

\* The elements of a concatenation
LEMMA ElementsOf ==
  ASSUME NEW T, NEW u \in Seq(T)
  PROVE  \A r : r \in ToSet(u) <=> \E a \in 1..Len(u) : u[a] = r
<1>1. DOMAIN u = 1..Len(u)
  BY LenProperties
<1> QED
  BY <1>1 DEF ToSet

\* What is alike stays so one behind another.
LEMMA AlikeBehind ==
  ASSUME NEW T, NEW u \in Seq(T), NEW v \in Seq(T), NEW x \in Seq(T), NEW y \in Seq(T),
         NEW exact, Alike(u, v, exact), Alike(x, y, exact)
  PROVE  u \o x \in Seq(T) /\ Alike(u \o x, v \o y, exact)
<1>1. Len(u) = Len(v) /\ ToSet(u) = ToSet(v) /\ (exact => u = v)
  BY DEF Alike
<1>2. Len(x) = Len(y) /\ ToSet(x) = ToSet(y) /\ (exact => x = y)
  BY DEF Alike
<1>3. PICK p \in Seq(T) : p = u \o x /\ Behind(p, u, x)
  BY BehindIs
<1>4. PICK q \in Seq(T) : q = v \o y /\ Behind(q, v, y)
  BY BehindIs
<1>5. Len(p) = Len(q)
  BY <1>1, <1>2, <1>3, <1>4 DEF Behind
<1>6. ASSUME NEW a \in Seq(T), NEW b \in Seq(T), NEW c \in Seq(T), Behind(c, a, b)
      PROVE  ToSet(c) = ToSet(a) \cup ToSet(b)
  <2>1. ASSUME NEW r \in ToSet(c) PROVE r \in ToSet(a) \/ r \in ToSet(b)
    <3>1. PICK i \in 1..Len(c) : c[i] = r
      BY ElementsOf
    <3>2. Len(a) \in Nat /\ Len(b) \in Nat
      BY LenProperties
    <3>3. Behind(c, a, b)
      BY <1>6
    <3>4. \/ i \in 1..Len(a) /\ c[i] = a[i]
          \/ \E j \in 1..Len(b) : j = i - Len(a) /\ c[i] = b[j]
      BY <3>2, <3>3, BehindAt
    <3> QED
      BY <3>1, <3>4, ElementsOf
  <2>2. ASSUME NEW r \in ToSet(a) PROVE r \in ToSet(c)
    <3>1. PICK i \in 1..Len(a) : a[i] = r
      BY ElementsOf
    <3>2. i \in 1..Len(c) /\ c[i] = a[i]
      BY <1>6 DEF Behind
    <3> QED
      BY <3>1, <3>2, ElementsOf
  <2>3. ASSUME NEW r \in ToSet(b) PROVE r \in ToSet(c)
    <3>1. PICK i \in 1..Len(b) : b[i] = r
      BY ElementsOf
    <3>2. i + Len(a) \in 1..Len(c) /\ c[i + Len(a)] = b[i]
      BY <1>6 DEF Behind
    <3> QED
      BY <3>1, <3>2, ElementsOf
  <2> QED
    BY <2>1, <2>2, <2>3
<1>7. ToSet(p) = ToSet(u) \cup ToSet(x) /\ ToSet(q) = ToSet(v) \cup ToSet(y)
  BY <1>3, <1>4, <1>6
<1>8. exact => p = q
  BY <1>1, <1>2, <1>3, <1>4
<1>9. Alike(p, q, exact)
  BY <1>1, <1>2, <1>5, <1>7, <1>8 DEF Alike
<1> QED
  BY <1>3, <1>4, <1>9

\* One after another, what is alike its part of b is alike b.
AlikeParts(S, k, T, l, b, exact) ==
  \A i \in 1..k : /\ S[i] \in Seq(T)
                  /\ Alike(S[i], SubSeq(b, Multiple(l, i - 1) + 1, Multiple(l, i)), exact)

\* Parts that are alike their rows, one after another, are alike the batch.
LEMMA FlatAlike ==
  ASSUME NEW k \in Nat, k > 0, NEW T, NEW l \in Nat, NEW b \in Seq(T), Len(b) = Multiple(l, k),
         NEW exact, NEW S, AlikeParts(S, k, T, l, b, exact), NEW f, Flat(S, k, f)
  PROVE  f[k] \in Seq(T) /\ Alike(f[k], b, exact)
<1>a. \A m \in Nat : Multiple(l, m) \in Nat /\ Multiple(l, m + 1) = Multiple(l, m) + l
  BY Multiples
<1>b. ASSUME NEW m \in Nat, m <= k PROVE Multiple(l, m) <= Len(b)
  <2>1. CASE m = k
    BY <1>a, <2>1
  <2>2. CASE m < k
    <3>1. m * l + l <= k * l
      BY <2>2, Groups
    <3>2. PICK x \in Nat : x = Multiple(l, m)
      BY <1>a
    <3>3. PICK y \in Nat : y = Multiple(l, k)
      BY <1>a
    <3>4. x + l <= y
      BY <3>1, <3>2, <3>3 DEF Multiple
    <3> QED
      BY <3>2, <3>3, <3>4
  <2> QED
    BY <1>b, <2>1, <2>2
<1> DEFINE Z == {m \in Nat : m + 1 <= k => /\ f[m + 1] \in Seq(T)
                                           /\ Alike(f[m + 1], SubSeq(b, 1, Multiple(l, m + 1)), exact)}
<1>1. 0 \in Z
  <2>1. f[1] = S[1] /\ 1 \in 1..k
    BY DEF Flat
  <2>2. S[1] \in Seq(T) /\ Alike(S[1], SubSeq(b, Multiple(l, 1 - 1) + 1, Multiple(l, 1)), exact)
    BY <2>1 DEF AlikeParts
  <2>3. Multiple(l, 1 - 1) + 1 = 1
    BY Multiples
  <2>4. 0 + 1 = 1
    OBVIOUS
  <2> QED
    BY <2>1, <2>2, <2>3, <2>4
<1>2. ASSUME NEW m \in Nat, m \in Z PROVE m + 1 \in Z
  <2> SUFFICES ASSUME (m + 1) + 1 <= k
               PROVE  /\ f[(m + 1) + 1] \in Seq(T)
                      /\ Alike(f[(m + 1) + 1], SubSeq(b, 1, Multiple(l, (m + 1) + 1)), exact)
    OBVIOUS
  <2>z. m + 1 <= k => /\ f[m + 1] \in Seq(T)
                      /\ Alike(f[m + 1], SubSeq(b, 1, Multiple(l, m + 1)), exact)
    BY <1>2
  <2> HIDE DEF Z
  <2>1. PICK j \in Nat : j = m + 1
    OBVIOUS
  <2>2. j + 1 \in 1..k /\ j <= k /\ j + 1 > 1 /\ (j + 1) - 1 = j
    BY <2>1
  <2>3. f[j] \in Seq(T) /\ Alike(f[j], SubSeq(b, 1, Multiple(l, j)), exact)
    BY <2>z, <2>1, <2>2
  <2>4. f[j + 1] = f[j] \o S[j + 1]
    BY <2>2 DEF Flat
  <2>5. S[j + 1] \in Seq(T) /\ Alike(S[j + 1], SubSeq(b, Multiple(l, j) + 1, Multiple(l, j + 1)), exact)
    BY <2>2 DEF AlikeParts
  <2>6. PICK u \in Seq(T) : u = f[j]
    BY <2>3
  <2>7. PICK x \in Seq(T) : x = S[j + 1]
    BY <2>5
  <2>8. PICK c \in Nat : c = Multiple(l, j)
    BY <1>a
  <2>9. PICK d \in Nat : d = Multiple(l, j + 1) /\ c <= d /\ d <= Len(b)
    <3>0. j + 1 \in Nat
      OBVIOUS
    <3>3. Multiple(l, j) \in Nat /\ Multiple(l, j + 1) \in Nat
      BY <1>a, <3>0
    <3>4. Multiple(l, j + 1) = Multiple(l, j) + l
      BY <1>a
    <3>1. Multiple(l, j + 1) \in Nat /\ Multiple(l, j) <= Multiple(l, j + 1)
      BY <3>3, <3>4
    <3>2. Multiple(l, j + 1) <= Len(b)
      BY <1>b, <2>2
    <3> QED
      BY <2>8, <3>1, <3>2
  <2>10. PICK v : v = SubSeq(b, 1, c)
    OBVIOUS
  <2>11. PICK y : y = SubSeq(b, c + 1, d)
    OBVIOUS
  <2>12. v \in Seq(T) /\ y \in Seq(T) /\ v \o y = SubSeq(b, 1, d)
    <3>1. c <= d /\ d <= Len(b)
      BY <2>9
    <3>2. SubSeq(b, 1, c) \in Seq(T) /\ SubSeq(b, c + 1, d) \in Seq(T)
      BY <3>1, SubSeqParts
    <3>3. SubSeq(b, 1, c) \o SubSeq(b, c + 1, d) = SubSeq(b, 1, d)
      BY <3>1, SubSeqParts
    <3> QED
      BY <2>10, <2>11, <3>2, <3>3
  <2>13. Alike(u, v, exact) /\ Alike(x, y, exact)
    BY <2>3, <2>5, <2>6, <2>7, <2>8, <2>9, <2>10, <2>11
  <2>14. u \o x \in Seq(T) /\ Alike(u \o x, v \o y, exact)
    BY <2>12, <2>13, AlikeBehind
  <2> QED
    BY <2>1, <2>4, <2>6, <2>7, <2>9, <2>12, <2>14
<1> HIDE DEF Z
<1>3. Nat \subseteq Z
  BY <1>1, <1>2, EachNatural
<1>4. PICK m \in Nat : m + 1 = k
  <2>1. k - 1 \in Nat /\ (k - 1) + 1 = k
    OBVIOUS
  <2> QED
    BY <2>1
<1>5. f[m + 1] \in Seq(T) /\ Alike(f[m + 1], SubSeq(b, 1, Multiple(l, m + 1)), exact)
  BY <1>3, <1>4 DEF Z
<1>6. SubSeq(b, 1, Len(b)) = b
  BY SubSeqFull
<1> QED
  BY <1>4, <1>5, <1>6
=============================================================================

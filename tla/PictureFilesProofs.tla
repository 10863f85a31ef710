-------------------------- MODULE PictureFilesProofs --------------------------
(* Theorems of PictureFiles, for pictures of any sizes.                      *)
EXTENDS PictureFiles, WellFoundedInduction, TLAPS

-------------------------------------------------------------------------------
(* Induction, and the folds of the community modules.                        *)

\* A set with 0 in it and the successor of each of its numbers has them all.
LEMMA Induction ==
  ASSUME NEW S, 0 \in S, \A n \in Nat : n \in S => n + 1 \in S
  PROVE  \A n \in Nat : n \in S
<1> DEFINE T == {n \in Nat : n \notin S}
           R == OpToRel(<, Nat)
<1> SUFFICES ASSUME T # {} PROVE FALSE
  OBVIOUS
<1>1. IsWellFoundedOn(R, Nat)
  BY NatLessThanWellFounded DEF OpToRel
<1>2. \A m, n \in Nat : m < n => <<m, n>> \in R
  BY DEF OpToRel
<1>3. T \subseteq Nat
  OBVIOUS
<1> HIDE DEF R
<1>4. PICK n \in T : \A m \in T : <<m, n>> \notin R
  BY <1>1, <1>3, WFMin
<1>5. n \in Nat \ {0} /\ n - 1 \in Nat /\ n - 1 < n /\ n - 1 + 1 = n
  BY <1>4
<1>6. n - 1 \in S
  BY <1>2, <1>4, <1>5
<1> QED BY <1>4, <1>5, <1>6

\* The largest number of a set, where there is one.
LEMMA MaxIs ==
  ASSUME NEW S \in SUBSET Int, NEW m \in S, \A k \in S : k <= m
  PROVE  Max(S) = m
<1> DEFINE Top(n) == \A k \in S : n >= k
           top == CHOOSE n \in S : Top(n)
<1>1. Top(m)
  OBVIOUS
<1>2. top \in S /\ Top(top)
  BY <1>1
<1>3. Max(S) = top
  BY DEF Max
<1> HIDE DEF top
<1>4. top >= m /\ m >= top
  BY <1>2
<1> QED BY <1>2, <1>3, <1>4

\* f is the fold over the sets between 1 and n, from the largest number down.
IsFold(f, n, S, base, step) ==
  /\ f \in [SUBSET (1 .. n) -> S]
  /\ \A s \in SUBSET (1 .. n) : f[s] = IF s = {} THEN base ELSE step[f[s \ {Max(s)}]][Max(s)]

\* The fold over a sequence of n steps is defined.
LEMMA FoldExists ==
  ASSUME NEW n \in Nat, NEW S, NEW base \in S, NEW step \in [S -> [1 .. n -> S]]
  PROVE  \E f : IsFold(f, n, S, base, step)
<1> DEFINE Has(k) == \E f : IsFold(f, k, S, base, step)
           K == {k \in Nat : k <= n => Has(k)}
<1> HIDE DEF Has
<1>1. 0 \in K
  <2> DEFINE f == [s \in SUBSET (1 .. 0) |-> base]
  <2>1. SUBSET (1 .. 0) = {{}}
    OBVIOUS
  <2>2. IsFold(f, 0, S, base, step)
    BY <2>1 DEF IsFold
  <2> HIDE DEF f
  <2> QED BY <2>2 DEF Has
<1>2. ASSUME NEW k \in Nat, k \in K
      PROVE  k + 1 \in K
  <2> SUFFICES ASSUME k + 1 <= n
               PROVE  Has(k + 1)
    OBVIOUS
  <2>0. Has(k)
    BY <1>2
  <2>1. PICK f : IsFold(f, k, S, base, step)
    BY <2>0 DEF Has
  <2>6. /\ f \in [SUBSET (1 .. k) -> S]
        /\ \A s \in SUBSET (1 .. k) :
             f[s] = IF s = {} THEN base ELSE step[f[s \ {Max(s)}]][Max(s)]
    BY <2>1 DEF IsFold
  <2> DEFINE g == [s \in SUBSET (1 .. k + 1) |->
                     IF k + 1 \in s THEN step[f[s \ {k + 1}]][k + 1] ELSE f[s]]
  <2>2. \A s \in SUBSET (1 .. k + 1) :
          /\ s \ {k + 1} \in SUBSET (1 .. k)
          /\ k + 1 \in s => Max(s) = k + 1
          /\ k + 1 \notin s => s \in SUBSET (1 .. k)
    <3> TAKE s \in SUBSET (1 .. k + 1)
    <3>1. s \in SUBSET Int /\ \A m \in s : m <= k + 1
      OBVIOUS
    <3>2. k + 1 \in s => Max(s) = k + 1
      BY <3>1, MaxIs
    <3>3. s \ {k + 1} \in SUBSET (1 .. k)
      OBVIOUS
    <3>4. k + 1 \notin s => s \in SUBSET (1 .. k)
      OBVIOUS
    <3> QED BY <3>2, <3>3, <3>4
  <2>3. g \in [SUBSET (1 .. k + 1) -> S]
    <3> SUFFICES ASSUME NEW s \in SUBSET (1 .. k + 1) PROVE g[s] \in S
      OBVIOUS
    <3>1. CASE k + 1 \in s
      <4>1. f[s \ {k + 1}] \in S
        BY <2>2, <2>6
      <4>2. k + 1 \in 1 .. n
        OBVIOUS
      <4> QED BY <3>1, <4>1, <4>2
    <3>2. CASE k + 1 \notin s
      BY <2>2, <2>6, <3>2
    <3> QED BY <3>1, <3>2
  <2>4. ASSUME NEW s \in SUBSET (1 .. k + 1)
        PROVE  g[s] = IF s = {} THEN base ELSE step[g[s \ {Max(s)}]][Max(s)]
    <3>1. CASE k + 1 \in s
      <4>1. Max(s) = k + 1 /\ s # {} /\ s \ {k + 1} \in SUBSET (1 .. k + 1)
        BY <2>2, <3>1
      <4>2. g[s \ {k + 1}] = f[s \ {k + 1}]
        BY <4>1
      <4> QED BY <3>1, <4>1, <4>2
    <3>2. CASE k + 1 \notin s
      <4>1. s \in SUBSET (1 .. k) /\ s \ {Max(s)} \in SUBSET (1 .. k + 1)
        BY <2>2, <3>2
      <4>2. g[s] = f[s] /\ g[s \ {Max(s)}] = f[s \ {Max(s)}]
        BY <3>2, <4>1
      <4> QED BY <2>6, <4>1, <4>2
    <3> QED BY <3>1, <3>2
  <2> HIDE DEF g
  <2>5. IsFold(g, k + 1, S, base, step)
    BY <2>3, <2>4 DEF IsFold
  <2> QED BY <2>5 DEF Has
<1> HIDE DEF K
<1>3. n \in K
  BY <1>1, <1>2, Induction
<1>4. n \in K => Has(n)
  BY DEF K
<1> QED BY <1>3, <1>4 DEF Has

\* The largest number of a set between 1 and n is one of its numbers.
LEMMA MaxIn ==
  ASSUME NEW n \in Nat
  PROVE  \A s \in SUBSET (1 .. n) : s # {} => Max(s) \in s
<1> DEFINE Has(k) == \A s \in SUBSET (1 .. k) : s # {} => Max(s) \in s
           K == {k \in Nat : Has(k)}
<1>1. 0 \in K
  <2>1. SUBSET (1 .. 0) = {{}}
    OBVIOUS
  <2> QED BY <2>1
<1>2. ASSUME NEW k \in Nat, k \in K
      PROVE  k + 1 \in K
  <2> SUFFICES ASSUME NEW s \in SUBSET (1 .. k + 1), s # {}
               PROVE  Max(s) \in s
    OBVIOUS
  <2>1. CASE k + 1 \in s
    <3>1. s \in SUBSET Int /\ \A m \in s : m <= k + 1
      OBVIOUS
    <3> QED BY <2>1, <3>1, MaxIs
  <2>2. CASE k + 1 \notin s
    <3>1. s \in SUBSET (1 .. k)
      BY <2>2
    <3> QED BY <1>2, <3>1
  <2> QED BY <2>1, <2>2
<1> HIDE DEF K
<1>3. n \in K
  BY <1>1, <1>2, Induction
<1> QED BY <1>3 DEF K

LEMMA Segments ==
  ASSUME NEW k \in Nat \ {0}
  PROVE  1 .. k # {} /\ Max(1 .. k) = k /\ (1 .. k) \ {k} = 1 .. (k - 1)
<1>1. /\ 1 .. k \in SUBSET Int
      /\ k \in 1 .. k
      /\ \A m \in 1 .. k : m <= k
  OBVIOUS
<1>2. Max(1 .. k) = k
  BY ONLY <1>1, MaxIs
<1> QED BY <1>2

\* The largest of the first numbers, for one and two of them.
LEMMA FirstTwo ==
  /\ 1 .. 0 = {} /\ 1 .. 1 # {} /\ 1 .. 2 # {}
  /\ (1 .. 1) \ {1} = 1 .. 0 /\ (1 .. 2) \ {2} = 1 .. 1
  /\ 1 .. 0 \in SUBSET (1 .. 2) /\ 1 .. 1 \in SUBSET (1 .. 2) /\ 1 .. 2 \in SUBSET (1 .. 2)
  /\ Max(1 .. 1) = 1 /\ Max(1 .. 2) = 2
<1>1. 1 \in Nat \ {0} /\ 2 \in Nat \ {0}
  OBVIOUS
<1>2. Max(1 .. 1) = 1 /\ Max(1 .. 2) = 2
  BY <1>1, Segments, Zenon
<1> QED BY <1>2

-------------------------------------------------------------------------------
(* Where an element is, in a picture of two sizes.                           *)

\* The product of sizes, as the product of all but the last times the last.
LEMMA ProductFold ==
  ASSUME NEW n \in Nat, NEW sides \in [1 .. n -> Nat]
  PROVE  \E it : /\ Product(sides) = it[1 .. n] /\ it[{}] = 1
                 /\ \A s \in SUBSET (1 .. n) : s # {} =>
                      it[s] = it[s \ {Max(s)}] * sides[Max(s)]
<1> DEFINE it == CHOOSE iter : iter = [s \in SUBSET DOMAIN sides |->
                   IF s = {} THEN 1 ELSE iter[s \ {Max(s)}] * sides[Max(s)]]
           step == [m \in Nat |-> [k \in 1 .. n |-> m * sides[k]]]
<1>1. Product(sides) = it[DOMAIN sides]
  BY DEF Product, FoldLeft, MapThenFoldSet
<1>2. step \in [Nat -> [1 .. n -> Nat]]
  OBVIOUS
<1>3. PICK f : IsFold(f, n, Nat, 1, step)
  <2>1. 1 \in Nat
    OBVIOUS
  <2> HIDE DEF step
  <2> QED BY <1>2, <2>1, FoldExists
<1>4. f = [s \in SUBSET DOMAIN sides |-> IF s = {} THEN 1 ELSE f[s \ {Max(s)}] * sides[Max(s)]]
  <2>1. \A s \in SUBSET (1 .. n) : s # {} => Max(s) \in 1 .. n
    BY MaxIn
  <2>2. \A s \in SUBSET (1 .. n) : s # {} => f[s \ {Max(s)}] \in Nat
    BY <1>3 DEF IsFold
  <2> QED BY <1>3, <2>1, <2>2 DEF IsFold
<1>5. it = [s \in SUBSET DOMAIN sides |-> IF s = {} THEN 1 ELSE it[s \ {Max(s)}] * sides[Max(s)]]
  BY <1>4
<1> HIDE DEF it
<1>6. \A s \in SUBSET (1 .. n) : s # {} => it[s] = it[s \ {Max(s)}] * sides[Max(s)]
  BY <1>5
<1>7. it[{}] = 1
  BY <1>5
<1> QED BY <1>1, <1>6, <1>7

LEMMA ProductOfNone ==
  ASSUME NEW sides \in [1 .. 0 -> Nat]
  PROVE  Product(sides) = 1
<1>1. 0 \in Nat /\ 1 .. 0 = {}
  OBVIOUS
<1>2. \E it : Product(sides) = it[1 .. 0] /\ it[{}] = 1
  BY <1>1, ProductFold, Zenon
<1> QED BY <1>1, <1>2

LEMMA ProductOfOne ==
  ASSUME NEW sides \in [1 .. 1 -> Nat]
  PROVE  Product(sides) = sides[1]
<1>1. 1 \in Nat
  OBVIOUS
<1>2. PICK it : /\ Product(sides) = it[1 .. 1] /\ it[{}] = 1
                /\ \A s \in SUBSET (1 .. 1) : s # {} => it[s] = it[s \ {Max(s)}] * sides[Max(s)]
  BY <1>1, ProductFold
<1>3. 1 .. 1 \in SUBSET (1 .. 1)
  OBVIOUS
<1>4. it[1 .. 1] = it[1 .. 0] * sides[1]
  BY <1>2, <1>3, FirstTwo
<1>5. it[1 .. 0] = 1
  BY <1>2, FirstTwo
<1> QED BY <1>2, <1>4, <1>5

LEMMA ProductOfTwo ==
  ASSUME NEW sides \in [1 .. 2 -> Nat]
  PROVE  Product(sides) = sides[1] * sides[2]
<1>1. 2 \in Nat
  OBVIOUS
<1>2. PICK it : /\ Product(sides) = it[1 .. 2] /\ it[{}] = 1
                /\ \A s \in SUBSET (1 .. 2) : s # {} => it[s] = it[s \ {Max(s)}] * sides[Max(s)]
  BY <1>1, ProductFold
<1>3. it[1 .. 1] = it[1 .. 0] * sides[1] /\ it[1 .. 0] = 1
  BY <1>2, FirstTwo
<1>4. it[1 .. 2] = it[1 .. 1] * sides[2]
  BY <1>2, FirstTwo
<1> QED BY <1>2, <1>3, <1>4

\* A step in a row is one, a step to the next row the width.
LEMMA StrideIs ==
  ASSUME NEW sides \in [1 .. 2 -> Nat]
  PROVE  Stride(sides, 1) = 1 /\ Stride(sides, 2) = sides[1]
<1>1. SubSeq(sides, 1, 0) \in [1 .. 0 -> Nat]
  OBVIOUS
<1>2. SubSeq(sides, 1, 1) = [i \in 1 .. 1 |-> sides[i]]
  OBVIOUS
<1>3. [i \in 1 .. 1 |-> sides[i]] \in [1 .. 1 -> Nat]
  OBVIOUS
<1>4. Stride(sides, 1) = Product(SubSeq(sides, 1, 0))
  <2>1. 1 - 1 = 0
    OBVIOUS
  <2> QED BY <2>1 DEF Stride
<1>5. Stride(sides, 2) = Product(SubSeq(sides, 1, 1))
  <2>1. 2 - 1 = 1
    OBVIOUS
  <2> QED BY <2>1 DEF Stride
<1>6. Product(SubSeq(sides, 1, 0)) = 1
  BY <1>1, ProductOfNone
<1>7. Product([i \in 1 .. 1 |-> sides[i]]) = sides[1]
  BY <1>3, ProductOfOne
<1> QED BY <1>2, <1>4, <1>5, <1>6, <1>7

LEMMA PositionIs ==
  ASSUME NEW sides \in [1 .. 2 -> Nat \ {0}], NEW index \in Nat
  PROVE  Position(sides, index) =
           [d \in 1 .. 2 |-> IF d = 1 THEN index % sides[1]
                             ELSE (index \div sides[1]) % sides[2]]
<1>1. Stride(sides, 1) = 1 /\ Stride(sides, 2) = sides[1]
  BY StrideIs
<1>2. index \div 1 = index
  OBVIOUS
<1> QED BY <1>1, <1>2 DEF Position

LEMMA IndexIs ==
  ASSUME NEW sides \in [1 .. 2 -> Nat], NEW pos \in [1 .. 2 -> Nat]
  PROVE  Index(sides, pos) = pos[1] + sides[1] * pos[2]
<1> DEFINE own == [i \in DOMAIN sides |-> i]
           added(iter) == [s \in SUBSET DOMAIN own |->
                   IF s = {} THEN 0
                   ELSE iter[s \ {Max(s)}] + Stride(sides, own[Max(s)]) * pos[own[Max(s)]]]
           it == CHOOSE iter : iter = added(iter)
           stride == [k \in 1 .. 2 |-> Stride(sides, k)]
           step == [m \in Nat |-> [k \in 1 .. 2 |-> m + stride[k] * pos[k]]]
<1>1. Index(sides, pos) = it[DOMAIN own]
  BY DEF Index, FoldLeftDomain, FoldLeft, MapThenFoldSet
<1>2. stride \in [1 .. 2 -> Nat]
  BY StrideIs
<1>3. step \in [Nat -> [1 .. 2 -> Nat]]
  <2> HIDE DEF stride
  <2> QED BY <1>2
<1>4. PICK f : IsFold(f, 2, Nat, 0, step)
  <2>1. 0 \in Nat /\ 2 \in Nat
    OBVIOUS
  <2> HIDE DEF step
  <2> QED BY <1>3, <2>1, FoldExists
<1>5. f = added(f)
  <2>1. \A s \in SUBSET (1 .. 2) : s # {} => Max(s) \in 1 .. 2
    BY MaxIn
  <2>2. \A s \in SUBSET (1 .. 2) : s # {} => f[s \ {Max(s)}] \in Nat
    BY <1>4 DEF IsFold
  <2> QED BY <1>4, <2>1, <2>2 DEF IsFold
<1>6. it = added(it)
  <2> HIDE DEF added
  <2> QED BY <1>5, Zenon
<1> HIDE DEF it
<1>7. \A s \in SUBSET (1 .. 2) : s # {} =>
        it[s] = it[s \ {Max(s)}] + Stride(sides, Max(s)) * pos[Max(s)]
  <2>1. \A s \in SUBSET (1 .. 2) : s # {} => Max(s) \in 1 .. 2
    BY MaxIn
  <2> QED BY <1>6, <2>1
<1>8. it[1 .. 0] = 0
  BY <1>6, FirstTwo
<1>9. /\ it[1 .. 1] = it[1 .. 0] + Stride(sides, 1) * pos[1]
      /\ it[1 .. 2] = it[1 .. 1] + Stride(sides, 2) * pos[2]
  BY <1>7, FirstTwo
<1>10. Stride(sides, 1) = 1 /\ Stride(sides, 2) = sides[1]
  BY StrideIs
<1> QED BY <1>1, <1>8, <1>9, <1>10

\* A number of rows of n, and a rest.
LEMMA Division ==
  ASSUME NEW n \in Nat \ {0}, NEW e \in Nat, NEW a \in 0 .. n - 1
  PROVE  (a + n * e) \div n = e /\ (a + n * e) % n = a
OBVIOUS

LEMMA Below ==
  ASSUME NEW n \in Nat \ {0}, NEW e \in 0 .. n - 1
  PROVE  e % n = e
OBVIOUS

LEMMA InGrid ==
  ASSUME NEW w \in Nat \ {0}, NEW h \in Nat \ {0}, NEW x \in 0 .. w - 1, NEW y \in 0 .. h - 1
  PROVE  x + w * y \in 0 .. w * h - 1
<1>1. w * (y + 1) <= w * h
  OBVIOUS
<1>2. w * (y + 1) = w * y + w
  OBVIOUS
<1>3. w * y \in Nat /\ w * h \in Nat
  OBVIOUS
<1> QED BY <1>1, <1>2, <1>3

LEMMA OnGrid ==
  ASSUME NEW w \in Nat \ {0}, NEW h \in Nat \ {0}, NEW i \in 0 .. w * h - 1
  PROVE  /\ i % w \in 0 .. w - 1 /\ i \div w \in 0 .. h - 1
         /\ i = (i % w) + w * (i \div w)
<1>1. i \in Nat /\ w * h \in Nat
  OBVIOUS
<1>2. i % w \in 0 .. w - 1 /\ i \div w \in Nat /\ i = (i % w) + w * (i \div w)
  BY <1>1
<1>3. i \div w < h
  <2>1. SUFFICES ASSUME i \div w >= h PROVE FALSE
    BY <1>2
  <2>2. w * (i \div w) >= w * h
    BY <1>2, <2>1
  <2> QED BY <1>1, <1>2, <2>2
<1> QED BY <1>2, <1>3

\* The two functions on positions are inverse to each other: an index has the position
\* it is the index of (dsp_stream_get_position, then dsp_stream_set_position).
THEOREM IndexOfPosition ==
  ASSUME NEW sides \in [1 .. 2 -> Nat \ {0}], NEW index \in Indices(sides)
  PROVE  Index(sides, Position(sides, index)) = index
<1>1. index \in 0 .. sides[1] * sides[2] - 1 /\ index \in Nat
  BY ProductOfTwo DEF Indices
<1>2. /\ index % sides[1] \in 0 .. sides[1] - 1 /\ index \div sides[1] \in 0 .. sides[2] - 1
      /\ index = (index % sides[1]) + sides[1] * (index \div sides[1])
  <2>1. sides[1] \in Nat \ {0} /\ sides[2] \in Nat \ {0}
    OBVIOUS
  <2> QED BY <1>1, <2>1, OnGrid, Zenon
<1>3. (index \div sides[1]) % sides[2] = index \div sides[1]
  BY <1>2, Below
<1>4. Position(sides, index) =
        [d \in 1 .. 2 |-> IF d = 1 THEN index % sides[1] ELSE index \div sides[1]]
  BY <1>1, <1>3, PositionIs
<1>5. Position(sides, index) \in [1 .. 2 -> Nat]
  BY <1>2, <1>4
<1>6. Index(sides, Position(sides, index)) =
        Position(sides, index)[1] + sides[1] * Position(sides, index)[2]
  BY <1>5, IndexIs
<1> QED BY <1>2, <1>4, <1>6

\* And a position inside of a picture is that of its index, which is one of the picture.
THEOREM PositionOfIndex ==
  ASSUME NEW sides \in [1 .. 2 -> Nat \ {0}],
         NEW x \in 0 .. sides[1] - 1, NEW y \in 0 .. sides[2] - 1
  PROVE  /\ Index(sides, <<x, y>>) \in Indices(sides)
         /\ Position(sides, Index(sides, <<x, y>>)) = <<x, y>>
<1>1. <<x, y>> \in [1 .. 2 -> Nat]
  OBVIOUS
<1>2. Index(sides, <<x, y>>) = x + sides[1] * y
  BY <1>1, IndexIs
<1>3. x + sides[1] * y \in 0 .. sides[1] * sides[2] - 1
  BY InGrid
<1>4. (x + sides[1] * y) % sides[1] = x /\ (x + sides[1] * y) \div sides[1] = y
  <2>1. sides[1] \in Nat \ {0} /\ y \in Nat
    OBVIOUS
  <2> QED BY <2>1, Division
<1>5. y % sides[2] = y
  <2>1. sides[2] \in Nat \ {0}
    OBVIOUS
  <2> QED BY <2>1, Below
<1>6. Position(sides, x + sides[1] * y) = [d \in 1 .. 2 |-> IF d = 1 THEN x ELSE y]
  <2> DEFINE i == x + sides[1] * y
  <2>1. i \in Nat /\ i % sides[1] = x /\ (i \div sides[1]) % sides[2] = y
    BY <1>3, <1>4, <1>5
  <2> HIDE DEF i
  <2>2. Position(sides, i) =
          [d \in 1 .. 2 |-> IF d = 1 THEN i % sides[1] ELSE (i \div sides[1]) % sides[2]]
    BY <2>1, PositionIs
  <2>3. Position(sides, i) = [d \in 1 .. 2 |-> IF d = 1 THEN x ELSE y]
    BY <2>1, <2>2
  <2> QED BY <2>3 DEF i
<1>7. [d \in 1 .. 2 |-> IF d = 1 THEN x ELSE y] = <<x, y>>
  OBVIOUS
<1>8. Product(sides) = sides[1] * sides[2]
  BY ProductOfTwo
<1>9. Index(sides, <<x, y>>) \in Indices(sides)
  BY <1>2, <1>3, <1>8 DEF Indices
<1> QED BY <1>2, <1>6, <1>7, <1>9

-------------------------------------------------------------------------------
(* The shift by half the sizes.                                              *)

\* Half of the numbers below n on.
Moved(p, n) == IF p < n \div 2 THEN p + n \div 2 ELSE p - n \div 2

LEMMA MovedIs ==
  ASSUME NEW n \in Nat \ {0}, NEW p \in 0 .. n - 1
  PROVE  /\ Moved(p, n) \in 0 .. n - 1
         /\ n % 2 = 0 => /\ Moved(Moved(p, n), n) = p
                         /\ Moved(p, n) < n \div 2 <=> ~(p < n \div 2)
BY DEF Moved

LEMMA OppositeIs ==
  ASSUME NEW sides \in [1 .. 2 -> Nat \ {0}], NEW index \in Indices(sides)
  PROVE  /\ Opposite(sides, index) = Moved(index % sides[1], sides[1]) + sides[1] * Moved(index \div sides[1], sides[2])
         /\ Opposite(sides, index) \in Indices(sides)
<1> DEFINE w == sides[1]
           h == sides[2]
           x == index % w
           y == index \div w
           pos == Position(sides, index)
           to == [d \in DOMAIN sides |->
                   LET half == sides[d] \div 2
                   IN  IF pos[d] < half THEN pos[d] + half ELSE pos[d] - half]
<1>1. w \in Nat \ {0} /\ h \in Nat \ {0} /\ sides \in [1 .. 2 -> Nat]
  OBVIOUS
<1>2. Indices(sides) = 0 .. w * h - 1
  BY <1>1, ProductOfTwo DEF Indices
<1>3. x \in 0 .. w - 1 /\ y \in 0 .. h - 1
  BY <1>1, <1>2, OnGrid
<1>4. index \in Nat
  BY <1>2
<1>5. pos[1] = x /\ pos[2] = y
  <2>1. pos = [d \in 1 .. 2 |-> IF d = 1 THEN x ELSE y % h]
    BY <1>4, PositionIs
  <2>2. y % h = y
    BY <1>1, <1>3
  <2> HIDE DEF pos, x, y
  <2> QED BY <2>1, <2>2
<1>6. to[1] = Moved(x, w) /\ to[2] = Moved(y, h) /\ DOMAIN to = 1 .. 2
  <2> HIDE DEF pos, x, y
  <2> QED BY <1>5 DEF Moved
<1>7. Moved(x, w) \in 0 .. w - 1 /\ Moved(y, h) \in 0 .. h - 1
  BY <1>1, <1>3, MovedIs
<1>8. to \in [1 .. 2 -> Nat]
  <2>1. to = [d \in 1 .. 2 |-> to[d]]
    OBVIOUS
  <2> HIDE DEF to, x, y
  <2> QED BY <1>6, <1>7, <2>1
<1>9. Opposite(sides, index) = Index(sides, to)
  BY DEF Opposite
<1>10. Index(sides, to) = to[1] + w * to[2]
  <2> HIDE DEF to
  <2> QED BY <1>1, <1>8, IndexIs
<1> HIDE DEF to, x, y, pos, w, h
<1>11. Opposite(sides, index) = Moved(x, w) + w * Moved(y, h)
  BY <1>6, <1>9, <1>10
<1>12. Opposite(sides, index) \in 0 .. w * h - 1
  BY <1>1, <1>7, <1>11, InGrid
<1> QED BY <1>2, <1>11, <1>12 DEF w, h, x, y

\* In a picture of even sizes, the opposite of the opposite is where one was, and
\* one of the two is in the first half.
LEMMA OppositeBack ==
  ASSUME NEW sides \in [1 .. 2 -> Nat \ {0}], Even(sides), NEW index \in Indices(sides)
  PROVE  /\ Opposite(sides, Opposite(sides, index)) = index
         /\ Opposite(sides, index) < Product(sides) \div 2 <=> ~(index < Product(sides) \div 2)
<1> DEFINE w == sides[1]
           h == sides[2]
           x == index % w
           y == index \div w
           at == Opposite(sides, index)
<1>1. w \in Nat \ {0} /\ h \in Nat \ {0} /\ sides \in [1 .. 2 -> Nat]
  OBVIOUS
<1>2. w % 2 = 0 /\ h % 2 = 0
  BY DEF Even
<1>3. Product(sides) = w * h /\ Indices(sides) = 0 .. w * h - 1
  BY <1>1, ProductOfTwo DEF Indices
<1>4. x \in 0 .. w - 1 /\ y \in 0 .. h - 1 /\ index = x + w * y
  BY <1>1, <1>3, OnGrid
<1>5. at = Moved(x, w) + w * Moved(y, h) /\ at \in Indices(sides)
  BY OppositeIs
<1>6. Moved(x, w) \in 0 .. w - 1 /\ Moved(y, h) \in 0 .. h - 1
  BY <1>1, <1>4, MovedIs
<1>7. at % w = Moved(x, w) /\ at \div w = Moved(y, h)
  <2>1. Moved(y, h) \in Nat
    BY <1>1, <1>6
  <2> HIDE DEF at, w, h, x, y
  <2> QED BY <1>1, <1>5, <1>6, <2>1, Division
<1>8. Opposite(sides, at) = Moved(at % w, w) + w * Moved(at \div w, h)
  BY <1>5, OppositeIs
<1>9. Moved(Moved(x, w), w) = x /\ Moved(Moved(y, h), h) = y
  BY <1>1, <1>2, <1>4, MovedIs
<1>10. Opposite(sides, at) = index
  <2> HIDE DEF at, w, h, x, y
  <2> QED BY <1>4, <1>7, <1>8, <1>9
\* The first half is the upper half.
<1>11. ASSUME NEW a \in 0 .. w - 1, NEW b \in 0 .. h - 1
       PROVE  a + w * b < (w * h) \div 2 <=> b < h \div 2
  <2> DEFINE half == h \div 2
  <2> HIDE DEF w, h
  <2>1. half \in Nat /\ h = 2 * half
    BY <1>1, <1>2
  <2> HIDE DEF half
  <2>2. w * h = 2 * (w * half) /\ w * half \in Nat
    BY <1>1, <2>1
  <2>3. (w * h) \div 2 = w * half
    BY <2>2
  <2>4. CASE b < half
    <3>1. w * (b + 1) <= w * half
      BY <1>1, <2>1, <2>4
    <3>2. w * (b + 1) = w * b + w
      BY <1>1
    <3> QED BY <1>1, <2>1, <2>3, <2>4, <3>1, <3>2 DEF half
  <2>5. CASE b >= half
    <3>1. w * b >= w * half
      BY <1>1, <2>1, <2>5
    <3> QED BY <1>1, <2>1, <2>3, <2>5, <3>1 DEF half
  <2> QED BY <2>1, <2>4, <2>5
<1>12. Moved(y, h) < h \div 2 <=> ~(y < h \div 2)
  BY <1>1, <1>2, <1>4, MovedIs
<1> HIDE DEF at, w, h, x, y
<1>13. at < (w * h) \div 2 <=> ~(index < (w * h) \div 2)
  BY <1>4, <1>5, <1>6, <1>11, <1>12
<1> QED BY <1>3, <1>10, <1>13 DEF at

\* A step of the shift: x and its opposite are written.
Exchanged(sides, buf, tmp, x) ==
  [tmp EXCEPT ![x] = buf[Opposite(sides, x)], ![Opposite(sides, x)] = buf[x]]

\* A shift, as its steps.
LEMMA ShiftSteps ==
  ASSUME NEW sides \in [1 .. 2 -> Nat \ {0}], NEW buf
  PROVE  \E it : /\ Shifted(sides, buf) = it[Product(sides) \div 2]
                 /\ it[0] = [x \in Indices(sides) |-> Unset]
                 /\ \A k \in 1 .. Product(sides) \div 2 : it[k] = Exchanged(sides, buf, it[k - 1], k - 1)
<1> DEFINE n == Product(sides) \div 2
           seq == [k \in 1 .. n |-> k - 1]
           blank == [x \in Indices(sides) |-> Unset]
           V == {Unset} \cup {buf[x] : x \in Indices(sides)}
           S == [Indices(sides) -> V]
           step == [tmp \in S |-> [k \in 1 .. n |-> Exchanged(sides, buf, tmp, k - 1)]]
           it == CHOOSE iter : iter = [s \in SUBSET DOMAIN seq |->
                   IF s = {} THEN blank ELSE Exchanged(sides, buf, iter[s \ {Max(s)}], seq[Max(s)])]
<1>1. Product(sides) \in Nat /\ n \in Nat /\ Indices(sides) = 0 .. Product(sides) - 1
  <2>1. sides \in [1 .. 2 -> Nat] /\ sides[1] \in Nat /\ sides[2] \in Nat
    OBVIOUS
  <2>2. Product(sides) \in Nat
    BY <2>1, ProductOfTwo
  <2> QED BY <2>2 DEF Indices
<1>2. Shifted(sides, buf) = it[DOMAIN seq]
  BY DEF Shifted, FoldLeft, MapThenFoldSet, Exchanged
<1>3. step \in [S -> [1 .. n -> S]]
  <2> SUFFICES ASSUME NEW tmp \in S, NEW k \in 1 .. n
               PROVE  Exchanged(sides, buf, tmp, k - 1) \in S
    OBVIOUS
  <2>1. k - 1 \in Indices(sides)
    BY <1>1
  <2>2. Opposite(sides, k - 1) \in Indices(sides)
    BY <2>1, OppositeIs
  <2> QED BY <2>1, <2>2 DEF Exchanged
<1>4. PICK f : IsFold(f, n, S, blank, step)
  <2>1. blank \in S
    OBVIOUS
  <2> HIDE DEF step, blank, n, S
  <2> QED BY <1>1, <1>3, <2>1, FoldExists
<1>5. f = [s \in SUBSET DOMAIN seq |->
             IF s = {} THEN blank ELSE Exchanged(sides, buf, f[s \ {Max(s)}], seq[Max(s)])]
  <2>1. \A s \in SUBSET (1 .. n) : s # {} => Max(s) \in 1 .. n
    BY <1>1, MaxIn
  <2> HIDE DEF blank, n, S
  <2>2. \A s \in SUBSET (1 .. n) : s # {} => f[s \ {Max(s)}] \in S
    BY <1>4 DEF IsFold
  <2> QED BY <1>4, <2>1, <2>2 DEF IsFold
<1>6. it = [s \in SUBSET DOMAIN seq |->
              IF s = {} THEN blank ELSE Exchanged(sides, buf, it[s \ {Max(s)}], seq[Max(s)])]
  BY <1>5
<1> HIDE DEF it, blank, n
<1> DEFINE tmps == [k \in 0 .. n |-> it[1 .. k]]
<1>7. tmps[0] = blank
  <2>1. 1 .. 0 = {}
    OBVIOUS
  <2>2. it[{}] = blank
    BY <1>6
  <2> QED BY <1>1, <2>1, <2>2
<1>8. ASSUME NEW k \in 1 .. n
      PROVE  tmps[k] = Exchanged(sides, buf, tmps[k - 1], k - 1)
  <2>1. k \in Nat \ {0} /\ 1 .. k \in SUBSET (1 .. n)
    BY <1>1
  <2>2. 1 .. k # {} /\ Max(1 .. k) = k /\ (1 .. k) \ {k} = 1 .. (k - 1)
    BY <2>1, Segments
  <2>3. it[1 .. k] = Exchanged(sides, buf, it[1 .. (k - 1)], seq[k])
    <3>1. \A s \in SUBSET (1 .. n) : s # {} =>
            it[s] = Exchanged(sides, buf, it[s \ {Max(s)}], seq[Max(s)])
      BY <1>6
    <3> QED BY <2>1, <2>2, <3>1
  <2> QED BY <1>1, <2>3
<1>9. tmps[n] = it[DOMAIN seq]
  BY <1>1
<1> HIDE DEF tmps
<1> QED BY <1>2, <1>7, <1>8, <1>9 DEF n, blank

\* A shifted stream has an element at each index, whatever the sizes.
LEMMA ShiftedKind ==
  ASSUME NEW sides \in [1 .. 2 -> Nat \ {0}], NEW buf
  PROVE  Shifted(sides, buf) = [x \in Indices(sides) |-> Shifted(sides, buf)[x]]
<1> DEFINE n == Product(sides) \div 2
<1>1. n \in Nat
  <2>1. sides \in [1 .. 2 -> Nat] /\ sides[1] \in Nat /\ sides[2] \in Nat
    OBVIOUS
  <2> QED BY <2>1, ProductOfTwo
<1>2. PICK it : /\ Shifted(sides, buf) = it[n]
                /\ it[0] = [x \in Indices(sides) |-> Unset]
                /\ \A k \in 1 .. n : it[k] = Exchanged(sides, buf, it[k - 1], k - 1)
  BY ShiftSteps
<1> HIDE DEF n
<1> DEFINE Has(k) == it[k] = [x \in Indices(sides) |-> it[k][x]]
           K == {k \in Nat : k <= n => Has(k)}
<1>3. 0 \in K
  BY <1>2
<1>4. ASSUME NEW k \in Nat, k \in K
      PROVE  k + 1 \in K
  <2> SUFFICES ASSUME k + 1 <= n
               PROVE  Has(k + 1)
    OBVIOUS
  <2>1. Has(k)
    BY <1>1, <1>4
  <2>2. it[k + 1] = Exchanged(sides, buf, it[k], k)
    BY <1>1, <1>2
  <2> QED BY <2>1, <2>2 DEF Exchanged
<1> HIDE DEF K
<1>5. n \in K
  BY <1>1, <1>3, <1>4, Induction
<1>6. Has(n)
  BY <1>1, <1>5 DEF K
<1> QED BY <1>2, <1>6

\* In a picture of even sizes, each element is taken from its opposite.
LEMMA ShiftedIs ==
  ASSUME NEW sides \in [1 .. 2 -> Nat \ {0}], Even(sides), NEW buf
  PROVE  Shifted(sides, buf) = [x \in Indices(sides) |-> buf[Opposite(sides, x)]]
<1> DEFINE n == Product(sides) \div 2
           Opp(x) == Opposite(sides, x)
<1>1. n \in Nat /\ Indices(sides) \subseteq Nat /\ \A k \in 0 .. n - 1 : k \in Indices(sides)
  <2>1. sides \in [1 .. 2 -> Nat] /\ sides[1] \in Nat /\ sides[2] \in Nat
    OBVIOUS
  <2> QED BY <2>1, ProductOfTwo DEF Indices
<1>2. PICK it : /\ Shifted(sides, buf) = it[n]
                /\ it[0] = [x \in Indices(sides) |-> Unset]
                /\ \A k \in 1 .. n : it[k] = Exchanged(sides, buf, it[k - 1], k - 1)
  BY ShiftSteps
<1>3. \A x \in Indices(sides) :
        /\ Opp(x) \in Indices(sides) /\ Opp(Opp(x)) = x
        /\ Opp(x) < n <=> ~(x < n)
  BY OppositeIs, OppositeBack
<1> HIDE DEF n
<1> DEFINE Has(k) == it[k] = [x \in Indices(sides) |->
                        IF x < k \/ Opp(x) < k THEN buf[Opp(x)] ELSE Unset]
           K == {k \in Nat : k <= n => Has(k)}
<1>4. 0 \in K
  <2>1. \A x \in Indices(sides) : ~(x < 0) /\ ~(Opp(x) < 0)
    <3> HIDE DEF Opp
    <3> QED BY <1>1, <1>3
  <2> QED BY <1>2, <2>1
<1>5. ASSUME NEW k \in Nat, k \in K
      PROVE  k + 1 \in K
  <2> SUFFICES ASSUME k + 1 <= n
               PROVE  Has(k + 1)
    OBVIOUS
  <2>1. Has(k)
    BY <1>1, <1>5
  <2>2. it[k + 1] = Exchanged(sides, buf, it[k], k)
    BY <1>1, <1>2
  <2>3. k \in Indices(sides) /\ Opp(k) \in Indices(sides) /\ Opp(Opp(k)) = k /\ Opp(k) # k
    <3>1. k \in 0 .. n - 1
      BY <1>1
    <3>2. k \in Indices(sides) /\ k < n
      BY <1>1, <3>1
    <3> HIDE DEF Opp
    <3> QED BY <1>3, <3>2
  <2>4. it[k + 1] = [x \in Indices(sides) |->
                      IF x = Opp(k) THEN buf[k] ELSE IF x = k THEN buf[Opp(k)] ELSE it[k][x]]
    BY <2>1, <2>2, <2>3 DEF Exchanged
  <2>5. ASSUME NEW x \in Indices(sides)
        PROVE  it[k + 1][x] = IF x < k + 1 \/ Opp(x) < k + 1 THEN buf[Opp(x)] ELSE Unset
    <3>1. x \in Nat /\ Opp(x) \in Nat /\ Opp(Opp(x)) = x
      <4> HIDE DEF Opp
      <4> QED BY <1>1, <1>3
    <3>2. x = Opp(k) <=> Opp(x) = k
      BY <2>3, <3>1
    <3>3. CASE x = Opp(k)
      BY <2>4, <3>1, <3>2, <3>3
    <3>4. CASE x = k
      BY <2>3, <2>4, <3>1, <3>4
    <3>5. CASE x # k /\ x # Opp(k)
      <4>1. (x < k + 1 <=> x < k) /\ (Opp(x) < k + 1 <=> Opp(x) < k)
        BY <3>1, <3>2, <3>5
      <4>2. it[k + 1][x] = it[k][x]
        BY <2>4, <3>5
      <4> QED BY <2>1, <4>1, <4>2
    <3> QED BY <3>3, <3>4, <3>5
  <2> QED BY <2>4, <2>5
<1> HIDE DEF K
<1>6. n \in K
  BY <1>1, <1>4, <1>5, Induction
<1>7. Has(n)
  BY <1>1, <1>6 DEF K
<1> QED BY <1>1, <1>2, <1>3, <1>7

-------------------------------------------------------------------------------
(* The mosaic.                                                               *)

\* What lies beside, above and below, and around a site of a colour.
BesideOf(c) == CASE c = "B" -> "GB" [] c = "GB" -> "B" [] c = "GR" -> "R" [] c = "R" -> "GR"
AboveOf(c)  == CASE c = "B" -> "GR" [] c = "GB" -> "R" [] c = "GR" -> "B" [] c = "R" -> "GB"
AroundOf(c) == CASE c = "B" -> "R" [] c = "GB" -> "GR" [] c = "GR" -> "GB" [] c = "R" -> "B"

\* j is a site next to i, of a colour c.
TakenFor(w, h, r, i, j, c) ==
  /\ j \in 0 .. w * h - 1
  /\ (j % w) - (i % w) \in -1 .. 1
  /\ (j \div w) - (i \div w) \in -1 .. 1
  /\ Colour(w, r, j) = c

\* The colour in column x and row y.
Tint(r, x, y) ==
  IF y % 2 = r \div 2 THEN IF x % 2 = r % 2 THEN "B" ELSE "GB"
  ELSE IF x % 2 = r % 2 THEN "GR" ELSE "R"

LEMMA ColourAt ==
  ASSUME NEW w \in Nat \ {0}, w % 2 = 0, NEW r \in 0 .. 3, NEW x \in 0 .. w - 1, NEW y \in Nat
  PROVE  Colour(w, r, x + w * y) = Tint(r, x, y)
<1>1. (x + w * y) \div w = y
  BY Division
<1>2. (x + w * y) % 2 = x % 2
  <2> DEFINE half == w \div 2
  <2>1. w = 2 * half /\ half \in Nat
    OBVIOUS
  <2> HIDE DEF half
  <2> DEFINE m == half * y
  <2>2. w * y = 2 * m /\ m \in Nat
    BY <2>1
  <2> HIDE DEF m
  <2> QED BY <2>2
<1> QED BY <1>1, <1>2 DEF Colour, Tint

\* The site d to the right and e below, of either sign, and its colour.
LEMMA Neighbour ==
  ASSUME NEW w \in Nat \ {0}, NEW h \in Nat \ {0}, w % 2 = 0, NEW r \in 0 .. 3,
         NEW i \in 0 .. w * h - 1, NEW d \in -1 .. 1, NEW e \in -1 .. 1,
         (i % w) + d \in 0 .. w - 1, i \div w + e \in 0 .. h - 1
  PROVE  TakenFor(w, h, r, i, i + d + w * e,
               IF d = 0 THEN IF e = 0 THEN Colour(w, r, i) ELSE AboveOf(Colour(w, r, i))
               ELSE IF e = 0 THEN BesideOf(Colour(w, r, i)) ELSE AroundOf(Colour(w, r, i)))
<1> DEFINE x == i % w
           y == i \div w
           j == i + d + w * e
<1>1. x \in 0 .. w - 1 /\ y \in 0 .. h - 1 /\ i = x + w * y
  BY OnGrid
<1>2. x + d \in 0 .. w - 1 /\ y + e \in 0 .. h - 1
  OBVIOUS
<1> HIDE DEF x, y
<1>3. j = (x + d) + w * (y + e)
  <2>1. w * (y + e) = w * y + w * e
    BY <1>1
  <2>2. w * y \in Int /\ w * e \in Int
    BY <1>1
  <2> QED BY <1>1, <2>1, <2>2
<1> HIDE DEF j
<1>4. j \in 0 .. w * h - 1
  BY <1>2, <1>3, InGrid
<1>5. j % w = x + d /\ j \div w = y + e
  <2>1. y + e \in Nat
    BY <1>2
  <2> QED BY <1>2, <1>3, <2>1, Division
<1>6. Colour(w, r, i) = Tint(r, x, y) /\ Colour(w, r, j) = Tint(r, x + d, y + e)
  <2>1. y \in Nat /\ y + e \in Nat
    BY <1>1, <1>2
  <2>2. Colour(w, r, x + w * y) = Tint(r, x, y)
    BY <1>1, <2>1, ColourAt, Zenon
  <2>3. Colour(w, r, x + d + w * (y + e)) = Tint(r, x + d, y + e)
    BY <1>2, <2>1, ColourAt, Zenon
  <2> QED BY <1>1, <1>3, <2>2, <2>3, Zenon
<1>7. /\ d = 0 => ((x + d) % 2 = r % 2 <=> x % 2 = r % 2)
      /\ d # 0 => ((x + d) % 2 = r % 2 <=> ~(x % 2 = r % 2))
      /\ e = 0 => ((y + e) % 2 = r \div 2 <=> y % 2 = r \div 2)
      /\ e # 0 => ((y + e) % 2 = r \div 2 <=> ~(y % 2 = r \div 2))
  BY <1>1, <1>2
<1>8. Colour(w, r, j) = IF d = 0 THEN IF e = 0 THEN Colour(w, r, i) ELSE AboveOf(Colour(w, r, i))
               ELSE IF e = 0 THEN BesideOf(Colour(w, r, i)) ELSE AroundOf(Colour(w, r, i))
  BY <1>6, <1>7 DEF Tint, BesideOf, AboveOf, AroundOf
<1>9. (j % w) - (i % w) \in -1 .. 1 /\ (j \div w) - (i \div w) \in -1 .. 1
  BY <1>1, <1>5 DEF x, y
<1> QED BY <1>4, <1>8, <1>9 DEF TakenFor, j

\* The eight sites around one, where the picture has them.
LEMMA Neighbours ==
  ASSUME NEW w \in Nat \ {0}, NEW h \in Nat \ {0}, w % 2 = 0, NEW r \in 0 .. 3,
         NEW i \in 0 .. w * h - 1
  PROVE  LET c == Colour(w, r, i)
             left == i % w > 0
             right == i % w < w - 1
             top == i \div w > 0
             bottom == i \div w < h - 1
         IN  /\ TakenFor(w, h, r, i, i, c)
             /\ left => TakenFor(w, h, r, i, i - 1, BesideOf(c))
             /\ right => TakenFor(w, h, r, i, i + 1, BesideOf(c))
             /\ top => TakenFor(w, h, r, i, i - w, AboveOf(c))
             /\ bottom => TakenFor(w, h, r, i, i + w, AboveOf(c))
             /\ top /\ left => TakenFor(w, h, r, i, i - w - 1, AroundOf(c))
             /\ top /\ right => TakenFor(w, h, r, i, i - w + 1, AroundOf(c))
             /\ bottom /\ left => TakenFor(w, h, r, i, i + w - 1, AroundOf(c))
             /\ bottom /\ right => TakenFor(w, h, r, i, i + w + 1, AroundOf(c))
<1> DEFINE c == Colour(w, r, i)
           x == i % w
           y == i \div w
           Site(d, e) == i + d + w * e
           Of(d, e) == IF d = 0 THEN IF e = 0 THEN c ELSE AboveOf(c)
                       ELSE IF e = 0 THEN BesideOf(c) ELSE AroundOf(c)
<1>1. x \in 0 .. w - 1 /\ y \in 0 .. h - 1
  BY OnGrid
<1>2. ASSUME NEW d \in -1 .. 1, NEW e \in -1 .. 1, x + d \in 0 .. w - 1, y + e \in 0 .. h - 1
      PROVE  TakenFor(w, h, r, i, Site(d, e), Of(d, e))
  BY <1>2, Neighbour
<1>3. /\ Site(0, 0) = i /\ Site(-1, 0) = i - 1 /\ Site(1, 0) = i + 1
      /\ Site(0, -1) = i - w /\ Site(0, 1) = i + w
      /\ Site(-1, -1) = i - w - 1 /\ Site(1, -1) = i - w + 1
      /\ Site(-1, 1) = i + w - 1 /\ Site(1, 1) = i + w + 1
  OBVIOUS
<1>4. /\ Of(0, 0) = c /\ Of(-1, 0) = BesideOf(c) /\ Of(1, 0) = BesideOf(c)
      /\ Of(0, -1) = AboveOf(c) /\ Of(0, 1) = AboveOf(c)
      /\ Of(-1, -1) = AroundOf(c) /\ Of(1, -1) = AroundOf(c)
      /\ Of(-1, 1) = AroundOf(c) /\ Of(1, 1) = AroundOf(c)
  OBVIOUS
<1> HIDE DEF x, y, Site, Of, c
<1>5. /\ TakenFor(w, h, r, i, Site(0, 0), Of(0, 0))
      /\ x > 0 => TakenFor(w, h, r, i, Site(-1, 0), Of(-1, 0))
      /\ x < w - 1 => TakenFor(w, h, r, i, Site(1, 0), Of(1, 0))
      /\ y > 0 => TakenFor(w, h, r, i, Site(0, -1), Of(0, -1))
      /\ y < h - 1 => TakenFor(w, h, r, i, Site(0, 1), Of(0, 1))
  BY <1>1, <1>2
<1>6. /\ y > 0 /\ x > 0 => TakenFor(w, h, r, i, Site(-1, -1), Of(-1, -1))
      /\ y > 0 /\ x < w - 1 => TakenFor(w, h, r, i, Site(1, -1), Of(1, -1))
      /\ y < h - 1 /\ x > 0 => TakenFor(w, h, r, i, Site(-1, 1), Of(-1, 1))
      /\ y < h - 1 /\ x < w - 1 => TakenFor(w, h, r, i, Site(1, 1), Of(1, 1))
  BY <1>1, <1>2
<1> QED BY <1>3, <1>4, <1>5, <1>6 DEF x, y, c

\* Where a colour is next to an edge, when the mosaic has the phase 0.
LEMMA Margins ==
  ASSUME NEW w \in Nat \ {0}, NEW h \in Nat \ {0}, w % 2 = 0, h % 2 = 0, NEW r \in 0 .. 3,
         NEW i \in 0 .. w * h - 1,
         r = 0 \/ ~(i % w \in {0, w - 1} \/ i \div w \in {0, h - 1})
  PROVE  /\ Colour(w, r, i) \in {"B", "GB", "GR", "R"}
         /\ Colour(w, r, i) \in {"B", "GB"} => i \div w < h - 1
         /\ Colour(w, r, i) \in {"B", "GR"} => i % w < w - 1
         /\ Colour(w, r, i) \in {"GR", "R"} => i \div w > 0
         /\ Colour(w, r, i) \in {"GB", "R"} => i % w > 0
<1> DEFINE x == i % w
           y == i \div w
<1>1. x \in 0 .. w - 1 /\ y \in 0 .. h - 1 /\ i = x + w * y
  BY OnGrid
<1> HIDE DEF x, y
<1>2. Colour(w, r, i) = Tint(r, x, y)
  <2>1. y \in Nat
    BY <1>1
  <2> QED BY <1>1, <2>1, ColourAt, Zenon
<1>3. CASE r = 0
  <2>1. r \div 2 = 0 /\ r % 2 = 0
    BY <1>3
  <2>2. /\ y % 2 = 0 => y < h - 1
        /\ y % 2 # 0 => y > 0
        /\ x % 2 = 0 => x < w - 1
        /\ x % 2 # 0 => x > 0
    BY <1>1
  <2> QED BY <1>2, <2>1, <2>2 DEF Tint, x, y
<1>4. CASE ~(x \in {0, w - 1} \/ y \in {0, h - 1})
  <2>1. x > 0 /\ x < w - 1 /\ y > 0 /\ y < h - 1
    BY <1>1, <1>4
  <2> QED BY <1>2, <2>1 DEF Tint, x, y
<1> QED BY <1>3, <1>4 DEF x, y

\* The sites of a pixel are next to it and of the colours they are taken for.
LEMMA SitesOwn ==
  ASSUME NEW w \in Nat \ {0}, NEW h \in Nat \ {0}, w % 2 = 0, h % 2 = 0, NEW r \in 0 .. 3,
         NEW i \in 0 .. w * h - 1,
         r = 0 \/ ~(i % w \in {0, w - 1} \/ i \div w \in {0, h - 1})
  PROVE  LET sites == Sites(w, h, r, i)
         IN  /\ \A j \in sites.red : TakenFor(w, h, r, i, j, "R")
             /\ \A j \in sites.green : \/ TakenFor(w, h, r, i, j, "GR")
                                       \/ TakenFor(w, h, r, i, j, "GB")
             /\ \A j \in sites.blue : TakenFor(w, h, r, i, j, "B")
<1> DEFINE c == Colour(w, r, i)
           left == i % w > 0
           right == i % w < w - 1
           top == i \div w > 0
           bottom == i \div w < h - 1
           sites == Sites(w, h, r, i)
           Takes(j, colour) == TakenFor(w, h, r, i, j, colour)
           Own == /\ \A j \in sites.red : Takes(j, "R")
                  /\ \A j \in sites.green : Takes(j, "GR") \/ Takes(j, "GB")
                  /\ \A j \in sites.blue : Takes(j, "B")
<1>1. c \in {"B", "GB", "GR", "R"}
  BY Margins
<1>2. /\ c \in {"B", "GB"} => bottom
      /\ c \in {"B", "GR"} => right
      /\ c \in {"GR", "R"} => top
      /\ c \in {"GB", "R"} => left
  BY Margins
<1>3. /\ Takes(i, c)
      /\ left => Takes(i - 1, BesideOf(c))
      /\ right => Takes(i + 1, BesideOf(c))
      /\ top => Takes(i - w, AboveOf(c))
      /\ bottom => Takes(i + w, AboveOf(c))
      /\ top /\ left => Takes(i - w - 1, AroundOf(c))
      /\ top /\ right => Takes(i - w + 1, AroundOf(c))
      /\ bottom /\ left => Takes(i + w - 1, AroundOf(c))
      /\ bottom /\ right => Takes(i + w + 1, AroundOf(c))
  BY Neighbours
<1>4. (i > w => top) /\ (i < w * (h - 1) => bottom)
  <2> DEFINE x == i % w
             y == i \div w
  <2>1. x \in 0 .. w - 1 /\ y \in 0 .. h - 1 /\ i = x + w * y
    BY OnGrid
  <2> HIDE DEF x, y
  <2>2. i > w => y > 0
    BY <2>1
  <2>3. i < w * (h - 1) => y < h - 1
    <3> SUFFICES ASSUME y = h - 1 PROVE ~(i < w * (h - 1))
      BY <2>1
    <3>1. w * y = w * (h - 1) /\ w * y \in Int
      BY <2>1
    <3> QED BY <2>1, <3>1
  <2> QED BY <2>2, <2>3 DEF x, y
<1> HIDE DEF top, bottom, Takes
<1>5. ASSUME c = "B"
      PROVE  Own
  <2>1. BesideOf(c) = "GB" /\ AboveOf(c) = "GR" /\ AroundOf(c) = "R"
    BY <1>5 DEF BesideOf, AboveOf, AroundOf
  <2>2. sites = IF i > w /\ left THEN Colours(Around(w, i), Beside(i) \cup Above(w, i), {i})
                ELSE Colours({i + w + 1}, {i + 1, i + w}, {i})
    BY <1>5 DEF Sites
  <2> HIDE DEF left, right, c, sites
  <2>3. CASE i > w /\ left
    BY <1>2, <1>3, <1>4, <1>5, <2>1, <2>2, <2>3 DEF Colours, Around, Beside, Above, Takes
  <2>4. CASE ~(i > w /\ left)
    BY <1>2, <1>3, <1>5, <2>1, <2>2, <2>4 DEF Colours, Takes
  <2> QED BY <2>3, <2>4
<1>6. ASSUME c = "GB"
      PROVE  Own
  <2>1. BesideOf(c) = "B" /\ AboveOf(c) = "R" /\ AroundOf(c) = "GR"
    BY <1>6 DEF BesideOf, AboveOf, AroundOf
  <2>2. sites = IF i > w /\ right THEN Colours(Above(w, i), {i}, Beside(i))
                ELSE Colours({i + w}, {i}, {i - 1})
    BY <1>6 DEF Sites
  <2> HIDE DEF left, right, c, sites
  <2>3. CASE i > w /\ right
    BY <1>2, <1>3, <1>4, <1>6, <2>1, <2>2, <2>3 DEF Colours, Beside, Above, Takes
  <2>4. CASE ~(i > w /\ right)
    BY <1>2, <1>3, <1>6, <2>1, <2>2, <2>4 DEF Colours, Takes
  <2> QED BY <2>3, <2>4
<1>7. ASSUME c = "GR"
      PROVE  Own
  <2>1. BesideOf(c) = "R" /\ AboveOf(c) = "B" /\ AroundOf(c) = "GB"
    BY <1>7 DEF BesideOf, AboveOf, AroundOf
  <2>2. sites = IF i < w * (h - 1) /\ left THEN Colours(Beside(i), {i}, Above(w, i))
                ELSE Colours({i + 1}, {i}, {i - w})
    BY <1>7 DEF Sites
  <2> HIDE DEF left, right, c, sites
  <2>3. CASE i < w * (h - 1) /\ left
    BY <1>2, <1>3, <1>4, <1>7, <2>1, <2>2, <2>3 DEF Colours, Beside, Above, Takes
  <2>4. CASE ~(i < w * (h - 1) /\ left)
    BY <1>2, <1>3, <1>7, <2>1, <2>2, <2>4 DEF Colours, Takes
  <2> QED BY <2>3, <2>4
<1>8. ASSUME c = "R"
      PROVE  Own
  <2>1. BesideOf(c) = "GR" /\ AboveOf(c) = "GB" /\ AroundOf(c) = "B"
    BY <1>8 DEF BesideOf, AboveOf, AroundOf
  <2>2. sites = IF i < w * (h - 1) /\ right
                THEN Colours({i}, Beside(i) \cup Above(w, i), Around(w, i))
                ELSE Colours({i}, {i - 1, i - w}, {i - w - 1})
    BY <1>8 DEF Sites
  <2> HIDE DEF left, right, c, sites
  <2>3. CASE i < w * (h - 1) /\ right
    BY <1>2, <1>3, <1>4, <1>8, <2>1, <2>2, <2>3 DEF Colours, Around, Beside, Above, Takes
  <2>4. CASE ~(i < w * (h - 1) /\ right)
    BY <1>2, <1>3, <1>8, <2>1, <2>2, <2>4 DEF Colours, Takes
  <2> QED BY <2>3, <2>4
<1>9. Own
  BY <1>1, <1>5, <1>6, <1>7, <1>8
<1> QED BY <1>9 DEF Takes

\* Each colour of a pixel is taken from some site.
LEMMA SitesThere ==
  ASSUME NEW w, NEW h, NEW r, NEW i
  PROVE  LET sites == Sites(w, h, r, i)
         IN  sites.red # {} /\ sites.green # {} /\ sites.blue # {}
<1> DEFINE c == Colour(w, r, i)
           col == i % w > 0
           bottom == i < w * (h - 1)
           right == i % w < w - 1
           sites == Sites(w, h, r, i)
           There(s) == s.red # {} /\ s.green # {} /\ s.blue # {}
<1>1. c \in {"B", "GB", "GR", "R"}
  BY DEF Colour
<1>2. ASSUME NEW red, NEW green, NEW blue, red # {}, green # {}, blue # {}
      PROVE  There(Colours(red, green, blue))
  BY <1>2 DEF Colours
<1>3. /\ Around(w, i) # {} /\ Beside(i) # {} /\ Above(w, i) # {}
      /\ Beside(i) \cup Above(w, i) # {}
      /\ \A j : {j} # {}
      /\ \A j, k : {j, k} # {}
  BY DEF Around, Beside, Above
<1> HIDE DEF There
<1>4. ASSUME c = "B"
      PROVE  There(sites)
  <2>1. sites = IF i > w /\ col THEN Colours(Around(w, i), Beside(i) \cup Above(w, i), {i})
                ELSE Colours({i + w + 1}, {i + 1, i + w}, {i})
    BY <1>4 DEF Sites
  <2> QED BY <1>2, <1>3, <2>1
<1>5. ASSUME c = "GB"
      PROVE  There(sites)
  <2>1. sites = IF i > w /\ right THEN Colours(Above(w, i), {i}, Beside(i))
                ELSE Colours({i + w}, {i}, {i - 1})
    BY <1>5 DEF Sites
  <2> QED BY <1>2, <1>3, <2>1
<1>6. ASSUME c = "GR"
      PROVE  There(sites)
  <2>1. sites = IF bottom /\ col THEN Colours(Beside(i), {i}, Above(w, i))
                ELSE Colours({i + 1}, {i}, {i - w})
    BY <1>6 DEF Sites
  <2> QED BY <1>2, <1>3, <2>1
<1>7. ASSUME c = "R"
      PROVE  There(sites)
  <2>1. sites = IF bottom /\ right
                THEN Colours({i}, Beside(i) \cup Above(w, i), Around(w, i))
                ELSE Colours({i}, {i - 1, i - w}, {i - w - 1})
    BY <1>7 DEF Sites
  <2> QED BY <1>2, <1>3, <2>1
<1> QED BY <1>1, <1>4, <1>5, <1>6, <1>7 DEF There

-------------------------------------------------------------------------------
(* The functions.                                                            *)

\* The last step, which only gives back, may follow a failure.
LastStep(steps, k, had) ==
  LET last == steps[k]
  IN  /\ k = Len(steps) /\ last.takes = {} /\ last.fails = 0
      /\ last.needs \cup last.gives \subseteq had

\* A step is right for what was taken before, and leaves what is had after it.
InStep(steps, k, had, left) ==
  LET step == steps[k]
  IN  /\ step.needs \cup step.gives \subseteq had
      /\ step.takes \cap had = {}
      /\ left = (had \cup step.takes) \ step.gives
      /\ step.fails \in {0, Return} \/ LastStep(steps, step.fails, had)

InOrder(steps, hold) ==
  /\ hold[1] = {}
  /\ \A k \in 1 .. Len(steps) : InStep(steps, k, hold[k], hold[k + 1])

\* What each function has in hand before each of its steps, and after the last.
HoldReadFits == <<
  {}, {"fptr"}, {"fptr"}, {"fptr"}, {"fptr", "array", "buf"}, {"fptr", "array",
  "buf"}, {"fptr", "buf"}, {"fptr", "buf"}, {"fptr", "buf"}, {"buf"}, {"buf"}, {}>>

HoldReadFitsMosaic == <<
  {}, {"fptr"}, {"fptr"}, {"fptr"}, {"fptr", "array", "buf"}, {"fptr", "array",
  "buf"}, {"fptr", "buf"}, {"fptr", "buf"}, {"fptr", "buf"}, {"buf"}, {"buf", "rgb"},
  {"buf"}, {}>>

HoldWriteFits == <<
  {}, {"tmp", "buf", "naxes"}, {"tmp", "buf", "naxes"}, {"tmp", "buf", "naxes"},
  {"tmp", "buf", "naxes", "fptr"}, {"tmp", "buf", "naxes", "fptr"}, {"tmp", "buf",
  "naxes", "fptr"}, {"tmp", "buf", "naxes", "fptr"}, {"tmp", "buf", "naxes"}, {}>>

HoldWriteFitsComposite == <<
  {}, {"buf", "naxes"}, {"buf", "naxes", "tmp"}, {"buf", "naxes"}, {"buf", "naxes",
  "fptr"}, {"buf", "naxes", "fptr"}, {"buf", "naxes", "fptr"}, {"buf", "naxes",
  "fptr"}, {"buf", "naxes"}, {}>>

HoldReadJpeg == <<
  {}, {"info"}, {"info", "jpeg"}, {"info", "jpeg"}, {"info", "jpeg", "buf"}, {"info",
  "jpeg", "buf"}, {"info", "jpeg"}>>

HoldWriteJpeg == <<
  {}, {"buf"}, {"buf"}, {"buf", "cinfo"}, {"buf", "cinfo", "outfile"}, {"buf",
  "cinfo", "outfile"}, {"cinfo", "outfile"}, {"cinfo", "outfile"}, {"cinfo"}, {}>>

HoldWriteJpegMosaic == <<
  {}, {"buf"}, {"buf", "data"}, {"buf", "data"}, {"buf", "data", "cinfo"}, {"buf",
  "data", "cinfo", "outfile"}, {"buf", "data", "cinfo", "outfile"}, {"data", "cinfo",
  "outfile"}, {"data", "cinfo", "outfile"}, {"data", "cinfo"}, {"data"}>>

HoldWriteJpegComposite == <<
  {}, {"buf"}, {"buf", "in"}, {"buf"}, {"buf", "outfile"}, {"buf", "outfile",
  "cinfo"}, {"buf", "outfile", "cinfo"}, {"buf", "outfile"}, {"buf"}, {}>>

HoldReadPng == <<
  {}, {"infile"}, {"infile", "png"}, {"infile", "png", "info"}, {"infile", "png",
  "info", "end_info"}, {"infile", "png", "info", "end_info"}, {"infile", "png",
  "info", "end_info", "buf"}, {"infile", "png", "info", "end_info", "buf"}, {"infile",
  "buf"}, {"buf"}, {"buf"}, {}>>

HoldWritePngComposite == <<
  {}, {"png"}, {"png", "info"}, {"png", "info", "outfile"}, {"png", "info",
  "outfile"}, {"png", "info", "outfile", "buf"}, {"png", "info", "outfile", "buf",
  "in"}, {"png", "info", "outfile", "buf"}, {"png", "info", "outfile", "buf"},
  {"outfile", "buf"}, {"outfile"}, {}>>

HoldOf(op) ==
  CASE op = "read_fits" -> HoldReadFits
    [] op = "read_fits_mosaic" -> HoldReadFitsMosaic
    [] op = "read_png" -> HoldReadPng
    [] op = "read_jpeg" -> HoldReadJpeg
    [] op = "write_fits" -> HoldWriteFits
    [] op = "write_fits_composite" -> HoldWriteFitsComposite
    [] op = "write_png_composite" -> HoldWritePngComposite
    [] op = "write_jpeg" -> HoldWriteJpeg
    [] op = "write_jpeg_mosaic" -> HoldWriteJpegMosaic
    [] op = "write_jpeg_composite" -> HoldWriteJpegComposite

LEMMA TakeIs ==
  ASSUME NEW t
  PROVE  LET s == Take(t)
         IN  s.takes = t /\ s.needs = {} /\ s.gives = {} /\ s.fails = 0 /\ ~s.rescales
BY DEF Take, Step

LEMMA UseIs ==
  ASSUME NEW t
  PROVE  LET s == Use(t)
         IN  s.takes = {} /\ s.needs = t /\ s.gives = {} /\ s.fails = 0 /\ ~s.rescales
BY DEF Use, Step

LEMMA GiveIs ==
  ASSUME NEW t
  PROVE  LET s == Give(t)
         IN  s.takes = {} /\ s.needs = {} /\ s.gives = t /\ s.fails = 0 /\ ~s.rescales
BY DEF Give, Step

LEMMA TryIs ==
  ASSUME NEW t, NEW n, NEW exit
  PROVE  LET s == Try(t, n, exit)
         IN  s.takes = t /\ s.needs = n /\ s.gives = {} /\ s.fails = exit /\ ~s.rescales
BY DEF Try, Step

LEMMA RescaleIs ==
  Rescale.takes = {} /\ Rescale.needs = {} /\ Rescale.gives = {} /\ Rescale.fails = 0
BY DEF Rescale, Step

LEMMA ReadFitsInOrder == InOrder(ReadFits, HoldReadFits)
<1>1. Len(ReadFits) = 11 /\ HoldReadFits[1] = {}
  BY DEF ReadFits, HoldReadFits
<1>2. ASSUME NEW k \in 1 .. 11
      PROVE  InStep(ReadFits, k, HoldReadFits[k], HoldReadFits[k + 1])
  <2>1. k \in {1, 2, 3, 4, 5, 6, 7, 8, 9, 10, 11}
    OBVIOUS
  <2> QED BY <1>1, <2>1, TakeIs, UseIs, GiveIs, TryIs
            DEF InStep, LastStep, Return, ReadFits, HoldReadFits
<1> QED BY <1>1, <1>2 DEF InOrder

LEMMA ReadFitsMosaicInOrder == InOrder(ReadFitsMosaic, HoldReadFitsMosaic)
<1>1. Len(ReadFitsMosaic) = 12 /\ HoldReadFitsMosaic[1] = {}
  BY DEF ReadFitsMosaic, HoldReadFitsMosaic
<1>2. ASSUME NEW k \in 1 .. 12
      PROVE  InStep(ReadFitsMosaic, k, HoldReadFitsMosaic[k], HoldReadFitsMosaic[k + 1])
  <2>1. k \in {1, 2, 3, 4, 5, 6, 7, 8, 9, 10, 11, 12}
    OBVIOUS
  <2> QED BY <1>1, <2>1, TakeIs, UseIs, GiveIs, TryIs
            DEF InStep, LastStep, Return, ReadFitsMosaic, HoldReadFitsMosaic
<1> QED BY <1>1, <1>2 DEF InOrder

LEMMA ReadPngInOrder == InOrder(ReadPng, HoldReadPng)
<1>1. Len(ReadPng) = 11 /\ HoldReadPng[1] = {}
  BY DEF ReadPng, HoldReadPng
<1>2. ASSUME NEW k \in 1 .. 11
      PROVE  InStep(ReadPng, k, HoldReadPng[k], HoldReadPng[k + 1])
  <2>1. k \in {1, 2, 3, 4, 5, 6, 7, 8, 9, 10, 11}
    OBVIOUS
  <2> QED BY <1>1, <2>1, TakeIs, UseIs, GiveIs, TryIs
            DEF InStep, LastStep, Return, ReadPng, HoldReadPng
<1> QED BY <1>1, <1>2 DEF InOrder

LEMMA ReadJpegInOrder == InOrder(ReadJpeg, HoldReadJpeg)
<1>1. Len(ReadJpeg) = 6 /\ HoldReadJpeg[1] = {}
  BY DEF ReadJpeg, HoldReadJpeg
<1>2. ASSUME NEW k \in 1 .. 6
      PROVE  InStep(ReadJpeg, k, HoldReadJpeg[k], HoldReadJpeg[k + 1])
  <2>1. k \in {1, 2, 3, 4, 5, 6}
    OBVIOUS
  <2> QED BY <1>1, <2>1, TakeIs, UseIs, GiveIs, TryIs
            DEF InStep, LastStep, Return, ReadJpeg, HoldReadJpeg
<1> QED BY <1>1, <1>2 DEF InOrder

LEMMA WriteFitsInOrder == InOrder(WriteFits, HoldWriteFits)
<1>1. Len(WriteFits) = 9 /\ HoldWriteFits[1] = {}
  BY DEF WriteFits, HoldWriteFits
<1>2. ASSUME NEW k \in 1 .. 9
      PROVE  InStep(WriteFits, k, HoldWriteFits[k], HoldWriteFits[k + 1])
  <2>1. k \in {1, 2, 3, 4, 5, 6, 7, 8, 9}
    OBVIOUS
  <2> QED BY <1>1, <2>1, TakeIs, UseIs, GiveIs, TryIs
            DEF InStep, LastStep, Return, WriteFits, HoldWriteFits
<1> QED BY <1>1, <1>2 DEF InOrder

LEMMA WriteFitsCompositeInOrder == InOrder(WriteFitsComposite, HoldWriteFitsComposite)
<1>1. Len(WriteFitsComposite) = 9 /\ HoldWriteFitsComposite[1] = {}
  BY DEF WriteFitsComposite, HoldWriteFitsComposite
<1>2. ASSUME NEW k \in 1 .. 9
      PROVE  InStep(WriteFitsComposite, k, HoldWriteFitsComposite[k], HoldWriteFitsComposite[k + 1])
  <2>1. k \in {1, 2, 3, 4, 5, 6, 7, 8, 9}
    OBVIOUS
  <2> QED BY <1>1, <2>1, TakeIs, UseIs, GiveIs, TryIs
            DEF InStep, LastStep, Return, WriteFitsComposite, HoldWriteFitsComposite
<1> QED BY <1>1, <1>2 DEF InOrder

LEMMA WritePngCompositeInOrder == InOrder(WritePngComposite, HoldWritePngComposite)
<1>1. Len(WritePngComposite) = 11 /\ HoldWritePngComposite[1] = {}
  BY DEF WritePngComposite, HoldWritePngComposite
<1>2. ASSUME NEW k \in 1 .. 11
      PROVE  InStep(WritePngComposite, k, HoldWritePngComposite[k], HoldWritePngComposite[k + 1])
  <2>1. k \in {1, 2, 3, 4, 5, 6, 7, 8, 9, 10, 11}
    OBVIOUS
  <2> QED BY <1>1, <2>1, TakeIs, UseIs, GiveIs, TryIs
            DEF InStep, LastStep, Return, WritePngComposite, HoldWritePngComposite
<1> QED BY <1>1, <1>2 DEF InOrder

LEMMA WriteJpegInOrder == InOrder(WriteJpeg, HoldWriteJpeg)
<1>1. Len(WriteJpeg) = 9 /\ HoldWriteJpeg[1] = {}
  BY DEF WriteJpeg, HoldWriteJpeg
<1>2. ASSUME NEW k \in 1 .. 9
      PROVE  InStep(WriteJpeg, k, HoldWriteJpeg[k], HoldWriteJpeg[k + 1])
  <2>1. k \in {1, 2, 3, 4, 5, 6, 7, 8, 9}
    OBVIOUS
  <2> QED BY <1>1, <2>1, TakeIs, UseIs, GiveIs, TryIs, RescaleIs
            DEF InStep, LastStep, Return, WriteJpeg, HoldWriteJpeg
<1> QED BY <1>1, <1>2 DEF InOrder

LEMMA WriteJpegMosaicInOrder == InOrder(WriteJpegMosaic, HoldWriteJpegMosaic)
<1>1. Len(WriteJpegMosaic) = 10 /\ HoldWriteJpegMosaic[1] = {}
  BY DEF WriteJpegMosaic, HoldWriteJpegMosaic
<1>2. ASSUME NEW k \in 1 .. 10
      PROVE  InStep(WriteJpegMosaic, k, HoldWriteJpegMosaic[k], HoldWriteJpegMosaic[k + 1])
  <2>1. k \in {1, 2, 3, 4, 5, 6, 7, 8, 9, 10}
    OBVIOUS
  <2> QED BY <1>1, <2>1, TakeIs, UseIs, GiveIs, TryIs
            DEF InStep, LastStep, Return, WriteJpegMosaic, HoldWriteJpegMosaic
<1> QED BY <1>1, <1>2 DEF InOrder

LEMMA WriteJpegCompositeInOrder == InOrder(WriteJpegComposite, HoldWriteJpegComposite)
<1>1. Len(WriteJpegComposite) = 9 /\ HoldWriteJpegComposite[1] = {}
  BY DEF WriteJpegComposite, HoldWriteJpegComposite
<1>2. ASSUME NEW k \in 1 .. 9
      PROVE  InStep(WriteJpegComposite, k, HoldWriteJpegComposite[k], HoldWriteJpegComposite[k + 1])
  <2>1. k \in {1, 2, 3, 4, 5, 6, 7, 8, 9}
    OBVIOUS
  <2> QED BY <1>1, <2>1, TakeIs, UseIs, GiveIs, TryIs
            DEF InStep, LastStep, Return, WriteJpegComposite, HoldWriteJpegComposite
<1> QED BY <1>1, <1>2 DEF InOrder

\* Only dsp_file_write_jpeg rescales.
LEMMA OnCopies ==
  ASSUME NEW op \in (Readers \cup Writers) \ {"write_jpeg"}, NEW k \in 1 .. Len(Program(op))
  PROVE  ~Program(op)[k].rescales
<1>1. CASE op = "read_fits"
  <2>1. Program(op) = ReadFits /\ Len(ReadFits) = 11
    BY <1>1 DEF Program, ReadFits
  <2>2. k \in {1, 2, 3, 4, 5, 6, 7, 8, 9, 10, 11}
    BY <2>1
  <2> QED BY <2>1, <2>2, TakeIs, UseIs, GiveIs, TryIs DEF ReadFits
<1>2. CASE op = "read_fits_mosaic"
  <2>1. Program(op) = ReadFitsMosaic /\ Len(ReadFitsMosaic) = 12
    BY <1>2 DEF Program, ReadFitsMosaic
  <2>2. k \in {1, 2, 3, 4, 5, 6, 7, 8, 9, 10, 11, 12}
    BY <2>1
  <2> QED BY <2>1, <2>2, TakeIs, UseIs, GiveIs, TryIs DEF ReadFitsMosaic
<1>3. CASE op = "read_png"
  <2>1. Program(op) = ReadPng /\ Len(ReadPng) = 11
    BY <1>3 DEF Program, ReadPng
  <2>2. k \in {1, 2, 3, 4, 5, 6, 7, 8, 9, 10, 11}
    BY <2>1
  <2> QED BY <2>1, <2>2, TakeIs, UseIs, GiveIs, TryIs DEF ReadPng
<1>4. CASE op = "read_jpeg"
  <2>1. Program(op) = ReadJpeg /\ Len(ReadJpeg) = 6
    BY <1>4 DEF Program, ReadJpeg
  <2>2. k \in {1, 2, 3, 4, 5, 6}
    BY <2>1
  <2> QED BY <2>1, <2>2, TakeIs, UseIs, GiveIs, TryIs DEF ReadJpeg
<1>5. CASE op = "write_fits"
  <2>1. Program(op) = WriteFits /\ Len(WriteFits) = 9
    BY <1>5 DEF Program, WriteFits
  <2>2. k \in {1, 2, 3, 4, 5, 6, 7, 8, 9}
    BY <2>1
  <2> QED BY <2>1, <2>2, TakeIs, UseIs, GiveIs, TryIs DEF WriteFits
<1>6. CASE op = "write_fits_composite"
  <2>1. Program(op) = WriteFitsComposite /\ Len(WriteFitsComposite) = 9
    BY <1>6 DEF Program, WriteFitsComposite
  <2>2. k \in {1, 2, 3, 4, 5, 6, 7, 8, 9}
    BY <2>1
  <2> QED BY <2>1, <2>2, TakeIs, UseIs, GiveIs, TryIs DEF WriteFitsComposite
<1>7. CASE op = "write_png_composite"
  <2>1. Program(op) = WritePngComposite /\ Len(WritePngComposite) = 11
    BY <1>7 DEF Program, WritePngComposite
  <2>2. k \in {1, 2, 3, 4, 5, 6, 7, 8, 9, 10, 11}
    BY <2>1
  <2> QED BY <2>1, <2>2, TakeIs, UseIs, GiveIs, TryIs DEF WritePngComposite
<1>8. CASE op = "write_jpeg_mosaic"
  <2>1. Program(op) = WriteJpegMosaic /\ Len(WriteJpegMosaic) = 10
    BY <1>8 DEF Program, WriteJpegMosaic
  <2>2. k \in {1, 2, 3, 4, 5, 6, 7, 8, 9, 10}
    BY <2>1
  <2> QED BY <2>1, <2>2, TakeIs, UseIs, GiveIs, TryIs DEF WriteJpegMosaic
<1>9. CASE op = "write_jpeg_composite"
  <2>1. Program(op) = WriteJpegComposite /\ Len(WriteJpegComposite) = 9
    BY <1>9 DEF Program, WriteJpegComposite
  <2>2. k \in {1, 2, 3, 4, 5, 6, 7, 8, 9}
    BY <2>1
  <2> QED BY <2>1, <2>2, TakeIs, UseIs, GiveIs, TryIs DEF WriteJpegComposite
<1> QED BY <1>1, <1>2, <1>3, <1>4, <1>5, <1>6, <1>7, <1>8, <1>9 DEF Readers, Writers

\* It does so in its second step, and may fail only later.
LEMMA InPlace ==
  /\ Program("write_jpeg") = WriteJpeg /\ Len(WriteJpeg) = 9
  /\ \A k \in 1 .. 9 : /\ WriteJpeg[k].rescales <=> k = 2
                       /\ WriteJpeg[k].fails # 0 => WriteJpeg[k].fails = Return
<1>1. Program("write_jpeg") = WriteJpeg /\ Len(WriteJpeg) = 9
  BY DEF Program, WriteJpeg
<1>2. ASSUME NEW k \in 1 .. 9
      PROVE  /\ WriteJpeg[k].rescales <=> k = 2
             /\ WriteJpeg[k].fails # 0 => WriteJpeg[k].fails = Return
  <2>1. k \in {1, 2, 3, 4, 5, 6, 7, 8, 9}
    OBVIOUS
  <2>2. Rescale.rescales /\ Rescale.fails = 0
    BY DEF Rescale, Step
  <2> QED BY <2>1, <2>2, TakeIs, UseIs, GiveIs, TryIs DEF WriteJpeg
<1> QED BY <1>1, <1>2

\* Every function is in order, and ends with nothing in hand but what it keeps.
LEMMA ProgramsInOrder ==
  ASSUME NEW op \in Readers \cup Writers
  PROVE  /\ InOrder(Program(op), HoldOf(op))
         /\ Len(Program(op)) \in 1 .. 12
         /\ HoldOf(op)[Len(Program(op)) + 1] = Kept(op)
<1> DEFINE n == Len(Program(op))
           Sound == /\ InOrder(Program(op), HoldOf(op))
                    /\ n \in 1 .. 12
                    /\ HoldOf(op)[n + 1] = Kept(op)
<1> HIDE DEF n
<1>1. ASSUME op = "read_fits"
      PROVE  Sound
  <2>1. Program(op) = ReadFits /\ HoldOf(op) = HoldReadFits /\ Kept(op) = {}
    BY <1>1 DEF Program, HoldOf, Kept
  <2>2. Len(ReadFits) = 11 /\ HoldReadFits[12] = {}
    BY DEF ReadFits, HoldReadFits
  <2>3. InOrder(Program(op), HoldOf(op))
    BY <2>1, ReadFitsInOrder, Zenon
  <2>4. n = 11 /\ HoldOf(op)[12] = Kept(op)
    BY <2>1, <2>2, Zenon DEF n
  <2>5. n + 1 = 12 /\ n \in 1 .. 12
    BY <2>4
  <2> QED BY <2>3, <2>4, <2>5, Zenon
<1>2. ASSUME op = "read_fits_mosaic"
      PROVE  Sound
  <2>1. Program(op) = ReadFitsMosaic /\ HoldOf(op) = HoldReadFitsMosaic /\ Kept(op) = {}
    BY <1>2 DEF Program, HoldOf, Kept
  <2>2. Len(ReadFitsMosaic) = 12 /\ HoldReadFitsMosaic[13] = {}
    BY DEF ReadFitsMosaic, HoldReadFitsMosaic
  <2>3. InOrder(Program(op), HoldOf(op))
    BY <2>1, ReadFitsMosaicInOrder, Zenon
  <2>4. n = 12 /\ HoldOf(op)[13] = Kept(op)
    BY <2>1, <2>2, Zenon DEF n
  <2>5. n + 1 = 13 /\ n \in 1 .. 12
    BY <2>4
  <2> QED BY <2>3, <2>4, <2>5, Zenon
<1>3. ASSUME op = "read_png"
      PROVE  Sound
  <2>1. Program(op) = ReadPng /\ HoldOf(op) = HoldReadPng /\ Kept(op) = {}
    BY <1>3 DEF Program, HoldOf, Kept
  <2>2. Len(ReadPng) = 11 /\ HoldReadPng[12] = {}
    BY DEF ReadPng, HoldReadPng
  <2>3. InOrder(Program(op), HoldOf(op))
    BY <2>1, ReadPngInOrder, Zenon
  <2>4. n = 11 /\ HoldOf(op)[12] = Kept(op)
    BY <2>1, <2>2, Zenon DEF n
  <2>5. n + 1 = 12 /\ n \in 1 .. 12
    BY <2>4
  <2> QED BY <2>3, <2>4, <2>5, Zenon
<1>4. ASSUME op = "read_jpeg"
      PROVE  Sound
  <2>1. Program(op) = ReadJpeg /\ HoldOf(op) = HoldReadJpeg /\ Kept(op) = {"info", "jpeg"}
    BY <1>4 DEF Program, HoldOf, Kept
  <2>2. Len(ReadJpeg) = 6 /\ HoldReadJpeg[7] = {"info", "jpeg"}
    BY DEF ReadJpeg, HoldReadJpeg
  <2>3. InOrder(Program(op), HoldOf(op))
    BY <2>1, ReadJpegInOrder, Zenon
  <2>4. n = 6 /\ HoldOf(op)[7] = Kept(op)
    BY <2>1, <2>2, Zenon DEF n
  <2>5. n + 1 = 7 /\ n \in 1 .. 12
    BY <2>4
  <2> QED BY <2>3, <2>4, <2>5, Zenon
<1>5. ASSUME op = "write_fits"
      PROVE  Sound
  <2>1. Program(op) = WriteFits /\ HoldOf(op) = HoldWriteFits /\ Kept(op) = {}
    BY <1>5 DEF Program, HoldOf, Kept
  <2>2. Len(WriteFits) = 9 /\ HoldWriteFits[10] = {}
    BY DEF WriteFits, HoldWriteFits
  <2>3. InOrder(Program(op), HoldOf(op))
    BY <2>1, WriteFitsInOrder, Zenon
  <2>4. n = 9 /\ HoldOf(op)[10] = Kept(op)
    BY <2>1, <2>2, Zenon DEF n
  <2>5. n + 1 = 10 /\ n \in 1 .. 12
    BY <2>4
  <2> QED BY <2>3, <2>4, <2>5, Zenon
<1>6. ASSUME op = "write_fits_composite"
      PROVE  Sound
  <2>1. Program(op) = WriteFitsComposite /\ HoldOf(op) = HoldWriteFitsComposite /\ Kept(op) = {}
    BY <1>6 DEF Program, HoldOf, Kept
  <2>2. Len(WriteFitsComposite) = 9 /\ HoldWriteFitsComposite[10] = {}
    BY DEF WriteFitsComposite, HoldWriteFitsComposite
  <2>3. InOrder(Program(op), HoldOf(op))
    BY <2>1, WriteFitsCompositeInOrder, Zenon
  <2>4. n = 9 /\ HoldOf(op)[10] = Kept(op)
    BY <2>1, <2>2, Zenon DEF n
  <2>5. n + 1 = 10 /\ n \in 1 .. 12
    BY <2>4
  <2> QED BY <2>3, <2>4, <2>5, Zenon
<1>7. ASSUME op = "write_png_composite"
      PROVE  Sound
  <2>1. Program(op) = WritePngComposite /\ HoldOf(op) = HoldWritePngComposite /\ Kept(op) = {}
    BY <1>7 DEF Program, HoldOf, Kept
  <2>2. Len(WritePngComposite) = 11 /\ HoldWritePngComposite[12] = {}
    BY DEF WritePngComposite, HoldWritePngComposite
  <2>3. InOrder(Program(op), HoldOf(op))
    BY <2>1, WritePngCompositeInOrder, Zenon
  <2>4. n = 11 /\ HoldOf(op)[12] = Kept(op)
    BY <2>1, <2>2, Zenon DEF n
  <2>5. n + 1 = 12 /\ n \in 1 .. 12
    BY <2>4
  <2> QED BY <2>3, <2>4, <2>5, Zenon
<1>8. ASSUME op = "write_jpeg"
      PROVE  Sound
  <2>1. Program(op) = WriteJpeg /\ HoldOf(op) = HoldWriteJpeg /\ Kept(op) = {}
    BY <1>8 DEF Program, HoldOf, Kept
  <2>2. Len(WriteJpeg) = 9 /\ HoldWriteJpeg[10] = {}
    BY DEF WriteJpeg, HoldWriteJpeg
  <2>3. InOrder(Program(op), HoldOf(op))
    BY <2>1, WriteJpegInOrder, Zenon
  <2>4. n = 9 /\ HoldOf(op)[10] = Kept(op)
    BY <2>1, <2>2, Zenon DEF n
  <2>5. n + 1 = 10 /\ n \in 1 .. 12
    BY <2>4
  <2> QED BY <2>3, <2>4, <2>5, Zenon
<1>9. ASSUME op = "write_jpeg_mosaic"
      PROVE  Sound
  <2>1. Program(op) = WriteJpegMosaic /\ HoldOf(op) = HoldWriteJpegMosaic /\ Kept(op) = {"data"}
    BY <1>9 DEF Program, HoldOf, Kept
  <2>2. Len(WriteJpegMosaic) = 10 /\ HoldWriteJpegMosaic[11] = {"data"}
    BY DEF WriteJpegMosaic, HoldWriteJpegMosaic
  <2>3. InOrder(Program(op), HoldOf(op))
    BY <2>1, WriteJpegMosaicInOrder, Zenon
  <2>4. n = 10 /\ HoldOf(op)[11] = Kept(op)
    BY <2>1, <2>2, Zenon DEF n
  <2>5. n + 1 = 11 /\ n \in 1 .. 12
    BY <2>4
  <2> QED BY <2>3, <2>4, <2>5, Zenon
<1>10. ASSUME op = "write_jpeg_composite"
      PROVE  Sound
  <2>1. Program(op) = WriteJpegComposite /\ HoldOf(op) = HoldWriteJpegComposite /\ Kept(op) = {}
    BY <1>10 DEF Program, HoldOf, Kept
  <2>2. Len(WriteJpegComposite) = 9 /\ HoldWriteJpegComposite[10] = {}
    BY DEF WriteJpegComposite, HoldWriteJpegComposite
  <2>3. InOrder(Program(op), HoldOf(op))
    BY <2>1, WriteJpegCompositeInOrder, Zenon
  <2>4. n = 9 /\ HoldOf(op)[10] = Kept(op)
    BY <2>1, <2>2, Zenon DEF n
  <2>5. n + 1 = 10 /\ n \in 1 .. 12
    BY <2>4
  <2> QED BY <2>3, <2>4, <2>5, Zenon
<1>11. Sound
  BY <1>1, <1>2, <1>3, <1>4, <1>5, <1>6, <1>7, <1>8, <1>9, <1>10 DEF Readers, Writers
<1> QED BY <1>11, Zenon DEF n

-------------------------------------------------------------------------------
(* Types.                                                                    *)

Operations == {"none"} \cup Mosaics \cup Readers \cup Writers

\* What the variables that no step reads a sample of may be.
KindsInv ==
  /\ sizes \in AllSizes
  /\ call \in [op : Operations, at : Nat, n : 0 .. 3, ok : BOOLEAN]
  /\ call.op \in Writers => call.n >= 1

LEMMA SizesAre ==
  ASSUME sizes \in AllSizes
  PROVE  /\ sizes \in [1 .. 2 -> Nat \ {0}] /\ sizes \in [1 .. 2 -> Nat]
         /\ sizes[1] \in Nat \ {0} /\ sizes[2] \in Nat \ {0}
         /\ Product(sizes) = sizes[1] * sizes[2] /\ Product(sizes) \in Nat \ {0}
         /\ Pixels = 0 .. Product(sizes) - 1 /\ 0 \in Pixels
<1>1. sizes \in [1 .. 2 -> Nat \ {0}]
  BY PictureAssumption
<1>2. sizes \in [1 .. 2 -> Nat] /\ sizes[1] \in Nat \ {0} /\ sizes[2] \in Nat \ {0}
  BY <1>1
<1>3. Product(sizes) = sizes[1] * sizes[2]
  BY <1>2, ProductOfTwo
<1>4. sizes[1] * sizes[2] \in Nat \ {0}
  BY <1>2
<1>5. Product(sizes) \in Nat \ {0}
  BY <1>3, <1>4
<1> QED BY <1>1, <1>2, <1>3, <1>5 DEF Pixels, Indices

\* What a function that runs has in hand: what its steps so far have taken and not
\* given back.  After a failure it is over or at the last step, which gives back
\* things that it has.
HandInv ==
  Running =>
    IF call.ok
    THEN /\ call.at \in 1 .. Len(Program(call.op)) + 1
         /\ held = HoldOf(call.op)[call.at]
    ELSE \/ call.at > Len(Program(call.op))
         \/ LastStep(Program(call.op), call.at, held)

CallInv == KindsInv /\ HandInv

\* A step of a function in the state that the invariant allows.
LEMMA StepInHand ==
  ASSUME CallInv, Running, ~Over
  PROVE  /\ call.at \in 1 .. Len(Program(call.op)) /\ Len(Program(call.op)) \in 1 .. 12
         /\ Now.needs \cup Now.gives \subseteq held
         /\ Now.takes \cap held = {}
         /\ call.ok => /\ (held \cup Now.takes) \ Now.gives = HoldOf(call.op)[call.at + 1]
                       /\ Now.fails \in {0, Return} \/ LastStep(Program(call.op), Now.fails, held)
         /\ ~call.ok => call.at = Len(Program(call.op)) /\ Now.fails = 0
<1> DEFINE n == Len(Program(call.op))
<1> HIDE DEF n
<1>1. call.op \in Readers \cup Writers /\ call.at \in Nat
  BY DEF CallInv, KindsInv, Running
<1>2. InOrder(Program(call.op), HoldOf(call.op)) /\ n \in 1 .. 12
  BY <1>1, ProgramsInOrder DEF n
<1>3. ~(call.at > n)
  BY DEF Over, n
<1>4. CASE call.ok
  <2>1. call.at \in 1 .. n + 1 /\ held = HoldOf(call.op)[call.at]
    BY <1>4 DEF CallInv, HandInv, n
  <2>2. call.at \in 1 .. n
    BY <1>2, <1>3, <2>1
  <2>3. InStep(Program(call.op), call.at, held, HoldOf(call.op)[call.at + 1])
    BY <1>2, <2>1, <2>2 DEF InOrder, n
  <2> QED BY <1>2, <1>4, <2>2, <2>3 DEF InStep, Now, n
<1>5. CASE ~call.ok
  <2>1. LastStep(Program(call.op), call.at, held)
    BY <1>3, <1>5 DEF CallInv, HandInv, n
  <2>2. /\ call.at = n /\ Now.takes = {} /\ Now.fails = 0
        /\ Now.needs \cup Now.gives \subseteq held
    BY <2>1 DEF LastStep, Now, n
  <2>3. call.at \in 1 .. n /\ n \in 1 .. 12 /\ Now.takes \cap held = {}
    BY <1>2, <2>2
  <2> QED BY <1>5, <2>2, <2>3, Zenon DEF n
<1> QED BY <1>4, <1>5

LEMMA InitCall == Init => CallInv
<1> SUFFICES ASSUME Init PROVE CallInv
  OBVIOUS
<1>1. call = [op |-> "none", at |-> 0, n |-> 0, ok |-> TRUE] /\ sizes \in AllSizes
  BY DEF Init, Idle
<1>2. call.op \notin Readers /\ call.op \notin Writers
  BY <1>1 DEF Readers, Writers
<1> QED BY <1>1, <1>2 DEF CallInv, KindsInv, HandInv, Running, Operations

\* Where no function runs afterwards.
LEMMA NotRunning ==
  ASSUME CallInv, sizes' = sizes,
         call'.op \in {"none"} \cup Mosaics, call' \in [op : Operations, at : Nat, n : 0 .. 3, ok : BOOLEAN]
  PROVE  CallInv'
BY DEF CallInv, KindsInv, HandInv, Running, Mosaics, Readers, Writers

LEMMA BeginCall ==
  ASSUME CallInv, NEW op \in Readers \cup Writers, NEW n \in 0 .. 3, Begin(op, n),
         op \in Writers => n >= 1
  PROVE  CallInv'
<1>1. /\ call' = [op |-> op, at |-> 1, n |-> n, ok |-> TRUE]
      /\ held' = {} /\ sizes' = sizes
  BY DEF Begin
<1>2. InOrder(Program(op), HoldOf(op)) /\ Len(Program(op)) \in 1 .. 12
  BY ProgramsInOrder
<1>3. HoldOf(op)[1] = {}
  BY <1>2 DEF InOrder
<1>4. KindsInv'
  BY <1>1 DEF CallInv, KindsInv, Operations
<1>5. HandInv'
  BY <1>1, <1>2, <1>3 DEF HandInv
<1> QED BY <1>4, <1>5 DEF CallInv

LEMMA SucceedCall ==
  ASSUME CallInv, Succeed
  PROVE  CallInv'
<1> DEFINE n == Len(Program(call.op))
<1> HIDE DEF n
<1>1. /\ Running /\ ~Over /\ sizes' = sizes
      /\ call' = [call EXCEPT !.at = call.at + 1]
      /\ held' = (held \cup Now.takes) \ Now.gives
  BY DEF Succeed
<1>2. /\ call \in [op : Operations, at : Nat, n : 0 .. 3, ok : BOOLEAN] /\ sizes \in AllSizes
      /\ call.op \in Writers => call.n >= 1
  BY DEF CallInv, KindsInv
<1>3. /\ call'.op = call.op /\ call'.at = call.at + 1 /\ call'.ok = call.ok /\ call'.n = call.n
      /\ call' \in [op : Operations, at : Nat, n : 0 .. 3, ok : BOOLEAN]
  BY <1>1, <1>2
<1>4. KindsInv'
  BY <1>1, <1>2, <1>3 DEF KindsInv
<1>5. /\ call.at \in 1 .. n /\ n \in 1 .. 12
      /\ call.ok => (held \cup Now.takes) \ Now.gives = HoldOf(call.op)[call.at + 1]
      /\ ~call.ok => call.at = n
  BY <1>1, StepInHand DEF n
<1>6. CASE call.ok
  <2>1. call'.at \in 1 .. n + 1 /\ held' = HoldOf(call.op)[call'.at]
    BY <1>1, <1>3, <1>5, <1>6
  <2> QED BY <1>3, <1>4, <1>6, <2>1 DEF CallInv, HandInv, n
<1>7. CASE ~call.ok
  <2>1. call'.at > n
    BY <1>3, <1>5, <1>7
  <2> QED BY <1>3, <1>4, <1>7, <2>1 DEF CallInv, HandInv, n
<1> QED BY <1>6, <1>7

LEMMA FailCall ==
  ASSUME CallInv, Fail
  PROVE  CallInv'
<1> DEFINE n == Len(Program(call.op))
<1> HIDE DEF n
<1>1. /\ Running /\ ~Over /\ sizes' = sizes /\ Now.fails # 0
      /\ call' = [call EXCEPT !.at = Now.fails, !.ok = FALSE]
      /\ held' = held
  BY DEF Fail
<1>2. /\ call \in [op : Operations, at : Nat, n : 0 .. 3, ok : BOOLEAN] /\ sizes \in AllSizes
      /\ call.op \in Writers => call.n >= 1
  BY DEF CallInv, KindsInv
<1>3. /\ call.ok /\ n \in 1 .. 12
      /\ Now.fails = Return \/ LastStep(Program(call.op), Now.fails, held)
  BY <1>1, <1>2, StepInHand DEF n
<1>4. Now.fails > n \/ LastStep(Program(call.op), Now.fails, held)
  BY <1>3 DEF Return
<1>5. Now.fails \in Nat
  <2>1. Now.fails = Return \/ Now.fails = n
    BY <1>3 DEF LastStep, n
  <2> QED BY <1>3, <2>1 DEF Return
<1>6. /\ call'.op = call.op /\ call'.at = Now.fails /\ ~call'.ok /\ call'.n = call.n
      /\ call' \in [op : Operations, at : Nat, n : 0 .. 3, ok : BOOLEAN]
  BY <1>1, <1>2, <1>5
<1>7. KindsInv'
  BY <1>1, <1>2, <1>6 DEF KindsInv
<1>8. HandInv'
  BY <1>1, <1>4, <1>6 DEF HandInv, n
<1> QED BY <1>7, <1>8 DEF CallInv

LEMMA NextCall == CallInv /\ [Next]_vars => CallInv'
<1> SUFFICES ASSUME CallInv, [Next]_vars PROVE CallInv'
  OBVIOUS
<1> DEFINE Calls == [op : Operations, at : Nat, n : 0 .. 3, ok : BOOLEAN]
<1>1. Idle \in Calls /\ Idle.op = "none"
  BY DEF Idle, Operations
<1>2. ASSUME UNCHANGED <<sizes, call, held>>
      PROVE  CallInv'
  BY <1>2 DEF CallInv, KindsInv, HandInv, Running
<1>3. ASSUME sizes' = sizes, call' = Idle
      PROVE  CallInv'
  BY <1>1, <1>3, NotRunning
<1>4. ASSUME NEW format \in Formats, NEW n \in {1, MaxColours}, NEW kind \in Kinds,
             Arrive(format, n, kind)
      PROVE  CallInv'
  BY <1>2, <1>4 DEF Arrive
<1>5. ASSUME NEW k \in DOMAIN picture, Shift(k)
      PROVE  CallInv'
  BY <1>2, <1>5 DEF Shift
<1>6. ASSUME NEW op \in Readers, BeginRead(op)
      PROVE  CallInv'
  <2>1. op \notin Writers
    BY DEF Readers, Writers
  <2> QED BY <1>6, <2>1, BeginCall DEF BeginRead
<1>7. ASSUME NEW op \in Writers, NEW n \in {1, MaxColours}, BeginWrite(op, n)
      PROVE  CallInv'
  <2>1. n \in 0 .. 3 /\ n >= 1
    BY PictureAssumption
  <2> QED BY <1>7, <2>1, BeginCall DEF BeginWrite
<1>8. CASE Succeed
  BY <1>8, SucceedCall
<1>9. CASE Fail
  BY <1>9, FailCall
<1>10. CASE Deliver
  BY <1>3, <1>10 DEF Deliver
<1>11. CASE Complete
  BY <1>3, <1>11 DEF Complete
<1>12. CASE GiveUp
  BY <1>3, <1>12 DEF GiveUp
<1>13. ASSUME NEW op \in Mosaics, NEW r \in 0 .. 3, BeginMosaic(op, r)
       PROVE  CallInv'
  <2>1. call' \in Calls /\ call'.op \in Mosaics
    BY <1>13 DEF BeginMosaic, Operations
  <2> QED BY <1>13, <2>1, NotRunning DEF BeginMosaic
<1>14. CASE NextSite
  <2>1. call \in Calls
    BY DEF CallInv, KindsInv
  <2>2. call' = [call EXCEPT !.at = call.at + 1] /\ call.op \in Mosaics /\ sizes' = sizes
    BY <1>14 DEF NextSite
  <2>3. call' \in Calls /\ call'.op \in Mosaics
    BY <2>1, <2>2
  <2> QED BY <2>2, <2>3, NotRunning
<1>15. CASE EndMosaic
  BY <1>3, <1>15 DEF EndMosaic
<1>16. CASE UNCHANGED vars
  BY <1>2, <1>16 DEF vars
<1> QED BY <1>4, <1>5, <1>6, <1>7, <1>8, <1>9, <1>10, <1>11, <1>12, <1>13, <1>14, <1>15, <1>16
      DEF Next

\* The types of the call that runs, and what it has in hand at each of its steps.
THEOREM CallsConsistent == Spec => []CallInv
<1> QED BY InitCall, NextCall, PTL DEF Spec

\* Whatever step of a function fails, it uses and gives back only what it has, takes
\* nothing twice, and when it succeeds keeps nothing but an opened JPEG file it has
\* read and the colours of a mosaic it has written.
THEOREM HeldInHand == Spec => []InHand
<1>1. CallInv => InHand
  <2> SUFFICES ASSUME CallInv, Running PROVE InHand
    BY DEF InHand, Over
  <2>1. ASSUME ~Over
        PROVE  Now.needs \cup Now.gives \subseteq held /\ Now.takes \cap held = {}
    BY <2>1, StepInHand
  <2>2. ASSUME Over, call.ok
        PROVE  held \subseteq Kept(call.op)
    <3> DEFINE n == Len(Program(call.op))
    <3> HIDE DEF n
    <3>1. n \in 1 .. 12 /\ HoldOf(call.op)[n + 1] = Kept(call.op)
      BY ProgramsInOrder DEF Running, n
    <3>2. call.at \in 1 .. n + 1 /\ held = HoldOf(call.op)[call.at]
      BY <2>2 DEF CallInv, HandInv, n
    <3>3. call.at > n
      BY <2>2 DEF Over, n
    <3>4. call.at = n + 1
      BY <3>1, <3>2, <3>3
    <3> QED BY <3>1, <3>2, <3>4
  <2> QED BY <2>1, <2>2 DEF InHand
<1> QED BY <1>1, CallsConsistent, PTL

-------------------------------------------------------------------------------
(* Where the samples are.                                                    *)

\* A sequence of streams with an element for each pixel.
Gridded(streams) ==
  \E n \in Nat : streams = [k \in 1 .. n |-> [x \in Pixels |-> streams[k][x]]]

LEMMA GriddedIs ==
  ASSUME NEW streams, Gridded(streams)
  PROVE  /\ Len(streams) \in Nat /\ DOMAIN streams = 1 .. Len(streams)
         /\ \A k \in 1 .. Len(streams) : streams[k] = [x \in Pixels |-> streams[k][x]]
<1>1. PICK n \in Nat : streams = [k \in 1 .. n |-> [x \in Pixels |-> streams[k][x]]]
  BY DEF Gridded
<1> DEFINE S == {[x \in Pixels |-> streams[k][x]] : k \in 1 .. n}
<1>2. streams \in [1 .. n -> S]
  BY <1>1
<1> HIDE DEF S
<1>3. streams \in Seq(S) /\ Len(streams) = n
  BY <1>2
<1> QED BY <1>1, <1>3

\* The sample of channel c and pixel x, where it was laid.
LEMMA PlanarIs ==
  ASSUME sizes \in AllSizes, NEW cs, Gridded(cs), NEW c \in 1 .. Len(cs), NEW x \in Pixels
  PROVE  Planar(cs)[(c - 1) * Product(sizes) + x] = cs[c][x]
<1> DEFINE n == Len(cs)
           p == Product(sizes)
           i == (c - 1) * p + x
<1>1. n \in Nat /\ p \in Nat \ {0} /\ c \in 1 .. n /\ x \in 0 .. p - 1
  BY GriddedIs, SizesAre
<1>2. Planar(cs) = [j \in 0 .. n * p - 1 |-> cs[(j \div p) + 1][j % p]]
  BY DEF Planar
<1> HIDE DEF n, p
<1>3. i = x + p * (c - 1) /\ n * p = p * n /\ c - 1 \in 0 .. n - 1 /\ c - 1 \in Nat /\ n \in Nat \ {0}
  BY <1>1
<1>4. i \in 0 .. n * p - 1
  BY <1>1, <1>3, InGrid
<1>5. i \div p = c - 1 /\ i % p = x
  BY <1>1, <1>3, Division
<1> HIDE DEF i
<1>6. Planar(cs)[i] = cs[c - 1 + 1][x]
  BY <1>2, <1>4, <1>5
<1>7. c - 1 + 1 = c
  BY <1>1
<1> QED BY <1>6, <1>7 DEF i, p

LEMMA InterleavedIs ==
  ASSUME sizes \in AllSizes, NEW cs, Gridded(cs), NEW c \in 1 .. Len(cs), NEW x \in Pixels
  PROVE  Interleaved(cs)[x * Len(cs) + (c - 1)] = cs[c][x]
<1> DEFINE n == Len(cs)
           p == Product(sizes)
           i == x * n + (c - 1)
<1>1. n \in Nat /\ p \in Nat \ {0} /\ c \in 1 .. n /\ x \in 0 .. p - 1
  BY GriddedIs, SizesAre
<1>2. Interleaved(cs) = [j \in 0 .. n * p - 1 |-> cs[(j % n) + 1][j \div n]]
  BY DEF Interleaved
<1> HIDE DEF n, p
<1>3. i = (c - 1) + n * x /\ c - 1 \in 0 .. n - 1 /\ x \in Nat /\ n \in Nat \ {0}
  BY <1>1
<1>4. i \in 0 .. n * p - 1
  BY <1>1, <1>3, InGrid
<1>5. i \div n = x /\ i % n = c - 1
  <2>1. (c - 1 + n * x) \div n = x /\ (c - 1 + n * x) % n = c - 1
    BY <1>3, Division, Zenon
  <2> QED BY <1>3, <2>1, Zenon
<1> HIDE DEF i
<1>6. Interleaved(cs)[i] = cs[c - 1 + 1][x]
  BY <1>2, <1>4, <1>5
<1>7. c - 1 + 1 = c
  BY <1>1
<1> QED BY <1>6, <1>7 DEF i, n

\* A plain file has its channels in its data.
Holds(from) ==
  Gridded(from.channels) /\ (from.kind = "plain" => from.data = Laid(from.format, from.channels))

\* What is read from a mosaic is streams too.
LEMMA MosaicRead ==
  ASSUME NEW from, from.kind = "mosaic"
  PROVE  Gridded(Read(from))
<1>1. Read(from) = [k \in 1 .. 3 + 1 |-> [x \in Pixels |->
        IF k <= 3 THEN Words[x * 3 + (k - 1)] ELSE Mean([c \in 1 .. 3 |-> Words[x * 3 + (c - 1)]])]]
  BY DEF Read, RgbToComponents, Streams
<1> QED BY <1>1 DEF Gridded

\* A reader finds the channels of a plain file, and their mean.
LEMMA ReadIs ==
  ASSUME sizes \in AllSizes, NEW from, Holds(from)
  PROVE  LET cs == from.channels
             n == Len(cs)
         IN  /\ Gridded(Read(from)) /\ n \in Nat
             /\ from.kind = "plain" => Read(from) =
                  [k \in 1 .. n + 1 |-> [x \in Pixels |->
                     IF k <= n THEN cs[k][x] ELSE Mean([c \in 1 .. n |-> cs[c][x]])]]
<1> DEFINE cs == from.channels
           n == Len(cs)
           p == Product(sizes)
           buf == from.data
<1>1. Gridded(cs) /\ n \in Nat
  BY GriddedIs DEF Holds
<1>2. CASE from.kind = "mosaic"
  BY <1>1, <1>2, MosaicRead
<1>3. CASE from.kind # "mosaic" /\ from.format = "fits"
  <2>1. Read(from) = [k \in 1 .. n + 1 |-> [x \in Pixels |->
          IF k <= n THEN buf[(k - 1) * p + x]
          ELSE Mean([c \in 1 .. n |-> buf[(c - 1) * p + x]])]]
    BY <1>3 DEF Read, FromComponents, Streams
  <2>2. ASSUME from.kind = "plain", NEW c \in 1 .. n, NEW x \in Pixels
        PROVE  buf[(c - 1) * p + x] = cs[c][x]
    <3>1. buf = Planar(cs)
      BY <1>3, <2>2 DEF Holds, Laid
    <3> QED BY <1>1, <2>2, <3>1, PlanarIs
  <2> HIDE DEF cs, n, p, buf
  <2>3. Gridded(Read(from))
    BY <1>1, <2>1 DEF Gridded
  <2>4. from.kind = "plain" => Read(from) =
          [k \in 1 .. n + 1 |-> [x \in Pixels |->
             IF k <= n THEN cs[k][x] ELSE Mean([c \in 1 .. n |-> cs[c][x]])]]
    <3> SUFFICES ASSUME from.kind = "plain"
                 PROVE  Read(from) =
                   [k \in 1 .. n + 1 |-> [x \in Pixels |->
                      IF k <= n THEN cs[k][x] ELSE Mean([c \in 1 .. n |-> cs[c][x]])]]
      OBVIOUS
    <3>1. \A x \in Pixels : [c \in 1 .. n |-> buf[(c - 1) * p + x]] = [c \in 1 .. n |-> cs[c][x]]
      BY <2>2
    <3>2. \A x \in Pixels, k \in 1 .. n + 1 : k <= n => buf[(k - 1) * p + x] = cs[k][x]
      BY <1>1, <2>2
    <3> DEFINE found(k, x) == IF k <= n THEN buf[(k - 1) * p + x]
                              ELSE Mean([c \in 1 .. n |-> buf[(c - 1) * p + x]])
               sample(k, x) == IF k <= n THEN cs[k][x]
                               ELSE Mean([c \in 1 .. n |-> cs[c][x]])
    <3>3. \A k \in 1 .. n + 1, x \in Pixels : found(k, x) = sample(k, x)
      BY <3>1, <3>2 DEF Mean
    <3>4. Read(from) = [k \in 1 .. n + 1 |-> [x \in Pixels |-> found(k, x)]]
      BY <2>1, Zenon
    <3> HIDE DEF found, sample
    <3>5. Read(from) = [k \in 1 .. n + 1 |-> [x \in Pixels |-> sample(k, x)]]
      BY <3>3, <3>4
    <3> QED BY <3>5, Zenon DEF sample
  <2> QED BY <1>1, <2>3, <2>4 DEF cs, n
<1>4. CASE from.kind # "mosaic" /\ from.format # "fits"
  <2>1. Read(from) = [k \in 1 .. n + 1 |-> [x \in Pixels |->
          IF k <= n THEN buf[x * n + (k - 1)]
          ELSE Mean([c \in 1 .. n |-> buf[x * n + (c - 1)]])]]
    BY <1>4 DEF Read, RgbToComponents, Streams
  <2>2. ASSUME from.kind = "plain", NEW c \in 1 .. n, NEW x \in Pixels
        PROVE  buf[x * n + (c - 1)] = cs[c][x]
    <3>1. buf = Interleaved(cs)
      BY <1>4, <2>2 DEF Holds, Laid
    <3> QED BY <1>1, <2>2, <3>1, InterleavedIs
  <2> HIDE DEF cs, n, p, buf
  <2>3. Gridded(Read(from))
    BY <1>1, <2>1 DEF Gridded
  <2>4. from.kind = "plain" => Read(from) =
          [k \in 1 .. n + 1 |-> [x \in Pixels |->
             IF k <= n THEN cs[k][x] ELSE Mean([c \in 1 .. n |-> cs[c][x]])]]
    <3> SUFFICES ASSUME from.kind = "plain"
                 PROVE  Read(from) =
                   [k \in 1 .. n + 1 |-> [x \in Pixels |->
                      IF k <= n THEN cs[k][x] ELSE Mean([c \in 1 .. n |-> cs[c][x]])]]
      OBVIOUS
    <3>1. \A x \in Pixels : [c \in 1 .. n |-> buf[x * n + (c - 1)]] = [c \in 1 .. n |-> cs[c][x]]
      BY <2>2
    <3>2. \A x \in Pixels, k \in 1 .. n + 1 : k <= n => buf[x * n + (k - 1)] = cs[k][x]
      BY <1>1, <2>2
    <3> DEFINE found(k, x) == IF k <= n THEN buf[x * n + (k - 1)]
                              ELSE Mean([c \in 1 .. n |-> buf[x * n + (c - 1)]])
               sample(k, x) == IF k <= n THEN cs[k][x]
                               ELSE Mean([c \in 1 .. n |-> cs[c][x]])
    <3>3. \A k \in 1 .. n + 1, x \in Pixels : found(k, x) = sample(k, x)
      BY <3>1, <3>2 DEF Mean
    <3>4. Read(from) = [k \in 1 .. n + 1 |-> [x \in Pixels |-> found(k, x)]]
      BY <2>1, Zenon
    <3> HIDE DEF found, sample
    <3>5. Read(from) = [k \in 1 .. n + 1 |-> [x \in Pixels |-> sample(k, x)]]
      BY <3>3, <3>4
    <3> QED BY <3>5, Zenon DEF sample
  <2> QED BY <1>1, <2>3, <2>4 DEF cs, n
<1> QED BY <1>2, <1>3, <1>4

-------------------------------------------------------------------------------
(* The samples.                                                              *)

\* The streams that a caller has and those that were loaded.
Whole(streams, from) ==
  Gridded(streams) /\ Gridded(from) /\ DOMAIN from = DOMAIN streams

\* The streams that have been stretched: those of former calls, and those of the one
\* that runs.
Stretching(c, done) ==
  done \cup (IF c.op = "write_jpeg" /\ c.at > 2 THEN 1 .. c.n ELSE {})

\* A stream as it was loaded, or stretched.
Was(from, k, done) == IF k \in done THEN Stretched(from[k]) ELSE from[k]

\* In a picture of even sizes, a stream is as it was, or shifted once.
Turned(streams, from, odd, done) ==
  Even(sizes) => \A k \in DOMAIN streams :
                   streams[k] = IF k \in odd THEN Shifted(sizes, Was(from, k, done))
                                ELSE Was(from, k, done)

\* The channels of a plain file are in the streams, and their mean.
Own(from, streams) ==
  from.kind = "plain" =>
    \A k \in DOMAIN streams :
      IF k \in DOMAIN from.channels THEN streams[k] = from.channels[k]
      ELSE streams[k] = [x \in Pixels |-> Mean([c \in DOMAIN from.channels |->
                                               from.channels[c][x]])]

\* A writer writes streams that there are.
Fits(c, streams) == c.op \in Writers => c.n <= Len(streams)

PictureInv ==
  /\ Holds(file)
  /\ Whole(picture, loaded)
  /\ Turned(picture, loaded, turned, Stretching(call, scaled))
  /\ Own(source, loaded)
  /\ Fits(call, picture)

\* The sizes stay, so that what holds of the new values holds in the next state.
LEMMA PictureNext ==
  ASSUME sizes' = sizes,
         Holds(file'), Whole(picture', loaded'),
         Turned(picture', loaded', turned', Stretching(call', scaled')),
         Own(source', loaded'), Fits(call', picture')
  PROVE  PictureInv'
<1>1. Pixels' = Pixels
  BY DEF Pixels
<1>2. Holds(file)'
  BY <1>1 DEF Holds, Gridded, Laid, Planar, Interleaved
<1>3. Whole(picture, loaded)'
  BY <1>1 DEF Whole, Gridded
<1>4. Turned(picture, loaded, turned, Stretching(call, scaled))'
  BY <1>1 DEF Turned, Stretching, Was, Stretched
<1>5. Own(source, loaded)'
  BY <1>1 DEF Own, Mean, Sample
<1>6. Fits(call, picture)'
  BY <1>1 DEF Fits
<1> QED BY <1>2, <1>3, <1>4, <1>5, <1>6 DEF PictureInv

LEMMA EmptyGridded == Gridded(<<>>)
<1>1. <<>> = [k \in 1 .. 0 |-> [x \in Pixels |-> <<>>[k][x]]]
  OBVIOUS
<1> QED BY <1>1 DEF Gridded

LEMMA TornHolds ==
  ASSUME sizes \in AllSizes, NEW format
  PROVE  Holds(Torn(format))
<1> DEFINE f == Torn(format)
<1>1. f.channels = <<>> /\ f.data = <<>> /\ f.kind = "plain"
  BY DEF Torn
<1>2. Laid(f.format, <<>>) = <<>>
  <2>1. Product(sizes) \in Nat
    BY SizesAre
  <2>2. Len(<<>>) = 0 /\ 0 * Product(sizes) = 0 /\ 0 .. 0 - 1 = {}
    BY <2>1
  <2> QED BY <2>2 DEF Laid, Planar, Interleaved
<1> QED BY <1>1, <1>2, EmptyGridded DEF Holds

LEMMA ForeignHolds ==
  ASSUME NEW format, NEW n \in Nat, NEW kind
  PROVE  Holds(Foreign(format, n, kind))
<1> DEFINE channels == [c \in 1 .. n |-> [x \in Pixels |-> Sample([channel |-> c, pixel |-> x])]]
           f == Foreign(format, n, kind)
<1>1. f.channels = channels /\ f.format = format /\ f.kind = kind
      /\ (kind # "opacity" => f.data = Laid(format, channels))
  BY DEF Foreign
<1>2. Gridded(channels)
  BY DEF Gridded
<1> QED BY <1>1, <1>2 DEF Holds

LEMMA WrittenHolds ==
  ASSUME NEW format, NEW n \in Nat
  PROVE  Holds(Written(format, n))
<1> DEFINE channels == [k \in 1 .. n |-> Stretched(picture[k])]
           f == Written(format, n)
<1>1. Gridded(channels)
  BY DEF Gridded, Stretched
<1>2. f.channels = channels /\ f.format = format /\ f.data = Laid(format, channels)
  BY DEF Written
<1> QED BY <1>1, <1>2 DEF Holds

\* Stretching twice is stretching once.
LEMMA StretchedTwice ==
  ASSUME NEW buf
  PROVE  Stretched(Stretched(buf)) = Stretched(buf)
<1>1. \A v : Stretch(Stretch(v)) = Stretch(v)
  BY DEF Stretch
<1>2. \A x \in Pixels : Stretched(buf)[x] = Stretch(buf[x])
  BY DEF Stretched
<1>3. Stretched(Stretched(buf)) = [x \in Pixels |-> Stretch(Stretched(buf)[x])]
  BY Zenon DEF Stretched
<1>4. \A x \in Pixels : Stretch(Stretched(buf)[x]) = Stretch(buf[x])
  BY <1>1, <1>2
<1>5. Stretched(Stretched(buf)) = [x \in Pixels |-> Stretch(buf[x])]
  BY <1>3, <1>4
<1> QED BY <1>5, Zenon DEF Stretched

\* In a picture of even sizes, a stream may be stretched before or after it is
\* shifted.
LEMMA StretchedShift ==
  ASSUME sizes \in AllSizes, Even(sizes), NEW buf
  PROVE  Stretched(Shifted(sizes, buf)) = Shifted(sizes, Stretched(buf))
<1> DEFINE opp(x) == Opposite(sizes, x)
<1>1. sizes \in [1 .. 2 -> Nat \ {0}] /\ Pixels = Indices(sizes)
  BY SizesAre DEF Pixels
<1>2. \A x \in Pixels : opp(x) \in Pixels
  BY <1>1, OppositeIs
<1>3. /\ Shifted(sizes, buf) = [x \in Pixels |-> buf[opp(x)]]
      /\ Shifted(sizes, Stretched(buf)) = [x \in Pixels |-> Stretched(buf)[opp(x)]]
  BY <1>1, ShiftedIs
<1> HIDE DEF opp
<1>4. \A x \in Pixels : Stretched(buf)[opp(x)] = Stretch(buf[opp(x)])
  BY <1>2 DEF Stretched
<1>5. Shifted(sizes, Stretched(buf)) = [x \in Pixels |-> Stretch(buf[opp(x)])]
  BY <1>3, <1>4
<1>6. \A x \in Pixels : Stretch(Shifted(sizes, buf)[x]) = Stretch(buf[opp(x)])
  BY <1>3
<1>7. Stretched(Shifted(sizes, buf)) = [x \in Pixels |-> Stretch(Shifted(sizes, buf)[x])]
  BY Zenon DEF Stretched
<1>8. Stretched(Shifted(sizes, buf)) = [x \in Pixels |-> Stretch(buf[opp(x)])]
  BY <1>6, <1>7
<1> QED BY <1>5, <1>8

\* A stream that is shifted twice is as it was.
LEMMA ShiftedTwice ==
  ASSUME sizes \in AllSizes, Even(sizes), NEW buf, buf = [x \in Pixels |-> buf[x]]
  PROVE  Shifted(sizes, Shifted(sizes, buf)) = buf
<1> DEFINE once == Shifted(sizes, buf)
<1>1. sizes \in [1 .. 2 -> Nat \ {0}] /\ Pixels = Indices(sizes)
  BY SizesAre DEF Pixels
<1>2. once = [x \in Pixels |-> buf[Opposite(sizes, x)]]
  BY <1>1, ShiftedIs
<1>3. Shifted(sizes, once) = [x \in Pixels |-> once[Opposite(sizes, x)]]
  BY <1>1, ShiftedIs
<1>4. \A x \in Pixels : /\ Opposite(sizes, x) \in Pixels
                        /\ Opposite(sizes, Opposite(sizes, x)) = x
  BY <1>1, OppositeIs, OppositeBack
<1> HIDE DEF once
<1>5. \A x \in Pixels : once[Opposite(sizes, x)] = buf[x]
  BY <1>2, <1>4
<1>6. Shifted(sizes, once) = [x \in Pixels |-> buf[x]]
  BY <1>3, <1>5
<1> QED BY <1>6 DEF once

\* A stream that is shifted has the same samples.
LEMMA ShiftedSamples ==
  ASSUME sizes \in AllSizes, Even(sizes), NEW buf
  PROVE  {Shifted(sizes, buf)[x] : x \in Pixels} = {buf[x] : x \in Pixels}
<1> DEFINE once == Shifted(sizes, buf)
<1>1. sizes \in [1 .. 2 -> Nat \ {0}] /\ Pixels = Indices(sizes)
  BY SizesAre DEF Pixels
<1>2. once = [x \in Pixels |-> buf[Opposite(sizes, x)]]
  BY <1>1, ShiftedIs
<1>3. \A x \in Pixels : /\ Opposite(sizes, x) \in Pixels
                        /\ Opposite(sizes, Opposite(sizes, x)) = x
  BY <1>1, OppositeIs, OppositeBack
<1> HIDE DEF once
<1>4. \A x \in Pixels : once[x] = buf[Opposite(sizes, x)] /\ once[Opposite(sizes, x)] = buf[x]
  BY <1>2, <1>3
<1> QED BY <1>3, <1>4 DEF once

LEMMA ShiftPicture ==
  ASSUME CallInv, PictureInv, NEW k \in DOMAIN picture, Shift(k)
  PROVE  PictureInv'
<1>1. /\ sizes' = sizes /\ file' = file /\ call' = call /\ loaded' = loaded /\ source' = source
      /\ scaled' = scaled
      /\ picture' = [picture EXCEPT ![k] = Shifted(sizes, picture[k])]
      /\ turned' = IF k \in turned THEN turned \ {k} ELSE turned \cup {k}
      /\ call = Idle
  BY DEF Shift
<1>2. sizes \in AllSizes /\ sizes \in [1 .. 2 -> Nat \ {0}] /\ Pixels = Indices(sizes)
  BY SizesAre DEF CallInv, KindsInv, Pixels
<1> DEFINE n == Len(picture)
<1>3. /\ n \in Nat /\ DOMAIN picture = 1 .. n /\ DOMAIN loaded = 1 .. n
      /\ \A j \in 1 .. n : picture[j] = [x \in Pixels |-> picture[j][x]]
      /\ \A j \in 1 .. n : loaded[j] = [x \in Pixels |-> loaded[j][x]]
  <2>1. Gridded(picture) /\ Gridded(loaded) /\ DOMAIN loaded = DOMAIN picture
    BY DEF PictureInv, Whole
  <2>2. n \in Nat /\ DOMAIN picture = 1 .. n
        /\ \A j \in 1 .. n : picture[j] = [x \in Pixels |-> picture[j][x]]
    BY <2>1, GriddedIs
  <2>3. \A j \in DOMAIN loaded : loaded[j] = [x \in Pixels |-> loaded[j][x]]
    BY <2>1, GriddedIs
  <2> QED BY <2>1, <2>2, <2>3
<1> HIDE DEF n
<1>4. picture = [j \in 1 .. n |-> picture[j]]
  <2>1. PICK m \in Nat : picture = [j \in 1 .. m |-> [x \in Pixels |-> picture[j][x]]]
    BY DEF PictureInv, Whole, Gridded
  <2> QED BY <1>3, <2>1
<1>5. picture' = [j \in 1 .. n |-> IF j = k THEN Shifted(sizes, picture[k]) ELSE picture[j]]
  BY <1>1, <1>3, <1>4
<1>6. Shifted(sizes, picture[k]) = [x \in Pixels |-> Shifted(sizes, picture[k])[x]]
  BY <1>2, ShiftedKind
<1>7. Gridded(picture')
  <2>1. \A j \in 1 .. n : picture'[j] = [x \in Pixels |-> picture'[j][x]]
    BY <1>3, <1>5, <1>6
  <2>2. picture' = [j \in 1 .. n |-> [x \in Pixels |-> picture'[j][x]]]
    BY <1>5, <2>1
  <2> QED BY <1>3, <2>2 DEF Gridded
<1>8. Whole(picture', loaded')
  BY <1>1, <1>3, <1>5, <1>7 DEF PictureInv, Whole
<1>9. Turned(picture', loaded', turned', Stretching(call', scaled'))
  <2> DEFINE done == Stretching(call, scaled)
             was(j) == Was(loaded, j, done)
  <2>0. Stretching(call', scaled') = done
    BY <1>1 DEF Stretching
  <2> SUFFICES ASSUME Even(sizes), NEW j \in 1 .. n
               PROVE  picture'[j] = IF j \in turned' THEN Shifted(sizes, was(j)) ELSE was(j)
    BY <1>1, <1>5, <2>0, Zenon DEF Turned
  <2>1. picture[j] = IF j \in turned THEN Shifted(sizes, was(j)) ELSE was(j)
    BY <1>3 DEF PictureInv, Turned
  <2>5. was(j) = [x \in Pixels |-> was(j)[x]]
    BY <1>3 DEF Was, Stretched
  <2> HIDE DEF done, was
  <2>2. CASE j # k
    BY <1>1, <1>5, <2>1, <2>2
  <2>3. CASE j = k /\ j \in turned
    <3>1. Shifted(sizes, Shifted(sizes, was(j))) = was(j)
      BY <1>2, <2>5, ShiftedTwice
    <3> QED BY <1>1, <1>5, <2>1, <2>3, <3>1
  <2>4. CASE j = k /\ j \notin turned
    BY <1>1, <1>5, <2>1, <2>4
  <2> QED BY <2>2, <2>3, <2>4
<1>10. Holds(file') /\ Own(source', loaded')
  BY <1>1 DEF PictureInv
<1>11. Fits(call', picture')
  <2>1. Idle.op = "none" /\ "none" \notin Writers
    BY DEF Idle, Writers
  <2> QED BY <1>1, <2>1 DEF Fits
<1> QED BY <1>1, <1>8, <1>9, <1>10, <1>11, PictureNext

LEMMA DeliverPicture ==
  ASSUME CallInv, PictureInv, Deliver
  PROVE  PictureInv'
<1>1. /\ sizes' = sizes /\ file' = file /\ call' = Idle /\ picture' = Read(file)
      /\ loaded' = Read(file) /\ source' = file /\ turned' = {} /\ scaled' = {}
  BY DEF Deliver
<1>2. sizes \in AllSizes /\ Holds(file)
  BY DEF CallInv, KindsInv, PictureInv
<1> DEFINE cs == file.channels
           n == Len(cs)
           sample(k, x) == IF k <= n THEN cs[k][x] ELSE Mean([c \in 1 .. n |-> cs[c][x]])
<1>3. Gridded(Read(file)) /\ n \in Nat
  BY <1>2, ReadIs
<1>4. file.kind = "plain" => Read(file) = [k \in 1 .. n + 1 |-> [x \in Pixels |-> sample(k, x)]]
  BY <1>2, ReadIs
<1>5. DOMAIN cs = 1 .. n /\ \A k \in 1 .. n : cs[k] = [x \in Pixels |-> cs[k][x]]
  BY <1>2, GriddedIs DEF Holds
<1>6. Own(file, Read(file))
  <2> SUFFICES ASSUME file.kind = "plain", NEW k \in DOMAIN Read(file)
               PROVE  IF k \in DOMAIN cs THEN Read(file)[k] = cs[k]
                      ELSE Read(file)[k] = [x \in Pixels |-> Mean([c \in DOMAIN cs |-> cs[c][x]])]
    BY DEF Own
  <2>1. k \in 1 .. n + 1 /\ Read(file)[k] = [x \in Pixels |-> sample(k, x)]
    BY <1>4
  <2>2. CASE k \in 1 .. n
    <3>1. Read(file)[k] = [x \in Pixels |-> cs[k][x]]
      BY <1>3, <2>1, <2>2
    <3> QED BY <1>5, <2>2, <3>1
  <2>3. CASE k \notin 1 .. n
    <3>1. ~(k <= n)
      BY <1>3, <2>1, <2>3
    <3>2. Read(file)[k] = [x \in Pixels |-> Mean([c \in 1 .. n |-> cs[c][x]])]
      BY <2>1, <3>1
    <3> QED BY <1>5, <2>3, <3>2
  <2> QED BY <2>2, <2>3
<1>7. Whole(picture', loaded')
  BY <1>1, <1>3 DEF Whole
<1>8. Stretching(call', scaled') = {}
  BY <1>1 DEF Stretching, Idle
<1>9. Turned(picture', loaded', turned', Stretching(call', scaled'))
  BY <1>1, <1>8 DEF Turned, Was
<1>10. Fits(call', picture')
  <2>1. Idle.op = "none" /\ "none" \notin Writers
    BY DEF Idle, Writers
  <2> QED BY <1>1, <2>1 DEF Fits
<1> QED BY <1>1, <1>2, <1>6, <1>7, <1>9, <1>10, PictureNext

LEMMA InitPicture == Init => PictureInv
<1> SUFFICES ASSUME Init PROVE PictureInv
  OBVIOUS
<1>1. /\ sizes \in AllSizes /\ file = Torn("none") /\ picture = <<>> /\ loaded = <<>>
      /\ call = Idle
  BY DEF Init
<1>2. Holds(file)
  BY <1>1, TornHolds
<1>3. Whole(picture, loaded) /\ Own(source, loaded)
  BY <1>1, EmptyGridded DEF Whole, Own
<1>4. Turned(picture, loaded, turned, Stretching(call, scaled))
  BY <1>1 DEF Turned
<1>5. Fits(call, picture)
  BY <1>1 DEF Fits, Idle, Writers
<1> QED BY <1>2, <1>3, <1>4, <1>5 DEF PictureInv

\* Steps that leave the streams alone.
LEMMA StreamsKept ==
  ASSUME PictureInv, UNCHANGED <<sizes, picture, loaded, source, turned>>,
         Stretching(call', scaled') = Stretching(call, scaled),
         Holds(file'), Fits(call', picture)
  PROVE  PictureInv'
<1>1. /\ sizes' = sizes /\ picture' = picture /\ loaded' = loaded
      /\ source' = source /\ turned' = turned
  OBVIOUS
<1>2. /\ Whole(picture', loaded')
      /\ Turned(picture', loaded', turned', Stretching(call', scaled'))
      /\ Own(source', loaded') /\ Fits(call', picture')
  BY <1>1, Zenon DEF PictureInv
<1> QED BY <1>1, <1>2, PictureNext

\* The step that stretches the streams that dsp_file_write_jpeg was given.
LEMMA RescalePicture ==
  ASSUME CallInv, PictureInv, Succeed, Now.rescales
  PROVE  PictureInv'
<1>1. /\ sizes' = sizes /\ loaded' = loaded /\ source' = source /\ turned' = turned
      /\ scaled' = scaled /\ call' = [call EXCEPT !.at = call.at + 1]
      /\ picture' = [k \in DOMAIN picture |->
                       IF k <= call.n THEN Stretched(picture[k]) ELSE picture[k]]
      /\ file' = IF Opens THEN Torn(FormatOf(call.op)) ELSE file
      /\ Running /\ ~Over
  BY DEF Succeed
<1>2. /\ sizes \in AllSizes /\ call \in [op : Operations, at : Nat, n : 0 .. 3, ok : BOOLEAN]
  BY DEF CallInv, KindsInv
<1>3. call.op = "write_jpeg" /\ call.at = 2
  <2>1. call.op \in Readers \cup Writers /\ call.at \in 1 .. Len(Program(call.op))
    BY <1>1, StepInHand DEF Running
  <2>2. call.op = "write_jpeg"
    BY <2>1, OnCopies DEF Now
  <2> QED BY <2>1, <2>2, InPlace DEF Now
<1>4. call'.op = "write_jpeg" /\ call'.at = 3 /\ call'.n = call.n
  BY <1>1, <1>2, <1>3
<1> DEFINE n == Len(picture)
           now == Stretching(call', scaled')
<1>5. /\ n \in Nat /\ DOMAIN picture = 1 .. n /\ DOMAIN loaded = 1 .. n
      /\ \A j \in 1 .. n : picture[j] = [x \in Pixels |-> picture[j][x]]
  <2>1. Gridded(picture) /\ DOMAIN loaded = DOMAIN picture
    BY DEF PictureInv, Whole
  <2> QED BY <2>1, GriddedIs
<1>6. Stretching(call, scaled) = scaled /\ now = scaled \cup 1 .. call.n
  BY <1>1, <1>3, <1>4 DEF Stretching
<1> HIDE DEF n, now
<1>7. picture' = [j \in 1 .. n |-> IF j <= call.n THEN Stretched(picture[j]) ELSE picture[j]]
  BY <1>1, <1>5
<1>8. Gridded(picture')
  <2>1. \A j \in 1 .. n : picture'[j] = [x \in Pixels |-> picture'[j][x]]
    BY <1>5, <1>7 DEF Stretched
  <2>2. picture' = [j \in 1 .. n |-> [x \in Pixels |-> picture'[j][x]]]
    BY <1>7, <2>1
  <2> QED BY <1>5, <2>2 DEF Gridded
<1>9. Whole(picture', loaded')
  BY <1>1, <1>5, <1>7, <1>8 DEF PictureInv, Whole
<1>10. Turned(picture', loaded', turned', now)
  <2> DEFINE was(j) == Was(loaded, j, scaled)
  <2> SUFFICES ASSUME Even(sizes), NEW j \in 1 .. n
               PROVE  picture'[j] = IF j \in turned THEN Shifted(sizes, Was(loaded, j, now))
                                    ELSE Was(loaded, j, now)
    BY <1>1, <1>7, Zenon DEF Turned
  <2>1. picture[j] = IF j \in turned THEN Shifted(sizes, was(j)) ELSE was(j)
    BY <1>5, <1>6 DEF PictureInv, Turned
  <2>2. CASE j <= call.n
    <3>1. Was(loaded, j, now) = Stretched(loaded[j]) /\ picture'[j] = Stretched(picture[j])
      BY <1>2, <1>6, <1>7, <2>2 DEF Was
    <3>2. Stretched(was(j)) = Stretched(loaded[j])
      BY StretchedTwice DEF Was
    <3> HIDE DEF was
    <3>3. Stretched(Shifted(sizes, was(j))) = Shifted(sizes, Stretched(was(j)))
      BY <1>2, StretchedShift
    <3> QED BY <2>1, <3>1, <3>2, <3>3
  <2>3. CASE ~(j <= call.n)
    <3>1. Was(loaded, j, now) = was(j) /\ picture'[j] = picture[j]
      BY <1>2, <1>6, <1>7, <2>3 DEF Was
    <3> QED BY <2>1, <3>1
  <2> QED BY <2>2, <2>3
<1>11. Holds(file') /\ Own(source', loaded')
  BY <1>1, <1>2, TornHolds DEF PictureInv
<1>12. Fits(call', picture')
  <2>1. call.n <= n
    BY <1>3 DEF PictureInv, Fits, Writers, n
  <2>2. Len(picture') = n
    BY <1>5, <1>7, <1>8, GriddedIs
  <2> QED BY <1>4, <2>1, <2>2 DEF Fits
<1> QED BY <1>1, <1>9, <1>10, <1>11, <1>12, PictureNext DEF now

LEMMA NextPicture == CallInv /\ PictureInv /\ [Next]_vars => PictureInv'
<1> SUFFICES ASSUME CallInv, PictureInv, [Next]_vars PROVE PictureInv'
  OBVIOUS
<1>1. /\ sizes \in AllSizes /\ call \in [op : Operations, at : Nat, n : 0 .. 3, ok : BOOLEAN]
      /\ call.op \in Writers => call.n >= 1
  BY DEF CallInv, KindsInv
<1>2. Holds(file) /\ Fits(call, picture)
  BY DEF PictureInv
<1>3. Fits(Idle, picture)
  BY DEF Fits, Idle, Writers
<1>4. ASSUME UNCHANGED <<sizes, file, picture, loaded, source, turned>>, Fits(call', picture),
             Stretching(call', scaled') = Stretching(call, scaled)
      PROVE  PictureInv'
  BY <1>2, <1>4, StreamsKept
<1>5. ASSUME NEW format \in Formats, NEW n \in {1, MaxColours}, NEW kind \in Kinds,
             Arrive(format, n, kind)
      PROVE  PictureInv'
  <2>1. n \in Nat
    BY PictureAssumption
  <2>2. Holds(file')
    BY <1>5, <2>1, ForeignHolds DEF Arrive
  <2>3. Fits(call', picture) /\ Stretching(call', scaled') = Stretching(call, scaled)
    BY <1>2, <1>5 DEF Arrive
  <2> QED BY <1>5, <2>2, <2>3, StreamsKept DEF Arrive
<1>6. ASSUME NEW k \in DOMAIN picture, Shift(k)
      PROVE  PictureInv'
  BY <1>6, ShiftPicture
<1>7. ASSUME NEW op \in Readers, BeginRead(op)
      PROVE  PictureInv'
  <2>1. Fits(call', picture)
    BY <1>7 DEF BeginRead, Begin, Fits, Readers, Writers
  <2>2. Stretching(call', scaled') = Stretching(call, scaled)
    BY <1>7 DEF BeginRead, Begin, Stretching, Idle
  <2> QED BY <1>4, <1>7, <2>1, <2>2 DEF BeginRead, Begin
<1>8. ASSUME NEW op \in Writers, NEW n \in {1, MaxColours}, BeginWrite(op, n)
      PROVE  PictureInv'
  <2>1. call'.n <= Len(picture)
    <3>1. Len(picture) \in Nat /\ n \in Nat
      BY PictureAssumption, GriddedIs DEF PictureInv, Whole
    <3> QED BY <1>8, <3>1 DEF BeginWrite, Begin, Writers
  <2>2. Stretching(call', scaled') = Stretching(call, scaled)
    BY <1>8 DEF BeginWrite, Begin, Stretching, Idle
  <2> QED BY <1>4, <1>8, <2>1, <2>2 DEF BeginWrite, Begin, Fits
<1>9. CASE Succeed
  <2>1. CASE Now.rescales
    BY <1>9, <2>1, RescalePicture
  <2>2. CASE ~Now.rescales
    <3>1. Holds(file')
      BY <1>1, <1>2, <1>9, TornHolds DEF Succeed
    <3>2. /\ call'.op = call.op /\ call'.n = call.n /\ call'.at = call.at + 1 /\ scaled' = scaled
          /\ picture' = picture
      BY <1>1, <1>9, <2>2 DEF Succeed
    <3>3. call.op = "write_jpeg" => call.at # 2
      BY <1>9, <2>2, InPlace DEF Now
    <3>4. Stretching(call', scaled') = Stretching(call, scaled)
      BY <1>1, <3>2, <3>3 DEF Stretching
    <3>5. Fits(call', picture)
      BY <1>2, <3>2 DEF Fits
    <3> QED BY <1>9, <3>1, <3>2, <3>4, <3>5, StreamsKept DEF Succeed
  <2> QED BY <2>1, <2>2
<1>10. CASE Fail
  <2>1. Holds(file')
    BY <1>1, <1>2, <1>10, TornHolds DEF Fail
  <2>2. /\ call'.op = call.op /\ call'.n = call.n /\ call'.at = Now.fails /\ scaled' = scaled
    BY <1>1, <1>10 DEF Fail
  <2>3. Fits(call', picture)
    BY <1>2, <2>2 DEF Fits
  <2>4. call.op = "write_jpeg" => call.at > 2 /\ Now.fails > 2
    <3> SUFFICES ASSUME call.op = "write_jpeg" PROVE call.at > 2 /\ Now.fails > 2
      OBVIOUS
    <3>1. call.at \in 1 .. 9 /\ Now = WriteJpeg[call.at] /\ Now.fails # 0
      BY <1>10, InPlace, StepInHand DEF Fail, Now
    <3>2. Now.fails = Return
      BY <3>1, InPlace
    <3>3. call.at # 1 /\ call.at # 2
      BY <3>1, TakeIs, RescaleIs DEF WriteJpeg
    <3> QED BY <3>1, <3>2, <3>3 DEF Return
  <2>5. Stretching(call', scaled') = Stretching(call, scaled)
    BY <2>2, <2>4 DEF Stretching
  <2> QED BY <1>10, <2>1, <2>3, <2>5, StreamsKept DEF Fail
<1>11. CASE Deliver
  BY <1>11, DeliverPicture
<1>12. ASSUME call.at > Len(Program(call.op)), call' = Idle, scaled' = scaled \cup Jpeged
       PROVE  Stretching(call', scaled') = Stretching(call, scaled)
  <2>1. call.op = "write_jpeg" => call.at > 2
    <3> SUFFICES ASSUME call.op = "write_jpeg" PROVE call.at > 2
      OBVIOUS
    <3>1. Len(Program(call.op)) = 9
      BY InPlace
    <3>2. call.at > 9
      BY <1>12, <3>1, Zenon
    <3>3. call.at \in Nat
      BY <1>1
    <3> QED BY <3>2, <3>3
  <2>2. Idle.op # "write_jpeg"
    BY DEF Idle
  <2> QED BY <1>12, <2>1, <2>2 DEF Stretching, Jpeged
<1>13. CASE Complete
  <2>1. Holds(file')
    <3>1. /\ Holds(Foreign("jpeg", 3, "plain"))
          /\ Holds(Written(FormatOf(call.op), call.n))
      BY <1>1, ForeignHolds, WrittenHolds
    <3> QED BY <1>13, <3>1 DEF Complete
  <2> QED BY <1>3, <1>12, <1>13, <2>1, StreamsKept DEF Complete, Over
<1>14. CASE GiveUp
  BY <1>3, <1>4, <1>12, <1>14 DEF GiveUp, Over
<1>15. ASSUME call.op \notin Writers, call'.op \notin Writers,
              UNCHANGED <<sizes, file, picture, loaded, source, turned, scaled>>
       PROVE  PictureInv'
  <2>1. Fits(call', picture)
    BY <1>15 DEF Fits
  <2>2. Stretching(call', scaled') = Stretching(call, scaled)
    BY <1>15 DEF Stretching, Writers
  <2> QED BY <1>4, <1>15, <2>1, <2>2
<1>16. Idle.op \notin Writers /\ Mosaics \cap Writers = {}
  BY DEF Idle, Mosaics, Writers
<1>17. ASSUME NEW op \in Mosaics, NEW r \in 0 .. 3, BeginMosaic(op, r)
       PROVE  PictureInv'
  BY <1>15, <1>16, <1>17 DEF BeginMosaic
<1>18. CASE NextSite
  <2>1. call'.op = call.op
    BY <1>1, <1>18 DEF NextSite
  <2> QED BY <1>15, <1>16, <1>18, <2>1 DEF NextSite
<1>19. CASE EndMosaic
  BY <1>15, <1>16, <1>19 DEF EndMosaic
<1>20. CASE UNCHANGED vars
  BY <1>2, <1>4, <1>20 DEF vars
<1> QED BY <1>5, <1>6, <1>7, <1>8, <1>9, <1>10, <1>11, <1>13, <1>14, <1>17, <1>18, <1>19, <1>20
      DEF Next

\* What the file has in its data, and the caller in the streams.
THEOREM PicturesConsistent == Spec => []PictureInv
<1> QED BY InitPicture, NextPicture, CallsConsistent, PTL DEF Spec

\* A picture that was loaded has each channel of the file in a stream of its own, and
\* their mean in the last.
THEOREM ChannelsOwn == Spec => []OwnStream
<1>1. PictureInv => OwnStream
  BY DEF PictureInv, Own, OwnStream
<1> QED BY <1>1, PicturesConsistent, PTL

\* Shifting loses no sample of a picture of even sizes, and shifting again restores
\* it, however often it is written in between.
THEOREM ShiftsBack == Spec => []ShiftedBack
<1>1. CallInv /\ PictureInv => ShiftedBack
  <2> DEFINE was(k) == Was(loaded, k, scaled)
  <2> SUFFICES ASSUME CallInv, PictureInv, Even(sizes), call.op # "write_jpeg",
                      NEW k \in DOMAIN picture
               PROVE  IF k \in turned THEN {picture[k][x] : x \in Pixels} = {was(k)[x] : x \in Pixels}
                      ELSE picture[k] = was(k)
    BY DEF ShiftedBack, Was
  <2>1. Stretching(call, scaled) = scaled
    BY DEF Stretching
  <2>2. picture[k] = IF k \in turned THEN Shifted(sizes, was(k)) ELSE was(k)
    BY <2>1 DEF PictureInv, Turned
  <2> HIDE DEF was
  <2>3. {Shifted(sizes, was(k))[x] : x \in Pixels} = {was(k)[x] : x \in Pixels}
    BY ShiftedSamples DEF CallInv, KindsInv
  <2> QED BY <2>2, <2>3
<1> QED BY <1>1, CallsConsistent, PicturesConsistent, PTL

-------------------------------------------------------------------------------
(* The mosaics.                                                              *)

\* Each pixel that the loop has passed has its colours at its own place.
Passed(done, op, r, elements) ==
  \A i \in Pixels : i < done =>
    LET sites == Sites(sizes[1], sizes[2], r, i)
        place == Place(op, i)
    IN  /\ elements[place.red] = sites.red
        /\ elements[place.green] = sites.green
        /\ elements[place.blue] = sites.blue

MosaicInv ==
  call.op \in Mosaics =>
    /\ DOMAIN result = 0 .. 3 * Product(sizes)
    /\ Passed(call.at, call.op, call.n, result)

\* The places are elements, three for each pixel, which no two pixels share.
LEMMA PlacesApart ==
  ASSUME sizes \in AllSizes, NEW op \in Mosaics, NEW i \in Pixels
  PROVE  LET place(j) == Place(op, j)
         IN  /\ {place(i).red, place(i).green, place(i).blue} \subseteq 0 .. 3 * Product(sizes)
             /\ place(i).red # place(i).green /\ place(i).red # place(i).blue
             /\ place(i).green # place(i).blue
             /\ \A k \in Pixels : k # i =>
                  {place(i).red, place(i).green, place(i).blue}
                    \cap {place(k).red, place(k).green, place(k).blue} = {}
<1> DEFINE p == Product(sizes)
<1>1. p \in Nat \ {0} /\ Pixels = 0 .. p - 1
  BY SizesAre
<1> HIDE DEF p
<1>2. CASE op = "bayer_2_rgb"
  <2>1. \A k \in Pixels : Place(op, k) = Colours(3 * k + 1, 3 * k + 2, 3 * k + 3)
    BY <1>2 DEF Place
  <2>2. \A k \in Pixels : /\ Place(op, k).red = 3 * k + 1
                         /\ Place(op, k).green = 3 * k + 2
                         /\ Place(op, k).blue = 3 * k + 3
    BY <2>1 DEF Colours
  <2> QED BY <1>1, <2>2 DEF p
<1>3. CASE op # "bayer_2_rgb"
  <2>1. \A k \in Pixels : Place(op, k) = Colours(2 * p + k, p + k, k)
    BY <1>3 DEF Place, p
  <2>2. \A k \in Pixels : /\ Place(op, k).red = 2 * p + k
                         /\ Place(op, k).green = p + k
                         /\ Place(op, k).blue = k
    BY <2>1 DEF Colours
  <2> QED BY <1>1, <2>2 DEF p
<1> QED BY <1>2, <1>3

LEMMA NextMosaic == CallInv /\ MosaicInv /\ [Next]_vars => MosaicInv'
<1> SUFFICES ASSUME CallInv, MosaicInv, [Next]_vars, call'.op \in Mosaics
             PROVE  /\ DOMAIN result' = 0 .. 3 * Product(sizes')
                    /\ Passed(call.at, call.op, call.n, result)'
  BY DEF MosaicInv
<1>1. /\ sizes \in AllSizes /\ call \in [op : Operations, at : Nat, n : 0 .. 3, ok : BOOLEAN]
  BY DEF CallInv, KindsInv
<1> DEFINE p == Product(sizes)
<1>2. p \in Nat \ {0} /\ Pixels = 0 .. p - 1
  BY <1>1, SizesAre
<1>3. ASSUME UNCHANGED <<sizes, call, result>>
      PROVE  /\ DOMAIN result' = 0 .. 3 * Product(sizes')
             /\ Passed(call.at, call.op, call.n, result)'
  BY <1>3 DEF MosaicInv, Passed, Pixels, Place
<1>4. ASSUME NEW op \in Mosaics, NEW r \in 0 .. 3, BeginMosaic(op, r)
      PROVE  /\ DOMAIN result' = 0 .. 3 * Product(sizes')
             /\ Passed(call.at, call.op, call.n, result)'
  <2>1. sizes' = sizes /\ call'.at = 0 /\ DOMAIN result' = 0 .. 3 * p
    BY <1>4 DEF BeginMosaic
  <2>2. Pixels' = Pixels /\ \A i \in Pixels : ~(i < 0)
    BY <1>2, <2>1 DEF Pixels
  <2> QED BY <2>1, <2>2 DEF Passed
<1>5. CASE NextSite
  <2> DEFINE at == call.at
             sites == Sites(sizes[1], sizes[2], call.n, at)
             place(i) == Place(call.op, i)
  <2>1. /\ sizes' = sizes /\ at \in Pixels /\ call.op \in Mosaics
        /\ call' = [call EXCEPT !.at = at + 1]
    BY <1>5 DEF NextSite
  <2>2. call'.op = call.op /\ call'.at = at + 1 /\ call'.n = call.n
    BY <1>1, <2>1
  <2>3. result' = [result EXCEPT ![place(at).red] = sites.red, ![place(at).green] = sites.green,
                                 ![place(at).blue] = sites.blue]
    BY <1>5 DEF NextSite
  <2>4. DOMAIN result = 0 .. 3 * p /\ Passed(at, call.op, call.n, result)
    BY <2>1 DEF MosaicInv
  <2>5. DOMAIN result' = 0 .. 3 * p
    BY <2>3, <2>4
  <2>6. \A i \in Pixels :
          /\ {place(i).red, place(i).green, place(i).blue} \subseteq DOMAIN result
          /\ place(i).red # place(i).green /\ place(i).red # place(i).blue
          /\ place(i).green # place(i).blue
          /\ \A k \in Pixels : k # i =>
               {place(i).red, place(i).green, place(i).blue}
                 \cap {place(k).red, place(k).green, place(k).blue} = {}
    BY <1>1, <2>1, <2>4, PlacesApart
  <2>7. ASSUME NEW i \in Pixels, i < at + 1
        PROVE  LET its == Sites(sizes[1], sizes[2], call.n, i)
               IN  /\ result'[place(i).red] = its.red
                   /\ result'[place(i).green] = its.green
                   /\ result'[place(i).blue] = its.blue
    <3> HIDE DEF p, place
    <3>1. CASE i = at
      <4> HIDE DEF sites
      <4>1. result'[place(at).red] = sites.red /\ result'[place(at).green] = sites.green
            /\ result'[place(at).blue] = sites.blue
        BY <2>1, <2>3, <2>6
      <4> QED BY <3>1, <4>1 DEF sites
    <3>2. CASE i # at
      <4>1. i < at
        BY <1>2, <2>1, <2>7, <3>2 DEF p
      <4> HIDE DEF sites
      <4>2. /\ place(i).red \in DOMAIN result /\ place(i).green \in DOMAIN result
            /\ place(i).blue \in DOMAIN result
            /\ {place(i).red, place(i).green, place(i).blue}
                 \cap {place(at).red, place(at).green, place(at).blue} = {}
        BY <2>1, <2>6, <3>2
      <4>3. result'[place(i).red] = result[place(i).red]
            /\ result'[place(i).green] = result[place(i).green]
            /\ result'[place(i).blue] = result[place(i).blue]
        BY <2>3, <4>2
      <4> QED BY <2>4, <4>1, <4>3 DEF Passed, place
    <3> QED BY <3>1, <3>2
  <2>8. Pixels' = Pixels /\ \A i : Place(call.op, i)' = place(i)
    BY <2>1, <2>2 DEF Pixels, Place
  <2>9. Passed(call.at, call.op, call.n, result)'
    BY <2>1, <2>2, <2>7, <2>8 DEF Passed
  <2> QED BY <2>1, <2>5, <2>9
<1>6. ASSUME NEW op \in Readers \cup Writers, NEW n, Begin(op, n)
      PROVE  FALSE
  BY <1>6 DEF Begin, Readers, Writers, Mosaics
<1>7. ASSUME Running, call'.op = call.op
      PROVE  FALSE
  BY <1>7 DEF Running, Readers, Writers, Mosaics
<1>8. ASSUME call' = Idle
      PROVE  FALSE
  BY <1>8 DEF Idle, Mosaics
<1>9. CASE \/ \E format \in Formats, n \in {1, MaxColours}, kind \in Kinds : Arrive(format, n, kind)
           \/ \E k \in DOMAIN picture : Shift(k)
           \/ UNCHANGED vars
  BY <1>3, <1>9 DEF Arrive, Shift, vars
<1>10. CASE \/ \E op \in Readers : BeginRead(op)
            \/ \E op \in Writers, n \in {1, MaxColours} : BeginWrite(op, n)
  BY <1>6, <1>10 DEF BeginRead, BeginWrite
<1>11. CASE Succeed \/ Fail
  BY <1>1, <1>7, <1>11 DEF Succeed, Fail
<1>12. CASE Deliver \/ Complete \/ GiveUp \/ EndMosaic
  BY <1>8, <1>12 DEF Deliver, Complete, GiveUp, EndMosaic
<1> QED BY <1>4, <1>5, <1>9, <1>10, <1>11, <1>12 DEF Next

\* What the loop has written is at the places of the pixels it has passed.
THEOREM MosaicsConsistent == Spec => []MosaicInv
<1>1. Init => MosaicInv
  BY DEF Init, Idle, MosaicInv, Mosaics
<1> QED BY <1>1, NextMosaic, CallsConsistent, PTL DEF Spec

\* The colours of each pixel that has been passed are at its own place, and come from
\* sites of these colours next to it.
THEOREM MosaicDrawn == Spec => []DrawnFromOwn
<1>1. CallInv /\ MosaicInv => DrawnFromOwn
  <2> DEFINE w == sizes[1]
             h == sizes[2]
             r == call.n
  <2> SUFFICES ASSUME CallInv, MosaicInv, call.op \in Mosaics, NEW i \in Drawn
               PROVE  DrawnOf(i, Place(call.op, i))
    BY DEF DrawnFromOwn
  <2> DEFINE sites == Sites(w, h, r, i)
             edge == i % w \in {0, w - 1} \/ i \div w \in {0, h - 1}
  <2>1. i \in Pixels /\ i < call.at /\ Even(sizes) /\ (r = 0 \/ ~edge)
    BY DEF Drawn
  <2>2. /\ w \in Nat \ {0} /\ h \in Nat \ {0} /\ w % 2 = 0 /\ h % 2 = 0
        /\ Pixels = 0 .. w * h - 1
    <3>1. sizes \in AllSizes
      BY DEF CallInv, KindsInv
    <3>2. sizes \in [1 .. 2 -> Nat \ {0}] /\ Pixels = 0 .. w * h - 1
      BY <3>1, SizesAre
    <3> QED BY <2>1, <3>2 DEF Even
  <2>3. r \in 0 .. 3
    BY DEF CallInv, KindsInv
  <2>4. /\ \A j \in sites.red : TakenFor(w, h, r, i, j, "R")
        /\ \A j \in sites.green : TakenFor(w, h, r, i, j, "GR") \/ TakenFor(w, h, r, i, j, "GB")
        /\ \A j \in sites.blue : TakenFor(w, h, r, i, j, "B")
    <3>1. i \in 0 .. w * h - 1
      BY <2>1, <2>2
    <3> HIDE DEF w, h, r
    <3> QED BY <2>1, <2>2, <2>3, <3>1, SitesOwn
  <2>5. /\ result[Place(call.op, i).red] = sites.red
        /\ result[Place(call.op, i).green] = sites.green
        /\ result[Place(call.op, i).blue] = sites.blue
    BY <2>1 DEF MosaicInv, Passed
  <2>6. sites.red # {} /\ sites.green # {} /\ sites.blue # {}
    BY SitesThere
  <2>7. \A j : Near(i, j) <=>
               j \in Pixels /\ (j % w) - (i % w) \in -1 .. 1
               /\ (j \div w) - (i \div w) \in -1 .. 1
    BY DEF Near
  <2> HIDE DEF sites
  <2> QED BY <2>2, <2>4, <2>5, <2>6, <2>7 DEF DrawnOf, TakenFor
<1> QED BY <1>1, CallsConsistent, MosaicsConsistent, PTL
===============================================================================

---------------------------- MODULE NodeContextProofs ----------------------------
(* Theorems of NodeContext, for any number of nodes, names and orders.       *)
EXTENDS NodeContext, CollectionProofs, FiniteSetTheorems

-------------------------------------------------------------------------------
(* The arithmetic of BaselineCollection::update.                             *)

\* Quotient and remainder are the only ones.
LEMMA Division ==
  ASSUME NEW n \in Nat \ {0}, NEW e \in Nat, NEW a \in 0 .. n - 1
  PROVE  (e * n + a) \div n = e /\ (e * n + a) % n = a
OBVIOUS

\* Every natural number has them.
LEMMA Quotient ==
  ASSUME NEW n \in Nat \ {0}, NEW i \in Nat
  PROVE  /\ i \div n \in Nat /\ i % n \in 0 .. n - 1
         /\ i = (i \div n) * n + (i % n)
<1>1. i % n \in 0 .. n - 1
  OBVIOUS
<1>2. PICK q \in Int : q = i \div n
  OBVIOUS
<1>3. PICK r \in Int : r = i % n
  OBVIOUS
<1>4. i = q * n + r
  BY <1>2, <1>3
<1>5. \A k \in Int : k < 0 => k * n <= -n
  OBVIOUS
<1>6. q \in Nat
  BY <1>1, <1>3, <1>4, <1>5
<1> QED BY <1>1, <1>2, <1>3, <1>4, <1>6, Zenon

\* Any node index is one of a node.
LEMMA IndexInRange ==
  ASSUME NEW n \in Nat \ {0}, NEW i \in Nat, NEW o \in Nat
  PROVE  NodeIndex(n, i, o) \in 0 .. n - 1
<1>1. i \div n + 1 \in Nat
  BY Quotient
<1>2. i + o * (i \div n + 1) \in Nat
  BY <1>1
<1> QED BY <1>2, Quotient DEF NodeIndex

\* Baseline e * n + a joins node a with the node e + 1 places further.
LEMMA LapIndex ==
  ASSUME NEW n \in Nat \ {0}, NEW e \in Nat, NEW a \in 0 .. n - 1, e + 1 < n
  PROVE  /\ NodeIndex(n, e * n + a, 0) = a
         /\ NodeIndex(n, e * n + a, 1) =
              IF a + e + 1 < n THEN a + e + 1 ELSE a + e + 1 - n
<1>1. (e * n + a) \div n = e /\ (e * n + a) % n = a
  BY Division
<1>2. e * n + a \in Nat
  OBVIOUS
<1>3. NodeIndex(n, e * n + a, 0) = a
  BY <1>1, <1>2 DEF NodeIndex
<1>4. NodeIndex(n, e * n + a, 1) = (e * n + a + (e + 1)) % n
  BY <1>1, <1>2 DEF NodeIndex
<1>5. CASE a + e + 1 < n
  <2>1. a + e + 1 \in 0 .. n - 1 /\ e * n + a + (e + 1) = e * n + (a + e + 1)
    BY <1>5, <1>2
  <2>2. (e * n + (a + e + 1)) % n = a + e + 1
    BY <2>1, Division
  <2> QED BY <1>3, <1>4, <1>5, <2>1, <2>2
<1>6. CASE ~(a + e + 1 < n)
  <2>1. a + e + 1 - n \in 0 .. n - 1
    BY <1>6
  <2>2. e * n + a + (e + 1) = (e + 1) * n + (a + e + 1 - n)
    OBVIOUS
  <2>3. ((e + 1) * n + (a + e + 1 - n)) % n = a + e + 1 - n
    BY <2>1, Division
  <2> QED BY <1>3, <1>4, <1>6, <2>2, <2>3
<1> QED BY <1>5, <1>6

\* Lap e goes on to node a as long as the distance e + 1 is at most half the
\* circle, and only half way round when it is exactly half.
InLap(n, e, a) == 2 * (e + 1) < n \/ (2 * (e + 1) = n /\ 2 * a < n)

LEMMA LapEnds ==
  ASSUME NEW n \in Nat \ {0}, NEW e \in Nat, NEW a \in 0 .. n - 1
  PROVE  e * n + a < BaselineCount(n) <=> InLap(n, e, a)
<1> DEFINE twice == n * (n - 1)
<1>1. PICK c \in Nat : c = BaselineCount(n) /\ 2 * c <= twice /\ twice < 2 * c + 2
  <2>1. twice \in Nat
    OBVIOUS
  <2> HIDE DEF twice
  <2>2. twice \div 2 \in Nat /\ 2 * (twice \div 2) <= twice
        /\ twice < 2 * (twice \div 2) + 2
    BY <2>1
  <2> QED BY <2>2 DEF BaselineCount, twice
<1>2. PICK p \in Nat : p = e * n
  OBVIOUS
<1>3. p + a < c <=> 2 * p + 2 * a + 2 <= twice
  <2>1. twice \in Nat
    OBVIOUS
  <2> HIDE DEF twice
  <2> QED BY <1>1, <2>1
<1>4. twice = n * n - n
  OBVIOUS
<1>5. CASE 2 * (e + 1) < n
  <2>1. 2 * e + 3 <= n
    BY <1>5
  <2>2. \A x, y \in Int : x <= y => x * n <= y * n
    OBVIOUS
  <2>3. (2 * e + 3) * n <= n * n
    BY <2>1, <2>2
  <2>4. 2 * p + 3 * n <= n * n
    BY <1>2, <2>3
  <2>5. p + a < c
    BY <1>3, <1>4, <2>4
  <2> QED BY <1>1, <1>2, <1>5, <2>5 DEF InLap
<1>6. CASE 2 * (e + 1) = n
  <2>1. 2 * p = n * n - 2 * n
    BY <1>2, <1>6
  <2>2. p + a < c <=> 2 * a + 2 <= n
    BY <1>3, <1>4, <2>1
  <2>3. 2 * a + 2 <= n <=> 2 * a < n
    BY <1>6
  <2> QED BY <1>1, <1>2, <1>6, <2>2, <2>3 DEF InLap
<1>7. CASE 2 * (e + 1) > n
  <2>1. 2 * e >= n - 1
    BY <1>7
  <2>2. \A x, y \in Int : x <= y => x * n <= y * n
    OBVIOUS
  <2>3. (n - 1) * n <= (2 * e) * n
    BY <2>1, <2>2
  <2>4. n * n - n <= 2 * p
    BY <1>2, <2>3
  <2>5. ~(p + a < c)
    BY <1>3, <1>4, <2>4
  <2> QED BY <1>1, <1>2, <1>7, <2>5 DEF InLap
<1> QED BY <1>5, <1>6, <1>7

\* The first two nodes of baseline i.
FirstIndex(n, i)  == NodeIndex(n, i, 0)
SecondIndex(n, i) == NodeIndex(n, i, 1)

PairIs(n, i, p, q) ==
  \/ FirstIndex(n, i) = p /\ SecondIndex(n, i) = q
  \/ FirstIndex(n, i) = q /\ SecondIndex(n, i) = p

\* The baseline update makes for the nodes p < q.
PairBaseline(n, p, q) ==
  IF 2 * (q - p) <= n THEN (q - p - 1) * n + p ELSE (n - (q - p) - 1) * n + q

\* update makes a baseline of every two nodes, whatever their number.
THEOREM EveryPairMade ==
  ASSUME NEW n \in Nat \ {0}, NEW q \in 0 .. n - 1, NEW p \in 0 .. q - 1
  PROVE  /\ PairBaseline(n, p, q) \in 0 .. BaselineCount(n) - 1
         /\ PairIs(n, PairBaseline(n, p, q), p, q)
<1> USE DEF PairIs, FirstIndex, SecondIndex
<1>1. BaselineCount(n) \in Int
  BY DEF BaselineCount
<1>2. CASE 2 * (q - p) <= n
  <2> DEFINE e == q - p - 1
  <2>1. e \in Nat /\ p \in 0 .. n - 1 /\ e + 1 < n /\ p + e + 1 = q /\ q < n
    OBVIOUS
  <2>2. 2 * (e + 1) = n => 2 * p < n
    OBVIOUS
  <2>3. 2 * (e + 1) <= n
    BY <1>2
  <2>4. PairBaseline(n, p, q) = e * n + p
    BY <1>2 DEF PairBaseline
  <2> HIDE DEF e
  <2>5. InLap(n, e, p)
    BY <2>1, <2>2, <2>3 DEF InLap
  <2>6. e * n + p < BaselineCount(n)
    BY <2>1, <2>5, LapEnds
  <2>7. e * n + p \in Nat
    BY <2>1
  <2>8. NodeIndex(n, e * n + p, 0) = p /\ NodeIndex(n, e * n + p, 1) = q
    BY <2>1, LapIndex
  <2>9. e * n + p \in 0 .. BaselineCount(n) - 1
    BY <1>1, <2>6, <2>7
  <2> QED BY <2>4, <2>8, <2>9
<1>3. CASE ~(2 * (q - p) <= n)
  <2> DEFINE e == n - (q - p) - 1
  <2>1. e \in Nat /\ e + 1 < n /\ ~(q + e + 1 < n) /\ q + e + 1 - n = p
    OBVIOUS
  <2>2. 2 * (e + 1) < n
    BY <1>3
  <2>3. PairBaseline(n, p, q) = e * n + q
    BY <1>3 DEF PairBaseline
  <2> HIDE DEF e
  <2>4. InLap(n, e, q)
    BY <2>2 DEF InLap
  <2>5. e * n + q < BaselineCount(n)
    BY <2>1, <2>4, LapEnds
  <2>6. e * n + q \in Nat
    BY <2>1
  <2>7. NodeIndex(n, e * n + q, 0) = q /\ NodeIndex(n, e * n + q, 1) = p
    BY <2>1, LapIndex
  <2>8. e * n + q \in 0 .. BaselineCount(n) - 1
    BY <1>1, <2>5, <2>6
  <2> QED BY <2>3, <2>7, <2>8
<1> QED BY <1>2, <1>3

\* update makes no second baseline of two nodes.
THEOREM NoPairTwice ==
  ASSUME NEW n \in Nat \ {0}, NEW i \in 0 .. BaselineCount(n) - 1,
         NEW q \in 0 .. n - 1, NEW p \in 0 .. q - 1, PairIs(n, i, p, q)
  PROVE  i = PairBaseline(n, p, q)
<1>1. BaselineCount(n) \in Int
  BY DEF BaselineCount
<1>2. PICK e \in Nat, a \in 0 .. n - 1 : i = e * n + a
  <2>1. i \in Nat
    BY <1>1
  <2>2. i \div n \in Nat /\ i % n \in 0 .. n - 1 /\ i = (i \div n) * n + (i % n)
    BY <2>1, Quotient
  <2> QED BY <2>2, Zenon
<1>3. i < BaselineCount(n)
  BY <1>1
<1>4. InLap(n, e, a)
  BY <1>2, <1>3, LapEnds
<1>5. e + 1 < n
  BY <1>4 DEF InLap
<1>6. /\ FirstIndex(n, i) = a
      /\ SecondIndex(n, i) = IF a + e + 1 < n THEN a + e + 1 ELSE a + e + 1 - n
  BY <1>2, <1>5, LapIndex DEF FirstIndex, SecondIndex
<1>7. CASE a = p
  <2>1. q = a + e + 1
    BY <1>5, <1>6, <1>7 DEF PairIs
  <2>2. 2 * (q - p) <= n /\ e = q - p - 1
    BY <1>4, <1>7, <2>1 DEF InLap
  <2> QED BY <1>2, <1>7, <2>2 DEF PairBaseline
<1>8. CASE a = q
  <2>1. p = a + e + 1 - n
    BY <1>5, <1>6, <1>8 DEF PairIs
  <2>2. ~(2 * (q - p) <= n) /\ e = n - (q - p) - 1
    BY <1>4, <1>8, <2>1 DEF InLap
  <2> QED BY <1>2, <1>8, <2>2 DEF PairBaseline
<1> QED BY <1>6, <1>7, <1>8 DEF PairIs

\* update joins no node with itself.
THEOREM NoSelfPair ==
  ASSUME NEW n \in Nat \ {0}, NEW i \in 0 .. BaselineCount(n) - 1
  PROVE  FirstIndex(n, i) # SecondIndex(n, i)
<1>1. BaselineCount(n) \in Int
  BY DEF BaselineCount
<1>2. PICK e \in Nat, a \in 0 .. n - 1 : i = e * n + a
  <2>1. i \in Nat
    BY <1>1
  <2>2. i \div n \in Nat /\ i % n \in 0 .. n - 1 /\ i = (i \div n) * n + (i % n)
    BY <2>1, Quotient
  <2> QED BY <2>2, Zenon
<1>3. i < BaselineCount(n)
  BY <1>1
<1>4. InLap(n, e, a)
  BY <1>2, <1>3, LapEnds
<1>5. e + 1 < n
  BY <1>4 DEF InLap
<1>6. /\ FirstIndex(n, i) = a
      /\ SecondIndex(n, i) = IF a + e + 1 < n THEN a + e + 1 ELSE a + e + 1 - n
  BY <1>2, <1>5, LapIndex DEF FirstIndex, SecondIndex
<1> QED BY <1>5, <1>6

-------------------------------------------------------------------------------
(* What a rebuild makes.                                                     *)

LEMMA EffectiveBounds ==
  ASSUME NEW o \in Int, NEW n \in Nat
  PROVE  /\ Effective(o, n) \in Int
         /\ Effective(o, n) >= o
         /\ n >= 2 => Effective(o, n) >= 2
BY DEF Effective, Larger, Smaller

LEMMA CorrelatedSeq ==
  ASSUME NEW ns \in Seq(Node), Len(ns) >= 2, NEW i \in Nat, NEW k \in Nat
  PROVE  /\ Correlated(ns, i, k) \in Seq(Node)
         /\ Len(Correlated(ns, i, k)) = k
<1> DEFINE n == Len(ns)
<1>1. n \in Nat \ {0}
  OBVIOUS
<1>2. \A o \in 1 .. k : NodeIndex(n, i, o - 1) \in 0 .. n - 1
  <2>1. \A o \in 1 .. k : o - 1 \in Nat
    OBVIOUS
  <2> HIDE DEF n
  <2> QED BY <1>1, <2>1, IndexInRange
<1>3. \A o \in 1 .. k : ns[NodeIndex(n, i, o - 1) + 1] \in Node
  BY <1>2
<1> QED BY <1>3 DEF Correlated

LEMMA RebuiltSeq ==
  ASSUME NEW ns \in Seq(Node), Len(ns) >= 2, NEW k \in Nat, brelative \in BOOLEAN
  PROVE  /\ Rebuilt(ns, k) \in Seq(Baseline)
         /\ Len(Rebuilt(ns, k)) = BaselineCount(Len(ns))
         /\ \A i \in DOMAIN Rebuilt(ns, k) :
              /\ Rebuilt(ns, k)[i].nodes = Correlated(ns, i - 1, k)
              /\ Len(Rebuilt(ns, k)[i].nodes) = k
              /\ Rebuilt(ns, k)[i].relative = brelative
<1> DEFINE c == BaselineCount(Len(ns))
           B(i) == [nodes |-> Correlated(ns, i - 1, k), locked |-> FALSE,
                    relative |-> brelative]
<1>1. c \in Nat
  BY DEF BaselineCount
<1>2. \A i \in 1 .. c : i - 1 \in Nat
  OBVIOUS
<1>3. Rebuilt(ns, k) = [i \in 1 .. c |-> B(i)]
  BY DEF Rebuilt
<1> HIDE DEF c
<1>4. \A i \in 1 .. c : /\ Correlated(ns, i - 1, k) \in Seq(Node)
                        /\ Len(Correlated(ns, i - 1, k)) = k
  BY <1>2, CorrelatedSeq
<1>5. \A i \in 1 .. c : /\ B(i) \in Baseline
                        /\ B(i).nodes = Correlated(ns, i - 1, k)
                        /\ B(i).relative = brelative
  BY <1>4 DEF Baseline
<1> HIDE DEF B
<1>6. /\ [i \in 1 .. c |-> B(i)] \in Seq(Baseline)
      /\ Len([i \in 1 .. c |-> B(i)]) = c
      /\ DOMAIN [i \in 1 .. c |-> B(i)] = 1 .. c
      /\ \A i \in 1 .. c : [j \in 1 .. c |-> B(j)][i] = B(i)
  BY <1>1, <1>5
<1> QED BY <1>3, <1>4, <1>5, <1>6 DEF c

-------------------------------------------------------------------------------
(* The inductive invariant.                                                  *)

\* What setCorrelationOrder leaves, whatever the nodes have become.
LEMMA OrderStep ==
  ASSUME IInv, NEW ns \in Seq(Node), NEW o \in Int, SetOrderOf(ns, o), nodes' = ns,
         UNCHANGED <<relative, brelative>>
  PROVE  /\ order' \in Int /\ border' \in Int /\ baselines' \in Seq(Baseline)
         /\ OrdersAgree' /\ Fresh' /\ Roomy' /\ RelativeKept'
<1> DEFINE n == Len(ns)
           k == Effective(o, n)
<1>1. n \in Nat /\ k \in Int /\ (n >= 2 => k >= 2)
  <2>1. n \in Nat
    OBVIOUS
  <2> HIDE DEF n
  <2> QED BY <2>1, EffectiveBounds
<1>2. /\ border \in Int /\ baselines \in Seq(Baseline) /\ brelative \in BOOLEAN
      /\ Roomy /\ RelativeKept /\ (relative => brelative)
  BY DEF IInv, TypeOK
<1>3. order' = k
  BY DEF SetOrderOf
<1>4. Len(nodes') = n
  OBVIOUS
<1>5. CASE n < k
  <2>1. border' = border /\ baselines' = baselines
    BY <1>5 DEF SetOrderOf
  <2>2. Roomy' /\ RelativeKept'
    BY <1>2, <2>1 DEF Roomy, RelativeKept
  <2> HIDE DEF n, k
  <2>3. OrdersAgree' /\ Fresh'
    BY <1>1, <1>3, <1>4, <1>5 DEF OrdersAgree, Fresh, Enough
  <2> QED BY <1>1, <1>2, <1>3, <2>1, <2>2, <2>3
<1>6. CASE n >= k /\ n < 2
  <2>1. border' = k /\ baselines' = baselines
    BY <1>1, <1>6 DEF SetOrderOf, SetBaselineOrder
  <2> HIDE DEF n, k
  <2>2. OrdersAgree' /\ Fresh'
    BY <1>1, <1>3, <1>4, <1>6, <2>1 DEF OrdersAgree, Fresh, Enough
  <2>3. \A i \in DOMAIN baselines : Len(baselines[i].nodes) >= 2
    <3> TAKE i \in DOMAIN baselines
    <3>1. Len(baselines[i].nodes) >= Larger(2, border)
      BY <1>2 DEF Roomy
    <3>2. Len(baselines[i].nodes) \in Nat
      BY <1>2 DEF Baseline
    <3> QED BY <1>2, <3>1, <3>2 DEF Larger
  <2>4. Larger(2, border') = 2
    BY <1>1, <1>6, <2>1 DEF Larger
  <2>5. Roomy' /\ RelativeKept'
    BY <1>2, <2>1, <2>3, <2>4 DEF Roomy, RelativeKept
  <2> QED BY <1>1, <1>2, <1>3, <2>1, <2>2, <2>5
<1>7. CASE n >= k /\ n >= 2
  <2>1. border' = k /\ baselines' = Rebuilt(ns, k)
    BY <1>1, <1>7 DEF SetOrderOf, SetBaselineOrder
  <2>2. k \in Nat /\ k >= 2
    BY <1>1, <1>7
  <2>3. /\ baselines' \in Seq(Baseline)
        /\ Len(baselines') = BaselineCount(n)
        /\ \A i \in DOMAIN baselines' :
             /\ baselines'[i].nodes = Correlated(ns, i - 1, k)
             /\ Len(baselines'[i].nodes) = k
             /\ baselines'[i].relative = brelative
    BY <1>2, <1>7, <2>1, <2>2, RebuiltSeq
  <2> HIDE DEF k
  <2>4. OrdersAgree'
    BY <1>3, <2>1 DEF OrdersAgree
  <2>5. Fresh'
    BY <1>3, <2>2, <2>3 DEF Fresh
  <2>6. Larger(2, k) = k
    BY <2>2 DEF Larger
  <2>7. Roomy'
    BY <2>1, <2>2, <2>3, <2>6 DEF Roomy
  <2>8. RelativeKept'
    BY <1>2, <2>3 DEF RelativeKept
  <2> QED BY <1>1, <1>3, <2>1, <2>3, <2>4, <2>5, <2>7, <2>8
<1> QED BY <1>1, <1>5, <1>6, <1>7

LEMMA InitIInv == Init => IInv
<1> SUFFICES ASSUME Init PROVE IInv
  OBVIOUS
<1>1. made \in 0 .. MaxNodes
  BY ContextAssumption DEF Init
<1>2. nodes \in Seq(Node) /\ baselines \in Seq(Baseline)
  BY DEF Init
<1>3. UniqueNames(nodes)
  BY DEF Init, UniqueNames
<1>4. promised \in SUBSET SUBSET Nat
  BY DEF Init
<1>5. TypeOK
  <2>1. relative \in BOOLEAN /\ brelative \in BOOLEAN
    BY Zenon DEF Init
  <2>2. order \in Int /\ border \in Int
    BY DEF Init
  <2> QED BY <1>1, <1>2, <1>3, <1>4, <2>1, <2>2, Zenon DEF TypeOK
<1> QED
  BY <1>5 DEF Init, IInv, OrdersAgree, Fresh, Enough, Roomy, RelativeKept

\* vlbi_add_node, vlbi_copy_node and the filters.
LEMMA JoinStep ==
  ASSUME IInv, NEW name \in Names, Join(New(name))
  PROVE  IInv'
<1> DEFINE node == New(name)
           ns == Add(nodes, node)
<1>1. /\ nodes \in Seq(Node) /\ UniqueNames(nodes) /\ order \in Int
      /\ made \in Nat /\ relative \in BOOLEAN /\ brelative \in BOOLEAN
      /\ promised \in SUBSET SUBSET Nat
  BY DEF IInv, TypeOK
<1>2. node \in Node
  BY <1>1 DEF New, Node
<1>3. /\ nodes' = ns /\ SetOrderOf(ns, order) /\ made' \in 0 .. MaxNodes
      /\ UNCHANGED <<relative, brelative, promised>>
  BY <1>1, ContextAssumption DEF Join
<1> HIDE DEF node
<1>4. ns \in Seq(Node) /\ UniqueNames(ns)
  BY <1>1, <1>2, AddSeq, AddUnique
<1> HIDE DEF ns
<1>5. /\ order' \in Int /\ border' \in Int /\ baselines' \in Seq(Baseline)
      /\ OrdersAgree' /\ Fresh' /\ Roomy' /\ RelativeKept'
  BY <1>1, <1>3, <1>4, OrderStep
<1>6. TypeOK'
  BY <1>1, <1>3, <1>4, <1>5 DEF TypeOK
<1>7. relative' => brelative'
  BY <1>3 DEF IInv
<1> QED BY <1>5, <1>6, <1>7 DEF IInv

\* vlbi_del_node
LEMMA DelNodeStep ==
  ASSUME IInv, NEW name \in Names, DelNode(name)
  PROVE  IInv'
<1> DEFINE ns == Remove(nodes, name)
<1>1. /\ nodes \in Seq(Node) /\ UniqueNames(nodes) /\ order \in Int
      /\ made \in 0 .. MaxNodes /\ relative \in BOOLEAN /\ brelative \in BOOLEAN
      /\ promised \in SUBSET SUBSET Nat
  BY DEF IInv, TypeOK
<1>2. /\ Contains(nodes, name) /\ nodes' = ns /\ SetOrderOf(ns, order)
      /\ promised' \in SUBSET promised
      /\ UNCHANGED <<relative, brelative, made>>
  BY DEF DelNode
<1>3. ns \in Seq(Node) /\ UniqueNames(ns)
  BY <1>1, <1>2, RemoveSeq, RemoveUnique
<1> HIDE DEF ns
<1>4. /\ order' \in Int /\ border' \in Int /\ baselines' \in Seq(Baseline)
      /\ OrdersAgree' /\ Fresh' /\ Roomy' /\ RelativeKept'
  BY <1>1, <1>2, <1>3, OrderStep
<1>5. promised' \in SUBSET SUBSET Nat
  BY <1>1, <1>2
<1>6. TypeOK'
  BY <1>1, <1>2, <1>3, <1>4, <1>5 DEF TypeOK
<1>7. relative' => brelative'
  BY <1>2 DEF IInv
<1> QED BY <1>4, <1>6, <1>7 DEF IInv

\* vlbi_set_correlation_order
LEMMA SetCorrelationOrderStep ==
  ASSUME IInv, NEW o \in Orders, SetCorrelationOrder(o)
  PROVE  IInv'
<1>1. /\ nodes \in Seq(Node) /\ UniqueNames(nodes)
      /\ made \in 0 .. MaxNodes /\ relative \in BOOLEAN /\ brelative \in BOOLEAN
      /\ promised \in SUBSET SUBSET Nat
  BY DEF IInv, TypeOK
<1>2. /\ nodes' = nodes /\ SetOrderOf(nodes, o)
      /\ UNCHANGED <<relative, brelative, made, promised>>
  BY DEF SetCorrelationOrder
<1>3. o \in Int
  BY ContextAssumption
<1>4. /\ order' \in Int /\ border' \in Int /\ baselines' \in Seq(Baseline)
      /\ OrdersAgree' /\ Fresh' /\ Roomy' /\ RelativeKept'
  BY <1>1, <1>2, <1>3, OrderStep
<1>5. TypeOK'
  BY <1>1, <1>2, <1>4 DEF TypeOK
<1>6. relative' => brelative'
  BY <1>2 DEF IInv
<1> QED BY <1>4, <1>5, <1>6 DEF IInv

\* Two sequences of baselines with the same nodes and baselines no less
\* relative keep what is said of the baselines.
LEMMA SameNodes ==
  ASSUME IInv, UNCHANGED <<nodes, order, border>>,
         baselines' \in Seq(Baseline), Len(baselines') = Len(baselines),
         \A i \in DOMAIN baselines : /\ baselines'[i].nodes = baselines[i].nodes
                                     /\ relative' => baselines'[i].relative,
         relative' \in BOOLEAN, brelative' \in BOOLEAN, relative' => brelative',
         made' = made, promised' \in SUBSET SUBSET Nat
  PROVE  IInv'
<1>1. /\ baselines \in Seq(Baseline) /\ Fresh /\ Roomy /\ OrdersAgree
  BY DEF IInv, TypeOK
<1>2. DOMAIN baselines' = DOMAIN baselines
  BY <1>1
<1>3. OrdersAgree'
  BY <1>1 DEF OrdersAgree
<1>4. Fresh'
  BY <1>1, <1>2 DEF Fresh, Enough
<1>5. Roomy'
  BY <1>1, <1>2 DEF Roomy
<1>6. RelativeKept'
  BY <1>2 DEF RelativeKept
<1>7. TypeOK'
  BY DEF IInv, TypeOK
<1> QED BY <1>3, <1>4, <1>5, <1>6, <1>7 DEF IInv

\* vlbi_set_location
LEMMA SetLocationStep ==
  ASSUME IInv, SetLocation
  PROVE  IInv'
<1> DEFINE B(i) == [baselines[i] EXCEPT !.relative = TRUE]
<1>1. /\ baselines \in Seq(Baseline) /\ promised \in SUBSET SUBSET Nat
  BY DEF IInv, TypeOK
<1>2. /\ relative' = TRUE /\ brelative' = TRUE
      /\ baselines' = [i \in DOMAIN baselines |-> B(i)]
      /\ UNCHANGED <<nodes, order, border, made, promised>>
  BY DEF SetLocation
<1>3. \A i \in DOMAIN baselines :
        B(i) \in Baseline /\ B(i).nodes = baselines[i].nodes /\ B(i).relative = TRUE
  <2> TAKE i \in DOMAIN baselines
  <2>1. baselines[i] \in Baseline
    BY <1>1
  <2> QED BY <2>1 DEF Baseline
<1> HIDE DEF B
<1>4. /\ baselines' \in Seq(Baseline) /\ Len(baselines') = Len(baselines)
      /\ \A i \in DOMAIN baselines : baselines'[i] = B(i)
  BY <1>1, <1>2, <1>3
<1> QED BY <1>1, <1>2, <1>3, <1>4, SameNodes

\* Locking and unlocking a baseline.
LEMMA LockedStep ==
  ASSUME IInv, NEW i \in DOMAIN baselines, NEW lock \in BOOLEAN,
         baselines' = [baselines EXCEPT ![i].locked = lock],
         UNCHANGED <<nodes, order, relative, border, brelative, made>>,
         promised' \in SUBSET SUBSET Nat
  PROVE  IInv'
<1> DEFINE b == [baselines[i] EXCEPT !.locked = lock]
<1>1. /\ baselines \in Seq(Baseline) /\ relative \in BOOLEAN /\ brelative \in BOOLEAN
      /\ RelativeKept /\ (relative => brelative)
  BY DEF IInv, TypeOK
<1>2. /\ b \in Baseline /\ b.nodes = baselines[i].nodes
      /\ b.relative = baselines[i].relative
  <2>1. baselines[i] \in Baseline
    BY <1>1
  <2> QED BY <2>1 DEF Baseline
<1>3. baselines' = [baselines EXCEPT ![i] = b]
  OBVIOUS
<1> HIDE DEF b
<1>4. /\ baselines' \in Seq(Baseline) /\ Len(baselines') = Len(baselines)
      /\ \A h \in DOMAIN baselines : baselines'[h] = IF h = i THEN b ELSE baselines[h]
  BY <1>1, <1>2, <1>3
<1>5. \A h \in DOMAIN baselines : /\ baselines'[h].nodes = baselines[h].nodes
                                  /\ baselines'[h].relative = baselines[h].relative
  BY <1>2, <1>4
<1>6. \A h \in DOMAIN baselines : relative' => baselines'[h].relative
  BY <1>1, <1>5 DEF RelativeKept
<1> QED BY <1>1, <1>4, <1>5, <1>6, SameNodes

LEMMA LockBaselineStep ==
  ASSUME IInv, NEW names, LockBaseline(names)
  PROVE  IInv'
<1>1. PICK i \in DOMAIN baselines :
        /\ baselines' = [baselines EXCEPT ![i].locked = TRUE]
        /\ promised' = promised \cup {Ids(baselines[i].nodes)}
        /\ UNCHANGED <<nodes, order, relative, border, brelative, made>>
  BY DEF LockBaseline
<1>2. baselines \in Seq(Baseline) /\ promised \in SUBSET SUBSET Nat
  BY DEF IInv, TypeOK
<1>3. baselines[i].nodes \in Seq(Node)
  <2>1. baselines[i] \in Baseline
    BY <1>2
  <2> QED BY <2>1 DEF Baseline
<1>4. Ids(baselines[i].nodes) \in SUBSET Nat
  <2>1. \A k \in DOMAIN baselines[i].nodes : baselines[i].nodes[k] \in Node
    BY <1>3
  <2>2. \A node \in Node : node.id \in Nat
    BY DEF Node
  <2> QED BY <2>1, <2>2 DEF Ids
<1>5. promised' \in SUBSET SUBSET Nat
  BY <1>1, <1>2, <1>4
<1> QED BY <1>1, <1>5, LockedStep

LEMMA UnlockBaselineStep ==
  ASSUME IInv, NEW names, UnlockBaseline(names)
  PROVE  IInv'
<1>1. PICK i \in DOMAIN baselines :
        /\ baselines' = [baselines EXCEPT ![i].locked = FALSE]
        /\ promised' = promised \ {Ids(baselines[i].nodes)}
        /\ UNCHANGED <<nodes, order, relative, border, brelative, made>>
  BY DEF UnlockBaseline
<1>2. promised' \in SUBSET SUBSET Nat
  BY <1>1 DEF IInv, TypeOK
<1> QED BY <1>1, <1>2, LockedStep

LEMMA StutterStep == ASSUME IInv, UNCHANGED vars PROVE IInv'
BY DEF IInv, vars, TypeOK, OrdersAgree, Fresh, Enough, Roomy, RelativeKept

LEMMA NextIInv == IInv /\ [Next]_vars => IInv'
<1> SUFFICES ASSUME IInv, [Next]_vars PROVE IInv'
  OBVIOUS
<1>1. ASSUME NEW name \in Names, AddNode(name) PROVE IInv'
  BY <1>1, JoinStep DEF AddNode
<1>2. ASSUME NEW name \in Names, DelNode(name) PROVE IInv'
  BY <1>2, DelNodeStep
<1>3. ASSUME NEW name \in Names, NEW node \in Names, CopyNode(name, node) PROVE IInv'
  BY <1>3, JoinStep DEF CopyNode
<1>4. ASSUME NEW name \in Names, NEW node \in Names, FilterNode(name, node)
      PROVE  IInv'
  BY <1>4, JoinStep DEF FilterNode
<1>5. ASSUME NEW o \in Orders, SetCorrelationOrder(o) PROVE IInv'
  BY <1>5, SetCorrelationOrderStep
<1>6. CASE SetLocation
  BY <1>6, SetLocationStep
<1>7. ASSUME NEW names \in NameLists, LockBaseline(names) PROVE IInv'
  BY <1>7, LockBaselineStep
<1>8. ASSUME NEW names \in NameLists, UnlockBaseline(names) PROVE IInv'
  BY <1>8, UnlockBaselineStep
<1>9. CASE UNCHANGED vars
  BY <1>9, StutterStep
<1> QED BY <1>1, <1>2, <1>3, <1>4, <1>5, <1>6, <1>7, <1>8, <1>9 DEF Next

\* The order, the nodes and the baselines of every reachable context agree as
\* IInv says, whatever was called and in which order.
THEOREM ContextConsistent == Spec => []IInv
<1>1. Init => IInv
  BY InitIInv
<1>2. IInv /\ [Next]_vars => IInv'
  BY NextIInv
<1> QED BY <1>1, <1>2, PTL DEF Spec

\* Every variable keeps its type and no two nodes of a context have one name.
THEOREM TypeCorrect == Spec => []TypeOK
BY ContextConsistent, PTL DEF IInv

\* The two copies of the correlation order agree whenever it has an effect.
THEOREM OrdersKept == Spec => []OrdersAgree
BY ContextConsistent, PTL DEF IInv

\* Baselines made after vlbi_set_location are relative to the station.
THEOREM LocationKept == Spec => []RelativeKept
BY ContextConsistent, PTL DEF IInv

\* Looking a baseline up never reads past its array of nodes.
THEOREM NeverOverrun == Spec => []NoOverrun
<1>1. IInv => NoOverrun
  <2> SUFFICES ASSUME IInv, NEW i \in DOMAIN baselines
               PROVE  border <= Len(baselines[i].nodes)
    BY DEF NoOverrun
  <2>1. border \in Int /\ baselines[i] \in Baseline
    BY DEF IInv, TypeOK
  <2>2. Len(baselines[i].nodes) \in Nat
    BY <2>1 DEF Baseline
  <2>3. Len(baselines[i].nodes) >= Larger(2, border)
    BY DEF IInv, Roomy
  <2> QED BY <2>1, <2>2, <2>3 DEF Larger
<1> QED BY <1>1, ContextConsistent, PTL

\* What update made of the nodes there are, read back from Fresh.
LEMMA FreshNodes ==
  ASSUME IInv, Enough, NEW i \in DOMAIN baselines
  PROVE  /\ i - 1 \in 0 .. BaselineCount(Len(nodes)) - 1
         /\ DOMAIN baselines[i].nodes = 1 .. order /\ order >= 2
         /\ \A o \in 1 .. order :
              /\ NodeIndex(Len(nodes), i - 1, o - 1) \in 0 .. Len(nodes) - 1
              /\ baselines[i].nodes[o] = nodes[NodeIndex(Len(nodes), i - 1, o - 1) + 1]
<1>1. /\ nodes \in Seq(Node) /\ order \in Int /\ baselines \in Seq(Baseline)
  BY DEF IInv, TypeOK
<1>2. /\ Len(baselines) = BaselineCount(Len(nodes))
      /\ baselines[i].nodes = Correlated(nodes, i - 1, order)
      /\ order >= 2
  BY DEF IInv, Fresh
<1>3. i \in 1 .. BaselineCount(Len(nodes))
  BY <1>1, <1>2
<1>4. BaselineCount(Len(nodes)) \in Int
  BY <1>1 DEF BaselineCount
<1>5. i - 1 \in 0 .. BaselineCount(Len(nodes)) - 1 /\ i - 1 \in Nat
  BY <1>3, <1>4
<1>6. Len(nodes) \in Nat \ {0}
  BY <1>1 DEF Enough
<1>7. \A o \in 1 .. order : NodeIndex(Len(nodes), i - 1, o - 1) \in 0 .. Len(nodes) - 1
  <2>1. \A o \in 1 .. order : o - 1 \in Nat
    BY <1>1
  <2> QED BY <1>5, <1>6, <2>1, IndexInRange
<1> QED BY <1>2, <1>5, <1>7 DEF Correlated

\* A destroyed node is in no baseline while the nodes suffice for the order.
THEOREM DeletedGone == Spec => []NoDeletedNode
<1>1. IInv => NoDeletedNode
  <2> SUFFICES ASSUME IInv, Enough, NEW i \in DOMAIN baselines,
                      NEW o \in DOMAIN baselines[i].nodes
               PROVE  baselines[i].nodes[o].id \in Ids(nodes)
    BY DEF NoDeletedNode, Ids
  <2> DEFINE at == NodeIndex(Len(nodes), i - 1, o - 1)
  <2>1. at \in 0 .. Len(nodes) - 1 /\ baselines[i].nodes[o] = nodes[at + 1]
    BY FreshNodes
  <2> HIDE DEF at
  <2>2. nodes \in Seq(Node)
    BY DEF IInv, TypeOK
  <2>3. at + 1 \in DOMAIN nodes
    BY <2>1, <2>2
  <2> QED BY <2>1, <2>3 DEF Ids
<1> QED BY <1>1, ContextConsistent, PTL

\* The first two nodes of a baseline of n nodes are its pair.
LEMMA FreshPair ==
  ASSUME IInv, Enough, NEW i \in DOMAIN baselines
  PROVE  /\ i - 1 \in 0 .. BaselineCount(Len(nodes)) - 1
         /\ FirstIndex(Len(nodes), i - 1) \in 0 .. Len(nodes) - 1
         /\ SecondIndex(Len(nodes), i - 1) \in 0 .. Len(nodes) - 1
         /\ baselines[i].nodes[1] = nodes[FirstIndex(Len(nodes), i - 1) + 1]
         /\ baselines[i].nodes[2] = nodes[SecondIndex(Len(nodes), i - 1) + 1]
<1>1. 1 \in 1 .. order /\ 2 \in 1 .. order
  BY FreshNodes DEF IInv, TypeOK
<1>2. 1 - 1 = 0 /\ 2 - 1 = 1
  OBVIOUS
<1> QED BY <1>1, <1>2, FreshNodes DEF FirstIndex, SecondIndex

\* The invariant has every pair in it.
LEMMA FreshPairs == IInv => AllPairs
<1> SUFFICES ASSUME IInv, Enough
             PROVE  AllPairs
  BY DEF AllPairs
<1> DEFINE n == Len(nodes)
           F(i) == FirstIndex(n, i - 1)
           G(i) == SecondIndex(n, i - 1)
<1>1. /\ nodes \in Seq(Node) /\ UniqueNames(nodes) /\ baselines \in Seq(Baseline)
      /\ Len(baselines) = BaselineCount(n)
  BY DEF IInv, TypeOK, Fresh
<1>2. n \in Nat \ {0} /\ DOMAIN nodes = 1 .. n
  BY <1>1 DEF Enough
<1>3. DOMAIN baselines = 1 .. BaselineCount(n) /\ BaselineCount(n) \in Int
  BY <1>1, <1>2 DEF BaselineCount
<1>4. \A a, b \in 0 .. n - 1 : nodes[a + 1] = nodes[b + 1] => a = b
  <2> TAKE a, b \in 0 .. n - 1
  <2>1. a + 1 \in DOMAIN nodes /\ b + 1 \in DOMAIN nodes
    BY <1>2
  <2>2. nodes[a + 1] = nodes[b + 1] => a + 1 = b + 1
    BY <1>1, <2>1 DEF UniqueNames
  <2> QED BY <2>2
<1>5. \A i \in DOMAIN baselines :
        /\ i - 1 \in 0 .. BaselineCount(n) - 1
        /\ F(i) \in 0 .. n - 1 /\ G(i) \in 0 .. n - 1
        /\ baselines[i].nodes[1] = nodes[F(i) + 1]
        /\ baselines[i].nodes[2] = nodes[G(i) + 1]
  BY FreshPair
<1> HIDE DEF n
<1>6. \A i \in DOMAIN baselines : baselines[i].nodes[1] # baselines[i].nodes[2]
  <2> TAKE i \in DOMAIN baselines
  <2>1. F(i) # G(i)
    BY <1>2, <1>5, NoSelfPair
  <2> QED BY <1>4, <1>5, <2>1
<1>7. ASSUME NEW j \in DOMAIN nodes, NEW k \in DOMAIN nodes, j < k
      PROVE  \E i \in DOMAIN baselines :
               /\ Joins(baselines[i], nodes[j], nodes[k])
               /\ \A h \in DOMAIN baselines :
                    Joins(baselines[h], nodes[j], nodes[k]) => h = i
  <2> DEFINE i == PairBaseline(n, j - 1, k - 1) + 1
  <2>1. k - 1 \in 0 .. n - 1 /\ j - 1 \in 0 .. (k - 1) - 1
    BY <1>2, <1>7
  <2>2. /\ PairBaseline(n, j - 1, k - 1) \in 0 .. BaselineCount(n) - 1
        /\ PairIs(n, PairBaseline(n, j - 1, k - 1), j - 1, k - 1)
    BY <1>2, <2>1, EveryPairMade
  <2>3. i \in DOMAIN baselines /\ i - 1 = PairBaseline(n, j - 1, k - 1)
    BY <1>3, <2>2
  <2>4. \/ F(i) = j - 1 /\ G(i) = k - 1
        \/ F(i) = k - 1 /\ G(i) = j - 1
    BY <2>2, <2>3 DEF PairIs
  <2> HIDE DEF i
  <2>5. Joins(baselines[i], nodes[j], nodes[k])
    <3>1. j - 1 + 1 = j /\ k - 1 + 1 = k
      BY <1>2
    <3> QED BY <1>5, <2>3, <2>4, <3>1 DEF Joins
  <2>6. ASSUME NEW h \in DOMAIN baselines, Joins(baselines[h], nodes[j], nodes[k])
        PROVE  h = i
    <3>1. j - 1 + 1 = j /\ k - 1 + 1 = k /\ j - 1 \in 0 .. n - 1 /\ k - 1 \in 0 .. n - 1
      BY <1>2, <2>1
    <3>2. \/ nodes[F(h) + 1] = nodes[j] /\ nodes[G(h) + 1] = nodes[k]
          \/ nodes[F(h) + 1] = nodes[k] /\ nodes[G(h) + 1] = nodes[j]
      BY <1>5, <2>6 DEF Joins
    <3>3. PairIs(n, h - 1, j - 1, k - 1)
      BY <1>4, <1>5, <3>1, <3>2 DEF PairIs
    <3>4. h - 1 \in 0 .. BaselineCount(n) - 1
      BY <1>5
    <3>5. h - 1 = PairBaseline(n, j - 1, k - 1)
      BY <1>2, <2>1, <3>3, <3>4, NoPairTwice
    <3> QED BY <1>3, <2>3, <3>5
  <2> QED BY <2>3, <2>5, <2>6
<1> QED BY <1>6, <1>7 DEF AllPairs

\* With enough nodes the baselines are the pairs of nodes, each once: for any
\* number of nodes, and whatever came before.
THEOREM PairsComplete == Spec => []AllPairs
BY FreshPairs, ContextConsistent, PTL

-------------------------------------------------------------------------------
(* Looking a baseline up.                                                    *)

\* Two different names have two equal places with those of two nodes only if they
\* are those names.
LEMMA PairMatches ==
  ASSUME border = 2, NEW b, NEW p, NEW q, p # q,
         b.nodes[1].name # b.nodes[2].name
  PROVE  Matches(b, <<p, q>>) >= border <=> {b.nodes[1].name, b.nodes[2].name} = {p, q}
<1> DEFINE u == b.nodes[1].name
           v == b.nodes[2].name
           M == {yz \in (1 .. border) \X (1 .. border) :
                   b.nodes[yz[1]].name = <<p, q>>[yz[2]]}
<1>1. \A e : e \in M <=> \/ e = <<1, 1>> /\ u = p
                         \/ e = <<1, 2>> /\ u = q
                         \/ e = <<2, 1>> /\ v = p
                         \/ e = <<2, 2>> /\ v = q
  <2>1. (1 .. border) \X (1 .. border) = {<<1, 1>>, <<1, 2>>, <<2, 1>>, <<2, 2>>}
    OBVIOUS
  <2>2. <<p, q>>[1] = p /\ <<p, q>>[2] = q
    OBVIOUS
  <2> QED BY <2>1, <2>2
<1>2. Matches(b, <<p, q>>) = Cardinality(M)
  BY DEF Matches
<1> HIDE DEF M
<1>3. \A x : IsFiniteSet({x}) /\ Cardinality({x}) = 1
  BY FS_Singleton
<1>4. IsFiniteSet({}) /\ Cardinality({}) = 0
  BY FS_EmptySet
<1>5. \A x, y : x # y => Cardinality({x} \cup {y}) = 2
  <2> TAKE x, y
  <2>1. Cardinality({x} \cup {y}) = IF y \in {x} THEN Cardinality({x}) ELSE Cardinality({x}) + 1
    BY <1>3, FS_AddElement
  <2> QED BY <2>1, <1>3
<1>6. <<1, 1>> # <<2, 2>> /\ <<1, 2>> # <<2, 1>>
  OBVIOUS
<1>7. u # v /\ ({u, v} = {p, q} <=> (u = p /\ v = q) \/ (u = q /\ v = p))
  OBVIOUS
<1> HIDE DEF u, v
<1>8. Matches(b, <<p, q>>) >= border <=> Cardinality(M) >= 2
  BY <1>2
<1>9. (u = p /\ v = q) \/ (u = q /\ v = p) <=> Cardinality(M) >= 2
  <2>1. CASE u = p /\ v = q
    <3>1. M = {<<1, 1>>} \cup {<<2, 2>>}
      BY <1>1, <2>1
    <3>2. Cardinality(M) = 2
      BY <1>5, <1>6, <3>1
    <3> QED BY <2>1, <3>2
  <2>2. CASE u = q /\ v = p
    <3>1. M = {<<1, 2>>} \cup {<<2, 1>>}
      BY <1>1, <2>2
    <3>2. Cardinality(M) = 2
      BY <1>5, <1>6, <3>1
    <3> QED BY <2>2, <3>2
  <2>3. CASE ~(u = p /\ v = q) /\ ~(u = q /\ v = p)
    <3>1. CASE u = p
      <4>1. M = {<<1, 1>>}
        BY <1>1, <1>7, <2>3, <3>1
      <4>2. Cardinality({<<1, 1>>}) = 1
        BY <1>3
      <4> QED BY <2>3, <4>1, <4>2
    <3>2. CASE u = q
      <4>1. M = {<<1, 2>>}
        BY <1>1, <1>7, <2>3, <3>2
      <4>2. Cardinality({<<1, 2>>}) = 1
        BY <1>3
      <4> QED BY <2>3, <4>1, <4>2
    <3>3. CASE u # p /\ u # q /\ v = p
      <4>1. M = {<<2, 1>>}
        BY <1>1, <3>3
      <4>2. Cardinality({<<2, 1>>}) = 1
        BY <1>3
      <4> QED BY <2>3, <4>1, <4>2
    <3>4. CASE u # p /\ u # q /\ v = q
      <4>1. M = {<<2, 2>>}
        BY <1>1, <3>4
      <4>2. Cardinality({<<2, 2>>}) = 1
        BY <1>3
      <4> QED BY <2>3, <4>1, <4>2
    <3>5. CASE u # p /\ u # q /\ v # p /\ v # q
      <4>1. M = {}
        BY <1>1, <3>5
      <4> QED BY <1>4, <2>3, <4>1
    <3> QED BY <3>1, <3>2, <3>3, <3>4, <3>5
  <2> QED BY <2>1, <2>2, <2>3
<1>10. Matches(b, <<p, q>>) >= border <=> {u, v} = {p, q}
  BY <1>7, <1>8, <1>9
<1> QED BY <1>10 DEF u, v

\* At order two the names of two nodes find their baseline, the only one there is:
\* for any number of nodes, and whatever came before.
THEOREM PairFound == Spec => []LookupFindsPair
<1>1. IInv => LookupFindsPair
  <2> SUFFICES ASSUME IInv, Enough, order = 2,
                      NEW j \in DOMAIN nodes, NEW k \in DOMAIN nodes, j # k
               PROVE  \E i \in DOMAIN baselines :
                        /\ IsLookup(i, <<nodes[j].name, nodes[k].name>>)
                        /\ Joins(baselines[i], nodes[j], nodes[k])
    BY DEF LookupFindsPair
  <2>1. nodes \in Seq(Node) /\ UniqueNames(nodes) /\ baselines \in Seq(Baseline)
    BY DEF IInv, TypeOK
  <2>2. border = 2
    <3>1. Len(nodes) >= order
      BY DEF Enough
    <3> QED BY <3>1 DEF IInv, OrdersAgree
  <2>3. AllPairs
    BY FreshPairs
  <2>4. j \in Int /\ k \in Int /\ (j < k \/ k < j)
    BY <2>1
  <2>5. PICK i \in DOMAIN baselines :
          /\ Joins(baselines[i], nodes[j], nodes[k])
          /\ \A h \in DOMAIN baselines :
               Joins(baselines[h], nodes[j], nodes[k]) => h = i
    <3>1. \A h \in DOMAIN baselines :
            Joins(baselines[h], nodes[j], nodes[k]) <=> Joins(baselines[h], nodes[k], nodes[j])
      BY DEF Joins
    <3>2. CASE j < k
      BY <2>3, <3>2 DEF AllPairs
    <3>3. CASE k < j
      BY <2>3, <3>1, <3>3 DEF AllPairs
    <3> QED BY <2>4, <3>2, <3>3
  <2>6. \A c, d \in DOMAIN nodes : nodes[c].name = nodes[d].name => c = d
    BY <2>1 DEF UniqueNames
  <2>7. ASSUME NEW h \in DOMAIN baselines
        PROVE  h \in Found(<<nodes[j].name, nodes[k].name>>)
                 <=> Joins(baselines[h], nodes[j], nodes[k])
    <3>1. PICK f \in DOMAIN nodes, g \in DOMAIN nodes :
            baselines[h].nodes[1] = nodes[f] /\ baselines[h].nodes[2] = nodes[g]
      <4>1. /\ FirstIndex(Len(nodes), h - 1) \in 0 .. Len(nodes) - 1
            /\ SecondIndex(Len(nodes), h - 1) \in 0 .. Len(nodes) - 1
        BY FreshPair
      <4>2. \A x \in 0 .. Len(nodes) - 1 : x + 1 \in DOMAIN nodes
        BY <2>1
      <4> QED BY <4>1, <4>2, FreshPair
    <3>2. f # g
      BY <2>3, <3>1 DEF AllPairs
    <3>3. nodes[f].name # nodes[g].name /\ nodes[j].name # nodes[k].name
      BY <2>6, <3>2
    <3>4. Matches(baselines[h], <<nodes[j].name, nodes[k].name>>) >= border
            <=> {nodes[f].name, nodes[g].name} = {nodes[j].name, nodes[k].name}
      BY <2>2, <3>1, <3>3, PairMatches
    <3>5. {nodes[f].name, nodes[g].name} = {nodes[j].name, nodes[k].name}
            <=> {nodes[f], nodes[g]} = {nodes[j], nodes[k]}
      BY <2>6
    <3> QED BY <3>1, <3>4, <3>5 DEF Found, Joins
  <2>8. i \in Found(<<nodes[j].name, nodes[k].name>>)
    BY <2>5, <2>7
  <2>9. \A h \in Found(<<nodes[j].name, nodes[k].name>>) : h = i
    BY <2>5, <2>7 DEF Found
  <2>10. IsLookup(i, <<nodes[j].name, nodes[k].name>>)
    <3>1. i \in Int
      BY <2>1
    <3> QED BY <2>8, <2>9, <3>1 DEF IsLookup
  <2> QED BY <2>5, <2>10
<1> QED BY <1>1, ContextConsistent, PTL
===============================================================================

--------------------------- MODULE DspThreadsProofs ---------------------------
(* Theorems of DspThreads, for any length, number of threads and operation.  *)
EXTENDS DspThreads, TLAPS

-------------------------------------------------------------------------------
(* The parts of the threads.                                                 *)

\* The quotient is the only number whose multiple is that close below.
LEMMA Between ==
  ASSUME NEW n \in Nat \ {0}, NEW a \in Nat
  PROVE  /\ a \div n \in Nat
         /\ n * (a \div n) <= a /\ a < n * (a \div n) + n
<1>1. PICK q \in Int : q = a \div n
  OBVIOUS
<1>2. a % n \in 0 .. n - 1 /\ a = n * q + (a % n)
  BY <1>1
<1>3. \A z \in Int : z < 0 => n * z <= -n
  OBVIOUS
<1>4. q \in Nat
  BY <1>2, <1>3
<1> QED BY <1>1, <1>2, <1>4

\* Rounding down both of two numbers gives no more than rounding their sum,
\* and at most one less.
LEMMA RoundedSum ==
  ASSUME NEW n \in Nat \ {0}, NEW a \in Nat, NEW b \in Nat
  PROVE  LET s == a \div n + b \div n IN s <= (a + b) \div n /\ (a + b) \div n <= s + 1
<1>1. PICK p \in Nat : p = a \div n /\ n * p <= a /\ a < n * p + n
  BY Between
<1>2. PICK q \in Nat : q = b \div n /\ n * q <= b /\ b < n * q + n
  BY Between
<1>3. a + b \in Nat
  OBVIOUS
<1>4. PICK r \in Nat : r = (a + b) \div n /\ n * r <= a + b /\ a + b < n * r + n
  BY <1>3, Between
<1>5. n * (p + q) = n * p + n * q
  OBVIOUS
<1>6. \A z \in Int : (z >= 1 => n * z >= n) /\ (z >= 2 => n * z >= 2 * n)
  OBVIOUS
<1>7. p + q <= r
  <2>1. n * (p + q - r) = n * (p + q) - n * r
    OBVIOUS
  <2>2. n * (p + q - r) < n
    BY <1>1, <1>2, <1>4, <1>5, <2>1
  <2> QED BY <1>6, <2>2
<1>8. r <= p + q + 1
  <2>1. n * (r - (p + q)) = n * r - n * (p + q)
    OBVIOUS
  <2>2. n * (r - (p + q)) < 2 * n
    BY <1>1, <1>2, <1>4, <1>5, <2>1
  <2> QED BY <1>6, <2>2
<1> QED BY <1>1, <1>2, <1>4, <1>7, <1>8

\* A larger number has no smaller quotient.
LEMMA RoundedOrder ==
  ASSUME NEW n \in Nat \ {0}, NEW a \in Nat, NEW b \in Nat, a <= b
  PROVE  a \div n <= b \div n
<1>1. b - a \in Nat /\ b = a + (b - a)
  OBVIOUS
<1>2. a \div n + (b - a) \div n <= b \div n
  BY <1>1, RoundedSum
<1> QED BY <1>1, <1>2, Between

\* A part lies within the buffer.
LEMMA PartInside ==
  ASSUME NEW c \in Pool
  PROVE  /\ First(c) \in Nat /\ End(c) \in Nat
         /\ First(c) <= End(c) /\ End(c) <= Len
<1>1. Len \in Nat /\ Threads \in Nat \ {0}
  BY DspAssumption
<1>2. c \in Nat /\ c + 1 <= Threads
  BY <1>1 DEF Pool
<1>3. c * Len \in Nat /\ c * Len + Len = (c + 1) * Len
  BY <1>1, <1>2
<1>4. (c + 1) * Len <= Threads * Len
  BY <1>1, <1>2
<1>5. (c * Len) \div Threads \in Nat /\ Len \div Threads \in Nat
  BY <1>1, <1>3, Between
<1>6. (c * Len) \div Threads + Len \div Threads <= (c * Len + Len) \div Threads
  BY <1>1, <1>3, RoundedSum
<1>7. (c * Len + Len) \div Threads <= (Threads * Len) \div Threads
  <2>1. Threads * Len \in Nat /\ c * Len + Len \in Nat
    BY <1>1, <1>3
  <2>2. c * Len + Len <= Threads * Len
    BY <1>3, <1>4
  <2> QED BY <1>1, <2>1, <2>2, RoundedOrder
<1>8. (Threads * Len) \div Threads = Len
  <2>1. Threads * Len \in Nat
    BY <1>1
  <2>2. PICK q \in Nat : /\ q = (Threads * Len) \div Threads
                         /\ Threads * q <= Threads * Len
                         /\ Threads * Len < Threads * q + Threads
    BY <1>1, <2>1, Between
  <2>3. \A z \in Int : (z >= 1 => Threads * z >= Threads)
                    /\ (z <= -1 => Threads * z <= - Threads)
    BY <1>1
  <2>4. Threads * (q - Len) = Threads * q - Threads * Len
    BY <1>1
  <2> QED BY <1>1, <2>2, <2>3, <2>4
<1> QED BY <1>1, <1>3, <1>5, <1>6, <1>7, <1>8 DEF First, End

\* The parts are in the order of the threads and do not overlap.
LEMMA PartsApart ==
  ASSUME NEW c \in Pool, NEW d \in Pool, c < d
  PROVE  End(c) <= First(d)
<1>1. Len \in Nat /\ Threads \in Nat \ {0}
  BY DspAssumption
<1>2. c \in Nat /\ d \in Nat /\ c + 1 <= d
  BY <1>1 DEF Pool
<1>3. c * Len \in Nat /\ d * Len \in Nat /\ c * Len + Len = (c + 1) * Len
  BY <1>1, <1>2
<1>4. (c + 1) * Len <= d * Len
  BY <1>1, <1>2
<1>5. (c * Len) \div Threads + Len \div Threads <= (c * Len + Len) \div Threads
  BY <1>1, <1>3, RoundedSum
<1>6. (c * Len + Len) \div Threads <= (d * Len) \div Threads
  <2>1. c * Len + Len \in Nat /\ c * Len + Len <= d * Len
    BY <1>1, <1>3, <1>4
  <2> QED BY <1>1, <1>3, <2>1, RoundedOrder
<1>7. (c * Len) \div Threads \in Nat /\ Len \div Threads \in Nat
  BY <1>1, <1>3, Between
<1>8. (c * Len + Len) \div Threads \in Nat /\ (d * Len) \div Threads \in Nat
  BY <1>1, <1>3, Between
<1> QED BY <1>5, <1>6, <1>7, <1>8 DEF First, End

\* An element is in the part of one thread at most.
LEMMA OnePart ==
  ASSUME NEW c \in Pool, NEW d \in Pool, NEW j \in Int,
         First(c) <= j, j < End(c), First(d) <= j, j < End(d)
  PROVE  c = d
<1>1. c \in Int /\ d \in Int
  BY DspAssumption DEF Pool
<1>2. /\ First(c) \in Nat /\ End(c) \in Nat
      /\ First(d) \in Nat /\ End(d) \in Nat
  BY PartInside
<1>3. ~(c < d)
  <2>1. SUFFICES ASSUME c < d PROVE FALSE
    OBVIOUS
  <2>2. End(c) <= First(d)
    BY <2>1, PartsApart
  <2> QED BY <1>2, <2>2
<1>4. ~(d < c)
  <2>1. SUFFICES ASSUME d < c PROVE FALSE
    OBVIOUS
  <2>2. End(d) <= First(c)
    BY <2>1, PartsApart
  <2> QED BY <1>2, <2>2
<1> QED BY <1>1, <1>3, <1>4

\* At most one element is left out between a thread and the next.
THEOREM SmallGaps ==
  ASSUME NEW c \in Pool, c + 1 \in Pool
  PROVE  First(c + 1) - End(c) \in {0, 1}
<1>1. Len \in Nat /\ Threads \in Nat \ {0}
  BY DspAssumption
<1>2. c \in Nat
  BY <1>1 DEF Pool
<1>3. c * Len \in Nat /\ c * Len + Len = (c + 1) * Len
  BY <1>1, <1>2
<1> DEFINE s == (c * Len) \div Threads + Len \div Threads
<1>4. s <= (c * Len + Len) \div Threads /\ (c * Len + Len) \div Threads <= s + 1
  BY <1>1, <1>3, RoundedSum
<1>5. s \in Nat /\ (c * Len + Len) \div Threads \in Nat
  <2>1. c * Len + Len \in Nat
    BY <1>1, <1>3
  <2> QED BY <1>1, <1>3, <2>1, Between
<1>6. First(c + 1) = (c * Len + Len) \div Threads /\ End(c) = s
  BY <1>3 DEF First, End
<1> QED BY <1>4, <1>5, <1>6

\* When the threads divide the buffer evenly, nothing is left out.
THEOREM EvenParts ==
  ASSUME Len % Threads = 0
  PROVE  Covered = Elements
<1>1. Len \in Nat /\ Threads \in Nat \ {0}
  BY DspAssumption
<1>2. PICK w \in Nat : w = Len \div Threads /\ Len = Threads * w
  <2>1. PICK q \in Int : q = Len \div Threads
    BY <1>1
  <2>2. Len = Threads * q + (Len % Threads)
    BY <1>1, <2>1
  <2>3. q \in Nat
    BY <1>1, <2>1, Between
  <2>4. Len = Threads * q
    BY <1>1, <2>1, <2>2
  <2> QED BY <2>1, <2>3, <2>4, Zenon
<1>3. ASSUME NEW c \in Pool
      PROVE  First(c) = c * w /\ End(c) = c * w + w
  <2>1. c \in Nat
    BY <1>1 DEF Pool
  <2>2. c * w \in Nat /\ c * Len = Threads * (c * w)
    BY <1>1, <1>2, <2>1
  <2>3. c * Len \in Nat
    BY <1>1, <2>1
  <2>4. PICK q \in Nat : /\ q = (c * Len) \div Threads
                         /\ Threads * q <= c * Len
                         /\ c * Len < Threads * q + Threads
    BY <1>1, <2>3, Between
  <2>5. \A z \in Int : (z >= 1 => Threads * z >= Threads)
                    /\ (z <= -1 => Threads * z <= - Threads)
    BY <1>1
  <2>6. Threads * (q - c * w) = Threads * q - Threads * (c * w)
    BY <1>1, <2>2
  <2>7. q = c * w
    BY <1>1, <2>2, <2>4, <2>5, <2>6
  <2> QED BY <1>2, <2>4, <2>7 DEF First, End
<1>4. ASSUME NEW j \in Elements
      PROVE  j \in Covered
  <2>1. j \in Nat /\ j < Threads * w
    BY <1>1, <1>2 DEF Elements
  <2>2. w \in Nat \ {0}
    BY <1>1, <1>2, <2>1
  <2>3. PICK c \in Nat : c = j \div w /\ w * c <= j /\ j < w * c + w
    BY <2>1, <2>2, Between
  <2>4. c < Threads
    <3>1. \A z \in Int : z >= 0 => w * z >= 0
      BY <2>2
    <3>2. w * (c - Threads) = w * c - Threads * w
      BY <1>1, <2>2
    <3> QED BY <1>1, <2>1, <2>3, <3>1, <3>2
  <2>5. c \in Pool
    BY <1>1, <2>3, <2>4 DEF Pool
  <2>6. First(c) = c * w /\ End(c) = c * w + w
    BY <1>3, <2>5
  <2>7. First(c) <= j /\ j <= End(c) - 1 /\ First(c) \in Int /\ End(c) \in Int
    BY <2>1, <2>2, <2>3, <2>6
  <2>8. j \in Part(c)
    BY <2>1, <2>7 DEF Part
  <2> QED BY <2>5, <2>8 DEF Covered
<1>5. ASSUME NEW j \in Covered
      PROVE  j \in Elements
  <2>1. PICK c \in Pool : j \in Part(c)
    BY <1>5 DEF Covered
  <2>2. First(c) \in Nat /\ End(c) \in Nat /\ End(c) <= Len
    BY PartInside
  <2> QED BY <1>1, <2>1, <2>2 DEF Part, Elements
<1> QED BY <1>4, <1>5

-------------------------------------------------------------------------------
(* The invariant.                                                            *)

LEMMA WholeType ==
  ASSUME given \in Inputs, NEW j \in Elements
  PROVE  Fresh(j) \in Value /\ Whole(j) \in Value
<1>1. given \in [Elements -> Value] /\ Zero \in Value
  BY DspAssumption
<1>2. Fresh(j) \in Value
  BY <1>1 DEF Fresh
<1>3. (IF SameStream THEN given ELSE Other) \in Inputs \cup {Other}
  OBVIOUS
<1> QED BY <1>2, <1>3, DspAssumption DEF Whole

LEMMA InitIInv == Init => IInv
<1> SUFFICES ASSUME Init PROVE IInv
  OBVIOUS
<1>1. /\ Inputs \in SUBSET [Elements -> Value] /\ Zero \in Value
      /\ Len \in Nat /\ Threads \in Nat \ {0}
  BY DspAssumption
<1>2. TypeOK
  BY <1>1 DEF Init, TypeOK, Pool
<1> QED BY <1>2 DEF Init, IInv, Running

LEMMA CallStep ==
  ASSUME IInv, Call
  PROVE  IInv'
<1>1. /\ Inputs \in SUBSET [Elements -> Value] /\ Zero \in Value
      /\ Len \in Nat /\ Threads \in Nat \ {0}
  BY DspAssumption
<1>2. 0 \in Pool
  BY <1>1 DEF Pool
<1>3. \A c \in Pool : c >= 0
  BY <1>1 DEF Pool
<1>4. TypeOK'
  BY <1>1, <1>2 DEF IInv, TypeOK, Call
<1>5. \A j \in Elements : work'[j] = Fresh(j)'
  BY <1>1 DEF Call, Fresh
<1>6. \A j \in Elements : ~ Behind(j)'
  BY DEF Call, Behind
<1> QED BY <1>3, <1>4, <1>5, <1>6 DEF Call, IInv

LEMMA CreateStep ==
  ASSUME IInv, Create
  PROVE  IInv'
<1> USE DEF Create, NextThread
<1>1. Len \in Nat /\ Threads \in Nat \ {0}
  BY DspAssumption
<1>2. k \in Pool /\ pc[k] = "absent" /\ main # "idle" /\ main = "create"
  <2>1. k \in Pool /\ k >= k /\ main = "create"
    BY DEF IInv, TypeOK, Pool
  <2> QED BY <2>1 DEF IInv
<1>3. First(k) \in Nat /\ End(k) \in Nat /\ First(k) <= End(k) /\ End(k) <= Len
  BY <1>2, PartInside
<1>4. TypeOK'
  BY <1>1, <1>2, <1>3 DEF IInv, TypeOK, Pool
<1>5. pc' = [pc EXCEPT ![k] = "loop"] /\ y' = [y EXCEPT ![k] = First(k)]
      /\ pc \in [Pool -> {"absent", "loop", "store", "done"}]
      /\ y \in [Pool -> 0 .. Len]
  BY DEF IInv, TypeOK
<1>6. buf' = given'
  BY <1>2 DEF IInv
<1>7. main' = "create" => \A c \in Pool : c >= k' <=> pc'[c] = "absent"
  BY <1>1, <1>2, <1>5 DEF IInv, Pool
<1>8. main' # "create" => \A c \in Pool : pc'[c] # "absent"
  BY <1>1, <1>2, <1>5 DEF IInv, Pool
<1>9. main' = "join" => \A c \in Pool : ~ (c < k')
  BY <1>1, <1>2 DEF Pool
<1>10. ASSUME NEW j \in Elements
       PROVE  Behind(j)' <=> Behind(j)
  BY <1>1, <1>2, <1>3, <1>5 DEF Behind, Elements
<1>11. ASSUME NEW j \in Elements
       PROVE  work'[j] = (IF Behind(j) THEN Whole(j) ELSE Fresh(j))'
  BY <1>2, <1>10 DEF IInv, Whole, Fresh
<1>12. ASSUME NEW c \in Pool, pc'[c] # "absent"
       PROVE  Progress(c)'
  <2>1. CASE c = k
    BY <1>1, <1>3, <1>5, <2>1 DEF Progress, First, End
  <2>2. CASE c # k
    BY <1>5, <1>12, <2>2 DEF IInv, Progress, Whole, Fresh
  <2> QED BY <2>1, <2>2
<1>13. main' \notin {"idle", "store"}
  BY <1>2
<1> QED BY <1>4, <1>6, <1>7, <1>8, <1>9, <1>11, <1>12, <1>13 DEF IInv

LEMMA JoinStep ==
  ASSUME IInv, Join
  PROVE  IInv'
<1> USE DEF Join, NextThread
<1>1. Len \in Nat /\ Threads \in Nat \ {0}
  BY DspAssumption
<1>2. k \in Pool /\ pc[k] = "done" /\ main = "join"
  BY DEF IInv, TypeOK
<1>3. TypeOK'
  BY <1>1, <1>2 DEF IInv, TypeOK, Pool
<1>4. main' = "join" => \A c \in Pool : c < k' => pc'[c] = "done"
  BY <1>1, <1>2 DEF IInv, Pool
<1>5. main' = "store" => \A c \in Pool : pc'[c] = "done"
  BY <1>1, <1>2 DEF IInv, Pool
<1>6. \A j \in Elements : work'[j] = (IF Behind(j) THEN Whole(j) ELSE Fresh(j))'
  BY <1>2 DEF IInv, Behind, Whole, Fresh
<1>7. ASSUME NEW c \in Pool, pc'[c] # "absent"
      PROVE  Progress(c)'
  BY <1>2, <1>7 DEF IInv, Progress, Whole, Fresh
<1>8. main' = "join" \/ main' = "store"
  BY <1>2
<1>9. main' = "store" => \A c \in Pool : ~ Running(c)'
  BY <1>5 DEF Running
<1> QED BY <1>2, <1>3, <1>4, <1>5, <1>6, <1>7, <1>8, <1>9 DEF IInv

LEMMA CopyBackStep ==
  ASSUME IInv, CopyBack
  PROVE  IInv'
<1> USE DEF CopyBack
<1>1. Len \in Nat /\ Threads \in Nat \ {0}
  BY DspAssumption
<1>2. main = "store" /\ \A c \in Pool : pc[c] = "done" /\ y[c] = End(c)
  BY DEF IInv, Progress
<1>3. TypeOK'
  BY DEF IInv, TypeOK
<1>4. ASSUME NEW j \in Elements
      PROVE  Behind(j) <=> j \in Covered
  <2>1. j \in Nat
    BY <1>1 DEF Elements
  <2>2. \A c \in Pool : j \in Part(c) <=> First(c) <= j /\ j < End(c)
    BY <2>1, PartInside DEF Part
  <2> QED BY <1>2, <2>2 DEF Behind, Covered
<1>5. \A j \in Elements : work[j] = IF j \in Covered THEN Whole(j) ELSE Fresh(j)
  BY <1>2, <1>4 DEF IInv
<1>6. work = Mapped
  BY <1>5 DEF IInv, TypeOK, Mapped
<1>7. buf' = Mapped'
  BY <1>6 DEF Mapped, Covered, Part, Whole, Fresh
<1>8. \A c \in Pool : ~ Running(c)'
  BY <1>2 DEF Running
<1>9. ASSUME NEW c \in Pool, pc'[c] # "absent"
      PROVE  Progress(c)'
  BY <1>9 DEF IInv, Progress, Whole, Fresh
<1> QED BY <1>3, <1>7, <1>8, <1>9 DEF IInv

\* A thread in its loop: the caller has the buffer as it was called with, and
\* is creating or joining threads.
LEMMA RunningFacts ==
  ASSUME IInv, NEW c \in Pool, Running(c)
  PROVE  /\ main \in {"create", "join"} /\ buf = given
         /\ y[c] \in Nat /\ First(c) <= y[c] /\ y[c] <= End(c)
         /\ y[c] < End(c) => y[c] \in Elements
<1>1. Len \in Nat
  BY DspAssumption
<1>2. main \in {"create", "join"} /\ buf = given
  BY DEF IInv, TypeOK
<1>3. y[c] \in Nat /\ Progress(c)
  BY DEF IInv, TypeOK, Running
<1>4. First(c) \in Nat /\ End(c) \in Nat /\ End(c) <= Len
  BY PartInside
<1> QED BY <1>1, <1>2, <1>3, <1>4 DEF Progress, Elements

\* What a thread that only changes its place keeps.
LEMMA WorkerKeeps ==
  ASSUME IInv, NEW c \in Pool, Running(c), UNCHANGED <<main, k, given, buf>>,
         NEW p \in {"loop", "store", "done"}, pc' = [pc EXCEPT ![c] = p]
  PROVE  /\ main' # "idle" => buf' = given'
         /\ main' = "idle" => buf' = given' \/ buf' = Mapped'
         /\ main' = "create" => \A d \in Pool : d >= k' <=> pc'[d] = "absent"
         /\ main' # "create" /\ main' # "idle" => \A d \in Pool : pc'[d] # "absent"
         /\ main' = "join" => \A d \in Pool : d < k' => pc'[d] = "done"
         /\ main' \in {"idle", "store"} => \A d \in Pool : ~ Running(d)'
         /\ main' = "store" => \A d \in Pool : pc'[d] = "done"
<1>1. main \in {"create", "join"} /\ buf = given
  BY RunningFacts
<1>2. pc[c] \notin {"absent", "done"}
  BY DEF Running
<1>3. \A d \in Pool : pc'[d] = IF d = c THEN p ELSE pc[d]
  BY DEF IInv, TypeOK
<1>4. main' = "create" => \A d \in Pool : d >= k' <=> pc'[d] = "absent"
  BY <1>2, <1>3 DEF IInv
<1>5. main' = "join" => \A d \in Pool : pc'[d] # "absent" /\ (d < k' => pc'[d] = "done")
  BY <1>2, <1>3 DEF IInv
<1> QED BY <1>1, <1>4, <1>5

LEMMA LoadStep ==
  ASSUME IInv, NEW c \in Pool, Load(c)
  PROVE  IInv'
<1> USE DEF Load
<1>1. Running(c)
  BY DEF Running
<1>2. /\ main \in {"create", "join"} /\ buf = given /\ y[c] \in Nat
      /\ First(c) <= y[c] /\ y[c] \in Elements
  BY <1>1, RunningFacts
<1>3. ~ Behind(y[c])
  <2>1. SUFFICES ASSUME Behind(y[c]) PROVE FALSE
    OBVIOUS
  <2>2. PICK d \in Pool : pc[d] # "absent" /\ First(d) <= y[c] /\ y[c] < y[d]
    BY <2>1 DEF Behind
  <2>3. y[d] <= End(d) /\ End(d) \in Nat /\ y[d] \in Nat
    BY <2>2, PartInside DEF IInv, TypeOK, Progress
  <2>4. y[c] < End(d)
    BY <1>2, <2>2, <2>3
  <2>5. c = d
    BY <1>2, <2>2, <2>4, OnePart
  <2> QED BY <1>2, <2>2, <2>5
<1>4. work[y[c]] = Fresh(y[c])
  BY <1>2, <1>3 DEF IInv
<1>5. Made(y[c], work[y[c]], Parent) = Whole(y[c])
  BY <1>2, <1>4 DEF Parent, Whole
<1>6. Whole(y[c]) \in Value
  BY <1>2, WholeType DEF IInv, TypeOK
<1>7. TypeOK'
  BY <1>5, <1>6 DEF IInv, TypeOK
<1>8. \A j \in Elements : work'[j] = (IF Behind(j) THEN Whole(j) ELSE Fresh(j))'
  <2>1. \A d \in Pool : pc'[d] # "absent" <=> pc[d] # "absent"
    BY DEF IInv, TypeOK
  <2>2. \A j \in Elements : Behind(j)' <=> Behind(j)
    BY <2>1 DEF Behind
  <2> QED BY <1>2, <2>2 DEF IInv, Whole, Fresh
<1>9. ASSUME NEW d \in Pool, pc'[d] # "absent"
      PROVE  Progress(d)'
  <2>1. CASE d = c
    <3>1. pc'[c] = "store" /\ made'[c] = Whole(y[c]) /\ y'[c] = y[c]
      BY <1>5 DEF IInv, TypeOK
    <3>2. Progress(c)
      BY DEF IInv
    <3> QED BY <1>2, <2>1, <3>1, <3>2 DEF Progress, Whole, Fresh
  <2>2. CASE d # c
    <3>1. pc'[d] = pc[d] /\ made'[d] = made[d] /\ y'[d] = y[d]
      BY <2>2 DEF IInv, TypeOK
    <3>2. Progress(d)
      BY <1>9, <3>1 DEF IInv
    <3> QED BY <3>1, <3>2 DEF Progress, Whole, Fresh
  <2> QED BY <2>1, <2>2
<1> QED BY <1>1, <1>7, <1>8, <1>9, WorkerKeeps DEF IInv

LEMMA StoreStep ==
  ASSUME IInv, NEW c \in Pool, Store(c)
  PROVE  IInv'
<1> USE DEF Store
<1>1. Running(c)
  BY DEF Running
<1>2. Len \in Nat
  BY DspAssumption
<1>3. /\ y[c] < End(c) /\ made[c] = Whole(y[c])
  BY DEF IInv, Progress
<1>4. /\ main \in {"create", "join"} /\ buf = given /\ y[c] \in Nat
      /\ First(c) <= y[c] /\ y[c] \in Elements
  BY <1>1, <1>3, RunningFacts
<1>5. /\ y'[c] = y[c] + 1 /\ pc'[c] = "loop" /\ made' = made
      /\ \A d \in Pool : d # c => y'[d] = y[d] /\ pc'[d] = pc[d]
  BY DEF IInv, TypeOK
<1>6. TypeOK'
  BY <1>2, <1>4 DEF IInv, TypeOK, Elements
<1>7. ASSUME NEW j \in Elements
      PROVE  Behind(j)' <=> Behind(j) \/ j = y[c]
  BY <1>2, <1>4, <1>5 DEF Behind, Elements
<1>8. ASSUME NEW j \in Elements
      PROVE  work'[j] = (IF Behind(j) THEN Whole(j) ELSE Fresh(j))'
  <2>1. work[j] = IF Behind(j) THEN Whole(j) ELSE Fresh(j)
    BY <1>4 DEF IInv
  <2>2. work'[j] = IF j = y[c] THEN Whole(j) ELSE work[j]
    BY <1>3 DEF IInv, TypeOK
  <2>3. Whole(j)' = Whole(j) /\ Fresh(j)' = Fresh(j)
    BY DEF Whole, Fresh
  <2> QED BY <1>7, <2>1, <2>2, <2>3
<1>9. ASSUME NEW d \in Pool, pc'[d] # "absent"
      PROVE  Progress(d)'
  <2>1. CASE d = c
    <3>1. First(c) \in Nat /\ End(c) \in Nat
      BY PartInside
    <3> QED BY <1>3, <1>4, <1>5, <2>1, <3>1 DEF Progress, First, End
  <2>2. CASE d # c
    <3>1. Progress(d) /\ pc'[d] = pc[d] /\ y'[d] = y[d]
      BY <1>5, <1>9, <2>2 DEF IInv
    <3> QED BY <1>5, <3>1 DEF Progress, Whole, Fresh
  <2> QED BY <2>1, <2>2
<1> QED BY <1>1, <1>4, <1>6, <1>8, <1>9, WorkerKeeps DEF IInv

LEMMA FinishStep ==
  ASSUME IInv, NEW c \in Pool, Finish(c)
  PROVE  IInv'
<1> USE DEF Finish
<1>1. Running(c)
  BY DEF Running
<1>2. /\ main \in {"create", "join"} /\ y[c] \in Nat /\ y[c] <= End(c)
  BY <1>1, RunningFacts
<1>3. End(c) \in Nat /\ First(c) \in Nat
  BY PartInside
<1>4. y[c] = End(c)
  BY <1>2, <1>3
<1>5. pc'[c] = "done" /\ \A d \in Pool : d # c => pc'[d] = pc[d]
  BY DEF IInv, TypeOK
<1>6. TypeOK'
  BY DEF IInv, TypeOK
<1>7. \A j \in Elements : work'[j] = (IF Behind(j) THEN Whole(j) ELSE Fresh(j))'
  <2>1. \A d \in Pool : pc'[d] # "absent" <=> pc[d] # "absent"
    BY <1>5
  <2>2. \A j \in Elements : Behind(j)' <=> Behind(j)
    BY <2>1 DEF Behind
  <2> QED BY <1>2, <2>2 DEF IInv, Whole, Fresh
<1>8. ASSUME NEW d \in Pool, pc'[d] # "absent"
      PROVE  Progress(d)'
  <2>1. Progress(d)
    BY <1>5, <1>8 DEF IInv
  <2> QED BY <1>4, <1>5, <2>1 DEF Progress, Whole, Fresh
<1> QED BY <1>1, <1>6, <1>7, <1>8, WorkerKeeps DEF IInv

LEMMA NextIInv == IInv /\ [Next]_vars => IInv'
<1> SUFFICES ASSUME IInv, [Next]_vars PROVE IInv'
  OBVIOUS
<1>1. CASE Call
  BY <1>1, CallStep
<1>2. CASE Create
  BY <1>2, CreateStep
<1>3. CASE Join
  BY <1>3, JoinStep
<1>4. CASE CopyBack
  BY <1>4, CopyBackStep
<1>5. ASSUME NEW c \in Pool, Worker(c)
      PROVE  IInv'
  BY <1>5, LoadStep, StoreStep, FinishStep DEF Worker
<1>6. CASE UNCHANGED vars
  BY <1>6 DEF vars, IInv, TypeOK, Progress, Behind, Running, Whole, Fresh,
              Mapped, Covered, Part
<1> QED BY <1>1, <1>2, <1>3, <1>4, <1>5, <1>6 DEF Next, Caller

\* The invariant above holds in every state.
THEOREM PartsConsistent == Spec => []IInv
<1> QED BY InitIInv, NextIInv, PTL DEF Spec

-------------------------------------------------------------------------------
(* What follows from it.                                                     *)

\* Every variable keeps its type, and no thread leaves the buffer.
THEOREM TypeCorrect == Spec => []TypeOK
<1>1. IInv => TypeOK
  BY DEF IInv
<1> QED BY <1>1, PartsConsistent, PTL

\* Two threads are never at the same element.
THEOREM Apart == Spec => []NoSharedElement
<1>1. ASSUME IInv PROVE NoSharedElement
  <2>1. SUFFICES ASSUME NEW c \in Pool, NEW d \in Pool, c # d,
                        pc[c] = "store", pc[d] = "store", y[c] = y[d]
                 PROVE  FALSE
    BY DEF NoSharedElement
  <2>2. /\ y[c] \in Int
        /\ First(c) <= y[c] /\ y[c] < End(c)
        /\ First(d) <= y[c] /\ y[c] < End(d)
    BY <1>1, <2>1 DEF IInv, TypeOK, Progress
  <2> QED BY <2>1, <2>2, OnePart
<1> QED BY <1>1, PartsConsistent, PTL

\* The caller's buffer changes once, when all the threads are over, and to
\* what one thread alone would have made of it.
THEOREM Atomic == Spec => []AllAtOnce
<1>1. IInv => AllAtOnce
  BY DEF IInv, TypeOK, AllAtOnce
<1> QED BY <1>1, PartsConsistent, PTL

\* The documentation is right when the threads divide the buffer evenly.
THEOREM EvenIsWhole == Spec => [](Len % Threads = 0 => EachElement)
<1>1. IInv => (Len % Threads = 0 => EachElement)
  <2>1. SUFFICES ASSUME IInv, Len % Threads = 0 PROVE EachElement
    OBVIOUS
  <2>2. Covered = Elements
    BY <2>1, EvenParts
  <2>3. buf = Mapped => \A j \in Elements : buf[j] = Whole(j)
    BY <2>2 DEF Mapped
  <2> QED BY <2>1, <2>3 DEF IInv, EachElement
<1> QED BY <1>1, PartsConsistent, PTL
===============================================================================

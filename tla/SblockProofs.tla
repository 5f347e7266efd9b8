---------------------------- MODULE SblockProofs ----------------------------
(***************************************************************************)
(* Proofs about Sblock for any number of callers at either end, any number *)
(* of blocks that divides the range of the u32 pointers, and any number of *)
(* crashes, closes and removals of the client: no block is in two places,  *)
(* and while both ends are up none is lost (PoolIsSafe).  Assumed is that  *)
(* the host does not become idle while a caller has a block (IdleInHand)   *)
(* and that the client does not start again before the host's thread has   *)
(* handled what its earlier life sent (SlowHost).                          *)
(***************************************************************************)
EXTENDS Sblock, FiniteSetTheorems, SequenceTheorems, TLAPS

-----------------------------------------------------------------------------
(* Remainders.                                                              *)

\* A quotient and a remainder below the divisor are determined.
LEMMA DivUnique ==
  ASSUME NEW s \in Nat \ {0}, NEW p \in Int, NEW q \in Int,
         NEW a \in 0 .. s - 1, NEW b \in 0 .. s - 1, p * s + a = q * s + b
  PROVE  p = q /\ a = b
<1>1. ASSUME NEW x \in Int, NEW y \in Int,
             NEW c \in 0 .. s - 1, NEW d \in 0 .. s - 1, x * s + c = y * s + d
      PROVE  ~(x > y)
  <2> SUFFICES ASSUME x >= y + 1 PROVE FALSE
    OBVIOUS
  <2>1. x * s >= (y + 1) * s
    OBVIOUS
  <2>2. (y + 1) * s = y * s + s
    OBVIOUS
  <2>3. x * s \in Int /\ y * s \in Int
    OBVIOUS
  <2> QED
    BY <1>1, <2>1, <2>2, <2>3
<1>2. ~(p > q) /\ ~(q > p)
  BY <1>1
<1>3. p = q
  BY <1>2
<1> QED
  BY <1>3

\* Every integer is a multiple of the divisor and its remainder.
LEMMA ModIs ==
  ASSUME NEW s \in Nat \ {0}, NEW a \in Int
  PROVE  \E q \in Int : a = q * s + (a % s) /\ a % s \in 0 .. s - 1
<1>1. a = (a \div s) * s + (a % s) /\ a \div s \in Int /\ a % s \in 0 .. s - 1
  OBVIOUS
<1> QED
  BY <1>1

\* Numbers a multiple of the divisor apart have the same remainder.
LEMMA ModSame ==
  ASSUME NEW s \in Nat \ {0}, NEW m \in Int, NEW a \in Int, NEW b \in Int,
         a = m * s + b
  PROVE  a % s = b % s
<1>1. PICK p \in Int : a = p * s + (a % s) /\ a % s \in 0 .. s - 1
  BY ModIs
<1>2. PICK q \in Int : b = q * s + (b % s) /\ b % s \in 0 .. s - 1
  BY ModIs
<1> DEFINE x == a % s
           y == b % s
<1>3. x \in 0 .. s - 1 /\ y \in 0 .. s - 1 /\ a = p * s + x /\ b = q * s + y
  BY <1>1, <1>2
<1> HIDE DEF x, y
<1>4. m + q \in Int /\ (m + q) * s = m * s + q * s
  OBVIOUS
<1>5. p * s + x = (m + q) * s + y
  <2>1. m * s \in Int /\ q * s \in Int /\ p * s \in Int
    OBVIOUS
  <2> QED
    BY <1>3, <1>4, <2>1
<1> DEFINE n == m + q
<1>6. n \in Int /\ p * s + x = n * s + y
  BY <1>4, <1>5
<1> HIDE DEF n
<1>7. x = y
  <2>1. x \in 0 .. s - 1 /\ y \in 0 .. s - 1
    BY <1>3
  <2>2. p \in Int /\ n \in Int /\ p * s + x = n * s + y
    BY <1>6
  <2> QED
    BY ONLY s \in Nat \ {0}, <2>1, <2>2, DivUnique
<1> QED
  BY <1>7 DEF x, y

\* Numbers less than the divisor apart have different remainders.
LEMMA ModDiffers ==
  ASSUME NEW s \in Nat \ {0}, NEW a \in Int, NEW d \in 1 .. s - 1
  PROVE  (a + d) % s # a % s
<1> SUFFICES ASSUME (a + d) % s = a % s PROVE FALSE
  OBVIOUS
<1>1. PICK q \in Int : a = q * s + (a % s) /\ a % s \in 0 .. s - 1
  BY ModIs
<1>2. PICK p \in Int : a + d = p * s + ((a + d) % s)
  <2>1. a + d \in Int
    OBVIOUS
  <2> QED
    BY <2>1, ModIs
<1>3. q * s + d = p * s + 0
  <2>1. q * s \in Int /\ p * s \in Int
    OBVIOUS
  <2> QED
    BY <1>1, <1>2, <2>1
<1> QED
  BY <1>3, DivUnique

-----------------------------------------------------------------------------
(* Pointers, and the blocks between two of them.                            *)

Ptr == 0..(W - 1)

\* The i-th block behind pointer rd in the array a, and the first n of them.
At(a, rd, i) == a[Pos(Add(rd, i))]
Window(a, rd, n) == {At(a, rd, i) : i \in 0..(n - 1)}
Distinct(a, rd, n) ==
  \A i, j \in 0..(n - 1) : At(a, rd, i) = At(a, rd, j) => i = j

\* A sum of two numbers below W, reduced.
LEMMA Reduced ==
  ASSUME NEW x \in 0..(2 * W - 1)
  PROVE  x % W = IF x < W THEN x ELSE x - W
<1>1. W \in Nat \ {0}
  BY SblockAssumption
<1>2. PICK q \in Int : x = q * W + (x % W) /\ x % W \in 0 .. W - 1
  <2>1. x \in Int
    OBVIOUS
  <2> QED
    BY ONLY <1>1, <2>1, ModIs
<1> DEFINE r == x % W
<1>3. r \in 0 .. W - 1 /\ x = q * W + r
  BY <1>2
<1> HIDE DEF r
<1>4. CASE x < W
  <2>1. q * W + r = 0 * W + x /\ x \in 0 .. W - 1
    BY <1>1, <1>3, <1>4
  <2> QED
    BY ONLY <1>1, <1>2, <1>3, <1>4, <2>1, DivUnique DEF r
<1>5. CASE ~(x < W)
  <2>1. q * W + r = 1 * W + (x - W) /\ x - W \in 0 .. W - 1
    BY <1>1, <1>3, <1>5
  <2>2. r = x - W
    BY ONLY <1>1, <1>2, <1>3, <2>1, DivUnique
  <2> QED
    BY <1>5, <2>2 DEF r
<1> QED
  BY <1>4, <1>5

\* u32 sums and differences.
LEMMA AddIs ==
  ASSUME NEW p \in Ptr, NEW n \in Ptr
  PROVE  Add(p, n) \in Ptr /\ Add(p, n) = IF p + n < W THEN p + n ELSE p + n - W
<1> DEFINE x == p + n
<1>1. W \in Nat \ {0} /\ x \in 0..(2 * W - 1)
  BY SblockAssumption DEF Ptr
<1>2. Add(p, n) = IF p + n < W THEN p + n ELSE p + n - W
  <2>1. Add(p, n) = x % W
    BY DEF Add
  <2> HIDE DEF x
  <2>2. x % W = IF x < W THEN x ELSE x - W
    BY <1>1, Reduced
  <2>3. Add(p, n) = IF x < W THEN x ELSE x - W
    BY <2>1, <2>2
  <2> QED
    BY <1>1, <2>3 DEF x, Ptr
<1> QED
  BY <1>1, <1>2 DEF Ptr

\* A distance of pointers is their difference, across the wrap.
LEMMA DistIs ==
  ASSUME NEW r \in Ptr, NEW w \in Ptr
  PROVE  Dist(r, w) \in Ptr /\ Dist(r, w) = IF w >= r THEN w - r ELSE w - r + W
<1> DEFINE x == w - r + W
<1>1. W \in Nat \ {0} /\ x \in 0..(2 * W - 1)
  BY SblockAssumption DEF Ptr
<1>2. Dist(r, w) = IF w - r + W < W THEN w - r + W ELSE w - r + W - W
  <2>1. Dist(r, w) = x % W
    BY DEF Dist
  <2> HIDE DEF x
  <2>2. x % W = IF x < W THEN x ELSE x - W
    BY <1>1, Reduced
  <2>3. Dist(r, w) = IF x < W THEN x ELSE x - W
    BY <2>1, <2>2
  <2> QED
    BY <1>1, <2>3 DEF x, Ptr
<1> QED
  BY <1>1, <1>2 DEF Ptr

\* Slots of pointers less than N apart are different ones, across a wrap.
LEMMA SlotIs ==
  ASSUME NEW p \in Ptr, NEW n \in Ptr
  PROVE  Pos(Add(p, n)) \in Slots /\ Pos(Add(p, n)) = (p + n) % N
<1>1. N \in Nat \ {0} /\ W \in Nat /\ W % N = 0
  BY SblockAssumption
<1>2. PICK k \in Int : W = k * N
  <2>1. PICK k \in Int : W = k * N + (W % N)
    <3>1. W \in Int /\ N \in Nat \ {0}
      BY <1>1
    <3> QED
      BY ONLY <3>1, ModIs
  <2>2. W = k * N
    BY <1>1, <2>1
  <2> QED
    BY <2>2
<1>3. Add(p, n) \in Ptr /\ Add(p, n) = IF p + n < W THEN p + n ELSE p + n - W
  BY AddIs
<1>4. p \in Int /\ n \in Int /\ Add(p, n) \in Int
  BY <1>1, <1>3 DEF Ptr
<1>5. Pos(Add(p, n)) = (p + n) % N
  <2>1. CASE p + n < W
    BY <1>3, <2>1 DEF Pos
  <2>2. CASE ~(p + n < W)
    <3>1. p + n = k * N + Add(p, n) /\ p + n \in Int
      BY <1>2, <1>3, <1>4, <2>2
    <3> DEFINE a == p + n
               b == Add(p, n)
    <3>2. a \in Int /\ b \in Int /\ a = k * N + b /\ N \in Nat \ {0}
      BY <1>1, <1>4, <3>1
    <3> HIDE DEF a, b
    <3>3. a % N = b % N
      BY ONLY <1>2, <3>2, ModSame
    <3> QED
      BY <3>3 DEF a, b, Pos
  <2> QED
    BY <2>1, <2>2
<1>6. (p + n) % N \in 0 .. N - 1
  BY <1>1, <1>4, ModIs
<1> QED
  BY <1>5, <1>6 DEF Slots

\* Pointers less than the ring size apart have different slots.
LEMMA SlotsDiffer ==
  ASSUME NEW p \in Ptr, NEW i \in 0..(N - 1), NEW j \in 0..(N - 1), i # j
  PROVE  Pos(Add(p, i)) # Pos(Add(p, j))
<1>1. N \in Nat \ {0} /\ W \in Nat /\ W > N
  BY SblockAssumption
<1>2. i \in Ptr /\ j \in Ptr /\ p \in Int
  BY <1>1 DEF Ptr
<1>3. Pos(Add(p, i)) = (p + i) % N /\ Pos(Add(p, j)) = (p + j) % N
  BY <1>2, SlotIs
<1>4. ASSUME NEW a \in 0..(N - 1), NEW b \in 0..(N - 1), a < b
      PROVE  (p + a) % N # (p + b) % N
  <2>1. p + a \in Int /\ b - a \in 1 .. N - 1 /\ p + b = (p + a) + (b - a)
    BY <1>1, <1>2, <1>4
  <2> QED
    BY <1>1, <2>1, ModDiffers
<1>5. (i < j \/ j < i)
  BY <1>1
<1> QED
  BY <1>3, <1>4, <1>5

\* How the distance follows the pointers.
LEMMA DistMoves ==
  ASSUME NEW r \in Ptr, NEW w \in Ptr
  PROVE  /\ Dist(r, w) \in Nat /\ Add(r, Dist(r, w)) = w
         /\ Dist(r, w) = 0 <=> r = w
         /\ Add(r, 1) \in Ptr /\ Add(w, 1) \in Ptr /\ Add(r, W - 1) \in Ptr
         /\ r # w => Dist(Add(r, 1), w) = Dist(r, w) - 1
         /\ Dist(r, w) < W - 1 => /\ Dist(r, Add(w, 1)) = Dist(r, w) + 1
                                  /\ Dist(Add(r, W - 1), w) = Dist(r, w) + 1
<1>1. W \in Nat /\ W > 1 /\ 1 \in Ptr /\ W - 1 \in Ptr /\ r \in 0..(W - 1) /\ w \in 0..(W - 1)
  BY SblockAssumption DEF Ptr
<1> DEFINE d == Dist(r, w)
           r1 == Add(r, 1)
           w1 == Add(w, 1)
           r0 == Add(r, W - 1)
<1>2. d \in Ptr /\ d = IF w >= r THEN w - r ELSE w - r + W
  BY DistIs
<1>3. r1 \in Ptr /\ r1 = IF r + 1 < W THEN r + 1 ELSE r + 1 - W
  BY <1>1, AddIs
<1>4. w1 \in Ptr /\ w1 = IF w + 1 < W THEN w + 1 ELSE w + 1 - W
  BY <1>1, AddIs
<1>5. r0 \in Ptr /\ r0 = IF r + (W - 1) < W THEN r + (W - 1) ELSE r + (W - 1) - W
  BY <1>1, AddIs
<1> HIDE DEF d, r1, w1, r0
<1>6. Add(r, d) = IF r + d < W THEN r + d ELSE r + d - W
  BY <1>2, AddIs
<1>7. Dist(r1, w) = IF w >= r1 THEN w - r1 ELSE w - r1 + W
  BY <1>3, DistIs
<1>8. Dist(r, w1) = IF w1 >= r THEN w1 - r ELSE w1 - r + W
  BY <1>4, DistIs
<1>9. Dist(r0, w) = IF w >= r0 THEN w - r0 ELSE w - r0 + W
  BY <1>5, DistIs
<1>10. d \in 0..(W - 1) /\ r1 \in 0..(W - 1) /\ w1 \in 0..(W - 1) /\ r0 \in 0..(W - 1)
  BY <1>2, <1>3, <1>4, <1>5 DEF Ptr
<1>11. d \in Nat /\ Add(r, d) = w /\ (d = 0 <=> r = w)
  BY <1>1, <1>2, <1>6, <1>10
<1>12. r # w => Dist(r1, w) = d - 1
  BY <1>1, <1>2, <1>3, <1>7, <1>10
<1>13. d < W - 1 => Dist(r, w1) = d + 1
  BY <1>1, <1>2, <1>4, <1>8, <1>10
<1>14. d < W - 1 => Dist(r0, w) = d + 1
  BY <1>1, <1>2, <1>5, <1>9, <1>10
<1> QED
  BY <1>3, <1>4, <1>5, <1>11, <1>12, <1>13, <1>14 DEF d, r1, w1, r0

\* Positions behind a pointer that moves by one.
LEMMA AddMoves ==
  ASSUME NEW r \in Ptr, NEW i \in 0..(N - 1)
  PROVE  /\ Add(Add(r, 1), i) = Add(r, i + 1)
         /\ Add(Add(r, W - 1), i + 1) = Add(r, i)
         /\ Add(r, 0) = r
<1>1. /\ W \in Nat /\ W > 1 /\ 0 \in Ptr /\ 1 \in Ptr /\ W - 1 \in Ptr /\ r \in 0..(W - 1)
      /\ i \in Ptr /\ i + 1 \in Ptr /\ i \in Int
  BY SblockAssumption DEF Ptr
<1> DEFINE r1 == Add(r, 1)
           r0 == Add(r, W - 1)
           j == i + 1
<1>2. r1 \in Ptr /\ r1 = IF r + 1 < W THEN r + 1 ELSE r + 1 - W
  BY <1>1, AddIs
<1>3. r0 \in Ptr /\ r0 = IF r + (W - 1) < W THEN r + (W - 1) ELSE r + (W - 1) - W
  BY <1>1, AddIs
<1>4. j \in Ptr /\ j = i + 1
  BY <1>1
<1> HIDE DEF r1, r0, j
<1>5. /\ Add(r1, i) = IF r1 + i < W THEN r1 + i ELSE r1 + i - W
      /\ Add(r, i) = IF r + i < W THEN r + i ELSE r + i - W
      /\ Add(r, j) = IF r + j < W THEN r + j ELSE r + j - W
      /\ Add(r0, j) = IF r0 + j < W THEN r0 + j ELSE r0 + j - W
      /\ Add(r, 0) = IF r + 0 < W THEN r + 0 ELSE r + 0 - W
  BY <1>1, <1>2, <1>3, <1>4, AddIs
<1>6. r1 \in 0..(W - 1) /\ r0 \in 0..(W - 1) /\ i \in 0..(W - 1) /\ j \in 0..(W - 1)
  BY <1>1, <1>2, <1>3, <1>4 DEF Ptr
<1>7. Add(r1, i) = Add(r, j)
  BY <1>1, <1>2, <1>4, <1>5, <1>6
<1>8. Add(r0, j) = Add(r, i)
  BY <1>1, <1>3, <1>4, <1>5, <1>6
<1>9. Add(r, 0) = r
  BY <1>1, <1>5
<1> QED
  BY <1>4, <1>7, <1>8, <1>9 DEF r1, r0, j

\* An index is within a window one longer.
LEMMA At0 ==
  ASSUME NEW a, NEW r \in Ptr
  PROVE  At(a, r, 0) = a[Pos(r)]
<1>1. 0 \in 0..(N - 1)
  BY SblockAssumption
<1> QED
  BY <1>1, AddMoves DEF At

\* The first block of a window is taken.
LEMMA PopFront ==
  ASSUME NEW a \in [Slots -> Blocks], NEW r \in Ptr, NEW n \in 1..N, Distinct(a, r, n)
  PROVE  /\ a[Pos(r)] \in Window(a, r, n)
         /\ Distinct(a, Add(r, 1), n - 1)
         /\ Window(a, Add(r, 1), n - 1) = Window(a, r, n) \ {a[Pos(r)]}
<1>1. N \in Nat \ {0}
  BY SblockAssumption
<1>2. ASSUME NEW i \in 0..(n - 2)
      PROVE  i + 1 \in 0..(n - 1) /\ At(a, Add(r, 1), i) = At(a, r, i + 1)
  <2>1. i \in 0..(N - 1)
    BY <1>1
  <2> QED
    BY <2>1, AddMoves DEF At
<1>3. 0 \in 0..(n - 1) /\ At(a, r, 0) = a[Pos(r)]
  BY <1>1, At0
<1>4. \A i \in 1..(n - 1) : i - 1 \in 0..(n - 2) /\ i - 1 + 1 = i
  BY <1>1
<1>5. a[Pos(r)] \in Window(a, r, n)
  BY <1>3 DEF Window
<1>6. Distinct(a, Add(r, 1), n - 1)
  <2> SUFFICES ASSUME NEW i \in 0..(n - 2), NEW j \in 0..(n - 2),
                      At(a, Add(r, 1), i) = At(a, Add(r, 1), j)
               PROVE  i = j
    BY <1>1 DEF Distinct
  <2>1. i + 1 = j + 1
    BY <1>2 DEF Distinct
  <2> QED
    BY <2>1
<1>7. Window(a, Add(r, 1), n - 1) \subseteq Window(a, r, n) \ {a[Pos(r)]}
  <2> SUFFICES ASSUME NEW i \in 0..(n - 2)
               PROVE  At(a, Add(r, 1), i) \in Window(a, r, n) \ {a[Pos(r)]}
    BY <1>1 DEF Window
  <2>1. At(a, r, i + 1) \in Window(a, r, n)
    BY <1>2 DEF Window
  <2>2. i + 1 # 0
    OBVIOUS
  <2>3. At(a, r, i + 1) # At(a, r, 0)
    BY <1>2, <1>3, <2>2 DEF Distinct
  <2> QED
    BY <1>2, <1>3, <2>1, <2>3
<1>8. Window(a, r, n) \ {a[Pos(r)]} \subseteq Window(a, Add(r, 1), n - 1)
  <2> SUFFICES ASSUME NEW i \in 0..(n - 1), At(a, r, i) # a[Pos(r)]
               PROVE  At(a, r, i) \in Window(a, Add(r, 1), n - 1)
    BY DEF Window
  <2>1. i \in 1..(n - 1)
    BY <1>3
  <2>2. i - 1 \in 0..(n - 2) /\ At(a, Add(r, 1), i - 1) = At(a, r, i)
    BY <1>2, <1>4, <2>1
  <2>3. i - 1 \in 0..((n - 1) - 1)
    BY <2>2
  <2> QED
    BY <2>2, <2>3 DEF Window
<1> QED
  BY <1>5, <1>6, <1>7, <1>8

\* A block is appended to a window.
LEMMA PushBack ==
  ASSUME NEW a \in [Slots -> Blocks], NEW r \in Ptr, NEW n \in 0..(N - 1), NEW b \in Blocks,
         Distinct(a, r, n), b \notin Window(a, r, n),
         NEW c, c[Pos(Add(r, n))] = b,
         \A s \in Slots : s # Pos(Add(r, n)) => c[s] = a[s]
  PROVE  /\ Distinct(c, r, n + 1)
         /\ Window(c, r, n + 1) = Window(a, r, n) \union {b}
<1>1. N \in Nat \ {0} /\ W \in Nat /\ W > N
  BY SblockAssumption
<1>2. \A i \in 0..n : i \in 0..(N - 1) /\ i \in Ptr
  BY <1>1 DEF Ptr
<1>3. Pos(Add(r, n)) \in Slots
  BY <1>1, <1>2, SlotIs
<1>4. At(c, r, n) = b
  BY <1>3 DEF At
<1>5. ASSUME NEW i \in 0..(n - 1) PROVE At(c, r, i) = At(a, r, i)
  <2>1. i \in 0..(N - 1) /\ i # n /\ n \in 0..(N - 1) /\ i \in Ptr
    BY <1>1, <1>2
  <2>2. Pos(Add(r, i)) # Pos(Add(r, n)) /\ Pos(Add(r, i)) \in Slots
    BY <2>1, SlotsDiffer, SlotIs
  <2> QED
    BY <2>2 DEF At
<1>6. \A i \in 0..((n + 1) - 1) : i = n \/ i \in 0..(n - 1)
  BY <1>1
<1>7. \A i \in 0..(n - 1) : i \in 0..((n + 1) - 1)
  BY <1>1
<1>8. n \in 0..((n + 1) - 1)
  BY <1>1
<1>9. \A i \in 0..(n - 1) : At(a, r, i) # b
  BY DEF Window
<1>10. Distinct(c, r, n + 1)
  BY <1>4, <1>5, <1>6, <1>9 DEF Distinct
<1>11. Window(c, r, n + 1) = Window(a, r, n) \union {b}
  BY <1>4, <1>5, <1>6, <1>7, <1>8 DEF Window
<1> QED
  BY <1>4, <1>10, <1>11

\* A block is put in front of a window.
LEMMA PushFront ==
  ASSUME NEW a \in [Slots -> Blocks], NEW r \in Ptr, NEW n \in 0..(N - 1), NEW b \in Blocks,
         Distinct(a, r, n), b \notin Window(a, r, n),
         NEW r0, r0 = Add(r, W - 1), NEW c, c[Pos(r0)] = b,
         \A s \in Slots : s # Pos(r0) => c[s] = a[s]
  PROVE  /\ Distinct(c, r0, n + 1)
         /\ Window(c, r0, n + 1) = Window(a, r, n) \union {b}
<1>1. N \in Nat \ {0} /\ W \in Nat /\ W > N /\ W - 1 \in Ptr /\ 0 \in Ptr
  BY SblockAssumption DEF Ptr
<1>2. r0 \in Ptr
  BY <1>1, AddIs
<1>3. 0 \in 0..(N - 1) /\ Add(r0, 0) = r0
  BY <1>1, <1>2, AddMoves
<1>4. Pos(r0) \in Slots
  BY <1>1, <1>2, <1>3, SlotIs
<1>5. At(c, r0, 0) = b
  BY <1>3, <1>4 DEF At
<1>6. ASSUME NEW i \in 0..(n - 1) PROVE At(c, r0, i + 1) = At(a, r, i)
  <2>1. i \in 0..(N - 1) /\ i + 1 \in 0..(N - 1) /\ i + 1 # 0 /\ i + 1 \in Ptr
    BY <1>1 DEF Ptr
  <2>2. Pos(Add(r0, i + 1)) # Pos(Add(r0, 0)) /\ Pos(Add(r0, i + 1)) \in Slots
    BY <1>2, <1>3, <2>1, SlotsDiffer, SlotIs
  <2>3. Add(r0, i + 1) = Add(r, i)
    BY <2>1, AddMoves
  <2> QED
    BY <1>3, <2>2, <2>3 DEF At
<1>7. \A i \in 0..((n + 1) - 1) : i = 0 \/ (i - 1 \in 0..(n - 1) /\ i = (i - 1) + 1)
  BY <1>1
<1>8. \A i \in 0..(n - 1) : i + 1 \in 0..((n + 1) - 1)
  BY <1>1
<1>9. 0 \in 0..((n + 1) - 1)
  BY <1>1
<1>10. \A i \in 0..(n - 1) : At(a, r, i) # b
  BY DEF Window
<1>11. ASSUME NEW i \in 0..((n + 1) - 1)
       PROVE  \/ i = 0 /\ At(c, r0, i) = b
              \/ i - 1 \in 0..(n - 1) /\ At(c, r0, i) = At(a, r, i - 1)
  BY <1>5, <1>6, <1>7
<1>12. Distinct(c, r0, n + 1)
  <2> SUFFICES ASSUME NEW i \in 0..((n + 1) - 1), NEW j \in 0..((n + 1) - 1),
                      At(c, r0, i) = At(c, r0, j)
               PROVE  i = j
    BY DEF Distinct
  <2>1. (i = 0 /\ j = 0) \/ (i - 1 \in 0..(n - 1) /\ j - 1 \in 0..(n - 1) /\ i - 1 = j - 1)
    BY <1>10, <1>11 DEF Distinct
  <2> QED
    BY <2>1
<1>13. Window(c, r0, n + 1) \subseteq Window(a, r, n) \union {b}
  BY <1>11 DEF Window
<1>14. Window(a, r, n) \subseteq Window(c, r0, n + 1)
  BY <1>6, <1>8 DEF Window
<1>15. b \in Window(c, r0, n + 1)
  BY <1>5, <1>9 DEF Window
<1> QED
  BY <1>5, <1>12, <1>13, <1>14, <1>15

\* A window that lacks a block is not full.
LEMMA Room ==
  ASSUME NEW a \in [Slots -> Blocks], NEW r \in Ptr, NEW n \in 0..N, NEW b \in Blocks,
         Distinct(a, r, n), b \notin Window(a, r, n)
  PROVE  n < N
<1>1. N \in Nat \ {0} /\ W \in Nat /\ W > N
  BY SblockAssumption
<1> DEFINE S == 0..(n - 1)
           T == Blocks \ {b}
           f == [i \in S |-> At(a, r, i)]
<1>2. \A i \in S : At(a, r, i) \in T
  <2> SUFFICES ASSUME NEW i \in S PROVE At(a, r, i) \in T
    OBVIOUS
  <2>1. i \in Ptr
    BY <1>1 DEF Ptr
  <2>2. Pos(Add(r, i)) \in Slots
    BY <2>1, SlotIs
  <2> QED
    BY <2>2 DEF At, Window
<1>3. f \in Injection(S, T)
  BY <1>2 DEF Distinct, Injection, IsInjective
<1>4. IsFiniteSet(S) /\ Cardinality(S) = n
  BY <1>1, FS_Interval
<1>5. IsFiniteSet(Blocks) /\ Cardinality(Blocks) = N
  BY <1>1, FS_Interval DEF Blocks
<1>6. IsFiniteSet(T) /\ Cardinality(T) = N - 1
  BY <1>5, FS_RemoveElement
<1>7. Cardinality(S) <= Cardinality(T)
  BY <1>3, <1>4, <1>6, FS_Injection
<1> QED
  BY <1>1, <1>4, <1>6, <1>7

\* A pool that was filled from slot 0 on holds every block once.
LEMMA Refilled ==
  ASSUME NEW a \in [Slots -> Blocks], NEW r \in Ptr, \A s \in Slots : a[s] = s
  PROVE  Distinct(a, r, N) /\ Window(a, r, N) = Blocks
<1>1. N \in Nat \ {0} /\ W \in Nat /\ W > N
  BY SblockAssumption
<1>2. ASSUME NEW i \in 0..(N - 1)
      PROVE  Pos(Add(r, i)) \in Slots /\ At(a, r, i) = Pos(Add(r, i))
  <2>1. i \in Ptr
    BY <1>1 DEF Ptr
  <2> QED
    BY <2>1, SlotIs DEF At
<1>3. Distinct(a, r, N)
  BY <1>2, SlotsDiffer DEF Distinct
<1>4. Window(a, r, N) \subseteq Blocks
  BY <1>2 DEF Window, Slots, Blocks
<1>5. ASSUME NEW b \in Blocks PROVE b \in Window(a, r, N)
  <2>1. N \in 0..N /\ ~(N < N)
    BY <1>1
  <2> QED
    BY <1>3, <2>1, Room
<1> QED
  BY <1>3, <1>4, <1>5

-----------------------------------------------------------------------------
(* The invariant.                                                           *)

InP == Dist(prd, pwt)
InR == Dist(rrd, rwt)
Free == Window(pool, prd, InP)
Queued == Window(ring, rrd, InR)
Has(t) == blk[t] # NoBlock

\* Pool and ring hold each block once and not both, and nobody has a block of theirs
\* or of another caller.
PoolOnce == InP <= N /\ Distinct(pool, prd, InP)
RingOnce == InR <= N /\ Distinct(ring, rrd, InR)
Apart ==
  /\ Free \cap Queued = {}
  /\ \A t \in Threads : Has(t) => blk[t] \notin Free \union Queued
  /\ \A s, t \in Threads : Has(s) /\ blk[s] = blk[t] => s = t
BlocksOnce == PoolOnce /\ RingOnce /\ Apart

\* Every block is somewhere.
Complete == \A b \in Blocks : b \in Free \union Queued \/ \E t \in Threads : blk[t] = b

\* Who has a block is between its getting and its giving, at an end that is ready;
\* only a client that is up makes calls.
Callers ==
  \A t \in Threads :
    /\ Has(t) => pc[t] \in {"mask", "hand", "give"} /\ state[EndOf(t)] = "ready"
    /\ pc[t] \in {"hand", "give"} => Has(t)
    /\ EndOf(t) = Client /\ client # "up" => pc[t] = "out"

\* The host's record is right.
Records == record = {b \in Blocks : \E t \in Threads : EndOf(t) = Host /\ blk[t] = b}

\* Message m is in the queue q; it is there at most once.
In(q, m) == \E i \in 1..Len(q) : q[i] = m
Once(q, m) == \A i, j \in 1..Len(q) : q[i] = m /\ q[j] = m => i = j
ToHost(m) == In(inbox[Host], m)
ToClient(m) == In(inbox[Client], m)

\* What is under way between the ends in each phase of the client.
Opening ==
  client = "opening" =>
    /\ Once(inbox[Host], "OPEN") /\ Once(inbox[Client], "OPEN")
    /\ ~(ToHost("OPEN") /\ ToClient("OPEN"))
Started == client \in {"init", "up"} => ~ToHost("OPEN") /\ ~ToClient("OPEN")
NotThere ==
  /\ client = "off" => inbox[Client] = <<>>
  /\ client # "off" => ~ToHost("CLOSE") /\ ~ToClient("CLOSE")
First == recovery \/ (ToHost("CMD") /\ ~ToHost("OPEN"))
Recovering ==
  recovering => state[Host] = "idle" /\ inbox[Host] # <<>> /\ Head(inbox[Host]) = "OPEN"
ClientUp == state[Client] = "ready" <=> client = "up"
Talk == Opening /\ Started /\ NotThere /\ First /\ Recovering /\ ClientUp

\* What a client lost when it went is lost until the host has handled its next OPEN.
Kept == Complete \/ client = "off" \/ ToHost("OPEN")

SblockInv == TypeOK /\ BlocksOnce /\ Callers /\ Records /\ Talk /\ Kept

-----------------------------------------------------------------------------
(* Queues of messages.                                                      *)

Messages == {"OPEN", "CLOSE", "CMD", "DONE", "SEND", "RELEASE"}

\* What is in a queue after its first message is taken.
LEMMA QueueTail ==
  ASSUME NEW q \in Seq(Messages), q # <<>>
  PROVE  /\ In(q, Head(q))
         /\ \A m : In(Tail(q), m) => In(q, m)
         /\ \A m : In(q, m) /\ m # Head(q) => In(Tail(q), m)
         /\ \A m : Once(q, m) => Once(Tail(q), m) /\ (m = Head(q) => ~In(Tail(q), m))
<1> DEFINE s == Tail(q)
<1>1. /\ Len(q) \in Nat \ {0} /\ Len(s) = Len(q) - 1 /\ Head(q) = q[1]
      /\ \A i \in 1..Len(s) : i + 1 \in 1..Len(q) /\ s[i] = q[i + 1]
  OBVIOUS
<1> HIDE DEF s
<1>2. \A i \in 2..Len(q) : i - 1 \in 1..Len(s) /\ s[i - 1] = q[i]
  BY <1>1
<1>3. In(q, Head(q))
  BY <1>1 DEF In
<1>4. \A m : In(s, m) => In(q, m)
  BY <1>1 DEF In
<1>5. \A m : In(q, m) /\ m # Head(q) => In(s, m)
  BY <1>1, <1>2 DEF In
<1>6. ASSUME NEW m, Once(q, m)
      PROVE  Once(s, m) /\ (m = Head(q) => ~In(s, m))
  <2>1. Once(s, m)
    BY <1>1, <1>6 DEF Once
  <2>2. ASSUME m = Head(q), NEW i \in 1..Len(s), s[i] = m PROVE FALSE
    <3>1. q[i + 1] = m /\ q[1] = m /\ 1 \in 1..Len(q) /\ i + 1 # 1
      BY <1>1, <2>2
    <3> QED
      BY <1>1, <1>6, <3>1 DEF Once
  <2> QED
    BY <2>1, <2>2 DEF In
<1> QED
  BY <1>3, <1>4, <1>5, <1>6 DEF s

\* What is in a queue after a message is appended.
LEMMA QueueAppend ==
  ASSUME NEW q \in Seq(Messages), NEW x \in Messages
  PROVE  /\ \A m : In(Append(q, x), m) <=> (In(q, m) \/ m = x)
         /\ \A m : Once(q, m) /\ (m # x \/ ~In(q, m)) => Once(Append(q, x), m)
<1> DEFINE s == Append(q, x)
<1>1. /\ Len(q) \in Nat /\ Len(s) = Len(q) + 1 /\ s[Len(q) + 1] = x
      /\ \A i \in 1..Len(q) : s[i] = q[i]
  OBVIOUS
<1> HIDE DEF s
<1>2. \A i \in 1..Len(s) : i \in 1..Len(q) \/ i = Len(q) + 1
  BY <1>1
<1>3. \A m : In(s, m) => In(q, m) \/ m = x
  BY <1>1, <1>2 DEF In
<1>4. \A m : In(q, m) \/ m = x => In(s, m)
  <2>1. \A i \in 1..Len(q) : i \in 1..Len(s)
    BY <1>1
  <2>2. Len(q) + 1 \in 1..Len(s)
    BY <1>1
  <2> QED
    BY <1>1, <2>1, <2>2 DEF In
<1>5. ASSUME NEW m, Once(q, m), m # x \/ ~In(q, m) PROVE Once(s, m)
  <2> SUFFICES ASSUME NEW i \in 1..Len(s), NEW j \in 1..Len(s), s[i] = m, s[j] = m
               PROVE  i = j
    BY DEF Once
  <2>1. CASE m # x
    BY <1>1, <1>2, <1>5, <2>1 DEF Once
  <2>2. CASE ~In(q, m)
    <3>1. i = Len(q) + 1 /\ j = Len(q) + 1
      BY <1>1, <1>2, <2>2 DEF In
    <3> QED
      BY <3>1
  <2> QED
    BY <1>5, <2>1, <2>2
<1> QED
  BY <1>3, <1>4, <1>5 DEF s

\* The two ends, and what they find in their queues.
LEMMA TwoEnds ==
  /\ Host \in Ends /\ Client \in Ends /\ Client # Host
  /\ Other(Host) = Client /\ Other(Client) = Host
  /\ \A e \in Ends : e = Host \/ e = Client
  /\ TypeOK => inbox \in [Ends -> Seq(Messages)]
  /\ \A t \in Threads : EndOf(t) \in Ends
BY SblockAssumption DEF Ends, Client, Other, TypeOK, Messages, EndOf

\* What taking a message and answering it does to the two queues.
LEMMA ReplyIs ==
  ASSUME TypeOK, NEW e \in Ends, NEW m \in Messages
  PROVE  /\ Taken(e)[e] = Tail(inbox[e])
         /\ Taken(e)[Other(e)] = inbox[Other(e)]
         /\ Reply(e, m)[e] = Tail(inbox[e])
         /\ Reply(e, m)[Other(e)] = IF e = Host /\ client = "off" THEN inbox[Other(e)]
                                    ELSE Append(inbox[Other(e)], m)
         /\ Sent(e, m)[e] = IF e = Client /\ client = "off" THEN inbox[e]
                             ELSE Append(inbox[e], m)
         /\ Sent(e, m)[Other(e)] = inbox[Other(e)]
<1>1. inbox \in [Ends -> Seq(Messages)] /\ Other(e) \in Ends /\ Other(e) # e
  BY TwoEnds DEF Other, Ends
<1>2. Taken(e)[e] = Tail(inbox[e]) /\ Taken(e)[Other(e)] = inbox[Other(e)]
      /\ DOMAIN Taken(e) = Ends
  BY <1>1 DEF Taken
<1>3. /\ Reply(e, m)[e] = Tail(inbox[e])
      /\ Reply(e, m)[Other(e)] = IF e = Host /\ client = "off" THEN inbox[Other(e)]
                                 ELSE Append(inbox[Other(e)], m)
  BY <1>1, <1>2 DEF Reply
<1>4. /\ Sent(e, m)[e] = IF e = Client /\ client = "off" THEN inbox[e]
                         ELSE Append(inbox[e], m)
      /\ Sent(e, m)[Other(e)] = inbox[Other(e)]
  BY <1>1 DEF Sent
<1> QED
  BY <1>2, <1>3, <1>4

\* The queues stay queues of messages.
LEMMA QueueTypes ==
  ASSUME TypeOK
  PROVE  \A e \in Ends, m \in Messages :
           /\ inbox[e] # <<>> => /\ Taken(e) \in [Ends -> Seq(Messages)]
                                 /\ Reply(e, m) \in [Ends -> Seq(Messages)]
           /\ Sent(e, m) \in [Ends -> Seq(Messages)]
<1> SUFFICES ASSUME NEW e \in Ends, NEW m \in Messages
             PROVE  /\ inbox[e] # <<>> => /\ Taken(e) \in [Ends -> Seq(Messages)]
                                          /\ Reply(e, m) \in [Ends -> Seq(Messages)]
                    /\ Sent(e, m) \in [Ends -> Seq(Messages)]
  OBVIOUS
<1>1. inbox \in [Ends -> Seq(Messages)] /\ Other(e) \in Ends
  BY TwoEnds DEF Other, Ends
<1>2. ASSUME inbox[e] # <<>> PROVE Taken(e) \in [Ends -> Seq(Messages)]
  <2>1. Tail(inbox[e]) \in Seq(Messages)
    BY <1>1, <1>2
  <2> QED
    BY <1>1, <2>1 DEF Taken
<1>3. \A q \in Seq(Messages) : Append(q, m) \in Seq(Messages)
  OBVIOUS
<1>4. ASSUME inbox[e] # <<>> PROVE Reply(e, m) \in [Ends -> Seq(Messages)]
  BY <1>1, <1>2, <1>3, <1>4 DEF Reply
<1>5. Sent(e, m) \in [Ends -> Seq(Messages)]
  BY <1>1, <1>3 DEF Sent
<1> QED
  BY <1>2, <1>4, <1>5

-----------------------------------------------------------------------------
(* What the steps do to the blocks.                                         *)

\* Where a pointer points, and where it points when it moves.
LEMMA PtrIs ==
  ASSUME NEW p \in Ptr
  PROVE  Pos(p) \in Slots /\ Add(p, 1) \in Ptr /\ Add(p, W - 1) \in Ptr
<1>1. 0 \in 0..(N - 1) /\ 0 \in Ptr
  BY SblockAssumption DEF Ptr
<1>2. Add(p, 0) = p /\ Pos(Add(p, 0)) \in Slots
  BY <1>1, AddMoves, SlotIs
<1> QED
  BY <1>2, DistMoves

\* The types of what the steps move.
LEMMA DataIs ==
  ASSUME TypeOK
  PROVE  /\ prd \in Ptr /\ pwt \in Ptr /\ rrd \in Ptr /\ rwt \in Ptr
         /\ pool \in [Slots -> Blocks] /\ ring \in [Slots -> Blocks]
         /\ InP \in Nat /\ InR \in Nat /\ blk \in [Threads -> Blocks \union {NoBlock}]
         /\ NoBlock \notin Blocks
<1>1. prd \in Ptr /\ pwt \in Ptr /\ rrd \in Ptr /\ rwt \in Ptr
  BY DEF TypeOK, Ptr
<1>2. InP \in Nat /\ InR \in Nat
  BY <1>1, DistMoves DEF InP, InR
<1>3. NoBlock \notin Blocks
  BY SblockAssumption DEF NoBlock, Blocks
<1> QED
  BY <1>1, <1>2, <1>3 DEF TypeOK

\* A caller without a block takes one out of pool or ring.
LEMMA TakeKeeps ==
  ASSUME TypeOK, Apart, NEW t \in Threads, ~Has(t), NEW b \in Blocks,
         blk' = [blk EXCEPT ![t] = b],
         \/ b \in Free /\ Free' = Free \ {b} /\ Queued' = Queued
         \/ b \in Queued /\ Queued' = Queued \ {b} /\ Free' = Free
  PROVE  Apart' /\ (Complete => Complete')
<1>1. \A u \in Threads : /\ blk'[u] = IF u = t THEN b ELSE blk[u]
                         /\ Has(u)' <=> (u = t \/ Has(u))
  BY DataIs DEF Has
<1>2. b \in Free \union Queued /\ b \notin Free' \union Queued'
  BY DEF Apart
<1>3. Free' \subseteq Free /\ Queued' \subseteq Queued
  OBVIOUS
<1>4. \A u \in Threads : blk[u] # b
  BY <1>2, DataIs DEF Apart, Has
<1>5. Apart'
  BY <1>1, <1>2, <1>3, <1>4 DEF Apart
<1>6. Complete => Complete'
  BY <1>1, DataIs DEF Complete, Has
<1> QED
  BY <1>5, <1>6

\* A caller gives the block it has to pool or ring.
LEMMA GiveKeeps ==
  ASSUME TypeOK, Apart, NEW t \in Threads, Has(t),
         blk' = [blk EXCEPT ![t] = NoBlock],
         \/ Free' = Free \union {blk[t]} /\ Queued' = Queued
         \/ Queued' = Queued \union {blk[t]} /\ Free' = Free
  PROVE  Apart' /\ (Complete => Complete')
<1>1. \A u \in Threads : /\ blk'[u] = IF u = t THEN NoBlock ELSE blk[u]
                         /\ Has(u)' <=> (u # t /\ Has(u))
  BY DataIs DEF Has
<1>2. blk[t] \notin Free \union Queued
  BY DEF Apart
<1>3. Apart'
  <2>1. Free' \cap Queued' = {}
    BY <1>2 DEF Apart
  <2>2. \A u \in Threads : Has(u)' => blk'[u] = blk[u] /\ Has(u) /\ blk[u] # blk[t]
    BY <1>1 DEF Apart
  <2>3. \A u \in Threads : Has(u)' => blk'[u] \notin Free' \union Queued'
    BY <2>2 DEF Apart
  <2>4. \A s, u \in Threads : Has(s)' /\ blk'[s] = blk'[u] => s = u
    BY <1>1, <2>2 DEF Apart, Has
  <2> QED
    BY <2>1, <2>3, <2>4 DEF Apart
<1>4. Complete => Complete'
  BY <1>1, DataIs DEF Complete, Has
<1> QED
  BY <1>3, <1>4

\* What sblock_recover finds, and what it leaves: nobody has a block and the pool
\* holds them all.
LEMMA RecoverIs ==
  ASSUME SblockInv, Recover
  PROVE  /\ client \notin {"init", "up"} /\ record = {} /\ \A t \in Threads : ~Has(t)
         /\ pool' = [s \in Slots |-> s]
         /\ prd' \in Ptr /\ pwt' \in Ptr /\ rrd' \in Ptr /\ rwt' \in Ptr
         /\ InP' = N /\ InR' = 0
<1>1. recovering /\ TypeOK /\ N \in Nat \ {0} /\ W \in Nat /\ W > N /\ N \in Ptr
  BY SblockAssumption DEF SblockInv, Recover, Ptr
<1>2. state[Host] = "idle" /\ ToHost("OPEN") /\ client \notin {"init", "up"}
  <2>1. state[Host] = "idle" /\ inbox[Host] # <<>> /\ Head(inbox[Host]) = "OPEN"
    BY <1>1 DEF SblockInv, Talk, Recovering
  <2>2. ToHost("OPEN")
    BY <1>1, <2>1, TwoEnds, QueueTail DEF ToHost
  <2> QED
    BY <2>1, <2>2 DEF SblockInv, Talk, Started
<1>3. \A t \in Threads : ~Has(t)
  <2> SUFFICES ASSUME NEW t \in Threads, Has(t) PROVE FALSE
    OBVIOUS
  <2>1. EndOf(t) = Client
    BY <1>2, TwoEnds DEF SblockInv, Callers
  <2> QED
    BY <1>2, <2>1 DEF SblockInv, Callers
<1>4. record = {} /\ Done = Blocks
  <2>1. record = {}
    BY <1>1, <1>3, DataIs DEF SblockInv, Records, Has
  <2> QED
    BY <2>1 DEF Done
<1>5. Cardinality(Done) = N
  BY <1>1, <1>4, FS_Interval DEF Blocks
<1>6. ASSUME NEW s \in Slots PROVE NthDone(s) = s
  <2>1. ASSUME NEW b \in Blocks PROVE Cardinality({c \in Done : c < b}) = b
    <3> DEFINE S == {c \in Done : c < b}
    <3>1. S = 0..(b - 1) /\ b \in Nat
      BY <1>1, <1>4, <2>1 DEF Blocks
    <3> HIDE DEF S
    <3>2. Cardinality(S) = IF 0 > b - 1 THEN 0 ELSE (b - 1) - 0 + 1
      BY <3>1, FS_Interval
    <3>3. Cardinality(S) = b
      BY <3>1, <3>2
    <3> QED
      BY <3>3 DEF S
  <2>2. s \in Done
    BY <1>4 DEF Slots, Blocks
  <2> QED
    BY <1>4, <2>1, <2>2 DEF NthDone
<1>7. pool' = [s \in Slots |-> s]
  <2>1. \A s \in Slots : s < N
    BY <1>1 DEF Slots
  <2> QED
    BY <1>5, <1>6, <2>1 DEF Recover
<1>8. \A p \in Ptr : Add(p, N) \in Ptr /\ Dist(p, Add(p, N)) = N /\ Dist(p, p) = 0
  <2> SUFFICES ASSUME NEW p \in Ptr
               PROVE  Add(p, N) \in Ptr /\ Dist(p, Add(p, N)) = N /\ Dist(p, p) = 0
    OBVIOUS
  <2> DEFINE q == Add(p, N)
  <2>1. q \in Ptr /\ q = IF p + N < W THEN p + N ELSE p + N - W
    BY <1>1, AddIs
  <2> HIDE DEF q
  <2>2. Dist(p, q) = IF q >= p THEN q - p ELSE q - p + W
    BY <2>1, DistIs
  <2>3. Dist(p, q) = N
    BY <1>1, <2>1, <2>2 DEF Ptr
  <2> QED
    BY <2>1, <2>3, DistMoves DEF q
<1>9. prd' \in Ptr /\ pwt' \in Ptr /\ rrd' \in Ptr /\ rwt' \in Ptr /\ InP' = N /\ InR' = 0
  <2>1. CASE Host = "tx"
    <3>1. rwt' = rrd /\ prd' = pwt /\ pwt' = Add(pwt, N) /\ rrd' = rrd
      BY <1>5, <2>1 DEF Recover
    <3> QED
      BY <1>1, <1>8, <3>1, DataIs DEF InP, InR
  <2>2. CASE Host # "tx"
    <3>1. rrd' = rwt /\ pwt' = Add(prd, N) /\ rwt' = rwt /\ prd' = prd
      BY <1>5, <2>2 DEF Recover
    <3> QED
      BY <1>1, <1>8, <3>1, DataIs DEF InP, InR
  <2> QED
    BY <2>1, <2>2
<1> QED
  BY <1>2, <1>3, <1>4, <1>7, <1>9

-----------------------------------------------------------------------------
(* Type correctness.                                                        *)

\* The two halves of the type invariant: the blocks, and the ends and the callers.
BlocksOK ==
  /\ pool \in [Slots -> Blocks] /\ ring \in [Slots -> Blocks]
  /\ {prd, pwt, rrd, rwt} \subseteq 0..(W - 1)
  /\ record \subseteq Blocks /\ blk \in [Threads -> Blocks \union {NoBlock}]
EndsOK ==
  /\ recovery \in BOOLEAN /\ recovering \in BOOLEAN
  /\ state \in [Ends -> {"idle", "ready"}] /\ mask \in [Ends -> BOOLEAN]
  /\ inbox \in [Ends -> Seq(Messages)]
  /\ client \in {"off", "opening", "init", "up"}
  /\ pc \in [Threads -> {"out", "look", "wait", "asleep", "woken", "take", "mask",
                         "hand", "give", "put", "event", "finish"}]
  /\ sends \in 0..MaxSends /\ stops \in 0..MaxStops

\* TypeOK is these two halves, before and after a step.
LEMMA TypeHalves ==
  /\ TypeOK <=> BlocksOK /\ EndsOK
  /\ TypeOK' <=> BlocksOK' /\ EndsOK'
BY DEF TypeOK, BlocksOK, EndsOK, Messages

\* A step of a caller keeps the types.
LEMMA CallerTypes ==
  ASSUME SblockInv, NEW t \in Threads, Call(t) \/ Step(t) \/ Put(t) \/ Abort(t)
  PROVE  TypeOK'
<1>1. /\ TypeOK /\ BlocksOK /\ EndsOK /\ EndOf(t) \in Ends /\ MaxSends \in Nat
      /\ pc[t] \in {"hand", "give"} => blk[t] \in Blocks
  BY TypeHalves, TwoEnds, DataIs, SblockAssumption DEF SblockInv, Callers, Has
<1>2. CASE Call(t) \/ Look(t) \/ Wait(t) \/ Abort(t) \/ AfterWait(t) \/ SetMask(t)
           \/ Hand(t) \/ Finish(t) \/ PutMask(t)
  <2>1. UNCHANGED <<poolVars, ringVars, hostVars, state, inbox, client, bounds>>
    BY <1>2 DEF Call, Look, Wait, Abort, AfterWait, SetMask, Hand, Finish, PutMask
  <2>2. blk' = blk \/ blk' = [blk EXCEPT ![t] = NoBlock]
    BY <1>2 DEF Call, Look, Wait, Abort, AfterWait, SetMask, Hand, Finish, PutMask
  <2>3. mask' \in [Ends -> BOOLEAN]
    BY <1>1, <1>2
    DEF Call, Look, Wait, Abort, AfterWait, SetMask, Hand, Finish, PutMask, EndsOK, Empty
  <2>4. \E l \in {"out", "look", "wait", "asleep", "woken", "take", "hand", "give", "event"} :
           pc' = [pc EXCEPT ![t] = l]
    BY <1>2 DEF Call, Look, Wait, Abort, AfterWait, SetMask, Hand, Finish, PutMask, Goto
  <2>5. BlocksOK'
    BY <1>1, <2>1, <2>2 DEF BlocksOK, poolVars, ringVars, hostVars
  <2>6. EndsOK'
    BY <1>1, <2>1, <2>3, <2>4 DEF EndsOK, hostVars, bounds
  <2> QED
    BY <2>5, <2>6, TypeHalves
<1>3. CASE Event(t)
  <2>1. inbox' \in [Ends -> Seq(Messages)]
    BY <1>1, <1>3, QueueTypes DEF Event, Messages, Ends
  <2>2. UNCHANGED <<poolVars, ringVars, hostVars, state, mask, client, blk, bounds>>
        /\ pc' = [pc EXCEPT ![t] = "out"]
    BY <1>3 DEF Event, Goto
  <2>3. BlocksOK'
    BY <1>1, <2>2 DEF BlocksOK, poolVars, ringVars, hostVars
  <2>4. EndsOK'
    BY <1>1, <2>1, <2>2 DEF EndsOK, hostVars, bounds
  <2> QED
    BY <2>3, <2>4, TypeHalves
<1>4. CASE Take(t)
  <2>1. pool[Pos(prd)] \in Blocks /\ ring[Pos(rrd)] \in Blocks
        /\ Add(prd, 1) \in Ptr /\ Add(rrd, 1) \in Ptr
    BY <1>1, DataIs, PtrIs
  <2>2. UNCHANGED <<pool, pwt, ring, rwt, recovery, recovering, state, mask, inbox, client,
                    bounds>>
        /\ pc' = [pc EXCEPT ![t] = "mask"]
    BY <1>4 DEF Take, Goto
  <2>3. prd' \in 0..(W - 1) /\ rrd' \in 0..(W - 1) /\ record' \subseteq Blocks
        /\ blk' \in [Threads -> Blocks \union {NoBlock}]
    BY <1>1, <1>4, <2>1 DEF Take, Pending, BlocksOK, Ptr
  <2>4. BlocksOK'
    BY <1>1, <2>2, <2>3 DEF BlocksOK
  <2>5. EndsOK'
    BY <1>1, <2>2 DEF EndsOK, bounds
  <2> QED
    BY <2>4, <2>5, TypeHalves
<1>5. CASE Send(t)
  <2>1. Pos(rwt) \in Slots /\ Add(rwt, 1) \in Ptr /\ blk[t] \in Blocks
    BY <1>1, <1>5, DataIs, PtrIs DEF Send
  <2>2. UNCHANGED <<poolVars, rrd, recovery, recovering, state, mask, inbox, client, stops>>
        /\ \E l \in {"event", "out", "finish"} : pc' = [pc EXCEPT ![t] = l]
        /\ sends' = IF sends < MaxSends THEN sends + 1 ELSE sends
    BY <1>5 DEF Send, Goto
  <2>3. rwt' \in 0..(W - 1) /\ record' \subseteq Blocks /\ ring' \in [Slots -> Blocks]
        /\ blk' \in [Threads -> Blocks \union {NoBlock}]
    BY <1>1, <1>5, <2>1 DEF Send, Settled, BlocksOK, Ptr
  <2>4. BlocksOK'
    BY <1>1, <2>2, <2>3 DEF BlocksOK, poolVars
  <2>5. EndsOK'
    BY <1>1, <2>2 DEF EndsOK
  <2> QED
    BY <2>4, <2>5, TypeHalves
<1>6. CASE Release(t)
  <2>1. Pos(pwt) \in Slots /\ Add(pwt, 1) \in Ptr /\ blk[t] \in Blocks
    BY <1>1, <1>6, DataIs, PtrIs DEF Release
  <2>2. UNCHANGED <<prd, ringVars, recovery, recovering, state, mask, inbox, client, bounds>>
        /\ \E l \in {"event", "out"} : pc' = [pc EXCEPT ![t] = l]
    BY <1>6 DEF Release, Goto
  <2>3. pwt' \in 0..(W - 1) /\ record' \subseteq Blocks /\ pool' \in [Slots -> Blocks]
        /\ blk' \in [Threads -> Blocks \union {NoBlock}]
    BY <1>1, <1>6, <2>1 DEF Release, Settled, BlocksOK, Ptr
  <2>4. BlocksOK'
    BY <1>1, <2>2, <2>3 DEF BlocksOK, ringVars
  <2>5. EndsOK'
    BY <1>1, <2>2 DEF EndsOK, bounds
  <2> QED
    BY <2>4, <2>5, TypeHalves
<1>7. CASE Put(t)
  <2>1. Add(prd, W - 1) \in Ptr /\ blk[t] \in Blocks
    BY <1>1, <1>7, DataIs, PtrIs DEF Put
  <2>2. UNCHANGED <<pwt, ringVars, recovery, recovering, state, mask, inbox, client, bounds>>
        /\ prd' = Add(prd, W - 1) /\ pool' = [pool EXCEPT ![Pos(prd')] = blk[t]]
        /\ (pc' = [pc EXCEPT ![t] = "put"] \/ pc' = [Woken({"tx"}) EXCEPT ![t] = "put"])
    BY <1>7 DEF Put
  <2>3. Pos(prd') \in Slots /\ prd' \in Ptr
    BY <2>1, <2>2, PtrIs
  <2>4. prd' \in 0..(W - 1) /\ record' \subseteq Blocks /\ pool' \in [Slots -> Blocks]
        /\ blk' \in [Threads -> Blocks \union {NoBlock}]
    BY <1>1, <1>7, <2>1, <2>2, <2>3 DEF Put, Settled, BlocksOK, Ptr
  <2>5. BlocksOK'
    BY <1>1, <2>2, <2>4 DEF BlocksOK, ringVars
  <2>6. EndsOK'
    BY <1>1, <2>2 DEF EndsOK, bounds, Woken
  <2> QED
    BY <2>5, <2>6, TypeHalves
<1> QED
  BY <1>2, <1>3, <1>4, <1>5, <1>6, <1>7 DEF Step

\* A step of the threads of the ends, or of the client's life, keeps the types.
LEMMA EndTypes ==
  ASSUME SblockInv, Thread \/ (\E way \in Ways : ClientStop(way)) \/ ClientStart
  PROVE  TypeOK'
<1>1. /\ TypeOK /\ BlocksOK /\ EndsOK /\ Host \in Ends /\ Client \in Ends /\ Client # Host
      /\ inbox \in [Ends -> Seq(Messages)] /\ MaxStops \in Nat
  BY TypeHalves, TwoEnds, SblockAssumption DEF SblockInv
<1>2. \A e \in Ends, m \in Messages :
         inbox[e] # <<>> => /\ Taken(e) \in [Ends -> Seq(Messages)]
                            /\ Reply(e, m) \in [Ends -> Seq(Messages)]
  BY <1>1, QueueTypes
<1>3. \A q \in Seq(Messages), m \in Messages : Append(q, m) \in Seq(Messages)
  OBVIOUS
<1>4. \A e \in Ends : Woken({e}) \in [Threads ->
          {"out", "look", "wait", "asleep", "woken", "take", "mask", "hand", "give", "put",
           "event", "finish"}]
  BY <1>1 DEF Woken, EndsOK
<1>5. ASSUME NEW e \in Ends, OnEvent(e) PROVE TypeOK'
  <2>1. inbox' \in [Ends -> Seq(Messages)]
    BY <1>2, <1>5 DEF OnEvent, Head1, Messages
  <2>2. BlocksOK'
    BY <1>1, <1>5 DEF OnEvent, BlocksOK, poolVars, ringVars, hostVars
  <2>3. EndsOK'
    BY <1>1, <1>4, <1>5, <2>1 DEF OnEvent, EndsOK, hostVars, bounds
  <2> QED
    BY <2>2, <2>3, TypeHalves
<1>6. CASE OnOpen
  <2>1. inbox' \in [Ends -> Seq(Messages)]
    BY <1>1, <1>2, <1>6 DEF OnOpen, Head1, Messages
  <2>2. BlocksOK'
    BY <1>1, <1>6 DEF OnOpen, BlocksOK, poolVars, ringVars
  <2>3. EndsOK'
    BY <1>1, <1>4, <1>6, <2>1 DEF OnOpen, EndsOK, bounds
  <2> QED
    BY <2>2, <2>3, TypeHalves
<1>7. CASE Recover
  <2>1. inbox[Host] # <<>>
    BY <1>7 DEF SblockInv, Talk, Recovering, Recover
  <2>2. inbox' \in [Ends -> Seq(Messages)]
    BY <1>1, <1>2, <1>7, <2>1 DEF Recover, Messages
  <2>3. pool' = [s \in Slots |-> s] /\ {prd', pwt', rrd', rwt'} \subseteq 0..(W - 1)
    BY <1>7, RecoverIs DEF Ptr
  <2>4. BlocksOK'
    BY <1>1, <1>7, <2>3 DEF Recover, BlocksOK, Slots, Blocks
  <2>5. mask' \in [Ends -> BOOLEAN]
    BY <1>1, <1>7 DEF Recover, EndsOK
  <2>6. EndsOK'
    BY <1>1, <1>7, <2>2, <2>5 DEF Recover, EndsOK, bounds
  <2> QED
    BY <2>4, <2>6, TypeHalves
<1>8. CASE OnCmd
  <2>1. inbox' \in [Ends -> Seq(Messages)]
    BY <1>1, <1>2, <1>8 DEF OnCmd, Head1, Messages
  <2>2. BlocksOK'
    BY <1>1, <1>8 DEF OnCmd, BlocksOK, poolVars, ringVars
  <2>3. EndsOK'
    BY <1>1, <1>8, <2>1 DEF OnCmd, EndsOK, bounds
  <2> QED
    BY <2>2, <2>3, TypeHalves
<1>9. ASSUME NEW e \in Ends, OnClose(e) PROVE TypeOK'
  <2>1. inbox' \in [Ends -> Seq(Messages)]
    BY <1>1, <1>2, <1>9 DEF OnClose, Head1, Messages
  <2>2. BlocksOK'
    BY <1>1, <1>9 DEF OnClose, BlocksOK, poolVars, ringVars, hostVars
  <2>3. EndsOK'
    BY <1>1, <1>9, <2>1 DEF OnClose, EndsOK, hostVars, bounds
  <2> QED
    BY <2>2, <2>3, TypeHalves
<1>10. CASE ClientRecv
  <2>1. Taken(Client) \in [Ends -> Seq(Messages)] /\ Reply(Client, "OPEN") \in [Ends -> Seq(Messages)]
        /\ [Taken(Client) EXCEPT ![Host] = Append(@, "CMD")] \in [Ends -> Seq(Messages)]
    BY <1>1, <1>2, <1>3, <1>10 DEF ClientRecv, Messages
  <2>2. inbox' \in [Ends -> Seq(Messages)]
    BY <1>10, <2>1 DEF ClientRecv
  <2>3. BlocksOK'
    BY <1>1, <1>10 DEF ClientRecv, BlocksOK, poolVars, ringVars, hostVars
  <2>4. EndsOK'
    BY <1>1, <1>10, <2>2 DEF ClientRecv, EndsOK, hostVars, bounds
  <2> QED
    BY <2>3, <2>4, TypeHalves
<1>11. ASSUME NEW way \in Ways, ClientStop(way) PROVE TypeOK'
  <2>1. inbox' \in [Ends -> Seq(Messages)]
    <3>1. <<>> \in Seq(Messages) /\ "CLOSE" \in Messages
      BY DEF Messages
    <3> QED
      BY <1>1, <1>3, <1>11, <3>1 DEF ClientStop
  <2>2. BlocksOK'
    BY <1>1, <1>11 DEF ClientStop, BlocksOK, poolVars, ringVars, hostVars
  <2>3. pc' \in [Threads ->
          {"out", "look", "wait", "asleep", "woken", "take", "mask", "hand", "give", "put",
           "event", "finish"}]
    BY <1>1, <1>4, <1>11 DEF ClientStop, EndsOK
  <2>4. mask' \in [Ends -> BOOLEAN] /\ state' \in [Ends -> {"idle", "ready"}]
    BY <1>1, <1>11 DEF ClientStop, EndsOK
  <2>5. stops' \in 0..MaxStops /\ client' = "off"
    BY <1>1, <1>11 DEF ClientStop, EndsOK
  <2>6. UNCHANGED <<recovery, recovering, sends>>
    BY <1>11 DEF ClientStop, hostVars
  <2>7. EndsOK'
    BY <1>1, <2>1, <2>3, <2>4, <2>5, <2>6 DEF EndsOK
  <2> QED
    BY <2>2, <2>7, TypeHalves
<1>12. CASE ClientStart
  <2>1. inbox' \in [Ends -> Seq(Messages)]
    BY <1>1, <1>3, <1>12 DEF ClientStart, Messages
  <2>2. BlocksOK'
    BY <1>1, <1>12 DEF ClientStart, BlocksOK, poolVars, ringVars, hostVars
  <2>3. EndsOK'
    BY <1>1, <1>12, <2>1 DEF ClientStart, EndsOK, hostVars, bounds
  <2> QED
    BY <2>2, <2>3, TypeHalves
<1> QED
  BY <1>5, <1>6, <1>7, <1>8, <1>9, <1>10, <1>11, <1>12 DEF Thread

-----------------------------------------------------------------------------
(* The steps of the callers.                                                *)

\* A step that touches neither the blocks nor the record of the host.
LEMMA StillKeeps ==
  ASSUME BlocksOnce, Records, UNCHANGED <<poolVars, ringVars, record, blk>>
  PROVE  BlocksOnce' /\ (Complete => Complete') /\ Records'
<1>1. UNCHANGED <<pool, prd, pwt, ring, rrd, rwt, record, blk>>
  BY DEF poolVars, ringVars
<1>2. InP' = InP /\ InR' = InR /\ Free' = Free /\ Queued' = Queued
  BY <1>1 DEF InP, InR, Free, Queued
<1>3. BlocksOnce'
  BY <1>1, <1>2 DEF BlocksOnce, PoolOnce, RingOnce, Apart, Has
<1>4. (Complete => Complete') /\ Records'
  BY <1>1, <1>2 DEF Complete, Records
<1> QED
  BY <1>3, <1>4

\* Where a caller may go with what it has in its hands.
LEMMA CallersMove ==
  ASSUME Callers, ClientUp, UNCHANGED <<client, state>>, NEW t \in Threads,
         \A u \in Threads \ {t} :
            blk'[u] = blk[u] /\ (pc'[u] = pc[u] \/ (pc[u] = "asleep" /\ pc'[u] = "wait")),
         blk'[t] # NoBlock => pc'[t] \in {"mask", "hand", "give"} /\ state[EndOf(t)] = "ready",
         pc'[t] \in {"hand", "give"} => blk'[t] # NoBlock,
         pc[t] # "out" \/ state[EndOf(t)] = "ready"
  PROVE  Callers'
<1> SUFFICES ASSUME NEW u \in Threads
             PROVE  /\ blk'[u] # NoBlock =>
                         pc'[u] \in {"mask", "hand", "give"} /\ state'[EndOf(u)] = "ready"
                    /\ pc'[u] \in {"hand", "give"} => blk'[u] # NoBlock
                    /\ EndOf(u) = Client /\ client' # "up" => pc'[u] = "out"
  BY DEF Callers, Has
<1>1. CASE u = t
  BY <1>1 DEF Callers, ClientUp
<1>2. CASE u # t
  BY <1>2 DEF Callers, Has
<1> QED
  BY <1>1, <1>2

\* The host notes who takes a block.
LEMMA TakeRecorded ==
  ASSUME TypeOK, Records, NEW t \in Threads, ~Has(t), NEW b \in Blocks,
         blk' = [blk EXCEPT ![t] = b], Pending(t, b)
  PROVE  Records'
<1>1. \A u \in Threads : blk'[u] = IF u = t THEN b ELSE blk[u]
  BY DataIs
<1>2. blk[t] \notin Blocks
  BY DataIs DEF Has
<1> QED
  BY <1>1, <1>2 DEF Records, Pending

\* The host notes who gives its block.
LEMMA GiveRecorded ==
  ASSUME TypeOK, Records, Apart, NEW t \in Threads, Has(t),
         blk' = [blk EXCEPT ![t] = NoBlock], Settled(t, blk[t])
  PROVE  Records'
<1>1. \A u \in Threads : blk'[u] = IF u = t THEN NoBlock ELSE blk[u]
  BY DataIs
<1>2. \A u \in Threads : blk[u] = blk[t] => u = t
  BY DEF Apart
<1> QED
  BY <1>1, <1>2, DataIs DEF Records, Settled

\* A block is taken from the pool or from the ring.
LEMMA TakeStep ==
  ASSUME SblockInv, NEW t \in Threads, Take(t)
  PROVE  BlocksOnce' /\ (Complete => Complete') /\ Callers' /\ Records'
<1> DEFINE e == EndOf(t)
           b == IF e = "tx" THEN pool[Pos(prd)] ELSE ring[Pos(rrd)]
<1>1. TypeOK /\ BlocksOnce /\ Callers /\ Records /\ ClientUp /\ e \in {"tx", "rx"}
  BY DEF SblockInv, Talk, EndOf
<1>2. ~Has(t) /\ pc' = [pc EXCEPT ![t] = "mask"]
      /\ UNCHANGED <<client, state, pool, pwt, ring, rwt>>
  BY <1>1 DEF Take, Goto, Callers
<1>3. CASE ~(~Empty(e) /\ state[e] = "ready")
  <2>1. UNCHANGED <<poolVars, ringVars, record, blk>>
    BY <1>2, <1>3 DEF Take, poolVars, ringVars
  <2>2. Callers'
    BY <1>1, <1>2, <2>1, CallersMove DEF Take, TypeOK, Has
  <2> QED
    BY <1>1, <2>1, <2>2, StillKeeps
<1>4. CASE ~Empty(e) /\ state[e] = "ready"
  <2>1. /\ blk' = [blk EXCEPT ![t] = b] /\ Pending(t, b)
        /\ prd' = IF e = "tx" THEN Add(prd, 1) ELSE prd
        /\ rrd' = IF e = "rx" THEN Add(rrd, 1) ELSE rrd
    BY <1>4 DEF Take
  <2>2. b \in Blocks
    BY <1>1, DataIs, PtrIs
  <2>3. N \in Nat
    BY SblockAssumption
  <2>4. /\ PoolOnce' /\ RingOnce'
        /\ \/ b \in Free /\ Free' = Free \ {b} /\ Queued' = Queued
           \/ b \in Queued /\ Queued' = Queued \ {b} /\ Free' = Free
    <3>1. CASE e = "tx"
      <4>1. InP \in 1..N /\ InP' = InP - 1 /\ b = pool[Pos(prd)] /\ prd' = Add(prd, 1)
            /\ UNCHANGED <<pool, pwt, ring, rrd, rwt>>
        <5>1. prd # pwt /\ prd' = Add(prd, 1) /\ UNCHANGED <<pool, pwt, ring, rrd, rwt>>
          BY <1>2, <1>4, <2>1, <3>1 DEF Empty
        <5>2. InP # 0 /\ Dist(Add(prd, 1), pwt) = InP - 1
          BY <1>1, <5>1, DataIs, DistMoves DEF InP
        <5> QED
          BY <1>1, <2>3, <3>1, <5>1, <5>2, DataIs DEF InP, BlocksOnce, PoolOnce
      <4>2. /\ pool[Pos(prd)] \in Window(pool, prd, InP)
            /\ Distinct(pool, Add(prd, 1), InP - 1)
            /\ Window(pool, Add(prd, 1), InP - 1) = Window(pool, prd, InP) \ {pool[Pos(prd)]}
        BY <1>1, <4>1, DataIs, PopFront DEF BlocksOnce, PoolOnce
      <4>3. b \in Free /\ Free' = Free \ {b}
        BY <4>1, <4>2 DEF Free
      <4>4. PoolOnce'
        BY <2>3, <4>1, <4>2 DEF PoolOnce
      <4>5. RingOnce' /\ Queued' = Queued
        BY <1>1, <4>1 DEF RingOnce, Queued, InR, BlocksOnce
      <4> QED
        BY <4>3, <4>4, <4>5
    <3>2. CASE e = "rx"
      <4>1. InR \in 1..N /\ InR' = InR - 1 /\ b = ring[Pos(rrd)] /\ rrd' = Add(rrd, 1)
            /\ UNCHANGED <<pool, prd, pwt, ring, rwt>>
        <5>1. rrd # rwt /\ rrd' = Add(rrd, 1) /\ UNCHANGED <<pool, prd, pwt, ring, rwt>>
          BY <1>2, <1>4, <2>1, <3>2 DEF Empty
        <5>2. InR # 0 /\ Dist(Add(rrd, 1), rwt) = InR - 1
          BY <1>1, <5>1, DataIs, DistMoves DEF InR
        <5> QED
          BY <1>1, <2>3, <3>2, <5>1, <5>2, DataIs DEF InR, BlocksOnce, RingOnce
      <4>2. /\ ring[Pos(rrd)] \in Window(ring, rrd, InR)
            /\ Distinct(ring, Add(rrd, 1), InR - 1)
            /\ Window(ring, Add(rrd, 1), InR - 1) = Window(ring, rrd, InR) \ {ring[Pos(rrd)]}
        BY <1>1, <4>1, DataIs, PopFront DEF BlocksOnce, RingOnce
      <4>3. b \in Queued /\ Queued' = Queued \ {b}
        BY <4>1, <4>2 DEF Queued
      <4>4. RingOnce'
        BY <2>3, <4>1, <4>2 DEF RingOnce
      <4>5. PoolOnce' /\ Free' = Free
        BY <1>1, <4>1 DEF PoolOnce, Free, InP, BlocksOnce
      <4> QED
        BY <4>3, <4>4, <4>5
    <3> QED
      BY <1>1, <3>1, <3>2
  <2> HIDE DEF b
  <2>5. Apart' /\ (Complete => Complete')
    BY <1>1, <1>2, <2>1, <2>2, <2>4, TakeKeeps DEF BlocksOnce
  <2>6. Records'
    BY <1>1, <1>2, <2>1, <2>2, TakeRecorded
  <2>7. Callers'
    BY <1>1, <1>2, <1>4, <2>1, CallersMove DEF Take, TypeOK
  <2> QED
    BY <2>4, <2>5, <2>6, <2>7 DEF BlocksOnce
<1> QED
  BY <1>3, <1>4

\* The block of a caller is appended to the ring.
LEMMA SendStep ==
  ASSUME SblockInv, NEW t \in Threads, Send(t)
  PROVE  BlocksOnce' /\ (Complete => Complete') /\ Callers' /\ Records'
<1> DEFINE b == blk[t]
<1>1. TypeOK /\ BlocksOnce /\ Callers /\ Records /\ ClientUp
  BY DEF SblockInv, Talk
<1>2. Has(t) /\ b \in Blocks
  BY <1>1, DataIs DEF Send, Callers, Has
<1>3. /\ ring' = [ring EXCEPT ![Pos(rwt)] = b] /\ rwt' = Add(rwt, 1) /\ Settled(t, b)
      /\ blk' = [blk EXCEPT ![t] = NoBlock]
      /\ UNCHANGED <<pool, prd, pwt, rrd, client, state>> /\ pc[t] = "give"
      /\ \E l \in {"event", "out", "finish"} : pc' = [pc EXCEPT ![t] = l]
  BY DEF Send, poolVars, Goto
<1>4. InR \in 0..(N - 1) /\ b \notin Window(ring, rrd, InR)
  <2>1. b \notin Queued /\ InR \in Nat /\ InR <= N /\ N \in Nat
    BY <1>1, <1>2, DataIs, SblockAssumption DEF BlocksOnce, Apart, RingOnce
  <2>2. InR < N
    BY <1>1, <1>2, <2>1, DataIs, Room DEF BlocksOnce, RingOnce, Queued
  <2> QED
    BY <2>1, <2>2 DEF Queued
<1>5. InR' = InR + 1 /\ rwt = Add(rrd, InR)
  <2>1. InR < W - 1
    BY <1>4, SblockAssumption
  <2> QED
    BY <1>1, <1>3, <2>1, DataIs, DistMoves DEF InR
<1> DEFINE n == InR
           c == ring'
<1>6. /\ c[Pos(Add(rrd, n))] = b
      /\ \A s \in Slots : s # Pos(Add(rrd, n)) => c[s] = ring[s]
      /\ n \in 0..(N - 1)
      /\ b \notin Window(ring, rrd, n) /\ Distinct(ring, rrd, n)
  BY <1>1, <1>3, <1>4, DataIs, PtrIs, <1>5 DEF BlocksOnce, RingOnce
<1> HIDE DEF n, c
<1>7. /\ Distinct(c, rrd, n + 1)
      /\ Window(c, rrd, n + 1) = Window(ring, rrd, n) \union {b}
  <2>1. ring \in [Slots -> Blocks] /\ rrd \in Ptr /\ b \in Blocks
    BY <1>1, <1>2, DataIs
  <2> HIDE DEF b
  <2> QED
    BY ONLY <1>6, <2>1, PushBack
<1>8. RingOnce' /\ Queued' = Queued \union {b}
  <2>1. InR + 1 <= N
    BY <1>4, SblockAssumption
  <2>2. RingOnce'
    BY <1>3, <1>5, <1>7, <2>1 DEF RingOnce, n, c
  <2>3. Queued' = Queued \union {b}
    BY <1>3, <1>5, <1>7 DEF Queued, n, c
  <2> QED
    BY <2>2, <2>3
<1>9. PoolOnce' /\ Free' = Free
  BY <1>1, <1>3 DEF PoolOnce, Free, InP, BlocksOnce
<1>10. Apart' /\ (Complete => Complete')
  BY <1>1, <1>2, <1>3, <1>8, <1>9, GiveKeeps DEF BlocksOnce
<1>11. Records'
  BY <1>1, <1>2, <1>3, GiveRecorded DEF BlocksOnce
<1>12. Callers'
  BY <1>1, <1>3, CallersMove, DataIs DEF TypeOK
<1> QED
  BY <1>8, <1>9, <1>10, <1>11, <1>12 DEF BlocksOnce

\* The block of a caller is appended to the pool.
LEMMA ReleaseStep ==
  ASSUME SblockInv, NEW t \in Threads, Release(t)
  PROVE  BlocksOnce' /\ (Complete => Complete') /\ Callers' /\ Records'
<1> DEFINE b == blk[t]
<1>1. TypeOK /\ BlocksOnce /\ Callers /\ Records /\ ClientUp
  BY DEF SblockInv, Talk
<1>2. Has(t) /\ b \in Blocks
  BY <1>1, DataIs DEF Release, Callers, Has
<1>3. /\ pool' = [pool EXCEPT ![Pos(pwt)] = b] /\ pwt' = Add(pwt, 1) /\ Settled(t, b)
      /\ blk' = [blk EXCEPT ![t] = NoBlock]
      /\ UNCHANGED <<prd, ring, rrd, rwt, client, state>> /\ pc[t] = "give"
      /\ \E l \in {"event", "out"} : pc' = [pc EXCEPT ![t] = l]
  BY DEF Release, ringVars, Goto
<1>4. InP \in 0..(N - 1) /\ b \notin Window(pool, prd, InP)
  <2>1. b \notin Free /\ InP \in Nat /\ InP <= N /\ N \in Nat
    BY <1>1, <1>2, DataIs, SblockAssumption DEF BlocksOnce, Apart, PoolOnce
  <2>2. InP < N
    BY <1>1, <1>2, <2>1, DataIs, Room DEF BlocksOnce, PoolOnce, Free
  <2> QED
    BY <2>1, <2>2 DEF Free
<1>5. InP' = InP + 1 /\ pwt = Add(prd, InP)
  <2>1. InP < W - 1 /\ prd \in Ptr /\ pwt \in Ptr
    BY <1>1, <1>4, SblockAssumption, DataIs
  <2>2. Dist(prd, Add(pwt, 1)) = InP + 1 /\ pwt = Add(prd, InP)
    BY <2>1, DistMoves DEF InP
  <2> QED
    BY <1>3, <2>2 DEF InP
<1> DEFINE n == InP
           c == pool'
<1>6. /\ c[Pos(Add(prd, n))] = b
      /\ \A s \in Slots : s # Pos(Add(prd, n)) => c[s] = pool[s]
      /\ n \in 0..(N - 1)
      /\ b \notin Window(pool, prd, n) /\ Distinct(pool, prd, n)
  BY <1>1, <1>3, <1>4, DataIs, PtrIs, DataIs, PtrIs, <1>5 DEF BlocksOnce, PoolOnce
<1> HIDE DEF n, c
<1>7. /\ Distinct(c, prd, n + 1)
      /\ Window(c, prd, n + 1) = Window(pool, prd, n) \union {b}
  <2>1. pool \in [Slots -> Blocks] /\ prd \in Ptr /\ b \in Blocks
    BY <1>1, <1>2, DataIs
  <2> HIDE DEF b
  <2> QED
    BY ONLY <1>6, <2>1, PushBack
<1>8. PoolOnce' /\ Free' = Free \union {b}
  <2>1. InP + 1 <= N
    BY <1>4, SblockAssumption
  <2>2. PoolOnce'
    BY <1>3, <1>5, <1>7, <2>1 DEF PoolOnce, n, c
  <2>3. Free' = Free \union {b}
    BY <1>3, <1>5, <1>7 DEF Free, n, c
  <2> QED
    BY <2>2, <2>3
<1>9. RingOnce' /\ Queued' = Queued
  BY <1>1, <1>3 DEF RingOnce, Queued, InR, BlocksOnce
<1>10. Apart' /\ (Complete => Complete')
  BY <1>1, <1>2, <1>3, <1>8, <1>9, GiveKeeps DEF BlocksOnce
<1>11. Records'
  BY <1>1, <1>2, <1>3, GiveRecorded DEF BlocksOnce
<1>12. Callers'
  BY <1>1, <1>3, CallersMove, DataIs DEF TypeOK
<1> QED
  BY <1>8, <1>9, <1>10, <1>11, <1>12 DEF BlocksOnce

\* The block of a caller is put in front of the pool.
LEMMA PutStep ==
  ASSUME SblockInv, NEW t \in Threads, Put(t)
  PROVE  BlocksOnce' /\ (Complete => Complete') /\ Callers' /\ Records'
<1> DEFINE b == blk[t]
<1>1. TypeOK /\ BlocksOnce /\ Callers /\ Records /\ ClientUp
  BY DEF SblockInv, Talk
<1>2. Has(t) /\ b \in Blocks
  BY <1>1, DataIs DEF Put, Callers, Has
<1>3. /\ prd' = Add(prd, W - 1) /\ pool' = [pool EXCEPT ![Pos(prd')] = b] /\ Settled(t, b)
      /\ blk' = [blk EXCEPT ![t] = NoBlock]
      /\ UNCHANGED <<pwt, ring, rrd, rwt, client, state>> /\ pc[t] = "hand"
      /\ (pc' = [pc EXCEPT ![t] = "put"] \/ pc' = [Woken({"tx"}) EXCEPT ![t] = "put"])
  BY DEF Put, ringVars
<1>4. InP \in 0..(N - 1) /\ b \notin Window(pool, prd, InP)
  <2>1. b \notin Free /\ InP \in Nat /\ InP <= N /\ N \in Nat
    BY <1>1, <1>2, DataIs, SblockAssumption DEF BlocksOnce, Apart, PoolOnce
  <2>2. InP < N
    BY <1>1, <1>2, <2>1, DataIs, Room DEF BlocksOnce, PoolOnce, Free
  <2> QED
    BY <2>1, <2>2 DEF Free
<1>5. InP' = InP + 1
  <2>1. InP < W - 1
    BY <1>4, SblockAssumption
  <2> QED
    BY <1>1, <1>3, <2>1, DataIs, DistMoves DEF InP
<1> DEFINE n == InP
           c == pool'
           r0 == prd'
<1>6. /\ c[Pos(r0)] = b
      /\ \A s \in Slots : s # Pos(r0) => c[s] = pool[s]
      /\ n \in 0..(N - 1) /\ r0 = Add(prd, W - 1)
      /\ b \notin Window(pool, prd, n) /\ Distinct(pool, prd, n)
  BY <1>1, <1>3, <1>4, DataIs, PtrIs, DataIs, PtrIs DEF BlocksOnce, PoolOnce
<1> HIDE DEF n, c, r0
<1>7. /\ Distinct(c, r0, n + 1)
      /\ Window(c, r0, n + 1) = Window(pool, prd, n) \union {b}
  <2>1. pool \in [Slots -> Blocks] /\ prd \in Ptr /\ b \in Blocks
    BY <1>1, <1>2, DataIs
  <2> HIDE DEF b
  <2> QED
    BY ONLY <1>6, <2>1, PushFront
<1>8. PoolOnce' /\ Free' = Free \union {b}
  <2>1. InP + 1 <= N
    BY <1>4, SblockAssumption
  <2>2. PoolOnce'
    BY <1>3, <1>5, <1>7, <2>1 DEF PoolOnce, n, c, r0
  <2>3. Free' = Free \union {b}
    BY <1>3, <1>5, <1>7 DEF Free, n, c, r0
  <2> QED
    BY <2>2, <2>3
<1>9. RingOnce' /\ Queued' = Queued
  BY <1>1, <1>3 DEF RingOnce, Queued, InR, BlocksOnce
<1>10. Apart' /\ (Complete => Complete')
  BY <1>1, <1>2, <1>3, <1>8, <1>9, GiveKeeps DEF BlocksOnce
<1>11. Records'
  BY <1>1, <1>2, <1>3, GiveRecorded DEF BlocksOnce
<1>12. Callers'
  <2>1. \A u \in Threads \ {t} :
           blk'[u] = blk[u] /\ (pc'[u] = pc[u] \/ (pc[u] = "asleep" /\ pc'[u] = "wait"))
    BY <1>1, <1>3 DEF TypeOK, Woken
  <2>2. blk'[t] = NoBlock /\ pc'[t] = "put"
    BY <1>1, <1>3 DEF TypeOK, Woken
  <2> QED
    BY <1>1, <1>3, <2>1, <2>2, CallersMove
<1> QED
  BY <1>8, <1>9, <1>10, <1>11, <1>12 DEF BlocksOnce

-----------------------------------------------------------------------------
(* The lives of the client.                                                 *)

Turns == {"OPEN", "CLOSE", "CMD", "DONE"}

\* A step that neither moves the lives of the ends on nor adds or takes a message
\* about them.
Calm ==
  /\ UNCHANGED <<client, state, recovery, recovering>>
  /\ \A e \in Ends, m \in Turns : /\ In(inbox'[e], m) <=> In(inbox[e], m)
                                  /\ Once(inbox[e], m) => Once(inbox'[e], m)
  /\ inbox[Client] = <<>> /\ client = "off" => inbox'[Client] = <<>>
  /\ inbox[Host] # <<>> /\ Head(inbox[Host]) = "OPEN" =>
       inbox'[Host] # <<>> /\ Head(inbox'[Host]) = "OPEN"

\* Such a step keeps what is known of the lives.
LEMMA CalmKeeps ==
  ASSUME Talk, Calm
  PROVE  Talk'
BY TwoEnds
DEF Talk, Opening, Started, NotThere, First, Recovering, ClientUp, Calm, ToHost, ToClient,
    Turns

\* An event is sent or handled calmly.
LEMMA EventCalm ==
  ASSUME TypeOK, NEW e \in Ends, UNCHANGED <<client, state, recovery, recovering>>,
         \/ inbox' = inbox
         \/ inbox' = Sent(e, "SEND") \/ inbox' = Sent(e, "RELEASE")
         \/ inbox[e] # <<>> /\ Head(inbox[e]) \notin Turns /\ inbox' = Taken(e)
  PROVE  Calm
<1>1. CASE inbox' = inbox
  BY <1>1 DEF Calm
<1>2. ASSUME NEW x \in {"SEND", "RELEASE"}, inbox' = Sent(e, x) PROVE Calm
  <2>1. x \in Messages /\ x \notin Turns
    BY DEF Messages, Turns
  <2>2. /\ inbox'[e] = IF e = Client /\ client = "off" THEN inbox[e] ELSE Append(inbox[e], x)
        /\ inbox'[Other(e)] = inbox[Other(e)]
    BY <1>2, <2>1, ReplyIs
  <2>3. /\ inbox[e] \in Seq(Messages) /\ \A f \in Ends : f = e \/ f = Other(e)
    BY TwoEnds DEF Ends, Other
  <2>4. \A m \in Turns : /\ In(inbox'[e], m) <=> In(inbox[e], m)
                         /\ Once(inbox[e], m) => Once(inbox'[e], m)
    BY <2>1, <2>2, <2>3, QueueAppend
  <2>5. inbox[Client] = <<>> /\ client = "off" => inbox'[Client] = <<>>
    BY <2>2, <2>3, TwoEnds
  <2>6. \A q \in Seq(Messages) :
           q # <<>> => Append(q, x) # <<>> /\ Head(Append(q, x)) = Head(q)
    OBVIOUS
  <2>7. inbox[Host] # <<>> => inbox'[Host] # <<>> /\ Head(inbox'[Host]) = Head(inbox[Host])
    BY <2>2, <2>3, <2>6, TwoEnds
  <2> QED
    BY <2>2, <2>3, <2>4, <2>5, <2>7 DEF Calm
<1>3. CASE inbox[e] # <<>> /\ Head(inbox[e]) \notin Turns /\ inbox' = Taken(e)
  <2>1. /\ inbox'[e] = Tail(inbox[e]) /\ inbox'[Other(e)] = inbox[Other(e)]
    BY <1>3, ReplyIs DEF Messages
  <2>2. /\ inbox[e] \in Seq(Messages) /\ \A f \in Ends : f = e \/ f = Other(e)
    BY TwoEnds DEF Ends, Other
  <2>3. \A m \in Turns : /\ In(inbox'[e], m) <=> In(inbox[e], m)
                         /\ Once(inbox[e], m) => Once(inbox'[e], m)
    BY <1>3, <2>1, <2>2, QueueTail
  <2>4. inbox[Client] = <<>> /\ client = "off" => inbox'[Client] = <<>>
    BY <1>3, <2>1, <2>2, TwoEnds
  <2>5. inbox[Host] # <<>> /\ Head(inbox[Host]) = "OPEN" => inbox'[Host] = inbox[Host]
    BY <1>3, <2>1, <2>2, TwoEnds DEF Turns
  <2> QED
    BY <2>1, <2>2, <2>3, <2>4, <2>5 DEF Calm
<1> QED
  BY <1>1, <1>2, <1>3

\* What the steps of the callers keep.
LEMMA CallerStep ==
  ASSUME SblockInv, NEW t \in Threads, Call(t) \/ Step(t) \/ Put(t) \/ Abort(t)
  PROVE  BlocksOnce' /\ (Complete => Complete') /\ Callers' /\ Records' /\ Calm
<1>1. TypeOK /\ BlocksOnce /\ Callers /\ Records /\ ClientUp /\ Host \in Ends
  BY TwoEnds DEF SblockInv, Talk
<1>2. CASE Call(t) \/ Look(t) \/ Wait(t) \/ Abort(t) \/ AfterWait(t) \/ SetMask(t)
           \/ Hand(t) \/ Finish(t) \/ PutMask(t) \/ Event(t)
  <2>1. UNCHANGED <<poolVars, ringVars, record, recovery, recovering, state, client>>
    BY <1>2
    DEF Call, Look, Wait, Abort, AfterWait, SetMask, Hand, Finish, PutMask, Event, hostVars
  <2>2. blk' = blk
    BY <1>1, <1>2
    DEF Call, Look, Wait, Abort, AfterWait, SetMask, Hand, Finish, PutMask, Event, Callers
  <2>3. \E l \in {"out", "look", "wait", "asleep", "woken", "take", "hand", "give", "event"} :
           /\ pc' = [pc EXCEPT ![t] = l]
           /\ l = "hand" => Has(t) /\ pc[t] = "mask"
           /\ l = "give" => pc[t] = "hand"
           /\ l \notin {"hand", "give"} => ~Has(t)
           /\ pc[t] # "out" \/ state[EndOf(t)] = "ready"
    BY <1>1, <1>2
    DEF Call, Look, Wait, Abort, AfterWait, SetMask, Hand, Finish, PutMask, Event, Goto,
        Callers, Has
  <2>4. PICK l \in {"out", "look", "wait", "asleep", "woken", "take", "hand", "give", "event"} :
           /\ pc' = [pc EXCEPT ![t] = l]
           /\ l = "hand" => Has(t) /\ pc[t] = "mask"
           /\ l = "give" => pc[t] = "hand"
           /\ l \notin {"hand", "give"} => ~Has(t)
           /\ pc[t] # "out" \/ state[EndOf(t)] = "ready"
    BY <2>3
  <2>5. pc'[t] = l /\ \A u \in Threads \ {t} : pc'[u] = pc[u]
    BY <1>1, <2>4 DEF TypeOK
  <2>6. Has(t) => l \in {"hand", "give"} /\ state[EndOf(t)] = "ready"
    BY <1>1, <2>4 DEF Callers
  <2>7. l \in {"hand", "give"} => Has(t)
    BY <1>1, <2>4 DEF Callers
  <2>8. Callers'
    BY <1>1, <2>1, <2>2, <2>4, <2>5, <2>6, <2>7, CallersMove DEF Has
  <2>9. inbox' = inbox \/ inbox' = Sent("rx", "SEND") \/ inbox' = Sent("tx", "RELEASE")
    BY <1>2 DEF Call, Look, Wait, Abort, AfterWait, SetMask, Hand, Finish, PutMask, Event
  <2>10. Calm
    BY <1>1, <2>1, <2>9, EventCalm DEF Ends
  <2> QED
    BY <1>1, <2>1, <2>2, <2>8, <2>10, StillKeeps
<1>3. CASE Take(t) \/ Send(t) \/ Release(t) \/ Put(t)
  <2>1. UNCHANGED <<client, state, recovery, recovering>> /\ inbox' = inbox
    BY <1>3 DEF Take, Send, Release, Put
  <2>2. Calm
    BY <1>1, <2>1, EventCalm
  <2> QED
    BY <1>3, <2>2, TakeStep, SendStep, ReleaseStep, PutStep
<1> QED
  BY <1>2, <1>3 DEF Step

-----------------------------------------------------------------------------
(* The steps of the threads of the two ends, and of the client's life.      *)

\* What such a step keeps besides the types.
Held == BlocksOnce /\ Callers /\ Records /\ Talk /\ Kept

\* A calm step keeps that nothing is lost.
LEMMA CalmKept ==
  ASSUME Kept, Calm, Complete => Complete'
  PROVE  Kept'
BY TwoEnds DEF Kept, Calm, ToHost, Turns

\* A step that neither moves blocks nor makes an end idle at which somebody has one.
LEMMA CallersStay ==
  ASSUME Callers, UNCHANGED blk,
         \A t \in Threads :
            /\ pc'[t] = pc[t] \/ (pc[t] = "asleep" /\ pc'[t] = "wait")
            /\ Has(t) => state'[EndOf(t)] = "ready",
         client' = "up" \/ client # "up" \/ client' = client
  PROVE  Callers'
BY DEF Callers, Has

\* An event is handled.
LEMMA EventStep ==
  ASSUME SblockInv, NEW e \in Ends, OnEvent(e)
  PROVE  Held'
<1>1. TypeOK /\ BlocksOnce /\ Callers /\ Records /\ Talk /\ Kept
  BY DEF SblockInv
<1>2. /\ UNCHANGED <<poolVars, ringVars, record, recovery, recovering, state, client, blk>>
      /\ pc' = Woken({e}) /\ inbox' = Taken(e) /\ inbox[e] # <<>>
      /\ Head(inbox[e]) \notin Turns
  BY DEF OnEvent, Head1, hostVars, Turns
<1>3. Calm
  BY <1>1, <1>2, EventCalm
<1>4. BlocksOnce' /\ (Complete => Complete') /\ Records'
  BY <1>1, <1>2, StillKeeps
<1>5. Callers'
  BY <1>1, <1>2, CallersStay DEF Woken, Callers
<1> QED
  BY <1>1, <1>3, <1>4, <1>5, CalmKeeps, CalmKept DEF Held

\* The host begins to recover: before its first recovery there is no OPEN for it.
LEMMA OpenStep ==
  ASSUME ~IdleInHand, SblockInv, OnOpen
  PROVE  Held'
<1> DEFINE H == inbox[Host]
<1>1. TypeOK /\ BlocksOnce /\ Callers /\ Records /\ Talk /\ Kept /\ H \in Seq(Messages)
  BY TwoEnds DEF SblockInv
<1>2. H # <<>> /\ Head(H) = "OPEN" /\ ~InHand
  BY DEF OnOpen, Head1
<1>3. ToHost("OPEN") /\ recovery
  <2>1. ToHost("OPEN")
    BY <1>1, <1>2, QueueTail DEF ToHost
  <2> QED
    BY <1>1, <2>1 DEF Talk, First
<1>4. /\ UNCHANGED <<poolVars, ringVars, record, recovery, client, blk, inbox>>
      /\ recovering' = TRUE /\ state' = [state EXCEPT ![Host] = "idle"]
      /\ pc' = Woken({Host})
  BY <1>3 DEF OnOpen
<1>5. state'[Host] = "idle" /\ state'[Client] = state[Client]
  BY <1>1, <1>4, TwoEnds DEF TypeOK
<1>6. BlocksOnce' /\ (Complete => Complete') /\ Records'
  BY <1>1, <1>4, StillKeeps
<1>7. Callers'
  <2>1. \A t \in Threads : Has(t) => EndOf(t) = Client
    BY <1>2, TwoEnds DEF InHand, Has
  <2> QED
    BY <1>1, <1>4, <1>5, <2>1, CallersStay DEF Woken, Callers
<1>8. Talk'
  BY <1>1, <1>2, <1>4, <1>5
  DEF Talk, Opening, Started, NotThere, First, Recovering, ClientUp, ToHost, ToClient
<1>9. Kept'
  BY <1>1, <1>4, <1>6 DEF Kept, ToHost
<1> QED
  BY <1>6, <1>7, <1>8, <1>9 DEF Held

\* The host has rebuilt pool and ring.
LEMMA RecoverStep ==
  ASSUME SblockInv, Recover
  PROVE  Held'
<1> DEFINE H == inbox[Host]
           C == inbox[Client]
<1>1. /\ TypeOK /\ BlocksOnce /\ Callers /\ Records /\ Talk /\ recovering
      /\ H \in Seq(Messages) /\ C \in Seq(Messages)
  BY TwoEnds DEF SblockInv, Recover
<1>2. /\ client \notin {"init", "up"} /\ record = {} /\ \A t \in Threads : ~Has(t)
      /\ pool' = [s \in Slots |-> s] /\ prd' \in Ptr /\ InP' = N /\ InR' = 0
  BY RecoverIs
<1>3. /\ UNCHANGED <<record, recovery, state, client, pc, blk>>
      /\ recovering' = FALSE /\ inbox' = Reply(Host, "OPEN")
  BY DEF Recover
<1>4. N \in Nat \ {0} /\ Blocks = Slots
  BY SblockAssumption DEF Blocks, Slots
<1>5. Distinct(pool', prd', N) /\ Window(pool', prd', N) = Blocks
  <2> DEFINE a == pool'
             r == prd'
  <2>1. a \in [Slots -> Blocks] /\ r \in Ptr /\ \A s \in Slots : a[s] = s
    BY <1>2, <1>4
  <2> HIDE DEF a, r
  <2>2. Distinct(a, r, N) /\ Window(a, r, N) = Blocks
    BY <2>1, Refilled
  <2> QED
    BY <2>2 DEF a, r
<1>6. PoolOnce' /\ Free' = Blocks
  BY <1>2, <1>4, <1>5 DEF PoolOnce, Free
<1>7. RingOnce' /\ Queued' = {}
  BY <1>2, <1>4 DEF RingOnce, Queued, Distinct, Window
<1>8. \A t \in Threads : blk'[t] = NoBlock
  BY <1>2, <1>3 DEF Has
<1>9. Apart'
  BY <1>1, <1>7, <1>8 DEF Apart, Has
<1>10. Complete' /\ Kept'
  BY <1>6 DEF Complete, Kept
<1>11. Records'
  BY <1>1, <1>2, <1>3 DEF Records
<1>12. Callers'
  BY <1>1, <1>3 DEF Callers, Has
<1>13. H # <<>> /\ Head(H) = "OPEN" /\ ToHost("OPEN")
  BY <1>1, QueueTail DEF Talk, Recovering, ToHost
<1>14. /\ inbox'[Host] = Tail(H)
       /\ inbox'[Client] = IF client = "off" THEN C ELSE Append(C, "OPEN")
  BY <1>1, <1>3, ReplyIs, TwoEnds DEF Messages
<1>15. \A m : In(Tail(H), m) => ToHost(m)
  BY <1>1, <1>13, QueueTail DEF ToHost
<1>16. Once(H, "OPEN") => ~In(Tail(H), "OPEN") /\ Once(Tail(H), "OPEN")
  BY <1>1, <1>13, QueueTail
<1>17. /\ \A m : In(Append(C, "OPEN"), m) <=> (ToClient(m) \/ m = "OPEN")
       /\ Once(C, "OPEN") /\ ~ToClient("OPEN") => Once(Append(C, "OPEN"), "OPEN")
  BY <1>1, QueueAppend DEF ToClient, Messages
<1>18. Talk'
  BY <1>1, <1>2, <1>3, <1>13, <1>14, <1>15, <1>16, <1>17
  DEF Talk, Opening, Started, NotThere, First, Recovering, ClientUp, ToHost, ToClient
<1> QED
  BY <1>6, <1>7, <1>9, <1>10, <1>11, <1>12, <1>18 DEF Held, BlocksOnce

\* The host answers the client's request for the addresses.
LEMMA CmdStep ==
  ASSUME SblockInv, OnCmd
  PROVE  Held'
<1> DEFINE H == inbox[Host]
           C == inbox[Client]
<1>1. /\ TypeOK /\ BlocksOnce /\ Callers /\ Records /\ Talk /\ Kept
      /\ H \in Seq(Messages) /\ C \in Seq(Messages)
  BY TwoEnds DEF SblockInv
<1>2. /\ UNCHANGED <<poolVars, ringVars, record, recovering, client, pc, blk>>
      /\ state' = [state EXCEPT ![Host] = "ready"] /\ recovery' = TRUE
      /\ inbox' = Reply(Host, "DONE") /\ H # <<>> /\ Head(H) = "CMD" /\ ~recovering
  BY DEF OnCmd, Head1, EventAt
<1>3. state'[Host] = "ready" /\ state'[Client] = state[Client]
  BY <1>1, <1>2, TwoEnds DEF TypeOK
<1>4. BlocksOnce' /\ (Complete => Complete') /\ Records'
  BY <1>1, <1>2, StillKeeps
<1>5. Callers'
  <2>1. \A t \in Threads : Has(t) => state'[EndOf(t)] = "ready"
    BY <1>1, <1>3, TwoEnds DEF Callers
  <2> QED
    BY <1>1, <1>2, <2>1, CallersStay
<1>6. /\ inbox'[Host] = Tail(H)
      /\ inbox'[Client] = IF client = "off" THEN C ELSE Append(C, "DONE")
  BY <1>1, <1>2, ReplyIs, TwoEnds DEF Messages
<1>7. /\ \A m : In(Tail(H), m) => ToHost(m)
      /\ Once(H, "OPEN") => Once(Tail(H), "OPEN")
      /\ ToHost("OPEN") => In(Tail(H), "OPEN")
  BY <1>1, <1>2, QueueTail DEF ToHost
<1>8. /\ \A m : In(Append(C, "DONE"), m) <=> (ToClient(m) \/ m = "DONE")
      /\ Once(C, "OPEN") => Once(Append(C, "DONE"), "OPEN")
  BY <1>1, QueueAppend DEF ToClient, Messages
<1>9. Talk'
  BY <1>1, <1>2, <1>3, <1>6, <1>7, <1>8
  DEF Talk, Opening, Started, NotThere, First, Recovering, ClientUp, ToHost, ToClient
<1>10. Kept'
  BY <1>1, <1>2, <1>4, <1>6, <1>7 DEF Kept, ToHost
<1> QED
  BY <1>4, <1>5, <1>9, <1>10 DEF Held

\* A CLOSE is handled: only the host finds one, and its client is off.
LEMMA CloseStep ==
  ASSUME ~IdleInHand, SblockInv, NEW e \in Ends, OnClose(e)
  PROVE  Held'
<1> DEFINE H == inbox[Host]
           C == inbox[Client]
<1>1. /\ TypeOK /\ BlocksOnce /\ Callers /\ Records /\ Talk /\ Kept
      /\ H \in Seq(Messages) /\ C \in Seq(Messages)
  BY TwoEnds DEF SblockInv
<1>2. inbox[e] # <<>> /\ Head(inbox[e]) = "CLOSE"
  BY DEF OnClose, Head1
<1>3. In(inbox[e], "CLOSE")
  BY <1>1, <1>2, TwoEnds, QueueTail
<1>4. e = Host /\ client = "off"
  BY <1>1, <1>3, TwoEnds DEF Talk, NotThere, ToHost, ToClient, OnClose, EventAt
<1>5. /\ UNCHANGED <<poolVars, ringVars, record, recovery, recovering, client, pc, blk>>
      /\ state' = [state EXCEPT ![Host] = "idle"] /\ inbox' = Taken(Host)
      /\ ~recovering /\ ~InHand
  BY <1>4 DEF OnClose, Reply, EventAt, hostVars
<1>6. state'[Host] = "idle" /\ state'[Client] = state[Client]
  BY <1>1, <1>5, TwoEnds DEF TypeOK
<1>7. inbox'[Host] = Tail(H) /\ inbox'[Client] = C
  BY <1>1, <1>5, ReplyIs, TwoEnds DEF Messages
<1>8. BlocksOnce' /\ (Complete => Complete') /\ Records'
  BY <1>1, <1>5, StillKeeps
<1>9. Callers'
  <2>1. \A t \in Threads : Has(t) => EndOf(t) = Client
    BY <1>5, TwoEnds DEF InHand, Has
  <2> QED
    BY <1>1, <1>5, <1>6, <2>1, CallersStay DEF Callers
<1>10. /\ \A m : In(Tail(H), m) => ToHost(m)
       /\ ToHost("CMD") => In(Tail(H), "CMD")
  BY <1>1, <1>2, <1>4, QueueTail DEF ToHost
<1>11. Talk'
  BY <1>1, <1>4, <1>5, <1>6, <1>7, <1>10
  DEF Talk, Opening, Started, NotThere, First, Recovering, ClientUp, ToHost, ToClient
<1>12. Kept'
  BY <1>4, <1>5 DEF Kept
<1> QED
  BY <1>8, <1>9, <1>11, <1>12 DEF Held

\* The client takes a message of its start, or drops one.
LEMMA RecvStep ==
  ASSUME SblockInv, ClientRecv
  PROVE  Held'
<1> DEFINE H == inbox[Host]
           C == inbox[Client]
<1>1. /\ TypeOK /\ BlocksOnce /\ Callers /\ Records /\ Talk /\ Kept
      /\ H \in Seq(Messages) /\ C \in Seq(Messages)
  BY TwoEnds DEF SblockInv
<1>2. /\ UNCHANGED <<poolVars, ringVars, record, recovery, recovering, pc, blk>>
      /\ client # "off" /\ C # <<>>
  BY DEF ClientRecv, hostVars
<1>3. BlocksOnce' /\ (Complete => Complete') /\ Records'
  BY <1>1, <1>2, StillKeeps
<1>4. /\ \A m : In(Tail(C), m) => ToClient(m)
      /\ ToClient(Head(C))
      /\ Once(C, "OPEN") => /\ Once(Tail(C), "OPEN")
                            /\ Head(C) = "OPEN" => ~In(Tail(C), "OPEN")
  BY <1>1, <1>2, QueueTail DEF ToClient
<1>5. recovering => ToHost("OPEN")
  BY <1>1, QueueTail DEF Talk, Recovering, ToHost
<1>6. CASE client = "opening" /\ Head1(Client, "OPEN")
  <2>1. /\ client' = "init" /\ state' = state
        /\ inbox' = [Taken(Client) EXCEPT ![Host] = Append(@, "CMD")] /\ Head(C) = "OPEN"
    BY <1>6 DEF ClientRecv, Head1
  <2>2. inbox'[Client] = Tail(C) /\ inbox'[Host] = Append(H, "CMD")
    <3>1. /\ Taken(Client)[Client] = Tail(C) /\ Taken(Client)[Host] = H
          /\ DOMAIN Taken(Client) = Ends
      BY <1>1, ReplyIs, TwoEnds DEF Messages, Taken
    <3> QED
      BY <2>1, <3>1, TwoEnds
  <2>3. \A m : In(Append(H, "CMD"), m) <=> (ToHost(m) \/ m = "CMD")
    BY <1>1, QueueAppend DEF ToHost, Messages
  <2>4. ~ToHost("OPEN") /\ Once(C, "OPEN")
    BY <1>1, <1>4, <1>6, <2>1 DEF Talk, Opening
  <2>5. Talk'
    BY <1>1, <1>2, <1>4, <1>5, <1>6, <2>1, <2>2, <2>3, <2>4
    DEF Talk, Opening, Started, NotThere, First, Recovering, ClientUp, ToHost, ToClient
  <2>6. Callers'
    BY <1>1, <1>2, <1>6, <2>1, CallersStay DEF Callers
  <2>7. Kept'
    BY <1>1, <1>3, <1>6, <2>4 DEF Kept
  <2> QED
    BY <1>3, <2>5, <2>6, <2>7 DEF Held
<1>7. CASE client = "init" /\ Head1(Client, "DONE")
  <2>1. /\ client' = "up" /\ state' = [state EXCEPT ![Client] = "ready"]
        /\ inbox' = Taken(Client)
    BY <1>7 DEF ClientRecv
  <2>2. /\ inbox'[Client] = Tail(C) /\ inbox'[Host] = H
        /\ state'[Host] = state[Host] /\ state'[Client] = "ready"
    BY <1>1, <2>1, ReplyIs, TwoEnds DEF Messages, TypeOK
  <2>3. Talk'
    BY <1>1, <1>2, <1>4, <1>7, <2>1, <2>2
    DEF Talk, Opening, Started, NotThere, First, Recovering, ClientUp, ToHost, ToClient
  <2>4. Callers'
    <3>1. \A t \in Threads : Has(t) => state'[EndOf(t)] = "ready"
      BY <1>1, <2>2, TwoEnds DEF Callers
    <3> QED
      BY <1>1, <1>2, <2>1, <3>1, CallersStay
  <2>5. Kept'
    BY <1>1, <1>3, <1>7, <2>1, <2>2 DEF Kept, ToHost
  <2> QED
    BY <1>3, <2>3, <2>4, <2>5 DEF Held
<1>8. CASE /\ ~(client = "opening" /\ Head1(Client, "OPEN"))
           /\ ~(client = "init" /\ Head1(Client, "DONE"))
  <2>1. ~(client = "up" /\ Head1(Client, "OPEN"))
    BY <1>1, <1>4 DEF Head1, Talk, Started
  <2>2. UNCHANGED <<client, state>> /\ inbox' = Taken(Client)
    BY <1>8, <2>1 DEF ClientRecv
  <2>3. inbox'[Client] = Tail(C) /\ inbox'[Host] = H
    BY <1>1, <2>2, ReplyIs, TwoEnds DEF Messages
  <2>4. Talk'
    BY <1>1, <1>2, <1>4, <2>2, <2>3
    DEF Talk, Opening, Started, NotThere, First, Recovering, ClientUp, ToHost, ToClient
  <2>5. Callers'
    BY <1>1, <1>2, <2>2, CallersStay DEF Callers
  <2>6. Kept'
    BY <1>1, <1>3, <2>2, <2>3 DEF Kept, ToHost
  <2> QED
    BY <1>3, <2>4, <2>5, <2>6 DEF Held
<1> QED
  BY <1>6, <1>7, <1>8

\* The client goes, and its callers with what they had.
LEMMA StopStep ==
  ASSUME ~IdleInHand, SblockInv, NEW way \in Ways, ClientStop(way)
  PROVE  Held'
<1> DEFINE H == inbox[Host]
<1>1. /\ TypeOK /\ BlocksOnce /\ Callers /\ Records /\ Talk /\ H \in Seq(Messages)
      /\ Client # Host /\ Client \in Ends /\ Host \in Ends
  BY TwoEnds DEF SblockInv
<1>2. /\ UNCHANGED <<pool, prd, pwt, ring, rrd, rwt, record, recovery, recovering>>
      /\ client' = "off"
  BY DEF ClientStop, poolVars, ringVars, hostVars
<1>3. /\ inbox'[Client] = <<>>
      /\ inbox'[Host] = IF way = "close" THEN Append(H, "CLOSE") ELSE H
      /\ state'[Client] = "idle"
      /\ state'[Host] = IF way = "remove" THEN "idle" ELSE state[Host]
  BY <1>1, TwoEnds DEF ClientStop
<1>4. \A t \in Threads :
         /\ EndOf(t) = Client => pc'[t] = "out" /\ blk'[t] = NoBlock
         /\ EndOf(t) # Client =>
              /\ pc'[t] = pc[t] \/ (pc[t] = "asleep" /\ pc'[t] = "wait")
              /\ blk'[t] = blk[t]
  BY DEF ClientStop, Woken
<1>5. way = "remove" => ~InHand
  BY DEF ClientStop
<1>6. BlocksOnce'
  <2>1. InP' = InP /\ InR' = InR /\ Free' = Free /\ Queued' = Queued
    BY <1>2 DEF InP, InR, Free, Queued
  <2>2. PoolOnce' /\ RingOnce'
    BY <1>1, <1>2, <2>1 DEF PoolOnce, RingOnce, BlocksOnce
  <2>3. Apart'
    BY <1>1, <1>4, <2>1 DEF Apart, BlocksOnce, Has
  <2> QED
    BY <2>2, <2>3 DEF BlocksOnce
<1>7. Records'
  BY <1>1, <1>2, <1>4 DEF Records
<1>8. Callers'
  <2>1. \A t \in Threads : EndOf(t) = Host /\ Has(t) => state'[Host] = "ready"
    BY <1>1, <1>3, <1>5 DEF InHand, Has, Callers
  <2> QED
    BY <1>1, <1>2, <1>3, <1>4, <2>1, TwoEnds DEF Callers, Has
<1>9. Talk'
  <2>1. \A m : In(Append(H, "CLOSE"), m) <=> (ToHost(m) \/ m = "CLOSE")
    BY <1>1, QueueAppend DEF ToHost, Messages
  <2>2. H # <<>> => Append(H, "CLOSE") # <<>> /\ Head(Append(H, "CLOSE")) = Head(H)
    BY <1>1
  <2>3. First'
    BY <1>1, <1>2, <1>3, <2>1 DEF Talk, First, ToHost
  <2>4. Recovering'
    BY <1>1, <1>2, <1>3, <2>2 DEF Talk, Recovering
  <2> QED
    BY <1>2, <1>3, <2>3, <2>4 DEF Talk, Opening, Started, NotThere, ClientUp
<1>10. Kept'
  BY <1>2 DEF Kept
<1> QED
  BY <1>6, <1>7, <1>8, <1>9, <1>10 DEF Held

\* The client starts again.
LEMMA StartStep ==
  ASSUME ~SlowHost, SblockInv, ClientStart
  PROVE  Held'
<1> DEFINE H == inbox[Host]
           C == inbox[Client]
<1>1. /\ TypeOK /\ BlocksOnce /\ Callers /\ Records /\ Talk
      /\ H \in Seq(Messages) /\ C \in Seq(Messages)
  BY TwoEnds DEF SblockInv
<1>2. /\ UNCHANGED <<poolVars, ringVars, record, recovery, recovering, state, pc, blk>>
      /\ client = "off" /\ H = <<>> /\ client' = "opening"
      /\ inbox' = [inbox EXCEPT ![Host] = Append(@, "OPEN")]
  BY DEF ClientStart, hostVars
<1>3. BlocksOnce' /\ Records'
  BY <1>1, <1>2, StillKeeps
<1>4. Callers'
  BY <1>1, <1>2, CallersStay DEF Callers
<1>5. inbox'[Host] = Append(H, "OPEN") /\ inbox'[Client] = C /\ C = <<>>
  BY <1>1, <1>2, TwoEnds DEF Talk, NotThere
<1>6. /\ \A m : ~ToHost(m) /\ ~ToClient(m) /\ Once(H, m) /\ Once(C, m)
  BY <1>2, <1>5 DEF ToHost, ToClient, In, Once
<1>7. /\ \A m : In(Append(H, "OPEN"), m) <=> m = "OPEN"
      /\ Once(Append(H, "OPEN"), "OPEN")
  BY <1>1, <1>6, QueueAppend DEF ToHost, Messages
<1>8. recovery /\ ~recovering
  BY <1>1, <1>2, <1>6 DEF Talk, First, Recovering
<1>9. Talk'
  BY <1>1, <1>2, <1>5, <1>6, <1>7, <1>8
  DEF Talk, Opening, Started, NotThere, First, Recovering, ClientUp, ToHost, ToClient
<1>10. Kept'
  BY <1>5, <1>7 DEF Kept, ToHost
<1> QED
  BY <1>3, <1>4, <1>9, <1>10 DEF Held

-----------------------------------------------------------------------------
(* The theorems.                                                            *)

\* A fresh sblock: the pool holds every block, and the client waits for its DONE.
LEMMA SblockInit ==
  ASSUME Init
  PROVE  SblockInv
<1>1. N \in Nat \ {0} /\ W \in Nat /\ W > N /\ 0 \in Ptr /\ N \in Ptr /\ Blocks = Slots
      /\ MaxSends \in Nat /\ MaxStops \in Nat
  BY SblockAssumption DEF Ptr, Blocks, Slots
<1>2. /\ inbox[Host] = <<"CMD">> /\ inbox[Client] = <<>> /\ client = "init"
      /\ state[Host] = "idle" /\ state[Client] = "idle"
      /\ \A t \in Threads : pc[t] = "out" /\ blk[t] = NoBlock
      /\ record = {} /\ recovery = FALSE /\ recovering = FALSE
      /\ pool = [s \in Slots |-> s] /\ prd = 0 /\ pwt = N
      /\ ring = [s \in Slots |-> 0] /\ rrd = 0 /\ rwt = 0
  BY TwoEnds DEF Init
<1>3. BlocksOK
  <2>1. 0 \in Blocks /\ {prd, pwt, rrd, rwt} \subseteq 0..(W - 1)
    BY <1>1, <1>2 DEF Ptr, Blocks
  <2> QED
    BY <1>1, <1>2, <2>1 DEF BlocksOK, Init
<1>4. EndsOK
  <2>1. <<>> \in Seq(Messages) /\ <<"CMD">> \in Seq(Messages)
    BY DEF Messages
  <2>2. inbox \in [Ends -> Seq(Messages)]
    BY <2>1 DEF Init
  <2>3. /\ state \in [Ends -> {"idle", "ready"}] /\ mask \in [Ends -> BOOLEAN]
        /\ pc \in [Threads -> {"out", "look", "wait", "asleep", "woken", "take", "mask",
                               "hand", "give", "put", "event", "finish"}]
    BY DEF Init
  <2>4. recovery \in BOOLEAN /\ recovering \in BOOLEAN
    BY <1>2
  <2>5. client \in {"off", "opening", "init", "up"}
    BY <1>2
  <2>6. sends \in 0..MaxSends /\ stops \in 0..MaxStops
    BY <1>1 DEF Init
  <2> QED
    BY <2>2, <2>3, <2>4, <2>5, <2>6 DEF EndsOK
<1>5. TypeOK
  BY <1>3, <1>4, TypeHalves
<1>6. InP = N /\ InR = 0
  BY <1>1, <1>2, DistIs DEF InP, InR
<1>7. Distinct(pool, prd, N) /\ Window(pool, prd, N) = Blocks
  <2>1. pool \in [Slots -> Blocks] /\ prd \in Ptr /\ \A s \in Slots : pool[s] = s
    BY <1>1, <1>2
  <2> QED
    BY <2>1, Refilled
<1>8. PoolOnce /\ Free = Blocks
  BY <1>1, <1>6, <1>7 DEF PoolOnce, Free
<1>9. RingOnce /\ Queued = {}
  BY <1>1, <1>6 DEF RingOnce, Queued, Distinct, Window
<1>10. Apart /\ Complete
  BY <1>2, <1>8, <1>9 DEF Apart, Complete, Has
<1>11. Callers
  BY <1>2 DEF Callers, Has
<1>12. Records
  BY <1>1, <1>2, <1>5, DataIs DEF Records
<1>13. \A m : (ToHost(m) <=> m = "CMD") /\ ~ToClient(m)
  BY <1>2 DEF ToHost, ToClient, In
<1>14. Talk
  BY <1>2, <1>13 DEF Talk, Opening, Started, NotThere, First, Recovering, ClientUp
<1> QED
  BY <1>5, <1>8, <1>9, <1>10, <1>11, <1>12, <1>14 DEF SblockInv, BlocksOnce, Kept

\* Every step keeps the invariant.
LEMMA SblockStep ==
  ASSUME ~IdleInHand, ~SlowHost, SblockInv, [Next]_vars
  PROVE  SblockInv'
<1>1. ASSUME NEW t \in Threads, Call(t) \/ Step(t) \/ Put(t) \/ Abort(t) PROVE SblockInv'
  <2>1. TypeOK'
    BY <1>1, CallerTypes
  <2>2. BlocksOnce' /\ (Complete => Complete') /\ Callers' /\ Records' /\ Calm
    BY <1>1, CallerStep
  <2>3. Talk' /\ Kept'
    BY <2>2, CalmKeeps, CalmKept DEF SblockInv
  <2> QED
    BY <2>1, <2>2, <2>3 DEF SblockInv
<1>2. ASSUME Thread \/ (\E way \in Ways : ClientStop(way)) \/ ClientStart PROVE SblockInv'
  <2>1. TypeOK'
    BY <1>2, EndTypes
  <2>2. Held'
    BY <1>2, EventStep, OpenStep, RecoverStep, CmdStep, CloseStep, RecvStep, StopStep, StartStep
    DEF Thread
  <2> QED
    BY <2>1, <2>2 DEF SblockInv, Held
<1>3. CASE UNCHANGED vars
  <2>1. UNCHANGED <<poolVars, ringVars, record, recovery, recovering, state, mask, inbox, client,
                    pc, blk, bounds>>
    BY <1>3 DEF vars, hostVars
  <2>2. BlocksOnce' /\ (Complete => Complete') /\ Records'
    BY <2>1, StillKeeps DEF SblockInv
  <2>3. Calm
    BY <2>1 DEF Calm
  <2>4. Talk' /\ Kept'
    BY <2>2, <2>3, CalmKeeps, CalmKept DEF SblockInv
  <2>5. Callers'
    BY <2>1 DEF SblockInv, Callers, Has
  <2>6. TypeOK'
    BY <2>1 DEF SblockInv, TypeOK, poolVars, ringVars, bounds
  <2> QED
    BY <2>2, <2>4, <2>5, <2>6 DEF SblockInv
<1> QED
  BY <1>1, <1>2, <1>3 DEF Next

\* How often a block is between two pointers, when no block is there twice.
LEMMA ContentCount ==
  ASSUME NEW a \in [Slots -> Blocks], NEW r \in Ptr, NEW w \in Ptr,
         Distinct(a, r, Dist(r, w)), NEW b
  PROVE  LET c == Content(a, r, w)
         IN  Cardinality({i \in DOMAIN c : c[i] = b})
               = IF b \in Window(a, r, Dist(r, w)) THEN 1 ELSE 0
<1> DEFINE n == Dist(r, w)
           c == Content(a, r, w)
           S == {i \in DOMAIN c : c[i] = b}
<1>1. n \in Nat
  BY DistMoves
<1> HIDE DEF n
<1>2. DOMAIN c = 1..n /\ \A i \in 1..n : c[i] = At(a, r, i - 1)
  BY DEF Content, n, At
<1> HIDE DEF c
<1>3. \A i \in 1..n : i - 1 \in 0..(n - 1)
  BY <1>1
<1>4. \A i \in 0..(n - 1) : i + 1 \in 1..n /\ (i + 1) - 1 = i
  BY <1>1
<1>5. CASE b \in Window(a, r, n)
  <2>1. PICK k \in 0..(n - 1) : At(a, r, k) = b
    BY <1>5 DEF Window
  <2>2. \A i \in S : i = k + 1
    <3> SUFFICES ASSUME NEW i \in S PROVE i = k + 1
      OBVIOUS
    <3>1. i \in 1..n /\ At(a, r, i - 1) = b
      BY <1>2
    <3>2. i - 1 = k
      BY <1>3, <2>1, <3>1 DEF Distinct, n
    <3> QED
      BY <1>1, <3>1, <3>2
  <2>3. k + 1 \in S
    BY <1>2, <1>4, <2>1
  <2>4. S = {k + 1}
    BY <2>2, <2>3
  <2> HIDE DEF S
  <2>5. Cardinality(S) = 1
    BY <2>4, FS_Singleton
  <2> QED
    BY <1>5, <2>5 DEF S, n, c
<1>6. CASE b \notin Window(a, r, n)
  <2>1. S = {}
    BY <1>2, <1>3, <1>6 DEF Window
  <2> HIDE DEF S
  <2>2. Cardinality(S) = 0
    BY <2>1, FS_EmptySet
  <2> QED
    BY <1>6, <2>2 DEF S, n, c
<1> QED
  BY <1>5, <1>6

\* The three places of a block, by the invariant.
LEMMA PlacesAre ==
  ASSUME SblockInv, NEW b \in Blocks
  PROVE  Places(b) = (IF b \in Free THEN 1 ELSE 0) + (IF b \in Queued THEN 1 ELSE 0)
                       + (IF \E t \in Threads : blk[t] = b THEN 1 ELSE 0)
<1>1. TypeOK /\ PoolOnce /\ RingOnce /\ Apart
  BY DEF SblockInv, BlocksOnce
<1>2. Cardinality({i \in DOMAIN InPool : InPool[i] = b}) = IF b \in Free THEN 1 ELSE 0
  BY <1>1, DataIs, ContentCount DEF InPool, Free, InP, PoolOnce
<1>3. Cardinality({i \in DOMAIN InRing : InRing[i] = b}) = IF b \in Queued THEN 1 ELSE 0
  BY <1>1, DataIs, ContentCount DEF InRing, Queued, InR, RingOnce
<1>4. Cardinality(Holders(b)) = IF \E t \in Threads : blk[t] = b THEN 1 ELSE 0
  <2>1. CASE \E t \in Threads : blk[t] = b
    <3>1. PICK t \in Threads : blk[t] = b
      BY <2>1
    <3>2. Holders(b) = {t}
      BY <1>1, <3>1, DataIs DEF Holders, Apart, Has
    <3> QED
      BY <2>1, <3>2, FS_Singleton
  <2>2. CASE ~\E t \in Threads : blk[t] = b
    <3>1. Holders(b) = {}
      BY <2>2 DEF Holders
    <3> QED
      BY <2>2, <3>1, FS_EmptySet
  <2> QED
    BY <2>1, <2>2
<1> QED
  BY <1>2, <1>3, <1>4 DEF Places

\* The pool, the ring and the callers share no block, and while both ends are up they
\* have them all: whatever the callers of get, put, send, receive and release do, and
\* however often the client goes and sblock_recover rebuilds the pool.
THEOREM PoolIsSafe ==
  ASSUME ~IdleInHand, ~SlowHost
  PROVE  Spec => []PoolSafe
<1>1. SblockInv => PoolSafe
  <2> SUFFICES ASSUME SblockInv PROVE PoolSafe
    OBVIOUS
  <2>1. TypeOK /\ Apart
    BY DEF SblockInv, BlocksOnce
  <2>2. OnePlace
    <3> SUFFICES ASSUME NEW b \in Blocks PROVE Places(b) <= 1
      BY DEF OnePlace
    <3>1. b \in Free => b \notin Queued
      BY <2>1 DEF Apart
    <3>2. (\E t \in Threads : blk[t] = b) => b \notin Free /\ b \notin Queued
      BY <2>1, DataIs DEF Apart, Has
    <3> QED
      BY <3>1, <3>2, PlacesAre
  <2>3. NoneLost
    <3> SUFFICES ASSUME client = "up", NEW b \in Blocks PROVE Places(b) >= 1
      BY DEF NoneLost
    <3>1. Complete
      BY DEF SblockInv, Kept, Talk, Started
    <3>2. b \in Free \/ b \in Queued \/ \E t \in Threads : blk[t] = b
      BY <3>1 DEF Complete
    <3> QED
      BY <3>2, PlacesAre
  <2> QED
    BY <2>1, <2>2, <2>3 DEF PoolSafe
<1>2. Init => SblockInv
  BY SblockInit
<1>3. SblockInv /\ [Next]_vars => SblockInv'
  BY SblockStep
<1> QED
  BY <1>1, <1>2, <1>3, PTL DEF Spec

=============================================================================

----------------------- MODULE SubnetAllocationProofs -----------------------
(***************************************************************************)
(* Proofs about blocks, subnets and reservations, for every width of an    *)
(* address, every block, every template that fits in it, every load and    *)
(* every bound.                                                            *)
(***************************************************************************)
EXTENDS SubnetAllocation, WellFoundedInduction, TLAPS

-----------------------------------------------------------------------------
(* Least elements.                                                         *)

\* The order of the numbers, as a relation.
Less == {p \in Nat \X Nat : p[1] < p[2]}

\* A set of numbers has a least one.
LEMMA LeastNumber ==
  ASSUME NEW S \in SUBSET Nat, S # {}
  PROVE  \E x \in S : \A y \in S : x <= y
<1>1. Less = OpToRel(<, Nat)
  BY Zenon DEF Less, OpToRel
<1>2. PICK x \in S : \A y \in S : <<y, x>> \notin Less
  BY <1>1, WFMin, NatLessThanWellFounded
<1>3. ASSUME NEW y \in S PROVE x <= y
  <2>1. x \in Nat /\ y \in Nat /\ <<y, x>> \notin Less
    BY <1>2
  <2> QED
    BY <2>1 DEF Less
<1> QED
  BY <1>3

\* So Min is what its name says.
LEMMA MinIs ==
  ASSUME NEW S \in SUBSET Nat, S # {}
  PROVE  Min(S) \in S /\ \A y \in S : Min(S) <= y
BY LeastNumber DEF Min

\* Induction over a set of numbers: a set with zero and with the successor
\* of each of its elements has them all.
LEMMA Induction ==
  ASSUME NEW S \in SUBSET Nat, 0 \in S, \A n \in S : n + 1 \in S
  PROVE  S = Nat
<1> SUFFICES ASSUME Nat \ S # {} PROVE FALSE
  OBVIOUS
<1>1. PICK x \in Nat \ S : \A y \in Nat \ S : x <= y
  <2>1. Nat \ S \in SUBSET Nat
    OBVIOUS
  <2> QED
    BY <2>1, LeastNumber
<1>2. x # 0 /\ x - 1 \in Nat
  BY <1>1
<1>3. x - 1 \in S
  BY <1>1, <1>2
<1>4. (x - 1) + 1 \in S
  BY <1>3
<1> QED
  BY <1>1, <1>4

-----------------------------------------------------------------------------
(* Functions defined by recursion: they exist.  The step is a function, so *)
(* that this can be stated without an operator as parameter.               *)

\* There is a function with a given start and a given step.
LEMMA RecursiveFunction ==
  ASSUME NEW V, NEW v \in V, NEW step \in [Nat -> [V -> V]]
  PROVE  \E f \in [Nat -> V] : f[0] = v /\ \A n \in Nat : f[n + 1] = step[n][f[n]]
<1> DEFINE Good(g, n) == g[0] = v /\ \A i \in 0..(n - 1) : g[i + 1] = step[i][g[i]]
           S == {n \in Nat : \E g \in [Nat -> V] : Good(g, n)}
<1>1. 0 \in S
  <2>1. [i \in Nat |-> v] \in [Nat -> V] /\ Good([i \in Nat |-> v], 0)
    OBVIOUS
  <2> QED
    BY <2>1
<1>2. ASSUME NEW n \in S PROVE n + 1 \in S
  <2>1. PICK g \in [Nat -> V] : Good(g, n)
    BY <1>2
  <2>2. n \in Nat /\ step[n][g[n]] \in V
    BY <1>2
  <2> DEFINE k == [g EXCEPT ![n + 1] = step[n][g[n]]]
  <2>3. k \in [Nat -> V]
    BY <2>2
  <2>4. k[0] = v
    BY <2>1, <2>2
  <2>5. ASSUME NEW i \in 0..n PROVE k[i + 1] = step[i][k[i]]
    <3>1. CASE i = n
      BY <2>2, <3>1
    <3>2. CASE i # n
      <4>1. i \in 0..(n - 1) /\ i + 1 # n + 1 /\ i # n + 1 /\ i + 1 \in Nat /\ i \in Nat
        BY <2>2, <3>2
      <4> QED
        BY <2>1, <4>1
    <3> QED
      BY <3>1, <3>2
  <2> HIDE DEF k
  <2>6. Good(k, n + 1)
    BY <2>2, <2>4, <2>5
  <2> QED
    BY <2>2, <2>3, <2>6
<1>3. S = Nat
  <2>1. S \in SUBSET Nat
    OBVIOUS
  <2> HIDE DEF S
  <2> QED
    BY <2>1, <1>1, <1>2, Induction
<1> DEFINE G == [n \in Nat |-> CHOOSE g \in [Nat -> V] : Good(g, n)]
<1>4. ASSUME NEW n \in Nat PROVE G[n] \in [Nat -> V] /\ Good(G[n], n)
  <2>1. \E g \in [Nat -> V] : Good(g, n)
    BY <1>3
  <2> QED
    BY <2>1
\* Two functions that are good up to n agree up to n.
<1>5. ASSUME NEW m \in Nat, NEW n \in Nat, m <= n,
             NEW a \in [Nat -> V], NEW b \in [Nat -> V], Good(a, m), Good(b, n)
      PROVE  a[m] = b[m]
  <2> DEFINE E == {i \in Nat : i <= m => a[i] = b[i]}
  <2>1. 0 \in E
    BY <1>5
  <2>2. ASSUME NEW i \in E PROVE i + 1 \in E
    <3>1. CASE i + 1 <= m
      <4>1. a[i] = b[i] /\ i \in 0..(m - 1) /\ i \in 0..(n - 1) /\ i + 1 \in Nat
        BY <1>5, <2>2, <3>1
      <4> QED
        BY <1>5, <4>1
    <3>2. CASE ~(i + 1 <= m)
      BY <3>2, <2>2
    <3> QED
      BY <3>1, <3>2
  <2>3. E = Nat
    <3>1. E \in SUBSET Nat
      OBVIOUS
    <3> HIDE DEF E
    <3> QED
      BY <3>1, <2>1, <2>2, Induction
  <2> QED
    BY <1>5, <2>3
<1> DEFINE f == [n \in Nat |-> G[n][n]]
<1>6. f \in [Nat -> V]
  BY <1>4
<1>7. f[0] = v
  BY <1>4
<1>8. ASSUME NEW n \in Nat PROVE f[n + 1] = step[n][f[n]]
  <2>0. n + 1 \in Nat /\ n <= n + 1
    OBVIOUS
  <2> HIDE DEF Good, G
  <2>1. /\ G[n] \in [Nat -> V] /\ Good(G[n], n)
        /\ G[n + 1] \in [Nat -> V] /\ Good(G[n + 1], n + 1)
    BY <1>4, <2>0
  <2>2. G[n][n] = G[n + 1][n]
    BY <2>0, <2>1, <1>5
  <2>3. n \in 0..(n + 1 - 1)
    OBVIOUS
  <2>4. G[n + 1][n + 1] = step[n][G[n + 1][n]]
    BY <2>1, <2>3 DEF Good
  <2> QED
    BY <2>0, <2>2, <2>4
<1> HIDE DEF f
<1> QED
  BY <1>6, <1>7, <1>8

-----------------------------------------------------------------------------
(* Powers of two.                                                          *)

\* pow2 follows its recursion.
LEMMA PowStep ==
  /\ pow2 \in [Nat -> Nat \ {0}]
  /\ pow2[0] = 1
  /\ \A n \in Nat : pow2[n + 1] = 2 * pow2[n]
<1> DEFINE Pos == Nat \ {0}
           step == [n \in Nat |-> [x \in Pos |-> 2 * x]]
           Body(g) == [n \in Nat |-> IF n = 0 THEN 1 ELSE 2 * g[n - 1]]
<1>1. step \in [Nat -> [Pos -> Pos]] /\ 1 \in Pos
  OBVIOUS
<1>2. PICK f \in [Nat -> Pos] : f[0] = 1 /\ \A n \in Nat : f[n + 1] = step[n][f[n]]
  <2> HIDE DEF step, Pos
  <2>1. \A v \in Pos : \A s \in [Nat -> [Pos -> Pos]] :
          \E f \in [Nat -> Pos] : f[0] = v /\ \A n \in Nat : f[n + 1] = s[n][f[n]]
    BY RecursiveFunction
  <2> QED
    BY <1>1, <2>1
<1>3. f = Body(f)
  <2>1. ASSUME NEW n \in Nat PROVE f[n] = IF n = 0 THEN 1 ELSE 2 * f[n - 1]
    <3>1. CASE n = 0
      BY <1>2, <3>1
    <3>2. CASE n # 0
      <4>1. n - 1 \in Nat /\ (n - 1) + 1 = n
        BY <3>2
      <4>2. f[(n - 1) + 1] = step[n - 1][f[n - 1]]
        BY <4>1, <1>2
      <4>3. f[n - 1] \in Pos
        BY <4>1, <1>2
      <4> QED
        BY <4>1, <4>2, <4>3, <3>2
    <3> QED
      BY <3>1, <3>2
  <2> QED
    BY <2>1
<1>4. pow2 = Body(pow2)
  BY <1>3 DEF pow2
<1>5. pow2[0] = 1 /\ \A n \in Nat : pow2[n + 1] = 2 * pow2[n]
  <2>1. pow2[0] = 1
    BY <1>4
  <2>2. ASSUME NEW n \in Nat PROVE pow2[n + 1] = 2 * pow2[n]
    <3>1. n + 1 \in Nat /\ n + 1 # 0 /\ (n + 1) - 1 = n
      OBVIOUS
    <3>2. Body(pow2)[n + 1] = 2 * pow2[n]
      BY <3>1
    <3> QED
      BY <1>4, <3>2
  <2> QED
    BY <2>1, <2>2
<1>6. {n \in Nat : pow2[n] \in Pos} = Nat
  <2> DEFINE S == {n \in Nat : pow2[n] \in Pos}
  <2>1. S \in SUBSET Nat /\ 0 \in S
    BY <1>5
  <2>2. ASSUME NEW n \in S PROVE n + 1 \in S
    BY <1>5
  <2> HIDE DEF S
  <2>3. S = Nat
    BY <2>1, <2>2, Induction
  <2> QED
    BY <2>3 DEF S
<1>7. pow2 \in [Nat -> Pos]
  <2>1. pow2 = [n \in Nat |-> pow2[n]]
    <3>1. DOMAIN Body(pow2) = Nat
      OBVIOUS
    <3> QED
      BY <1>4
  <2> QED
    BY <1>6, <2>1
<1> QED
  BY <1>5, <1>7

\* The power of a sum is the product of the powers.
LEMMA PowSum ==
  ASSUME NEW m \in Nat, NEW n \in Nat
  PROVE  pow2[m + n] = pow2[m] * pow2[n]
<1> DEFINE S == {i \in Nat : pow2[m + i] = pow2[m] * pow2[i]}
<1>1. S \in SUBSET Nat /\ 0 \in S
  BY PowStep
<1>2. ASSUME NEW i \in S PROVE i + 1 \in S
  <2>1. i \in Nat /\ m + i \in Nat /\ m + (i + 1) = (m + i) + 1
    BY <1>2
  <2>2. pow2[m + (i + 1)] = 2 * pow2[m + i] /\ pow2[i + 1] = 2 * pow2[i]
    BY <2>1, PowStep
  <2>3. pow2[m] \in Int /\ pow2[i] \in Int
    BY <2>1, PowStep
  <2>4. pow2[m + i] = pow2[m] * pow2[i]
    BY <1>2
  <2>5. 2 * (pow2[m] * pow2[i]) = pow2[m] * (2 * pow2[i])
    BY <2>3
  <2> QED
    BY <2>1, <2>2, <2>4, <2>5
<1> HIDE DEF S
<1>3. S = Nat
  BY <1>1, <1>2, Induction
<1> QED
  BY <1>3 DEF S

\* A larger power is a multiple of a smaller one, twice at least if it is not
\* the same.
LEMMA PowFactor ==
  ASSUME NEW m \in Nat, NEW n \in Nat, m <= n
  PROVE  /\ \E k \in Nat \ {0} : pow2[n] = k * pow2[m] /\ (m < n => k >= 2)
         /\ pow2[m] <= pow2[n]
<1>1. n - m \in Nat /\ m + (n - m) = n
  OBVIOUS
<1>2. pow2[n] = pow2[n - m] * pow2[m] /\ pow2[n - m] \in Nat \ {0} /\ pow2[m] \in Nat \ {0}
  <2>1. (n - m) + m = n
    OBVIOUS
  <2>2. pow2[(n - m) + m] = pow2[n - m] * pow2[m]
    BY <1>1, PowSum
  <2> QED
    BY <1>1, <2>1, <2>2, PowStep
<1>3. ASSUME m < n PROVE pow2[n - m] >= 2
  <2>1. (n - m) - 1 \in Nat /\ ((n - m) - 1) + 1 = n - m
    BY <1>3
  <2>2. pow2[n - m] = 2 * pow2[(n - m) - 1] /\ pow2[(n - m) - 1] \in Nat \ {0}
    BY <2>1, PowStep
  <2> QED
    BY <2>2
<1>4. pow2[m] <= pow2[n - m] * pow2[m]
  BY <1>2
<1> QED
  BY <1>2, <1>3, <1>4

-----------------------------------------------------------------------------
(* Multiples.                                                              *)

\* A product with a positive factor keeps the order.
LEMMA Scaled ==
  ASSUME NEW a \in Nat \ {0}, NEW j \in Int, NEW k \in Int
  PROVE  /\ j <= k => j * a <= k * a
         /\ j < k => j * a + a <= k * a
<1>1. ASSUME NEW d \in Nat PROVE d * a \in Nat
  OBVIOUS
<1>2. (k - j) * a = k * a - j * a /\ ((k - j) - 1) * a = k * a - j * a - a
  OBVIOUS
<1>3. ASSUME j <= k PROVE j * a <= k * a
  <2>1. (k - j) * a \in Nat
    BY <1>1, <1>3
  <2> QED
    BY <1>2, <2>1
<1>4. ASSUME j < k PROVE j * a + a <= k * a
  <2>1. ((k - j) - 1) * a \in Nat
    BY <1>1, <1>4
  <2> QED
    BY <1>2, <2>1
<1> QED
  BY <1>3, <1>4

\* Division with remainder.
LEMMA Remainder ==
  ASSUME NEW x \in Int, NEW a \in Nat \ {0}
  PROVE  /\ x \div a \in Int /\ x % a \in 0..(a - 1)
         /\ x = (x \div a) * a + (x % a)
OBVIOUS

\* What is left when a multiple is divided.
LEMMA MultipleRest ==
  ASSUME NEW a \in Nat \ {0}, NEW k \in Int
  PROVE  (k * a) % a = 0 /\ (k * a) \div a = k
<1> DEFINE x == k * a
           q == x \div a
           r == x % a
<1>0. x \in Int
  OBVIOUS
<1>1. x \in Int /\ q \in Int /\ r \in 0..(a - 1) /\ x = q * a + r
  <2> HIDE DEF x
  <2> QED
    BY <1>0, Remainder
<1>2. ~(q < k)
  <2> SUFFICES ASSUME q < k PROVE FALSE
    OBVIOUS
  <2>1. q * a + a <= k * a
    BY <1>1, Scaled
  <2> QED
    BY <1>1, <2>1
<1>3. ~(k < q)
  <2> SUFFICES ASSUME k < q PROVE FALSE
    OBVIOUS
  <2>1. k * a + a <= q * a
    BY <1>1, Scaled
  <2> QED
    BY <1>1, <2>1
<1>4. q = k
  BY <1>1, <1>2, <1>3
<1> QED
  BY <1>1, <1>4

\* Multiples(a): where a subnet of a addresses may start.
Multiples(a) == {x \in Int : \E k \in Int : x = k * a}

\* Being a multiple, and leaving no rest.
LEMMA MultipleMod ==
  ASSUME NEW a \in Nat \ {0}, NEW x \in Int
  PROVE  x \in Multiples(a) <=> x % a = 0
<1>1. ASSUME x \in Multiples(a) PROVE x % a = 0
  <2>1. PICK k \in Int : x = k * a
    BY <1>1 DEF Multiples
  <2> QED
    BY <2>1, MultipleRest
<1>2. ASSUME x % a = 0 PROVE x \in Multiples(a)
  <2>1. x \div a \in Int /\ x = (x \div a) * a + (x % a)
    BY Remainder
  <2>2. x = (x \div a) * a
    BY <1>2, <2>1
  <2> QED
    BY <2>1, <2>2 DEF Multiples
<1> QED
  BY <1>1, <1>2

\* Multiples are closed under sum and difference.
LEMMA MultipleSum ==
  ASSUME NEW a \in Nat \ {0}, NEW x \in Multiples(a), NEW y \in Multiples(a)
  PROVE  x + y \in Multiples(a) /\ x - y \in Multiples(a)
<1>1. PICK j \in Int : x = j * a
  BY DEF Multiples
<1>2. PICK k \in Int : y = k * a
  BY DEF Multiples
<1>3. x + y = (j + k) * a /\ x - y = (j - k) * a
  BY <1>1, <1>2
<1>4. j + k \in Int /\ j - k \in Int /\ (j + k) * a \in Int /\ (j - k) * a \in Int
  OBVIOUS
<1> QED
  BY <1>3, <1>4 DEF Multiples

\* A multiple of a multiple is a multiple.
LEMMA MultipleOf ==
  ASSUME NEW a \in Nat \ {0}, NEW b \in Multiples(a), NEW x \in Multiples(b)
  PROVE  x \in Multiples(a)
<1>1. PICK j \in Int : b = j * a
  BY DEF Multiples
<1>2. PICK k \in Int : x = k * b
  BY DEF Multiples
<1>3. k * (j * a) = (k * j) * a
  OBVIOUS
<1>4. x = (k * j) * a /\ k * j \in Int /\ (k * j) * a \in Int
  BY <1>1, <1>2, <1>3
<1> QED
  BY <1>4 DEF Multiples

\* Between two multiples there is room for one more step.
LEMMA MultipleGap ==
  ASSUME NEW a \in Nat \ {0}, NEW x \in Multiples(a), NEW y \in Multiples(a), x < y
  PROVE  x + a <= y
<1>1. PICK j \in Int : x = j * a
  BY DEF Multiples
<1>2. PICK k \in Int : y = k * a
  BY DEF Multiples
<1>3. ~(k <= j)
  <2> SUFFICES ASSUME k <= j PROVE FALSE
    OBVIOUS
  <2>1. k * a <= j * a
    BY Scaled
  <2> QED
    BY <1>1, <1>2, <2>1
<1>4. j * a + a <= k * a
  BY <1>3, Scaled
<1> QED
  BY <1>1, <1>2, <1>4

-----------------------------------------------------------------------------
(* Blocks of addresses.                                                    *)

\* Sizes are positive, and the longer prefix divides the shorter one's block.
LEMMA Sizes ==
  ASSUME NEW l \in (-W)..W, NEW m \in (-W)..W
  PROVE  /\ Size(l) \in Nat \ {0}
         /\ l <= m => Size(l) \in Multiples(Size(m)) /\ Size(m) <= Size(l)
         /\ Size(m) <= Size(l) => l <= m
<1>0. W - l \in Nat /\ W - m \in Nat
  BY WidthAssumption
<1>1. Size(l) \in Nat \ {0} /\ Size(m) \in Nat \ {0}
  BY <1>0, PowStep DEF Size
<1>2. ASSUME l <= m PROVE Size(l) \in Multiples(Size(m)) /\ Size(m) <= Size(l)
  <2>1. W - m <= W - l
    BY <1>0, <1>2, WidthAssumption
  <2>2. /\ \E k \in Nat \ {0} : pow2[W - l] = k * pow2[W - m]
        /\ pow2[W - m] <= pow2[W - l]
    BY <1>0, <2>1, PowFactor
  <2> QED
    BY <1>1, <2>2 DEF Size, Multiples
<1>3. ASSUME m < l, Size(m) <= Size(l) PROVE FALSE
  <2>1. W - l < W - m
    BY <1>0, <1>3, WidthAssumption
  <2>2. PICK k \in Nat \ {0} : pow2[W - m] = k * pow2[W - l] /\ k >= 2
    BY <1>0, <2>1, PowFactor
  <2>3. 1 * pow2[W - l] + pow2[W - l] <= k * pow2[W - l]
    BY <1>1, <2>2, Scaled DEF Size
  <2> QED
    BY <1>1, <1>3, <2>2, <2>3 DEF Size
<1> QED
  BY <1>1, <1>2, <1>3

\* A CIDR has an address.
LEMMA Bounds ==
  ASSUME NEW c \in Cidr
  PROVE  /\ c.len \in 0..W /\ c.base \in Nat /\ c.base < Space /\ Space \in Nat
         /\ Size(c.len) \in Nat \ {0} /\ Last(c) \in Nat /\ c.base <= Last(c)
         /\ Last(c) = c.base + Size(c.len) - 1
<1>1. c.len \in 0..W /\ c.base \in 0..(Space - 1)
  BY DEF Cidr
<1>2. c.len \in (-W)..W
  BY <1>1, WidthAssumption
<1>3. Size(c.len) \in Nat \ {0}
  BY <1>2, Sizes
<1>4. Space \in Nat
  BY WidthAssumption, PowStep DEF Space
<1> QED
  BY <1>1, <1>3, <1>4 DEF Last

\* cidrContains compares the first and the last address: that is enough.
LEMMA ContainsIs ==
  ASSUME NEW c \in Cidr, NEW d \in Cidr
  PROVE  cidrContains(c, d) <=> Addresses(d) \subseteq Addresses(c)
<1>1. /\ c.base \in Nat /\ Last(c) \in Nat /\ c.base <= Last(c)
      /\ d.base \in Nat /\ Last(d) \in Nat /\ d.base <= Last(d)
  BY Bounds
<1>2. ASSUME cidrContains(c, d) PROVE Addresses(d) \subseteq Addresses(c)
  BY <1>1, <1>2 DEF cidrContains, InCidr, Addresses
<1>3. ASSUME Addresses(d) \subseteq Addresses(c) PROVE cidrContains(c, d)
  <2>1. d.base \in Addresses(d) /\ Last(d) \in Addresses(d)
    BY <1>1 DEF Addresses
  <2>2. d.base \in c.base..Last(c) /\ Last(d) \in c.base..Last(c)
    BY <1>3, <2>1 DEF Addresses
  <2> QED
    BY <1>1, <2>2 DEF cidrContains, InCidr
<1> QED
  BY <1>2, <1>3

\* cidrOverlaps asks only whether either block has the other's first address.
LEMMA OverlapsIs ==
  ASSUME NEW c \in Cidr, NEW d \in Cidr
  PROVE  ~cidrOverlaps(c, d) <=> Apart(c, d)
<1>1. /\ c.base \in Nat /\ Last(c) \in Nat /\ c.base <= Last(c)
      /\ d.base \in Nat /\ Last(d) \in Nat /\ d.base <= Last(d)
  BY Bounds
<1>2. ASSUME ~cidrOverlaps(c, d), NEW x \in Addresses(c), x \in Addresses(d) PROVE FALSE
  BY <1>1, <1>2 DEF cidrOverlaps, InCidr, Addresses
<1>3. ASSUME cidrOverlaps(c, d) PROVE Addresses(c) \cap Addresses(d) # {}
  <2>1. c.base \in Addresses(c) /\ d.base \in Addresses(d)
    BY <1>1 DEF Addresses
  <2>2. c.base \in Addresses(d) \/ d.base \in Addresses(c)
    BY <1>1, <1>3 DEF cidrOverlaps, InCidr, Addresses
  <2> QED
    BY <2>1, <2>2
<1> QED
  BY <1>2, <1>3 DEF Apart

\* Disjointness does not depend on the order.
LEMMA DisjointSwap ==
  ASSUME NEW c, NEW d, Apart(c, d)
  PROVE  Apart(d, c)
BY DEF Apart

\* Parts of disjoint blocks are disjoint.
LEMMA DisjointParts ==
  ASSUME NEW a, NEW b, NEW c, Addresses(a) \subseteq Addresses(b), Apart(b, c)
  PROVE  Apart(a, c)
BY DEF Apart

\* normalizeCidr goes down to a boundary, and stays at one.
LEMMA NormalizeIs ==
  ASSUME NEW a \in 0..(Space - 1), NEW l \in 0..W
  PROVE  /\ Normalize(a, l) \in Cidr
         /\ Normalize(a, l).len = l
         /\ Normalize(a, l).base \in Multiples(Size(l))
         /\ a \in Multiples(Size(l)) => Normalize(a, l) = [base |-> a, len |-> l]
<1>0. Size(l) \in Nat \ {0} /\ Space \in Nat
  BY Sizes, WidthAssumption, PowStep DEF Space
<1> DEFINE z == Size(l)
<1>1. /\ a \div z \in Int /\ a % z \in 0..(z - 1)
      /\ a = (a \div z) * z + (a % z)
  <2>1. z \in Nat \ {0} /\ a \in Int
    BY <1>0
  <2> HIDE DEF z
  <2> QED
    BY <2>1, Remainder
<1>2. a - (a % z) = (a \div z) * z
  BY <1>0, <1>1
<1>3. a \div z >= 0
  <2> SUFFICES ASSUME a \div z < 0 PROVE FALSE
    BY <1>1
  <2> DEFINE q == a \div z
  <2>1. z \in Nat \ {0} /\ q \in Int /\ q < 0
    BY <1>0, <1>1
  <2> HIDE DEF q, z
  <2>2. q * z + z <= 0 * z
    BY <2>1, Scaled
  <2>3. a = q * z + (a % z) /\ a % z \in 0..(z - 1)
    BY <1>1 DEF q
  <2> QED
    BY <2>1, <2>2, <2>3
<1>4. (a \div z) * z \in Nat
  BY <1>0, <1>1, <1>3
<1>5. a - (a % z) \in 0..(Space - 1)
  BY <1>0, <1>1, <1>2, <1>4
<1>6. a - (a % z) \in Multiples(z)
  BY <1>1, <1>2, <1>5 DEF Multiples
<1>7. ASSUME a \in Multiples(z) PROVE a - (a % z) = a
  <2>1. a % z = 0
    BY <1>0, <1>7, MultipleMod
  <2> QED
    BY <2>1
<1> QED
  BY <1>5, <1>6, <1>7 DEF Normalize, Cidr

-----------------------------------------------------------------------------
(* First fit.                                                              *)

\* The block starts at a boundary and ends within the space.
LEMMA BlockFits ==
  /\ Block \in Cidr /\ Block.base \in Multiples(Size(Block.len))
  /\ Last(Block) < Space
<1>1. Block \in Cidr
  BY BlockAssumption
<1>2. /\ Block.len \in 0..W /\ Block.base \in Nat /\ Block.base < Space /\ Space \in Nat
      /\ Size(Block.len) \in Nat \ {0} /\ Last(Block) = Block.base + Size(Block.len) - 1
  BY <1>1, Bounds
<1>3. Block.base \in Multiples(Size(Block.len))
  BY <1>2, BlockAssumption, MultipleMod
<1>4. Space \in Multiples(Size(Block.len))
  <2>1. 0 \in (-W)..W /\ Block.len \in (-W)..W /\ 0 <= Block.len /\ Space = Size(0)
    BY <1>2, WidthAssumption DEF Space, Size
  <2> QED
    BY <2>1, Sizes
<1>5. Block.base + Size(Block.len) <= Space
  BY <1>2, <1>3, <1>4, MultipleGap
<1> QED
  BY <1>1, <1>2, <1>3, <1>5

\* A block that fits in the parent starts at a boundary if it is a whole
\* number of steps from the parent's start.
LEMMA Boundary ==
  ASSUME NEW l \in 0..W, Size(l) <= Size(Block.len)
  PROVE  Block.base \in Multiples(Size(l)) /\ Size(l) \in Nat \ {0} /\ Block.len <= l
<1>1. Block.len \in 0..W /\ Block.len \in (-W)..W /\ l \in (-W)..W
  BY BlockFits, Bounds, WidthAssumption
<1>2. Block.len <= l
  BY <1>1, Sizes
<1>3. Size(Block.len) \in Multiples(Size(l)) /\ Size(l) \in Nat \ {0}
  BY <1>1, <1>2, Sizes
<1> QED
  BY <1>2, <1>3, BlockFits, MultipleOf

\* A CIDR by its first address and its length.
At(b, l) == [base |-> b, len |-> l]

\* What the search loops try are blocks inside the parent, at a boundary.
LEMMA CandidateIs ==
  ASSUME NEW l \in 0..W, NEW b \in Candidates(Block, l)
  PROVE  /\ b \in Nat /\ b \in Multiples(Size(l)) /\ Block.len <= l
         /\ Normalize(b, l) = At(b, l) /\ At(b, l) \in Cidr
         /\ Addresses(At(b, l)) \subseteq Addresses(Block)
<1>0. /\ Block.base \in Nat /\ Last(Block) \in Nat /\ Size(Block.len) \in Nat \ {0}
      /\ Last(Block) = Block.base + Size(Block.len) - 1
      /\ Last(Block) < Space /\ Space \in Nat
  BY BlockFits, Bounds
<1>1. Size(l) \in Nat \ {0}
  BY Sizes, WidthAssumption
<1>2. /\ b \in Block.base..Last(Block)
      /\ (b - Block.base) % Size(l) = 0 /\ b + Size(l) - 1 <= Last(Block)
  BY DEF Candidates
<1>3. Block.base \in Multiples(Size(l)) /\ Block.len <= l
  BY <1>0, <1>1, <1>2, Boundary
<1>4. b - Block.base \in Multiples(Size(l))
  BY <1>0, <1>1, <1>2, MultipleMod
<1>5. b \in Multiples(Size(l))
  <2>1. Block.base + (b - Block.base) \in Multiples(Size(l))
    BY <1>1, <1>3, <1>4, MultipleSum
  <2> QED
    BY <1>0, <1>2, <2>1
<1>6. b \in 0..(Space - 1)
  BY <1>0, <1>2
<1>7. Normalize(b, l) = At(b, l) /\ At(b, l) \in Cidr
  BY <1>5, <1>6, NormalizeIs DEF At, Cidr
<1>8. Addresses(At(b, l)) \subseteq Addresses(Block)
  BY <1>0, <1>1, <1>2 DEF Addresses, Last, At
<1> QED
  BY <1>0, <1>2, <1>3, <1>5, <1>7, <1>8

\* And every such block is tried.
LEMMA CandidateAll ==
  ASSUME NEW x \in Cidr, x.base % Size(x.len) = 0, Addresses(x) \subseteq Addresses(Block)
  PROVE  x.base \in Candidates(Block, x.len) /\ x = At(x.base, x.len)
<1>0. /\ Block.base \in Nat /\ Last(Block) \in Nat /\ Size(Block.len) \in Nat \ {0}
      /\ Last(Block) = Block.base + Size(Block.len) - 1
      /\ x.base \in Nat /\ Last(x) \in Nat /\ x.base <= Last(x) /\ x.len \in 0..W
      /\ Last(x) = x.base + Size(x.len) - 1 /\ Size(x.len) \in Nat \ {0}
  BY BlockFits, Bounds
<1>1. x.base \in Addresses(x) /\ Last(x) \in Addresses(x)
  BY <1>0 DEF Addresses
<1>2. x.base \in Block.base..Last(Block) /\ Last(x) \in Block.base..Last(Block)
  BY <1>1 DEF Addresses
<1>3. Block.base \in Multiples(Size(x.len))
  BY <1>0, <1>2, Boundary
<1>4. x.base \in Multiples(Size(x.len))
  BY <1>0, MultipleMod
<1>5. x.base - Block.base \in Multiples(Size(x.len))
  BY <1>0, <1>3, <1>4, MultipleSum
<1>6. (x.base - Block.base) % Size(x.len) = 0
  BY <1>0, <1>5, MultipleMod
<1>7. x = At(x.base, x.len)
  BY DEF Cidr, At
<1> QED
  BY <1>0, <1>2, <1>6, <1>7 DEF Candidates

\* The free candidates of a search.
Free(allocated, l) == {b \in Candidates(Block, l) : Clear(Normalize(b, l), allocated)}

\* The first of them, if there is one.
LEMMA FirstFree ==
  ASSUME NEW l \in 0..W, NEW allocated \in SUBSET Cidr, Free(allocated, l) # {}
  PROVE  /\ Min(Free(allocated, l)) \in Candidates(Block, l)
         /\ \A x \in allocated : Apart(At(Min(Free(allocated, l)), l), x)
<1> DEFINE F == Free(allocated, l)
           b == Min(F)
<1>1. F \in SUBSET Nat /\ F # {}
  <2>1. ASSUME NEW y \in F PROVE y \in Nat
    BY <2>1, CandidateIs DEF Free
  <2> QED
    BY <2>1
<1>2. b \in F
  <2> HIDE DEF F
  <2> QED
    BY <1>1, MinIs
<1> HIDE DEF b
<1>3. b \in Candidates(Block, l) /\ Clear(Normalize(b, l), allocated)
  BY <1>2 DEF Free
<1>4. Normalize(b, l) = At(b, l) /\ At(b, l) \in Cidr
  BY <1>3, CandidateIs
<1>5. ASSUME NEW x \in allocated PROVE Apart(At(b, l), x)
  BY <1>3, <1>4, OverlapsIs DEF Clear
<1> QED
  BY <1>3, <1>5 DEF b

\* findNextAvailableSubnet offers an aligned block of the parent that is free,
\* and gives up only when there is none.
LEMMA NextSubnetIs ==
  ASSUME NEW l \in 0..W, NEW allocated \in SUBSET Cidr
  PROVE  LET c == findNextAvailableSubnet(Block, allocated, l)
             room == {x \in Cidr : x.len = l /\ x.base % Size(l) = 0
                                   /\ Addresses(x) \subseteq Addresses(Block)
                                   /\ \A y \in allocated : Apart(x, y)}
         IN IF c = NoCidr THEN room = {} ELSE c \in room
<1> DEFINE F == Free(allocated, l)
           c == findNextAvailableSubnet(Block, allocated, l)
           room == {x \in Cidr : x.len = l /\ x.base % Size(l) = 0
                                 /\ Addresses(x) \subseteq Addresses(Block)
                                 /\ \A y \in allocated : Apart(x, y)}
<1>1. CASE F = {}
  <2>1. c = NoCidr
    BY <1>1 DEF findNextAvailableSubnet, Free
  <2>2. ASSUME NEW x \in room PROVE FALSE
    <3>1. /\ x \in Cidr /\ x.len = l /\ x.base \in Candidates(Block, l)
          /\ x = At(x.base, l)
      BY <2>2, CandidateAll
    <3>2. Normalize(x.base, l) = x
      BY <3>1, CandidateIs
    <3>3. Clear(x, allocated)
      BY <2>2, <3>1, OverlapsIs DEF Clear
    <3> QED
      BY <1>1, <3>1, <3>2, <3>3 DEF Free
  <2> QED
    BY <2>1, <2>2
<1>2. CASE F # {}
  <2> DEFINE b == Min(F)
  <2>1. b \in Candidates(Block, l) /\ \A y \in allocated : Apart(At(b, l), y)
    BY <1>2, FirstFree
  <2>2. c = Normalize(b, l)
    BY <1>2 DEF findNextAvailableSubnet, Free
  <2> HIDE DEF b
  <2>3. /\ b \in Nat /\ b \in Multiples(Size(l)) /\ c = At(b, l) /\ At(b, l) \in Cidr
        /\ Addresses(At(b, l)) \subseteq Addresses(Block)
    BY <2>1, <2>2, CandidateIs
  <2>4. Size(l) \in Nat \ {0}
    BY Sizes, WidthAssumption
  <2>5. b % Size(l) = 0
    BY <2>3, <2>4, MultipleMod
  <2>6. At(b, l).len = l /\ At(b, l).base = b
    BY DEF At
  <2>7. c \in room
    BY <2>1, <2>3, <2>5, <2>6
  <2>8. c # NoCidr
    BY <2>3, NullAssumption
  <2> QED
    BY <2>7, <2>8
<1> QED
  BY <1>1, <1>2

-----------------------------------------------------------------------------
(* Hosts.                                                                  *)

\* What enumerateSubnetIps calls a host: all addresses of the two smallest
\* blocks, the inner ones of the others.
Hosts(c) == IF Size(c.len) <= 2 THEN Addresses(c) ELSE (c.base + 1)..(Last(c) - 1)

\* The test by the prefix length is the test by the size.
LEMMA HostIs ==
  ASSUME NEW c \in Cidr, NEW a \in Addresses(c)
  PROVE  IsHost(a, c) <=> a \in Hosts(c)
<1>0. /\ c.len \in 0..W /\ c.base \in Nat /\ Last(c) \in Nat
      /\ Size(c.len) \in Nat \ {0} /\ a \in c.base..Last(c)
  BY Bounds DEF Addresses
<1>1. c.len >= W - 1 <=> Size(c.len) <= 2
  <2>1. W - 1 \in (-W)..W /\ c.len \in (-W)..W /\ W - (W - 1) = 0 + 1 /\ 0 \in Nat
    BY <1>0, WidthAssumption
  <2>2. Size(W - 1) = 2
    BY <2>1, PowStep DEF Size
  <2>3. /\ W - 1 <= c.len => Size(c.len) <= Size(W - 1)
        /\ Size(c.len) <= Size(W - 1) => W - 1 <= c.len
    BY <2>1, Sizes
  <2> QED
    BY <1>0, <2>1, <2>2, <2>3
<1> QED
  BY <1>0, <1>1 DEF IsHost, Hosts, Addresses

\* Every address is on a page that the loop reaches.
LEMMA PageOf ==
  ASSUME NEW c \in Cidr, NEW a \in Addresses(c), NEW z \in Nat \ {0}
  PROVE  \E p \in 1..Size(c.len) : Reached(c, p, z) /\ a \in Page(c, p, z)
<1>0. /\ c.base \in Nat /\ Last(c) = c.base + Size(c.len) - 1
      /\ Size(c.len) \in Nat \ {0} /\ a \in c.base..Last(c)
  BY Bounds DEF Addresses
<1> DEFINE x == a - c.base
           q == x \div z
<1>1. x \in Nat /\ x < Size(c.len)
  BY <1>0
<1>2. q \in Int /\ x % z \in 0..(z - 1) /\ x = q * z + (x % z)
  <2> HIDE DEF x
  <2> QED
    BY <1>1, Remainder
<1> HIDE DEF x, q
<1>3. q >= 0
  <2> SUFFICES ASSUME q < 0 PROVE FALSE
    BY <1>2
  <2>1. q * z + z <= 0 * z
    BY <1>2, Scaled
  <2> QED
    BY <1>1, <1>2, <2>1
<1>4. q <= q * z
  <2>1. q * 1 <= q * z
    <3>1. z - 1 \in Nat /\ q * (z - 1) \in Nat
      BY <1>2, <1>3
    <3>2. q * (z - 1) = q * z - q
      BY <1>2
    <3> QED
      BY <1>2, <3>1, <3>2
  <2> QED
    BY <1>2, <2>1
<1>5. q + 1 \in 1..Size(c.len)
  BY <1>0, <1>1, <1>2, <1>3, <1>4
<1>6. Reached(c, q + 1, z)
  <2>1. ASSUME NEW i \in 1..((q + 1) - 1) PROVE i * z < Size(c.len)
    <3>1. i * z <= q * z
      BY <1>2, <2>1, Scaled
    <3> QED
      BY <1>0, <1>1, <1>2, <3>1
  <2> QED
    BY <2>1 DEF Reached
<1>7. a \in Page(c, q + 1, z)
  <2>1. ((q + 1) - 1) * z = q * z /\ (q + 1) * z = q * z + z
    BY <1>2
  <2>2. a - c.base >= ((q + 1) - 1) * z /\ a - c.base < (q + 1) * z
    BY <1>2, <2>1 DEF x
  <2> QED
    BY <2>2 DEF Page
<1> QED
  BY <1>5, <1>6, <1>7

\* nextAvailableReservation offers a host that is free, and gives up only
\* when there is none.
LEMMA NextHostIs ==
  ASSUME NEW c \in Cidr, NEW taken, NEW z \in Nat \ {0}
  PROVE  IF NextHost(c, taken, z) = NoCidr THEN Hosts(c) \subseteq taken
         ELSE NextHost(c, taken, z) \in Hosts(c) \ taken
<1> DEFINE pages == {p \in 1..Size(c.len) : Reached(c, p, z) /\ FreeHosts(c, taken, p, z) # {}}
           p == Min(pages)
           F == FreeHosts(c, taken, p, z)
           ip == Min(F)
<1>0. /\ Size(c.len) \in Nat \ {0} /\ c.base \in Nat /\ Last(c) \in Nat
  BY Bounds
<1>1. Hosts(c) \subseteq Addresses(c)
  BY <1>0 DEF Hosts, Addresses
<1>2. CASE pages = {}
  <2>1. NextHost(c, taken, z) = NoCidr
    BY <1>2 DEF NextHost
  <2>2. ASSUME NEW a \in Hosts(c), a \notin taken PROVE FALSE
    <3>1. a \in Addresses(c) /\ IsHost(a, c)
      BY <1>1, <2>2, HostIs
    <3>2. PICK i \in 1..Size(c.len) : Reached(c, i, z) /\ a \in Page(c, i, z)
      BY <3>1, PageOf
    <3>3. a \in FreeHosts(c, taken, i, z)
      BY <2>2, <3>1, <3>2 DEF FreeHosts
    <3> QED
      BY <1>2, <3>2, <3>3
  <2> QED
    BY <2>1, <2>2
<1>3. CASE pages # {}
  <2>1. pages \in SUBSET Nat
    BY <1>0
  <2>2. p \in pages
    <3> HIDE DEF pages
    <3> QED
      BY <1>3, <2>1, MinIs
  <2>3. F # {} /\ F \in SUBSET Addresses(c) /\ F \in SUBSET Nat
    <3>1. F # {}
      BY <2>2
    <3>2. F \in SUBSET Addresses(c)
      BY DEF FreeHosts, Page
    <3>3. Addresses(c) \in SUBSET Nat
      BY <1>0 DEF Addresses
    <3> QED
      BY <3>1, <3>2, <3>3
  <2>4. ip \in F
    <3> HIDE DEF F
    <3> QED
      BY <2>3, MinIs
  <2>5. NextHost(c, taken, z) = ip
    BY <1>3 DEF NextHost
  <2> HIDE DEF ip
  <2>6. ip \in Addresses(c) /\ IsHost(ip, c) /\ ip \notin taken
    BY <2>3, <2>4 DEF FreeHosts
  <2>7. ip \in Hosts(c) \ taken
    BY <2>6, HostIs
  <2>8. ip # NoCidr
    BY <2>3, <2>4, NullAssumption
  <2> QED
    BY <2>5, <2>7, <2>8
<1> QED
  BY <1>2, <1>3

-----------------------------------------------------------------------------
(* Packing a template into an anchor.                                      *)

\* Templates: the length of each entry, and whether it is left out.
Entries == Seq([len: 0..W, skip: BOOLEAN])

\* Rounding up ends at a boundary, less than one block further.
LEMMA AlignUpIs ==
  ASSUME NEW x \in Nat, NEW z \in Nat \ {0}
  PROVE  /\ AlignUp(x, z) \in Nat /\ AlignUp(x, z) \in Multiples(z)
         /\ x <= AlignUp(x, z)
<1> DEFINE y == x + z - 1
           q == y \div z
           r == y % z
<1>1. y \in Int /\ q \in Int /\ r \in 0..(z - 1) /\ y = q * z + r
  <2>1. y \in Int
    OBVIOUS
  <2> HIDE DEF y
  <2> QED
    BY <2>1, Remainder
<1>2. AlignUp(x, z) = q * z
  BY DEF AlignUp
<1> HIDE DEF q, r
<1>3. q * z \in Int
  BY <1>1
<1>4. q * z \in Multiples(z)
  BY <1>1, <1>3 DEF Multiples
<1>5. x <= q * z
  BY <1>1, <1>3
<1> QED
  BY <1>2, <1>3, <1>4, <1>5

\* A template's entries have sizes.
LEMMA EntrySize ==
  ASSUME NEW e \in Entries, NEW i \in 1..Len(e)
  PROVE  e[i].len \in 0..W /\ Size(e[i].len) \in Nat \ {0}
<1> DEFINE Entry == [len: 0..W, skip: BOOLEAN]
<1>1. e[i] \in Entry
  <2>1. e \in Seq(Entry)
    BY DEF Entries
  <2> HIDE DEF Entry
  <2> QED
    BY <2>1
<1>2. e[i].len \in 0..W /\ e[i].len \in (-W)..W
  BY <1>1, WidthAssumption
<1> QED
  BY <1>2, Sizes

\* The cursor follows its recursion.
LEMMA CursorStep ==
  ASSUME NEW e \in Entries
  PROVE  /\ Cursor(e) \in [0..Len(e) -> Nat]
         /\ Cursor(e)[0] = 0
         /\ \A i \in 1..Len(e) :
              Cursor(e)[i] = AlignUp(Cursor(e)[i - 1], Size(e[i].len)) + Size(e[i].len)
<1> DEFINE N == Len(e)
           Num == Nat
           grown(n, x) == IF n + 1 \in 1..N
                            THEN AlignUp(x, Size(e[n + 1].len)) + Size(e[n + 1].len) ELSE x
           step == [n \in Nat |-> [x \in Nat |-> grown(n, x)]]
           Body(g) == [i \in 0..N |-> IF i = 0 THEN 0
                         ELSE AlignUp(g[i - 1], Size(e[i].len)) + Size(e[i].len)]
<1>0. N \in Nat
  BY DEF Entries
<1>1. step \in [Nat -> [Nat -> Nat]]
  <2>1. ASSUME NEW n \in Nat, NEW x \in Nat PROVE grown(n, x) \in Nat
    <3>1. CASE n + 1 \in 1..N
      <4>1. Size(e[n + 1].len) \in Nat \ {0}
        BY <3>1, EntrySize
      <4>2. AlignUp(x, Size(e[n + 1].len)) \in Nat
        BY <4>1, AlignUpIs
      <4> QED
        BY <4>1, <4>2, <3>1
    <3> QED
      BY <3>1
  <2> HIDE DEF grown
  <2> QED
    BY <2>1
<1> HIDE DEF grown
<1>2. PICK f \in [Nat -> Nat] : f[0] = 0 /\ \A n \in Nat : f[n + 1] = step[n][f[n]]
  <2>1. step \in [Nat -> [Num -> Num]] /\ 0 \in Num
    BY <1>1
  <2> HIDE DEF step, Num
  <2>2. \A v \in Num : \A s \in [Nat -> [Num -> Num]] :
          \E f \in [Nat -> Num] : f[0] = v /\ \A n \in Nat : f[n + 1] = s[n][f[n]]
    BY RecursiveFunction
  <2>3. \E f \in [Nat -> Num] : f[0] = 0 /\ \A n \in Nat : f[n + 1] = step[n][f[n]]
    BY <2>1, <2>2
  <2> QED
    BY <2>3 DEF Num
<1> DEFINE g == [i \in 0..N |-> f[i]]
<1>3. \A i \in 1..N : f[i] = AlignUp(f[i - 1], Size(e[i].len)) + Size(e[i].len)
  <2>1. ASSUME NEW i \in 1..N
        PROVE  f[i] = AlignUp(f[i - 1], Size(e[i].len)) + Size(e[i].len)
    <3>1. i - 1 \in Nat /\ (i - 1) + 1 = i
      BY <1>0
    <3>2. f[(i - 1) + 1] = step[i - 1][f[i - 1]] /\ f[i - 1] \in Nat
      BY <3>1, <1>2
    <3>3. step[i - 1][f[i - 1]] = grown(i - 1, f[i - 1])
      BY <3>1, <3>2
    <3>4. grown(i - 1, f[i - 1]) = AlignUp(f[i - 1], Size(e[i].len)) + Size(e[i].len)
      BY <3>1 DEF grown
    <3> QED
      BY <3>1, <3>2, <3>3, <3>4
  <2> QED
    BY <2>1
<1>4. g = Body(g)
  <2>1. ASSUME NEW i \in 0..N
        PROVE  g[i] = IF i = 0 THEN 0
                      ELSE AlignUp(g[i - 1], Size(e[i].len)) + Size(e[i].len)
    <3>1. CASE i = 0
      BY <3>1, <1>2, <1>0
    <3>2. CASE i # 0
      <4>1. i \in 1..N /\ i - 1 \in 0..N
        BY <3>2, <1>0
      <4>2. g[i] = f[i] /\ g[i - 1] = f[i - 1]
        BY <4>1
      <4> QED
        BY <4>1, <4>2, <1>3, <3>2
    <3> QED
      BY <3>1, <3>2
  <2> HIDE DEF g
  <2>2. g = [i \in 0..N |-> g[i]]
    BY DEF g
  <2> QED
    BY <2>1, <2>2
<1> DEFINE C == Cursor(e)
<1>5. C = Body(C)
  BY <1>4 DEF Cursor
<1> HIDE DEF C
<1>6. C[0] = 0
  BY <1>5, <1>0
<1>7. \A i \in 1..N : C[i] = AlignUp(C[i - 1], Size(e[i].len)) + Size(e[i].len)
  <2>1. ASSUME NEW i \in 1..N
        PROVE  C[i] = AlignUp(C[i - 1], Size(e[i].len)) + Size(e[i].len)
    <3>1. i \in 0..N /\ i # 0
      BY <1>0
    <3>2. Body(C)[i] = AlignUp(C[i - 1], Size(e[i].len)) + Size(e[i].len)
      BY <3>1
    <3> QED
      BY <1>5, <3>2
  <2> QED
    BY <2>1
<1>8. \A i \in 0..N : C[i] \in Nat
  <2> DEFINE S == {n \in Nat : n \in 0..N => C[n] \in Nat}
  <2>1. S \in SUBSET Nat /\ 0 \in S
    BY <1>6
  <2>2. ASSUME NEW n \in S PROVE n + 1 \in S
    <3>1. CASE n + 1 \in 0..N
      <4>1. n \in 0..N /\ n + 1 \in 1..N /\ (n + 1) - 1 = n
        BY <3>1, <1>0
      <4>2. C[n] \in Nat
        BY <4>1
      <4>3. Size(e[n + 1].len) \in Nat \ {0}
        BY <4>1, EntrySize
      <4>4. AlignUp(C[n], Size(e[n + 1].len)) \in Nat
        BY <4>2, <4>3, AlignUpIs
      <4>5. C[n + 1] = AlignUp(C[n], Size(e[n + 1].len)) + Size(e[n + 1].len)
        BY <4>1, <1>7
      <4>6. C[n + 1] \in Nat
        <5> DEFINE x == AlignUp(C[n], Size(e[n + 1].len))
                   z == Size(e[n + 1].len)
        <5> HIDE DEF x, z, S
        <5>1. C[n + 1] = x + z /\ x \in Nat /\ z \in Nat
          BY <4>3, <4>4, <4>5 DEF x, z
        <5> QED
          BY <5>1
      <4> QED
        BY <4>6
    <3> QED
      BY <3>1
  <2> HIDE DEF S
  <2>3. S = Nat
    BY <2>1, <2>2, Induction
  <2> QED
    BY <2>3, <1>0 DEF S
<1>9. C \in [0..N -> Nat]
  <2>1. DOMAIN Body(C) = 0..N
    OBVIOUS
  <2>2. C = [i \in 0..N |-> C[i]]
    BY <1>5, <2>1
  <2> QED
    BY <1>8, <2>2
<1> QED
  BY <1>6, <1>7, <1>9 DEF C

\* The cursor only moves on.
LEMMA CursorGrows ==
  ASSUME NEW e \in Entries, NEW i \in 0..Len(e), NEW j \in i..Len(e)
  PROVE  Cursor(e)[i] <= Cursor(e)[j]
<1> DEFINE N == Len(e)
           C == Cursor(e)
           S == {n \in Nat : i + n <= N => C[i] <= C[i + n]}
<1>0. N \in Nat
  BY DEF Entries
<1>1. /\ C \in [0..N -> Nat]
      /\ \A k \in 1..N : C[k] = AlignUp(C[k - 1], Size(e[k].len)) + Size(e[k].len)
  BY CursorStep
<1> HIDE DEF C
<1>2. S \in SUBSET Nat /\ 0 \in S
  BY <1>0, <1>1
<1>3. ASSUME NEW n \in S PROVE n + 1 \in S
  <2>1. CASE i + (n + 1) <= N
    <3> DEFINE k == i + (n + 1)
    <3>1. k \in 1..N /\ k - 1 = i + n /\ k - 1 \in 0..N
      BY <2>1, <1>0
    <3> HIDE DEF k
    <3>2. C[i] <= C[k - 1] /\ C[k - 1] \in Nat /\ C[i] \in Nat
      <4>1. C[i] <= C[i + n]
        BY <2>1, <1>0
      <4>2. C[k - 1] \in Nat /\ C[i] \in Nat
        BY <3>1, <1>1
      <4> QED
        BY <4>1, <4>2, <3>1
    <3>3. Size(e[k].len) \in Nat \ {0}
      BY <3>1, EntrySize
    <3>4. AlignUp(C[k - 1], Size(e[k].len)) \in Nat /\ C[k - 1] <= AlignUp(C[k - 1], Size(e[k].len))
      BY <3>2, <3>3, AlignUpIs
    <3>5. C[k] = AlignUp(C[k - 1], Size(e[k].len)) + Size(e[k].len)
      BY <3>1, <1>1
    <3>6. C[i] <= C[k]
      BY <3>2, <3>3, <3>4, <3>5
    <3> QED
      BY <3>6 DEF k
  <2> QED
    BY <2>1
<1> HIDE DEF S
<1>4. S = Nat
  BY <1>2, <1>3, Induction
<1>5. j - i \in S /\ i + (j - i) = j /\ j <= N
  BY <1>0, <1>4
<1> QED
  BY <1>5 DEF S, C

\* The largest of some prefix lengths.
LEMMA MaxIs ==
  ASSUME NEW S \in SUBSET ((-W)..W), S # {}
  PROVE  Max(S) \in S /\ \A y \in S : y <= Max(S)
<1> DEFINE T == {n \in Nat : W - n \in S}
<1>1. T \in SUBSET Nat /\ T # {}
  <2>1. PICK x \in S : TRUE
    OBVIOUS
  <2>2. W - x \in Nat /\ W - (W - x) = x
    BY <2>1, WidthAssumption
  <2>3. W - x \in T
    BY <2>1, <2>2
  <2> QED
    BY <2>3
<1>2. PICK n \in T : \A y \in T : n <= y
  <2> HIDE DEF T
  <2> QED
    BY <1>1, LeastNumber
<1>3. W - n \in S
  BY <1>2
<1>4. ASSUME NEW y \in S PROVE W - n >= y
  <2>1. y \in (-W)..W
    BY <1>4
  <2>2. W - y \in Nat /\ W - (W - y) = y
    BY <2>1, WidthAssumption
  <2>3. n <= W - y /\ n \in Nat
    BY <1>2, <2>2
  <2> QED
    BY <2>1, <2>3, WidthAssumption
<1>5. \E x \in S : \A y \in S : x >= y
  BY <1>3, <1>4
<1>6. Max(S) \in S /\ \A y \in S : Max(S) >= y
  BY <1>5 DEF Max
<1> QED
  BY <1>6, WidthAssumption

\* A template that fits: its last entry ends inside the block's size.
Fits(e) == Cursor(e)[Len(e)] <= Size(Block.len)

\* The anchor of a template that fits is a prefix length, not shorter than
\* the parent's, and has room for the whole template.
LEMMA AnchorIs ==
  ASSUME NEW e \in Entries, Fits(e), NEW r \in 0..W
  PROVE  LET A == AnchorLen(Block, e, r) IN
         A \in 0..W /\ Block.len <= A /\ Cursor(e)[Len(e)] <= Size(A)
<1> DEFINE span == Cursor(e)[Len(e)]
           L == {l \in (-W)..W : Size(l) >= span}
           K == Max(L)
           P == {r, K}
           m == Min(P)
           Q == {Block.len, m}
           A == Max(Q)
<1>0. span \in Nat /\ Block.len \in 0..W
  <2>1. Len(e) \in 0..Len(e)
    BY DEF Entries
  <2> QED
    BY <2>1, CursorStep, BlockFits, Bounds
<1>1. ContainingLen(e) = K /\ AnchorLen(Block, e, r) = A
  BY DEF ContainingLen, AnchorLen
<1>2. L \in SUBSET ((-W)..W) /\ Block.len \in L
  BY <1>0, Sizes, WidthAssumption DEF Fits
<1>3. K \in (-W)..W /\ Size(K) >= span /\ Block.len <= K
  <2>1. K \in L /\ \A y \in L : y <= K
    <3> HIDE DEF L
    <3> QED
      BY <1>2, MaxIs
  <2> HIDE DEF K
  <2> QED
    BY <1>2, <2>1
<1>4. K \in 0..W
  <2> HIDE DEF K
  <2> QED
    BY <1>0, <1>3, WidthAssumption
<1> HIDE DEF K
<1>5. m \in P /\ m <= K
  <2>1. P \in SUBSET Nat /\ P # {} /\ K \in P
    BY <1>4
  <2> HIDE DEF P
  <2> QED
    BY <2>1, MinIs
<1>6. m \in 0..W
  BY <1>4, <1>5
<1> HIDE DEF m
<1>7. A \in Q /\ Block.len <= A
  <2>1. Q \in SUBSET ((-W)..W) /\ Q # {} /\ Block.len \in Q
    BY <1>0, <1>6, WidthAssumption
  <2> HIDE DEF Q
  <2> QED
    BY <2>1, MaxIs
<1> HIDE DEF A
<1>8. A \in 0..W /\ A <= K
  BY <1>0, <1>3, <1>5, <1>6, <1>7
<1>9. Size(K) <= Size(A) /\ Size(A) \in Nat /\ Size(K) \in Nat
  BY <1>4, <1>8, Sizes, WidthAssumption
<1>10. span <= Size(A)
  <2> HIDE DEF span
  <2> QED
    BY <1>0, <1>3, <1>9
<1> QED
  BY <1>1, <1>7, <1>8, <1>10

\* The wrap of intToIp leaves an address of the space alone.
LEMMA NoWrap ==
  ASSUME NEW x \in 0..(Space - 1)
  PROVE  x % Space = x
<1>1. Space \in Nat \ {0}
  BY WidthAssumption, PowStep DEF Space
<1> DEFINE a == Space
           q == x \div a
           r == x % a
<1> HIDE DEF a
<1>2. a \in Nat \ {0} /\ x \in Nat /\ x < a
  BY <1>1 DEF a
<1>3. q \in Int /\ r \in 0..(a - 1) /\ x = q * a + r
  BY <1>2, Remainder
<1> HIDE DEF q, r
<1>4. q >= 1 => a <= q * a
  <2>1. 1 <= q => 1 * a <= q * a
    BY <1>2, <1>3, Scaled
  <2> QED
    BY <1>2, <1>3, <2>1
<1>5. q <= -1 => q * a <= -a
  <2>1. q <= -1 => q * a <= (-1) * a
    BY <1>2, <1>3, Scaled
  <2>2. (-1) * a = -a
    BY <1>2
  <2> QED
    BY <1>2, <1>3, <2>1, <2>2
<1>6. q * a \in Int
  BY <1>2, <1>3
<1>7. q = 0
  BY <1>2, <1>3, <1>4, <1>5, <1>6
<1>8. r = x
  BY <1>2, <1>3, <1>7
<1> QED
  BY <1>8 DEF r, a

\* The free anchors of a packing; every one is an address of the block.
LEMMA FreeAddress ==
  ASSUME NEW allocated, NEW l, Free(allocated, l) # {}
  PROVE  Min(Free(allocated, l)) \in Nat /\ Min(Free(allocated, l)) \in Free(allocated, l)
<1>1. Block.base \in Nat /\ Last(Block) \in Nat
  BY BlockFits, Bounds
<1>2. Free(allocated, l) \in SUBSET Nat
  BY <1>1 DEF Free, Candidates
<1> QED
  BY <1>2, MinIs

\* What packIntoAnchor returns.
LEMMA PackIs ==
  ASSUME NEW allocated, NEW e, NEW r, packIntoAnchor(Block, allocated, e, r) # NoCidr
  PROVE  LET F == Free(allocated, AnchorLen(Block, e, r)) IN
         /\ F # {}
         /\ packIntoAnchor(Block, allocated, e, r) =
              [i \in 1..Len(e) |-> Normalize((Min(F) + Offset(e, i)) % Space, e[i].len)]
BY DEF packIntoAnchor, Free

\* Where an entry starts, relative to the anchor.
LEMMA OffsetIs ==
  ASSUME NEW e \in Entries, NEW i \in 1..Len(e)
  PROVE  /\ Offset(e, i) \in Nat /\ Offset(e, i) \in Multiples(Size(e[i].len))
         /\ Offset(e, i) + Size(e[i].len) = Cursor(e)[i]
         /\ Cursor(e)[i - 1] <= Offset(e, i)
         /\ Cursor(e)[i] \in Nat /\ Cursor(e)[i] <= Cursor(e)[Len(e)] /\ Cursor(e)[Len(e)] \in Nat
<1> DEFINE z == Size(e[i].len)
           N == Len(e)
<1>0. N \in Nat /\ i \in 0..N /\ i - 1 \in 0..N /\ N \in i..N /\ N \in 0..N
  <2>1. N \in Nat
    BY DEF Entries
  <2> QED
    BY <2>1
<1>1. z \in Nat \ {0}
  BY EntrySize
<1>2. /\ Cursor(e)[i] = AlignUp(Cursor(e)[i - 1], z) + z
      /\ Cursor(e)[i] \in Nat /\ Cursor(e)[i - 1] \in Nat /\ Cursor(e)[N] \in Nat
  BY <1>0, CursorStep
<1>3. Cursor(e)[i] <= Cursor(e)[N]
  BY <1>0, CursorGrows
<1> HIDE DEF z
<1> DEFINE y == AlignUp(Cursor(e)[i - 1], z)
<1>4. y \in Nat /\ y \in Multiples(z) /\ Cursor(e)[i - 1] <= y
  BY <1>1, <1>2, AlignUpIs
<1>5. Offset(e, i) = Cursor(e)[i] - z
  BY DEF Offset, z
<1> HIDE DEF y
<1>6. Offset(e, i) = y
  BY <1>1, <1>2, <1>4, <1>5 DEF y
<1> QED
  BY <1>1, <1>2, <1>3, <1>4, <1>6 DEF z, y

\* Whatever the template, the rows are CIDRs.
LEMMA PackTyped ==
  ASSUME NEW allocated, NEW e \in Entries, NEW r,
         packIntoAnchor(Block, allocated, e, r) # NoCidr, NEW i \in 1..Len(e)
  PROVE  packIntoAnchor(Block, allocated, e, r)[i] \in Cidr
<1> DEFINE b == Min(Free(allocated, AnchorLen(Block, e, r)))
           x == b + Offset(e, i)
<1>1. packIntoAnchor(Block, allocated, e, r)[i] = Normalize(x % Space, e[i].len)
  BY PackIs
<1>2. b \in Nat
  BY PackIs, FreeAddress
<1>3. x \in Int
  BY <1>2, OffsetIs
<1>4. Space \in Nat \ {0}
  BY WidthAssumption, PowStep DEF Space
<1> HIDE DEF x
<1>5. x % Space \in 0..(Space - 1)
  BY <1>3, <1>4, Remainder
<1>6. e[i].len \in 0..W
  BY EntrySize
<1> QED
  BY <1>1, <1>5, <1>6, NormalizeIs

\* Where a packing puts its anchor.
AnchorBase(allocated, e, r) == Min(Free(allocated, AnchorLen(Block, e, r)))

\* And an entry of the template.
EntryAt(b, e, i) == At(b + Offset(e, i), e[i].len)

\* What is assigned to an entry.
Assigned(allocated, e, r, i) == packIntoAnchor(Block, allocated, e, r)[i]

\* A template that fits is placed inside the block, on free addresses.
LEMMA PackPlaced ==
  ASSUME NEW allocated \in SUBSET Cidr, NEW e \in Entries, Fits(e), NEW r \in 0..W,
         packIntoAnchor(Block, allocated, e, r) # NoCidr
  PROVE  \A i \in 1..Len(e) :
           /\ AnchorBase(allocated, e, r) \in Nat
           /\ Assigned(allocated, e, r, i) = EntryAt(AnchorBase(allocated, e, r), e, i)
           /\ Addresses(Assigned(allocated, e, r, i)) \subseteq Addresses(Block)
           /\ \A x \in allocated : Apart(Assigned(allocated, e, r, i), x)
<1> TAKE i \in 1..Len(e)
<1> DEFINE A == AnchorLen(Block, e, r)
           b == Min(Free(allocated, A))
           o == Offset(e, i)
           l == e[i].len
           z == Size(l)
           c == At(b + o, l)
<1>1. A \in 0..W /\ Block.len <= A /\ Cursor(e)[Len(e)] <= Size(A)
  BY AnchorIs
<1>2. Free(allocated, A) # {}
  BY PackIs
<1>3. Assigned(allocated, e, r, i) = Normalize((b + o) % Space, l)
  BY PackIs DEF Assigned
<1> HIDE DEF A
<1>4. b \in Candidates(Block, A) /\ \A x \in allocated : Apart(At(b, A), x)
  BY <1>1, <1>2, FirstFree
<1> HIDE DEF b
<1>5. /\ b \in Nat /\ b \in Multiples(Size(A)) /\ At(b, A) \in Cidr
      /\ Addresses(At(b, A)) \subseteq Addresses(Block)
  BY <1>1, <1>4, CandidateIs
<1>6. Last(Block) < Space /\ Last(Block) \in Nat /\ Space \in Nat
  BY BlockFits, Bounds
<1>7. l \in 0..W /\ z \in Nat \ {0} /\ Size(A) \in Nat \ {0}
  BY <1>1, EntrySize, Sizes, WidthAssumption
<1>8. o \in Nat /\ o \in Multiples(z) /\ o + z <= Size(A)
  <2>1. o \in Nat /\ o \in Multiples(z)
    BY OffsetIs
  <2>2. o + z = Cursor(e)[i] /\ Cursor(e)[i] <= Cursor(e)[Len(e)] /\ Cursor(e)[i] \in Nat
        /\ Cursor(e)[Len(e)] \in Nat
    BY OffsetIs
  <2> HIDE DEF o, z
  <2> QED
    BY <1>1, <1>7, <2>1, <2>2
<1> HIDE DEF o, l
<1>9. Size(A) \in Multiples(z)
  <2>1. z <= Size(A)
    BY <1>7, <1>8
  <2>2. A <= l
    BY <1>1, <1>7, <2>1, Sizes, WidthAssumption
  <2> QED
    BY <1>1, <1>7, <2>2, Sizes, WidthAssumption
<1> HIDE DEF z
<1>10. b + o \in Multiples(z)
  <2>1. b \in Multiples(z)
    BY <1>5, <1>7, <1>9, MultipleOf
  <2> QED
    BY <1>7, <1>8, <2>1, MultipleSum
<1>11. Last(c) = b + o + z - 1 /\ c.base = b + o /\ c.len = l
  BY DEF At, Last, z
<1>12. Addresses(c) \subseteq Addresses(At(b, A))
  <2>1. Last(At(b, A)) = b + Size(A) - 1 /\ At(b, A).base = b
    BY DEF At, Last
  <2> QED
    BY <1>5, <1>7, <1>8, <1>11, <2>1 DEF Addresses
<1>13. b + o \in 0..(Space - 1)
  <2>1. b + o \in Addresses(c)
    BY <1>5, <1>7, <1>8, <1>11 DEF Addresses
  <2>2. b + o \in Addresses(Block)
    BY <1>5, <1>12, <2>1
  <2> QED
    BY <1>5, <1>6, <1>8, <2>2 DEF Addresses
<1>14. Assigned(allocated, e, r, i) = c
  <2>1. (b + o) % Space = b + o
    BY <1>13, NoWrap
  <2>2. Normalize(b + o, l) = [base |-> b + o, len |-> l]
    BY <1>7, <1>10, <1>13, NormalizeIs DEF z
  <2> QED
    BY <1>3, <2>1, <2>2 DEF At
<1>15. \A x \in allocated : Apart(c, x)
  BY <1>4, <1>12, DisjointParts
<1> HIDE DEF c
<1>16. Addresses(c) \subseteq Addresses(Block)
  BY <1>5, <1>12
<1> QED
  BY <1>5, <1>14, <1>15, <1>16 DEF A, b, o, l, c, AnchorBase, EntryAt

\* Two entries of a template that fits get disjoint blocks.
LEMMA PackDisjoint ==
  ASSUME NEW allocated \in SUBSET Cidr, NEW e \in Entries, Fits(e), NEW r \in 0..W,
         packIntoAnchor(Block, allocated, e, r) # NoCidr,
         NEW i \in 1..Len(e), NEW j \in 1..Len(e), i < j
  PROVE  Apart(Assigned(allocated, e, r, i),
                  Assigned(allocated, e, r, j))
<1> DEFINE b == AnchorBase(allocated, e, r)
           o(k) == Offset(e, k)
           z(k) == Size(e[k].len)
           c(k) == EntryAt(b, e, k)
<1>1. /\ b \in Nat
      /\ Assigned(allocated, e, r, i) = c(i)
      /\ Assigned(allocated, e, r, j) = c(j)
  <2>1. ASSUME NEW k \in 1..Len(e)
        PROVE  b \in Nat /\ Assigned(allocated, e, r, k) = c(k)
    <3>1. \A x \in 1..Len(e) :
           /\ AnchorBase(allocated, e, r) \in Nat
           /\ Assigned(allocated, e, r, x) = EntryAt(AnchorBase(allocated, e, r), e, x)
           /\ Addresses(Assigned(allocated, e, r, x)) \subseteq Addresses(Block)
           /\ \A y \in allocated : Apart(Assigned(allocated, e, r, x), y)
      BY PackPlaced, Zenon
    <3> QED
      BY <2>1, <3>1
  <2> HIDE DEF b, c
  <2> QED
    BY <2>1
<1>2. /\ o(i) \in Nat /\ o(j) \in Nat
      /\ o(i) + z(i) = Cursor(e)[i] /\ Cursor(e)[i] \in Nat
      /\ Cursor(e)[j - 1] <= o(j)
  BY OffsetIs
<1>3. Cursor(e)[i] <= Cursor(e)[j - 1] /\ Cursor(e)[j - 1] \in Nat
  <2>1. Len(e) \in Nat
    BY DEF Entries
  <2>2. i \in 0..Len(e) /\ j - 1 \in i..Len(e) /\ j - 1 \in 0..Len(e)
    BY <2>1
  <2> QED
    BY <2>2, CursorGrows, CursorStep
<1>4. z(i) \in Nat /\ z(j) \in Nat
  BY EntrySize
<1>5. /\ c(i).base = b + o(i) /\ Last(c(i)) = b + o(i) + z(i) - 1
      /\ c(j).base = b + o(j) /\ Last(c(j)) = b + o(j) + z(j) - 1
  BY DEF EntryAt, At, Last
<1> HIDE DEF b, o, z, c
<1>6. Last(c(i)) < c(j).base
  BY <1>1, <1>2, <1>3, <1>4, <1>5
<1>7. Apart(c(i), c(j))
  BY <1>1, <1>2, <1>4, <1>5, <1>6 DEF Apart, Addresses
<1> QED
  BY <1>1, <1>7

-----------------------------------------------------------------------------
(* Types.                                                                  *)

\* What a well-typed state says about the tables.
LEMMA Tables ==
  ASSUME TypeOK
  PROVE  /\ \A s \in SubIds : /\ subs[s] \in Sub \cup {NoSub} /\ subs[s].cidr \in Cidr
                              /\ Exists(s) => subs[s] \in Sub
                              /\ subs[s].status \in Statuses \cup {"none"}
                              /\ subs[s].status = "none" => subs[s] = NoSub
         /\ \A k \in ClaimIds : /\ claims[k] \in Claim \cup {NoClaim}
                                /\ claims[k].status # "none" => claims[k] \in Claim
                                /\ claims[k].status = "none" => claims[k] = NoClaim
                                /\ claims[k].status \in {"active", "released", "expired", "none"}
         /\ Siblings \in SUBSET Cidr /\ Current \in SUBSET Cidr
<1>0. NoSub.cidr \in Cidr /\ NoSub.status = "none" /\ NoClaim.status = "none"
  BY BlockAssumption DEF NoSub, NoClaim
<1>1. ASSUME NEW s \in SubIds
      PROVE  /\ subs[s] \in Sub \cup {NoSub} /\ subs[s].cidr \in Cidr
             /\ Exists(s) => subs[s] \in Sub
             /\ subs[s].status \in Statuses \cup {"none"}
             /\ subs[s].status = "none" => subs[s] = NoSub
  <2>1. subs[s] \in Sub \cup {NoSub}
    BY DEF TypeOK
  <2>2. CASE subs[s] \in Sub
    <3>1. subs[s].cidr \in Cidr /\ subs[s].status \in Statuses /\ subs[s].status # "none"
      BY <2>2 DEF Sub, Statuses
    <3> QED
      BY <2>1, <2>2, <3>1
  <2>3. CASE subs[s] = NoSub
    BY <1>0, <2>1, <2>3 DEF Exists
  <2> QED
    BY <2>1, <2>2, <2>3
<1>2. ASSUME NEW k \in ClaimIds
      PROVE  /\ claims[k] \in Claim \cup {NoClaim}
             /\ claims[k].status # "none" => claims[k] \in Claim
             /\ claims[k].status = "none" => claims[k] = NoClaim
             /\ claims[k].status \in {"active", "released", "expired", "none"}
  <2>1. claims[k] \in Claim \cup {NoClaim}
    BY DEF TypeOK
  <2>2. CASE claims[k] \in Claim
    <3>1. claims[k].status \in {"active", "released", "expired"}
      BY <2>2 DEF Claim
    <3> QED
      BY <2>1, <2>2, <3>1
  <2>3. CASE claims[k] = NoClaim
    BY <1>0, <2>1, <2>3
  <2> QED
    BY <2>1, <2>2, <2>3
<1>3. Siblings \in SUBSET Cidr /\ Current \in SUBSET Cidr
  BY <1>1 DEF Siblings, Current
<1> QED
  BY <1>1, <1>2, <1>3

\* A slot is written alone.
LEMMA SlotWritten ==
  ASSUME NEW w \in Requests, NEW hw, h \in [Requests -> Handler], Become(w, hw)
  PROVE  /\ h'[w] = hw
         /\ \A v \in Requests : v # w => h'[v] = h[v]
         /\ hw \in Handler => h' \in [Requests -> Handler]
BY DEF Become

\* A slot that has finished, or has not begun.
LEMMA IdleTyped ==
  Idle \in Handler
BY BoundsAssumption DEF Idle, Handler

\* What an insert of subnets does to the table.
LEMMA InsertIs ==
  ASSUME TypeOK, NEW w \in Requests, NEW C \in SUBSET Cidr, NEW found \in BOOLEAN,
         InsertSubs(w, C, found)
  PROVE  /\ subs' \in [SubIds -> Sub \cup {NoSub}]
         /\ \A s \in SubIds :
              \/ subs'[s] = subs[s]
              \/ /\ ~Exists(s) /\ subs'[s].status = "available" /\ subs'[s].cidr \in C
         /\ \A s, t \in SubIds :
              (s # t /\ subs'[s] # subs[s] /\ subs'[t] # subs[t]) => subs'[s].cidr # subs'[t].cidr
         /\ claims' = claims /\ live' = live /\ h' = [h EXCEPT ![w] = Idle]
<1> DEFINE ids == Injection(C, NewSubs)
           at == CHOOSE f \in ids : TRUE
           row(c) == [cidr |-> c, status |-> "available", found |-> found]
           hit(s) == \E c \in C : at[c] = s
           from(s) == CHOOSE c \in C : at[c] = s
<1>1. /\ ids # {}
      /\ subs' = IF ~live THEN subs ELSE
           [s \in SubIds |-> IF hit(s) THEN row(from(s)) ELSE subs[s]]
      /\ claims' = claims /\ live' = live /\ h' = [h EXCEPT ![w] = Idle]
  BY DEF InsertSubs, Finish, Become
<1>2. at \in [C -> NewSubs]
  <2>1. at \in ids
    BY <1>1
  <2> QED
    BY <2>1 DEF Injection
<1> HIDE DEF ids, at
<1>3. ASSUME NEW s \in SubIds, hit(s)
      PROVE  from(s) \in C /\ at[from(s)] = s /\ ~Exists(s) /\ row(from(s)) \in Sub
  <2>1. from(s) \in C /\ at[from(s)] = s
    BY <1>3
  <2>2. s \in NewSubs
    BY <1>2, <2>1
  <2>3. from(s) \in Cidr
    BY <2>1
  <2> HIDE DEF from
  <2>4. row(from(s)) \in Sub
    BY <2>3 DEF Sub, Statuses
  <2> QED
    BY <2>1, <2>2, <2>4 DEF NewSubs
<1>4. subs \in [SubIds -> Sub \cup {NoSub}]
  BY DEF TypeOK
<1> HIDE DEF hit, from
<1>5. subs' \in [SubIds -> Sub \cup {NoSub}]
  <2> HIDE DEF row
  <2> QED
    BY <1>1, <1>3, <1>4
<1>6. ASSUME NEW s \in SubIds
      PROVE  subs'[s] = subs[s] \/ (hit(s) /\ subs'[s] = row(from(s)))
  BY <1>1, <1>4
<1>7. ASSUME NEW s \in SubIds
      PROVE  \/ subs'[s] = subs[s]
             \/ /\ ~Exists(s) /\ subs'[s].status = "available" /\ subs'[s].cidr \in C
  <2>1. CASE hit(s) /\ subs'[s] = row(from(s))
    BY <1>3, <2>1
  <2> QED
    BY <1>6, <2>1
<1>8. ASSUME NEW s \in SubIds, NEW t \in SubIds, s # t, subs'[s] # subs[s], subs'[t] # subs[t]
      PROVE  subs'[s].cidr # subs'[t].cidr
  <2>1. hit(s) /\ subs'[s] = row(from(s)) /\ hit(t) /\ subs'[t] = row(from(t))
    BY <1>6, <1>8
  <2>2. at[from(s)] = s /\ at[from(t)] = t
    BY <1>3, <2>1
  <2>3. subs'[s].cidr = from(s) /\ subs'[t].cidr = from(t)
    BY <2>1
  <2> QED
    BY <1>8, <2>2, <2>3
<1> QED
  BY <1>1, <1>5, <1>7, <1>8

\* The tables after a step, and the slot that took it.
LEMMA BaseKept ==
  ASSUME Base, NEW w \in Requests, NEW hw \in Handler, HasTarget(hw), Become(w, hw),
         mix' = mix, live' \in BOOLEAN, subs' \in [SubIds -> Sub \cup {NoSub}],
         claims' \in [ClaimIds -> Claim \cup {NoClaim}],
         \A k \in ClaimIds : claims'[k].status # "none" => subs'[claims'[k].sub].status # "none"
  PROVE  Base'
<1>1. h \in [Requests -> Handler] /\ mix \in Mixes
  BY DEF Base, TypeOK
<1>2. /\ h'[w] = hw /\ h' \in [Requests -> Handler]
      /\ \A v \in Requests : v # w => h'[v] = h[v]
  BY <1>1, SlotWritten
<1>3. TypeOK'
  BY <1>1, <1>2 DEF TypeOK
<1>4. ClaimsHaveSubs'
  BY DEF ClaimsHaveSubs, Exists
<1>5. \A v \in Requests : HasTarget(h'[v])
  BY <1>2 DEF Base
<1>6. (\A v \in Requests : HasTarget(h[v]))'
  BY <1>5 DEF HasTarget
<1> QED
  BY <1>3, <1>4, <1>6 DEF Base

\* A step that writes only its slot.
LEMMA BaseQuiet ==
  ASSUME Base, NEW w \in Requests, NEW hw \in Handler, HasTarget(hw), Become(w, hw),
         mix' = mix, live' = live, subs' = subs, claims' = claims
  PROVE  Base'
<1>1. /\ live' \in BOOLEAN /\ subs' \in [SubIds -> Sub \cup {NoSub}]
      /\ claims' \in [ClaimIds -> Claim \cup {NoClaim}]
  BY DEF Base, TypeOK
<1>2. \A k \in ClaimIds : claims'[k].status # "none" => subs'[claims'[k].sub].status # "none"
  BY DEF Base, ClaimsHaveSubs, Exists
<1> QED
  BY <1>1, <1>2, BaseKept

\* A slot that has finished needs no target.
LEMMA IdleTarget ==
  HasTarget(Idle)
BY DEF HasTarget, Idle

\* The deletion of rows takes their reservations along.
LEMMA CascadeIs ==
  ASSUME Base, NEW S \in SUBSET SubIds, Cascade(S)
  PROVE  /\ subs' \in [SubIds -> Sub \cup {NoSub}]
         /\ claims' \in [ClaimIds -> Claim \cup {NoClaim}]
         /\ \A s \in SubIds : subs'[s] = IF s \in S THEN NoSub ELSE subs[s]
         /\ \A k \in ClaimIds : claims'[k] = IF claims[k].sub \in S THEN NoClaim ELSE claims[k]
         /\ \A k \in ClaimIds : claims'[k].status # "none" => subs'[claims'[k].sub].status # "none"
<1>1. subs \in [SubIds -> Sub \cup {NoSub}] /\ claims \in [ClaimIds -> Claim \cup {NoClaim}]
  BY DEF Base, TypeOK
<1>2. /\ \A s \in SubIds : subs'[s] = IF s \in S THEN NoSub ELSE subs[s]
      /\ \A k \in ClaimIds : claims'[k] = IF claims[k].sub \in S THEN NoClaim ELSE claims[k]
  BY DEF Cascade
<1>3. subs' \in [SubIds -> Sub \cup {NoSub}] /\ claims' \in [ClaimIds -> Claim \cup {NoClaim}]
  BY <1>1 DEF Cascade
<1>4. ASSUME NEW k \in ClaimIds, claims'[k].status # "none"
      PROVE  subs'[claims'[k].sub].status # "none"
  <2>1. claims'[k] = claims[k] /\ claims[k].sub \notin S
    BY <1>2, <1>4 DEF NoClaim
  <2>2. claims[k] \in Claim
    BY <1>4, <2>1, Tables DEF Base
  <2>3. claims[k].sub \in SubIds
    BY <2>2 DEF Claim
  <2>4. subs[claims[k].sub].status # "none"
    BY <1>4, <2>1 DEF Base, ClaimsHaveSubs, Exists
  <2> QED
    BY <1>2, <2>1, <2>3, <2>4
<1> QED
  BY <1>2, <1>3, <1>4

\* A new status of a subnet, and what stays.
LEMMA StatusSet ==
  ASSUME Base, NEW s \in SubIds, Exists(s), NEW status \in Statuses,
         subs' = [subs EXCEPT ![s].status = status]
  PROVE  /\ subs' \in [SubIds -> Sub \cup {NoSub}]
         /\ \A t \in SubIds : t # s => subs'[t] = subs[t]
         /\ \A t \in SubIds : subs'[t].cidr = subs[t].cidr
         /\ subs'[s].status = status
         /\ \A t \in SubIds : subs[t].status = "none" <=> subs'[t].status = "none"
<1>1. subs \in [SubIds -> Sub \cup {NoSub}] /\ subs[s] \in Sub
  BY Tables DEF Base, TypeOK
<1>2. subs'[s] = [subs[s] EXCEPT !.status = status]
  BY <1>1
<1>3. subs'[s] \in Sub /\ subs'[s].cidr = subs[s].cidr /\ subs'[s].status = status
  BY <1>1, <1>2 DEF Sub
<1>4. status # "none"
  BY DEF Statuses
<1>5. \A t \in SubIds : t # s => subs'[t] = subs[t]
  BY <1>1
<1>6. subs' \in [SubIds -> Sub \cup {NoSub}]
  <2>1. \A t \in SubIds : subs'[t] \in Sub \cup {NoSub}
    BY <1>1, <1>3, <1>5
  <2>2. subs' = [t \in SubIds |-> subs'[t]]
    BY <1>1
  <2> QED
    BY <2>1, <2>2
<1>7. \A t \in SubIds : subs[t].status = "none" <=> subs'[t].status = "none"
  BY <1>3, <1>4, <1>5 DEF Exists
<1> QED
  BY <1>3, <1>5, <1>6, <1>7

\* A first claim by discovery.
LEMMA SyncClaimIs ==
  ASSUME Base, NEW w \in Requests, SyncClaim(w)
  PROVE  /\ subs' \in [SubIds -> Sub \cup {NoSub}]
         /\ \A t \in SubIds : t # h[w].sub => subs'[t] = subs[t]
         /\ \A t \in SubIds : subs'[t].cidr = subs[t].cidr
         /\ \A t \in SubIds : subs[t].status = "none" <=> subs'[t].status = "none"
         /\ \A t \in SubIds : subs'[t].status = subs[t].status \/ subs'[t].status = "available"
<1> DEFINE s == h[w].sub
<1>1. subs \in [SubIds -> Sub \cup {NoSub}] /\ h[w] \in Handler
  BY DEF Base, TypeOK
<1>2. ASSUME NEW t \in SubIds
      PROVE  /\ subs'[t] \in Sub \cup {NoSub}
             /\ t # s => subs'[t] = subs[t]
             /\ subs'[t].cidr = subs[t].cidr
             /\ subs[t].status = "none" <=> subs'[t].status = "none"
             /\ subs'[t].status = subs[t].status \/ subs'[t].status = "available"
  <2>1. CASE t # s \/ ~Exists(s)
    BY <1>1, <2>1 DEF SyncClaim
  <2>2. CASE t = s /\ Exists(s)
    <3>1. subs[t] \in Sub
      BY <2>2, Tables DEF Base
    <3>2. subs'[t] = [subs[t] EXCEPT !.found = TRUE,
                                     !.status = IF h[w].first THEN "available" ELSE @]
      BY <1>1, <2>2 DEF SyncClaim
    <3>3. subs'[t] \in Sub /\ subs'[t].cidr = subs[t].cidr
          /\ (subs'[t].status = subs[t].status \/ subs'[t].status = "available")
      BY <3>1, <3>2 DEF Sub, Statuses
    <3> QED
      BY <2>2, <3>1, <3>3 DEF Sub, Statuses
  <2> QED
    BY <2>1, <2>2
<1>3. subs' = [t \in SubIds |-> subs'[t]]
  BY <1>1 DEF SyncClaim
<1> QED
  BY <1>2, <1>3

\* A first free host is a number.
LEMMA HostNumber ==
  ASSUME NEW c \in Cidr, NEW a \in Hosts(c)
  PROVE  a \in Nat
<1>1. c.base \in Nat /\ Last(c) \in Nat
  BY Bounds
<1> QED
  BY <1>1 DEF Hosts, Addresses

\* The id of a new reservation.
LEMMA NewClaimIs ==
  ASSUME NewClaims # {}
  PROVE  Min(NewClaims) \in ClaimIds /\ claims[Min(NewClaims)].status = "none"
<1>1. NewClaims \in SUBSET Nat
  BY DEF NewClaims, ClaimIds
<1> HIDE DEF NewClaims
<1>2. Min(NewClaims) \in NewClaims
  BY <1>1, MinIs
<1> QED
  BY <1>2 DEF NewClaims

\* A commit of a reservation: nothing changes, or a row appears.
LEMMA ReserveIs ==
  ASSUME Base, NEW w \in Requests, ReserveInsert(w)
  PROVE  \/ subs' = subs /\ claims' = claims
         \/ \E k \in ClaimIds :
              /\ claims[k].status = "none"
              /\ claims' = [claims EXCEPT ![k] = [sub |-> h[w].sub, ip |-> h[w].ip,
                                                  status |-> "active", due |-> h[w].due]]
              /\ h[w].sub \in SubIds /\ Exists(h[w].sub)
              /\ h[w].ip = Whole \/ ActiveAt(h[w].sub, h[w].ip) = {}
              /\ IF h[w].ip = Whole THEN subs' = [subs EXCEPT ![h[w].sub].status = "reserved"]
                 ELSE subs' = subs
<1>1. h[w].sub \in SubIds
  BY DEF Base, HasTarget, ReserveInsert
<1>2. CASE ~(Exists(h[w].sub) /\ (h[w].ip = Whole \/ ActiveAt(h[w].sub, h[w].ip) = {}))
  BY <1>2 DEF ReserveInsert
<1>3. CASE Exists(h[w].sub) /\ (h[w].ip = Whole \/ ActiveAt(h[w].sub, h[w].ip) = {})
  <2> DEFINE k == Min(NewClaims)
  <2>1. /\ NewClaims # {}
        /\ claims' = [claims EXCEPT ![k] = [sub |-> h[w].sub, ip |-> h[w].ip,
                                            status |-> "active", due |-> h[w].due]]
        /\ subs' = StatusAfter(h[w].sub, h[w].ip)
    BY <1>3 DEF ReserveInsert
  <2>2. k \in ClaimIds /\ claims[k].status = "none"
    BY <2>1, NewClaimIs
  <2> HIDE DEF k
  <2>3. IF h[w].ip = Whole THEN subs' = [subs EXCEPT ![h[w].sub].status = "reserved"]
        ELSE subs' = subs
    BY <2>1 DEF StatusAfter
  <2> QED
    BY <1>1, <1>3, <2>1, <2>2, <2>3
<1> QED
  BY <1>2, <1>3

\* A release: nothing changes, or the row is released and others go.
LEMMA ReleaseIs ==
  ASSUME Base, NEW w \in Requests, ReleaseCommit(w)
  PROVE  \/ subs' = subs /\ claims' = claims
         \/ LET k == h[w].claim
                s == claims[k].sub
            IN /\ k \in ClaimIds /\ claims[k].status # "none" /\ s \in SubIds /\ Exists(s)
               /\ claims' \in [ClaimIds -> Claim \cup {NoClaim}]
               /\ claims'[k].status = "released" /\ claims'[k].sub = s /\ claims'[k].ip = claims[k].ip
               /\ \A x \in ClaimIds : x # k =>
                    \/ claims'[x] = claims[x]
                    \/ claims[x].status = "released" /\ claims'[x] = NoClaim
               /\ IF h[w].ip = Whole THEN subs' = [subs EXCEPT ![s].status = "available"]
                  ELSE subs' = subs
<1> DEFINE k == h[w].claim
           s == claims[k].sub
<1>1. k \in ClaimIds
  BY DEF Base, HasTarget, ReleaseCommit
<1>2. CASE claims[k].status = "none"
  BY <1>2 DEF ReleaseCommit
<1>3. CASE claims[k].status # "none"
  <2>1. /\ claims' = [x \in ClaimIds |->
                 IF x = k THEN [claims[k] EXCEPT !.status = "released"]
                 ELSE IF claims[x].sub = s /\ claims[x].ip = h[w].ip
                         /\ claims[x].status = "released" THEN NoClaim
                 ELSE claims[x]]
        /\ subs' = StatusFreed(s, h[w].ip)
    BY <1>3 DEF ReleaseCommit
  <2>2. claims[k] \in Claim
    BY <1>1, <1>3, Tables DEF Base
  <2> HIDE DEF k
  <2>3. claims[k].sub \in SubIds /\ Exists(claims[k].sub)
    BY <1>1, <1>3, <2>2 DEF Base, ClaimsHaveSubs, Claim
  <2>4. claims'[k] = [claims[k] EXCEPT !.status = "released"]
    BY <1>1, <2>1
  <2>5. /\ claims'[k] \in Claim /\ claims'[k].status = "released"
        /\ claims'[k].sub = claims[k].sub /\ claims'[k].ip = claims[k].ip
    BY <2>2, <2>4 DEF Claim
  <2>6. \A x \in ClaimIds : x # k =>
          \/ claims'[x] = claims[x]
          \/ claims[x].status = "released" /\ claims'[x] = NoClaim
    BY <2>1
  <2>7. claims' \in [ClaimIds -> Claim \cup {NoClaim}]
    <3>1. \A x \in ClaimIds : claims'[x] \in Claim \cup {NoClaim}
      <4>1. \A x \in ClaimIds : claims[x] \in Claim \cup {NoClaim}
        BY DEF Base, TypeOK
      <4> QED
        BY <2>5, <2>6, <4>1
    <3>2. claims' = [x \in ClaimIds |-> claims'[x]]
      BY <2>1
    <3> QED
      BY <3>1, <3>2
  <2>8. IF h[w].ip = Whole THEN subs' = [subs EXCEPT ![s].status = "available"] ELSE subs' = subs
    BY <2>1 DEF StatusFreed
  <2> QED
    BY <1>1, <1>3, <2>3, <2>5, <2>6, <2>7, <2>8 DEF k
<1> QED
  BY <1>2, <1>3

\* Expiry, row by row.
LEMMA ExpireIs ==
  ASSUME Base, Expire
  PROVE  /\ subs' = subs /\ live' = live /\ h' = h
         /\ claims' \in [ClaimIds -> Claim \cup {NoClaim}]
         /\ \A k \in ClaimIds :
              \/ claims'[k] = claims[k]
              \/ /\ claims[k].status = "active" /\ claims'[k].status = "expired"
                 /\ claims'[k].sub = claims[k].sub /\ claims'[k].ip = claims[k].ip
<1> DEFINE due == {k \in ClaimIds : claims[k].status = "active" /\ claims[k].due}
<1>1. /\ claims' = [k \in ClaimIds |-> IF k \in due THEN [claims[k] EXCEPT !.status = "expired"]
                                                    ELSE claims[k]]
      /\ subs' = subs /\ live' = live /\ h' = h
  BY DEF Expire
<1>2. ASSUME NEW k \in ClaimIds
      PROVE  /\ claims'[k] \in Claim \cup {NoClaim}
             /\ \/ claims'[k] = claims[k]
                \/ /\ claims[k].status = "active" /\ claims'[k].status = "expired"
                   /\ claims'[k].sub = claims[k].sub /\ claims'[k].ip = claims[k].ip
  <2>1. CASE k \in due
    <3>1. claims[k] \in Claim
      BY <2>1, Tables DEF Base
    <3>2. claims'[k] = [claims[k] EXCEPT !.status = "expired"]
      BY <1>1, <2>1
    <3>3. /\ claims'[k] \in Claim /\ claims'[k].status = "expired"
          /\ claims'[k].sub = claims[k].sub /\ claims'[k].ip = claims[k].ip
      BY <3>1, <3>2 DEF Claim
    <3> QED
      BY <2>1, <3>3
  <2>2. CASE k \notin due
    BY <1>1, <2>2 DEF Base, TypeOK
  <2> QED
    BY <2>1, <2>2
<1>3. claims' = [k \in ClaimIds |-> claims'[k]]
  BY <1>1
<1> QED
  BY <1>1, <1>2, <1>3

\* A function begins with CIDRs to insert,
LEMMA PlanTyped ==
  ASSUME NEW C \in SUBSET Cidr, NEW pc \in {"s_check", "b_commit", "y_insert"}
  PROVE  LET hw == [Idle EXCEPT !.pc = pc, !.cidrs = C] IN
         hw \in Handler /\ HasTarget(hw) /\ hw.pc = pc /\ hw.cidrs = C
<1>1. LET hw == [Idle EXCEPT !.pc = pc, !.cidrs = C] IN
      hw \in Handler /\ hw.pc = pc /\ hw.cidrs = C
  BY IdleTyped DEF Handler
<1> QED
  BY <1>1 DEF HasTarget

\* with a subnet to take from,
LEMMA DropTyped ==
  ASSUME NEW s \in SubIds, NEW pc \in {"y_gone", "d_delete"}
  PROVE  LET hw == [Idle EXCEPT !.pc = pc, !.sub = s] IN
         /\ hw \in Handler /\ HasTarget(hw) /\ hw.pc = pc /\ hw.sub = s
         /\ hw.cidrs = {}
<1> DEFINE hw == [Idle EXCEPT !.pc = pc, !.sub = s]
<1>1. s \in 0..MaxSubnets /\ Idle.cidrs = {} /\ Idle.ip = Whole
  BY BoundsAssumption DEF SubIds, Idle
<1>2. /\ hw \in Handler /\ hw.pc = pc /\ hw.sub = s
      /\ hw.cidrs = Idle.cidrs
  BY <1>1, IdleTyped DEF Handler
<1> HIDE DEF hw
<1>3. HasTarget(hw)
  BY <1>2 DEF HasTarget
<1> QED
  BY <1>1, <1>2, <1>3 DEF hw

\* a subnet that discovery has found,
LEMMA FoundTyped ==
  ASSUME NEW s \in SubIds, NEW b \in BOOLEAN
  PROVE  LET hw == [Idle EXCEPT !.pc = "y_claim", !.sub = s, !.first = b] IN
         /\ hw \in Handler /\ HasTarget(hw) /\ hw.pc = "y_claim" /\ hw.sub = s
         /\ hw.cidrs = {}
<1> DEFINE hw == [Idle EXCEPT !.pc = "y_claim", !.sub = s, !.first = b]
<1>1. s \in 0..MaxSubnets /\ Idle.cidrs = {} /\ Idle.ip = Whole
  BY BoundsAssumption DEF SubIds, Idle
<1>2. /\ hw \in Handler /\ hw.pc = "y_claim" /\ hw.sub = s
      /\ hw.cidrs = Idle.cidrs
  BY <1>1, IdleTyped DEF Handler
<1> HIDE DEF hw
<1>3. HasTarget(hw)
  BY <1>2 DEF HasTarget
<1> QED
  BY <1>1, <1>2, <1>3 DEF hw

\* a subnet to claim as a whole,
LEMMA WholeTyped ==
  ASSUME NEW s \in SubIds, NEW b \in BOOLEAN
  PROVE  LET hw == [Idle EXCEPT !.pc = "c_insert", !.sub = s, !.due = b] IN
         /\ hw \in Handler /\ HasTarget(hw) /\ hw.pc = "c_insert" /\ hw.sub = s
         /\ hw.cidrs = {} /\ hw.ip = Whole
<1> DEFINE hw == [Idle EXCEPT !.pc = "c_insert", !.sub = s, !.due = b]
<1>1. s \in 0..MaxSubnets /\ Idle.cidrs = {} /\ Idle.ip = Whole
  BY BoundsAssumption DEF SubIds, Idle
<1>2. /\ hw \in Handler /\ hw.pc = "c_insert" /\ hw.sub = s
      /\ hw.cidrs = Idle.cidrs /\ hw.ip = Idle.ip
  BY <1>1, IdleTyped DEF Handler
<1> HIDE DEF hw
<1>3. HasTarget(hw)
  BY <1>2 DEF HasTarget
<1> QED
  BY <1>1, <1>2, <1>3 DEF hw

\* a subnet and a host of it,
LEMMA HostTyped ==
  ASSUME NEW s \in SubIds, NEW ip \in {Whole} \cup Nat
  PROVE  LET hw == [Idle EXCEPT !.pc = "c_check", !.sub = s, !.ip = ip] IN
         /\ hw \in Handler /\ HasTarget(hw) /\ hw.pc = "c_check" /\ hw.sub = s
         /\ hw.cidrs = {} /\ hw.ip = ip
<1> DEFINE hw == [Idle EXCEPT !.pc = "c_check", !.sub = s, !.ip = ip]
<1>1. s \in 0..MaxSubnets /\ Idle.cidrs = {} /\ Idle.ip = Whole
  BY BoundsAssumption DEF SubIds, Idle
<1>2. /\ hw \in Handler /\ hw.pc = "c_check" /\ hw.sub = s
      /\ hw.cidrs = Idle.cidrs /\ hw.ip = ip
  BY <1>1, IdleTyped DEF Handler
<1> HIDE DEF hw
<1>3. HasTarget(hw)
  BY <1>2 DEF HasTarget
<1> QED
  BY <1>1, <1>2, <1>3 DEF hw

\* with a reservation,
LEMMA ClaimTyped ==
  ASSUME NEW k \in ClaimIds, NEW ip \in {Whole} \cup Nat
  PROVE  LET hw == [Idle EXCEPT !.pc = "r_commit", !.claim = k, !.ip = ip] IN
         /\ hw \in Handler /\ HasTarget(hw) /\ hw.pc = "r_commit" /\ hw.claim = k /\ hw.ip = ip
         /\ hw.cidrs = {}
<1> DEFINE hw == [Idle EXCEPT !.pc = "r_commit", !.claim = k, !.ip = ip]
<1>1. k \in 0..MaxClaims /\ Idle.cidrs = {}
  BY BoundsAssumption DEF ClaimIds, Idle
<1>2. /\ hw \in Handler /\ hw.pc = "r_commit" /\ hw.claim = k /\ hw.ip = ip
      /\ hw.cidrs = Idle.cidrs
  BY <1>1, IdleTyped DEF Handler
<1> HIDE DEF hw
<1>3. HasTarget(hw)
  BY <1>2 DEF HasTarget
<1> QED
  BY <1>1, <1>2, <1>3 DEF hw

\* with the block,
LEMMA BlockTyped ==
  LET hw == [Idle EXCEPT !.pc = "k_delete"] IN
  hw \in Handler /\ HasTarget(hw) /\ hw.pc = "k_delete" /\ hw.cidrs = {}
<1> DEFINE hw == [Idle EXCEPT !.pc = "k_delete"]
<1>1. Idle.cidrs = {}
  BY DEF Idle
<1>2. hw \in Handler /\ hw.pc = "k_delete" /\ hw.cidrs = Idle.cidrs
  BY IdleTyped DEF Handler
<1> HIDE DEF hw
<1>3. HasTarget(hw)
  BY <1>2 DEF HasTarget
<1> QED
  BY <1>1, <1>2, <1>3 DEF hw

\* and goes on with what it had.
LEMMA GoOnTyped ==
  ASSUME NEW x \in Handler, HasTarget(x), NEW pc \in {"s_insert", "c_insert"},
         pc = "c_insert" => x.pc = "c_check"
  PROVE  LET hw == [x EXCEPT !.pc = pc] IN
         /\ hw \in Handler /\ HasTarget(hw) /\ hw.pc = pc /\ hw.cidrs = x.cidrs
         /\ hw.sub = x.sub /\ hw.ip = x.ip
<1> DEFINE hw == [x EXCEPT !.pc = pc]
<1>1. /\ hw \in Handler /\ hw.pc = pc /\ hw.cidrs = x.cidrs
      /\ hw.sub = x.sub /\ hw.ip = x.ip
  BY DEF Handler
<1> HIDE DEF hw
<1>2. HasTarget(hw)
  BY <1>1 DEF HasTarget
<1> QED
  BY <1>1, <1>2 DEF hw

\* Base is inductive.
LEMMA BaseStep ==
  ASSUME Base, [Next]_vars
  PROVE  Base'
<1> USE DEF Base
<1>0. CASE UNCHANGED vars
  BY <1>0 DEF vars, TypeOK, ClaimsHaveSubs, Exists, HasTarget
<1> SUFFICES ASSUME Step, mix' = mix PROVE Base'
  BY <1>0 DEF Next
<1>a. /\ subs \in [SubIds -> Sub \cup {NoSub}] /\ claims \in [ClaimIds -> Claim \cup {NoClaim}]
      /\ live \in BOOLEAN
  BY DEF TypeOK
<1>b. \A w \in Requests : h[w] \in Handler /\ h[w].cidrs \in SUBSET Cidr
  <2>1. \A w \in Requests : h[w] \in Handler
    BY DEF TypeOK
  <2> QED
    BY <2>1 DEF Handler
<1>c. \A k \in ClaimIds : claims[k].status # "none" => subs[claims[k].sub].status # "none"
  BY DEF ClaimsHaveSubs, Exists
<1>d. \A k \in ClaimIds : claims[k].status # "none" => claims[k].sub \in SubIds
  <2>1. \A k \in ClaimIds : claims[k].status # "none" => claims[k] \in Claim
    BY Tables
  <2> QED
    BY <2>1 DEF Claim
<1> HIDE DEF Base
<1>1. ASSUME NEW w \in Requests, NEW typed \in Requested, CreateBegin(w, typed) PROVE Base'
  <2> DEFINE c == Normalize(typed.base, typed.len)
  <2>1. c \in Cidr
    <3>1. typed \in Cidr
      BY InputsAssumption
    <3>2. typed.base \in 0..(Space - 1) /\ typed.len \in 0..W
      BY <3>1 DEF Cidr
    <3> QED
      BY <3>2, NormalizeIs
  <2>2. Become(w, [Idle EXCEPT !.pc = "s_check", !.cidrs = {c}])
        /\ subs' = subs /\ claims' = claims /\ live' = live
    BY <1>1 DEF CreateBegin
  <2> HIDE DEF c
  <2> QED
    BY <2>1, <2>2, PlanTyped, BaseQuiet
<1>2. ASSUME NEW w \in Requests, NEW len \in Lengths, AllocateNext(w, len) PROVE Base'
  <2> DEFINE c == findNextAvailableSubnet(Block, Siblings, len)
  <2>1. c \in Cidr
    <3>1. len \in 0..W /\ Siblings \in SUBSET Cidr
      BY InputsAssumption, Tables DEF Base
    <3>2. c # NoCidr
      BY <1>2 DEF AllocateNext
    <3> QED
      BY <3>1, <3>2, NextSubnetIs
  <2>2. Become(w, [Idle EXCEPT !.pc = "s_check", !.cidrs = {c}])
        /\ subs' = subs /\ claims' = claims /\ live' = live
    BY <1>2 DEF AllocateNext
  <2> HIDE DEF c
  <2> QED
    BY <2>1, <2>2, PlanTyped, BaseQuiet
<1>3. ASSUME NEW w \in Requests, NEW t \in Templates, NEW a \in Anchors, BulkRead(w, t, a)
      PROVE  Base'
  <2> DEFINE packed == packIntoAnchor(Block, Siblings, t, a)
             kept == {packed[i] : i \in {j \in 1..Len(t) : ~t[j].skip}}
  <2>1. packed # NoCidr /\ Become(w, [Idle EXCEPT !.pc = "b_commit", !.cidrs = kept])
        /\ subs' = subs /\ claims' = claims /\ live' = live
    BY <1>3 DEF BulkRead
  <2>2. t \in Entries
    BY InputsAssumption DEF Entries
  <2>3. \A i \in 1..Len(t) : packed[i] \in Cidr
    BY <2>1, <2>2, PackTyped
  <2>4. kept \in SUBSET Cidr
    <3> HIDE DEF packed
    <3> QED
      BY <2>3
  <2> HIDE DEF packed, kept
  <2> QED
    BY <2>1, <2>4, PlanTyped, BaseQuiet
<1>4. ASSUME NEW w \in Requests, SiblingCheck(w) PROVE Base'
  <2>1. subs' = subs /\ claims' = claims /\ live' = live
    BY <1>4 DEF SiblingCheck
  <2>2. CASE Finish(w)
    BY <2>1, <2>2, IdleTyped, IdleTarget, BaseQuiet DEF Finish
  <2>3. CASE Become(w, [h[w] EXCEPT !.pc = "s_insert"])
    <3> DEFINE hw == [h[w] EXCEPT !.pc = "s_insert"]
    <3>1. hw \in Handler /\ HasTarget(hw)
      BY <1>b, GoOnTyped DEF Base
    <3> HIDE DEF hw
    <3>2. Become(w, hw)
      BY <2>3 DEF hw
    <3> QED
      BY <2>1, <3>1, <3>2, BaseQuiet
  <2> QED
    BY <1>4, <2>2, <2>3 DEF SiblingCheck
<1>5. ASSUME NEW w \in Requests, NEW found \in BOOLEAN, InsertSubs(w, h[w].cidrs, found)
      PROVE  Base'
  <2>1. /\ subs' \in [SubIds -> Sub \cup {NoSub}]
        /\ \A s \in SubIds : subs'[s] = subs[s] \/ subs'[s].status = "available"
        /\ claims' = claims /\ live' = live
    BY <1>5, <1>b, InsertIs DEF Base
  <2>2. \A k \in ClaimIds : claims'[k].status # "none" => subs'[claims'[k].sub].status # "none"
    BY <1>c, <1>d, <2>1
  <2>3. Become(w, Idle)
    BY <1>5 DEF InsertSubs, Finish
  <2> QED
    BY <1>a, <2>1, <2>2, <2>3, IdleTyped, IdleTarget, BaseKept
<1>6. ASSUME NEW w \in Requests, NEW typed \in Requested, SyncSubnet(w, typed) PROVE Base'
  <2> DEFINE c == Normalize(typed.base, typed.len)
  <2>1. c \in Cidr
    <3>1. typed \in Cidr
      BY InputsAssumption
    <3>2. typed.base \in 0..(Space - 1) /\ typed.len \in 0..W
      BY <3>1 DEF Cidr
    <3> QED
      BY <3>2, NormalizeIs
  <2>2. subs' = subs /\ claims' = claims /\ live' = live
    BY <1>6 DEF SyncSubnet
  <2>3. CASE Become(w, [Idle EXCEPT !.pc = "y_insert", !.cidrs = {c}])
    <3> HIDE DEF c
    <3> QED
      BY <2>1, <2>2, <2>3, PlanTyped, BaseQuiet
  <2>4. ASSUME NEW s \in SubIds,
               Become(w, [Idle EXCEPT !.pc = "y_claim", !.sub = s, !.first = ~subs[s].found])
        PROVE  Base'
    <3> DEFINE b == ~subs[s].found
               hw == [Idle EXCEPT !.pc = "y_claim", !.sub = s, !.first = b]
    <3>0. b \in BOOLEAN
      OBVIOUS
    <3>1. hw \in Handler /\ HasTarget(hw)
      BY <3>0, FoundTyped
    <3> HIDE DEF hw
    <3>2. Become(w, hw)
      BY <2>4 DEF hw
    <3> QED
      BY <2>2, <3>1, <3>2, BaseQuiet
  <2> QED
    BY <1>6, <2>3, <2>4 DEF SyncSubnet
<1>7. ASSUME NEW w \in Requests, SyncClaim(w) PROVE Base'
  <2>1. /\ subs' \in [SubIds -> Sub \cup {NoSub}]
        /\ \A s \in SubIds : subs[s].status = "none" <=> subs'[s].status = "none"
    BY <1>7, SyncClaimIs
  <2>2. claims' = claims /\ live' = live /\ Become(w, Idle)
    BY <1>7 DEF SyncClaim, Finish
  <2>3. \A k \in ClaimIds : claims'[k].status # "none" => subs'[claims'[k].sub].status # "none"
    BY <1>c, <1>d, <2>1, <2>2
  <2> QED
    BY <1>a, <2>1, <2>2, <2>3, IdleTyped, IdleTarget, BaseKept
<1>8. ASSUME NEW w \in Requests, NEW s \in SubIds,
             SyncGone(w, s) \/ DeleteSubnetCount(w, s)
      PROVE  Base'
  <2>1. PICK pc \in {"y_gone", "d_delete"} : Become(w, [Idle EXCEPT !.pc = pc, !.sub = s])
    BY <1>8 DEF SyncGone, DeleteSubnetCount
  <2>2. subs' = subs /\ claims' = claims /\ live' = live
    BY <1>8 DEF SyncGone, DeleteSubnetCount
  <2> DEFINE hw == [Idle EXCEPT !.pc = pc, !.sub = s]
  <2>3. hw \in Handler /\ HasTarget(hw)
    BY DropTyped
  <2> HIDE DEF hw
  <2>4. Become(w, hw)
    BY <2>1 DEF hw
  <2> QED
    BY <2>2, <2>3, <2>4, BaseQuiet
<1>9. ASSUME NEW w \in Requests, SyncDeprecate(w) PROVE Base'
  <2> DEFINE s == h[w].sub
  <2>1. claims' = claims /\ live' = live /\ Become(w, Idle) /\ s \in SubIds
    BY <1>9 DEF SyncDeprecate, Finish, Base, HasTarget
  <2>2. CASE ~Exists(s)
    <3>1. subs' = subs
      BY <1>9, <2>2 DEF SyncDeprecate
    <3> QED
      BY <2>1, <3>1, IdleTyped, IdleTarget, BaseQuiet
  <2>3. CASE Exists(s)
    <3>1. subs' = [subs EXCEPT ![s].status = "deprecated"]
      BY <1>9, <2>3 DEF SyncDeprecate
    <3>2. "deprecated" \in Statuses
      BY DEF Statuses
    <3> HIDE DEF s
    <3>3. /\ subs' \in [SubIds -> Sub \cup {NoSub}]
          /\ \A t \in SubIds : subs[t].status = "none" <=> subs'[t].status = "none"
      BY <2>1, <2>3, <3>1, <3>2, StatusSet
    <3>4. \A k \in ClaimIds : claims'[k].status # "none" => subs'[claims'[k].sub].status # "none"
      BY <1>c, <1>d, <2>1, <3>3
    <3> QED
      BY <1>a, <2>1, <3>3, <3>4, IdleTyped, IdleTarget, BaseKept
  <2> QED
    BY <2>2, <2>3
<1>10. ASSUME NEW w \in Requests, DeleteSubnet(w) PROVE Base'
  <2>1. live' = live /\ Become(w, Idle) /\ h[w].sub \in SubIds
    BY <1>10 DEF DeleteSubnet, Finish, Base, HasTarget
  <2>2. CASE UNCHANGED <<subs, claims>>
    BY <2>1, <2>2, IdleTyped, IdleTarget, BaseQuiet
  <2>3. CASE Cascade({h[w].sub})
    BY <1>a, <2>1, <2>3, CascadeIs, IdleTyped, IdleTarget, BaseKept
  <2> QED
    BY <1>10, <2>2, <2>3 DEF DeleteSubnet
<1>11. ASSUME NEW w \in Requests, DeleteBlockCount(w) PROVE Base'
  <2> DEFINE hw == [Idle EXCEPT !.pc = "k_delete"]
  <2>1. hw \in Handler /\ HasTarget(hw)
    BY BlockTyped
  <2>2. Become(w, hw) /\ subs' = subs /\ claims' = claims /\ live' = live
    BY <1>11 DEF DeleteBlockCount
  <2> HIDE DEF hw
  <2> QED
    BY <2>1, <2>2, BaseQuiet
<1>12. ASSUME NEW w \in Requests, DeleteBlock(w) PROVE Base'
  <2>1. live' \in BOOLEAN /\ Become(w, Idle)
    BY <1>12 DEF DeleteBlock, Finish
  <2>2. CASE UNCHANGED <<subs, claims>>
    BY <1>a, <1>c, <2>1, <2>2, IdleTyped, IdleTarget, BaseKept
  <2>3. CASE Cascade(SubIds)
    BY <1>a, <2>1, <2>3, CascadeIs, IdleTyped, IdleTarget, BaseKept
  <2> QED
    BY <1>12, <2>2, <2>3 DEF DeleteBlock
<1>13. ASSUME NEW w \in Requests, NEW s \in SubIds, NEW due \in BOOLEAN, ReserveCheck(w, s, due)
       PROVE  Base'
  <2> DEFINE hw == [Idle EXCEPT !.pc = "c_insert", !.sub = s, !.due = due]
  <2>1. hw \in Handler /\ HasTarget(hw)
    BY WholeTyped
  <2>2. Become(w, hw) /\ subs' = subs /\ claims' = claims /\ live' = live
    BY <1>13 DEF ReserveCheck
  <2> HIDE DEF hw
  <2> QED
    BY <2>1, <2>2, BaseQuiet
<1>14. ASSUME NEW w \in Requests, NEW s \in SubIds, NextReservation(w, s) PROVE Base'
  <2> DEFINE taken == {claims[k].ip : k \in ActiveIn(s)}
             ip == NextHost(subs[s].cidr, taken, PageSize)
             hw == [Idle EXCEPT !.pc = "c_check", !.sub = s, !.ip = ip]
  <2>1. ip # NoCidr /\ Become(w, hw) /\ subs' = subs /\ claims' = claims /\ live' = live
    BY <1>14 DEF NextReservation
  <2>2. subs[s].cidr \in Cidr
    BY Tables DEF Base
  <2>3. ip \in Nat
    <3> HIDE DEF taken
    <3>1. ip \in Hosts(subs[s].cidr)
      BY <2>1, <2>2, NextHostIs, BoundsAssumption
    <3> QED
      BY <2>2, <3>1, HostNumber
  <2> HIDE DEF ip
  <2>4. hw \in Handler /\ HasTarget(hw)
    BY <2>3, HostTyped
  <2> HIDE DEF hw
  <2> QED
    BY <2>1, <2>4, BaseQuiet
<1>15. ASSUME NEW w \in Requests, HostCheck(w) PROVE Base'
  <2>1. subs' = subs /\ claims' = claims /\ live' = live
    BY <1>15 DEF HostCheck
  <2>2. CASE Finish(w)
    BY <2>1, <2>2, IdleTyped, IdleTarget, BaseQuiet DEF Finish
  <2>3. CASE Become(w, [h[w] EXCEPT !.pc = "c_insert"])
    <3> DEFINE hw == [h[w] EXCEPT !.pc = "c_insert"]
    <3>1. h[w].pc = "c_check" /\ h[w].sub \in SubIds
      BY <1>15 DEF HostCheck, Base, HasTarget
    <3>2. hw \in Handler /\ HasTarget(hw)
      BY <1>b, <3>1, GoOnTyped DEF Base
    <3> HIDE DEF hw
    <3>3. Become(w, hw)
      BY <2>3 DEF hw
    <3> QED
      BY <2>1, <3>2, <3>3, BaseQuiet
  <2> QED
    BY <1>15, <2>2, <2>3 DEF HostCheck
<1>16. ASSUME NEW w \in Requests, ReserveInsert(w) PROVE Base'
  <2>1. live' = live /\ Become(w, Idle)
    BY <1>16 DEF ReserveInsert, Finish
  <2>2. CASE subs' = subs /\ claims' = claims
    BY <2>1, <2>2, IdleTyped, IdleTarget, BaseQuiet
  <2>3. ASSUME NEW k \in ClaimIds,
               claims' = [claims EXCEPT ![k] = [sub |-> h[w].sub, ip |-> h[w].ip,
                                                status |-> "active", due |-> h[w].due]],
               h[w].sub \in SubIds, Exists(h[w].sub),
               IF h[w].ip = Whole THEN subs' = [subs EXCEPT ![h[w].sub].status = "reserved"]
               ELSE subs' = subs
        PROVE  Base'
    <3> DEFINE row == [sub |-> h[w].sub, ip |-> h[w].ip, status |-> "active", due |-> h[w].due]
    <3>1. row \in Claim
      BY <1>b, <2>3 DEF Claim, Handler
    <3>2. row.sub = h[w].sub
      OBVIOUS
    <3> HIDE DEF row
    <3>3. /\ claims' \in [ClaimIds -> Claim \cup {NoClaim}]
          /\ \A x \in ClaimIds : claims'[x] = IF x = k THEN row ELSE claims[x]
      BY <1>a, <2>3, <3>1 DEF row
    <3>4. /\ subs' \in [SubIds -> Sub \cup {NoSub}]
          /\ \A t \in SubIds : subs[t].status = "none" <=> subs'[t].status = "none"
      <4>1. CASE h[w].ip = Whole
        <5>1. subs' = [subs EXCEPT ![h[w].sub].status = "reserved"] /\ "reserved" \in Statuses
          BY <2>3, <4>1 DEF Statuses
        <5> QED
          BY <2>3, <5>1, StatusSet
      <4>2. CASE h[w].ip # Whole
        BY <1>a, <2>3, <4>2
      <4> QED
        BY <4>1, <4>2
    <3>5. \A x \in ClaimIds : claims'[x].status # "none" => subs'[claims'[x].sub].status # "none"
      BY <1>c, <1>d, <2>3, <3>2, <3>3, <3>4 DEF Exists
    <3> QED
      BY <1>a, <2>1, <3>3, <3>4, <3>5, IdleTyped, IdleTarget, BaseKept
  <2> QED
    BY <1>16, <2>2, <2>3, ReserveIs
<1>17. ASSUME NEW w \in Requests, NEW k \in ClaimIds, ReleaseBegin(w, k) PROVE Base'
  <2> DEFINE hw == [Idle EXCEPT !.pc = "r_commit", !.claim = k, !.ip = claims[k].ip]
  <2>1. claims[k].status = "active" /\ Become(w, hw)
        /\ subs' = subs /\ claims' = claims /\ live' = live
    BY <1>17 DEF ReleaseBegin
  <2>2. claims[k] \in Claim
    BY <2>1, Tables DEF Base
  <2>3. claims[k].ip \in {Whole} \cup Nat
    BY <2>2 DEF Claim
  <2>4. hw \in Handler /\ HasTarget(hw)
    BY <2>3, ClaimTyped
  <2> HIDE DEF hw
  <2> QED
    BY <2>1, <2>4, BaseQuiet
<1>18. ASSUME NEW w \in Requests, ReleaseCommit(w) PROVE Base'
  <2> DEFINE k == h[w].claim
             s == claims[k].sub
  <2>1. live' = live /\ Become(w, Idle)
    BY <1>18 DEF ReleaseCommit, Finish
  <2>2. CASE subs' = subs /\ claims' = claims
    BY <2>1, <2>2, IdleTyped, IdleTarget, BaseQuiet
  <2>3. CASE /\ k \in ClaimIds /\ s \in SubIds /\ Exists(s)
             /\ claims' \in [ClaimIds -> Claim \cup {NoClaim}]
             /\ claims'[k].status = "released" /\ claims'[k].sub = s
             /\ \A x \in ClaimIds : x # k =>
                  \/ claims'[x] = claims[x]
                  \/ claims[x].status = "released" /\ claims'[x] = NoClaim
             /\ IF h[w].ip = Whole THEN subs' = [subs EXCEPT ![s].status = "available"]
                ELSE subs' = subs
    <3> HIDE DEF k, s
    <3>1. /\ subs' \in [SubIds -> Sub \cup {NoSub}]
          /\ \A t \in SubIds : subs[t].status = "none" <=> subs'[t].status = "none"
      <4>1. CASE h[w].ip = Whole
        <5>1. subs' = [subs EXCEPT ![s].status = "available"] /\ "available" \in Statuses
          BY <2>3, <4>1 DEF Statuses
        <5> QED
          BY <2>3, <5>1, StatusSet
      <4>2. CASE h[w].ip # Whole
        BY <1>a, <2>3, <4>2
      <4> QED
        BY <4>1, <4>2
    <3>2. ASSUME NEW x \in ClaimIds, claims'[x].status # "none"
          PROVE  subs'[claims'[x].sub].status # "none"
      <4>1. CASE x = k
        BY <2>3, <3>1, <4>1 DEF Exists
      <4>2. CASE x # k
        <5>1. claims'[x] = claims[x]
          BY <2>3, <3>2, <4>2 DEF NoClaim
        <5> QED
          BY <1>c, <1>d, <3>1, <3>2, <5>1
      <4> QED
        BY <4>1, <4>2
    <3> QED
      BY <1>a, <2>1, <2>3, <3>1, <3>2, IdleTyped, IdleTarget, BaseKept
  <2> QED
    BY <1>18, <2>2, <2>3, ReleaseIs
<1>19. ASSUME NEW s \in SubIds, NEW status \in Statuses, UpdateSubnet(s, status) PROVE Base'
  <2>1. claims' = claims /\ live' = live /\ h' = h
    BY <1>19 DEF UpdateSubnet
  <2>2. /\ subs' \in [SubIds -> Sub \cup {NoSub}]
        /\ \A t \in SubIds : subs[t].status = "none" <=> subs'[t].status = "none"
    BY <1>19, StatusSet DEF UpdateSubnet
  <2>3. TypeOK'
    BY <2>1, <2>2 DEF Base, TypeOK
  <2>4. ClaimsHaveSubs'
    BY <1>c, <1>d, <2>1, <2>2 DEF ClaimsHaveSubs, Exists
  <2> QED
    BY <2>1, <2>3, <2>4 DEF Base, HasTarget
<1>20. ASSUME Expire PROVE Base'
  <2>1. /\ subs' = subs /\ live' = live /\ h' = h
        /\ claims' \in [ClaimIds -> Claim \cup {NoClaim}]
        /\ \A k \in ClaimIds :
              \/ claims'[k] = claims[k]
              \/ claims[k].status = "active" /\ claims'[k].sub = claims[k].sub
    BY <1>20, ExpireIs
  <2>2. TypeOK'
    BY <2>1 DEF Base, TypeOK
  <2>3. ClaimsHaveSubs'
    BY <1>c, <2>1 DEF ClaimsHaveSubs, Exists
  <2> QED
    BY <2>1, <2>2, <2>3 DEF Base, HasTarget
<1>21. ASSUME NEW w \in Requests, Start(w) PROVE Base'
  BY <1>21, <1>1, <1>2, <1>3, <1>6, <1>8, <1>11, <1>13, <1>14, <1>17 DEF Start
<1>22. ASSUME NEW w \in Requests, Continue(w) PROVE Base'
  <2>1. ASSUME CreateInsert(w) \/ BulkCommit(w) \/ SyncInsert(w) PROVE Base'
    BY <2>1, <1>5 DEF CreateInsert, BulkCommit, SyncInsert
  <2> QED
    BY <1>22, <2>1, <1>4, <1>7, <1>9, <1>10, <1>12, <1>15, <1>16, <1>18 DEF Continue
<1> QED
  BY <1>19, <1>20, <1>21, <1>22 DEF Step

\* Base holds at the start.
LEMMA BaseInit ==
  ASSUME Init
  PROVE  Base
<1>1. TypeOK
  BY IdleTyped DEF Init, TypeOK
<1>2. ClaimsHaveSubs
  BY DEF Init, ClaimsHaveSubs, NoClaim
<1> QED
  BY <1>1, <1>2, IdleTarget DEF Init, Base, HasTarget

\* Base is an invariant.
LEMMA BaseAlways == Spec => []Base
<1>1. Init => Base
  BY BaseInit
<1>2. Base /\ [Next]_vars => Base'
  BY BaseStep
<1> QED
  BY <1>1, <1>2, PTL DEF Spec

\* The tables and the running functions keep their types, whatever runs at
\* the same time and whatever the templates are.
THEOREM TypesCorrect == Spec => []TypeOK
<1>1. Base => TypeOK
  BY DEF Base
<1> QED
  BY <1>1, BaseAlways, PTL

\* What is free of all the siblings is free of their union.
LEMMA FreeOfAll ==
  ASSUME NEW x, NEW S
  PROVE  (\A y \in S : Apart(x, y)) <=> Addresses(x) \cap UNION {Addresses(c) : c \in S} = {}
BY DEF Apart

\* allocateNextSubnet finds the room there is, in every state.
THEOREM RoomAlwaysFound == Spec => []RoomFound
<1>1. ASSUME Base PROVE RoomFound
  <2> SUFFICES ASSUME NEW len \in Lengths
               PROVE  LET taken == UNION {Addresses(c) : c \in Siblings}
                          c == findNextAvailableSubnet(Block, Siblings, len)
                          room == {x \in Cidr : x.len = len /\ x.base % Size(len) = 0
                                     /\ Addresses(x) \subseteq Addresses(Block) \ taken}
                      IN IF c = NoCidr THEN room = {} ELSE c \in room
    BY DEF RoomFound
  <2> DEFINE taken == UNION {Addresses(c) : c \in Siblings}
             c == findNextAvailableSubnet(Block, Siblings, len)
             room == {x \in Cidr : x.len = len /\ x.base % Size(len) = 0
                        /\ Addresses(x) \subseteq Addresses(Block) \ taken}
             free == {x \in Cidr : x.len = len /\ x.base % Size(len) = 0
                        /\ Addresses(x) \subseteq Addresses(Block)
                        /\ \A y \in Siblings : Apart(x, y)}
  <2>1. len \in 0..W /\ Siblings \in SUBSET Cidr
    BY <1>1, InputsAssumption, Tables DEF Base
  <2>2. IF c = NoCidr THEN free = {} ELSE c \in free
    BY <2>1, NextSubnetIs
  <2>3. ASSUME NEW x
        PROVE  Addresses(x) \subseteq Addresses(Block) \ taken
                 <=> /\ Addresses(x) \subseteq Addresses(Block)
                     /\ \A y \in Siblings : Apart(x, y)
    <3>1. (\A y \in Siblings : Apart(x, y)) <=> Addresses(x) \cap taken = {}
      BY FreeOfAll
    <3> HIDE DEF taken
    <3> QED
      BY <3>1
  <2> HIDE DEF taken, c
  <2>4. room = free
    BY <2>3
  <2> HIDE DEF room, free
  <2>5. IF c = NoCidr THEN room = {} ELSE c \in room
    BY <2>2, <2>4
  <2> QED
    BY <2>5 DEF room, taken, c
<1> QED
  BY <1>1, BaseAlways, PTL

\* nextAvailableReservation finds the host there is, in every state.
THEOREM HostAlwaysFound == Spec => []HostFound
<1>1. ASSUME Base PROVE HostFound
  <2>1. ASSUME NEW s \in SubIds, Exists(s)
        PROVE  LET c == subs[s].cidr
                   taken == {claims[k].ip : k \in ActiveIn(s)}
                   ip == NextHost(c, taken, PageSize)
               IN IF ip = NoCidr THEN Hosts(c) \subseteq taken ELSE ip \in Hosts(c) \ taken
    <3> DEFINE taken == {claims[k].ip : k \in ActiveIn(s)}
    <3>1. subs[s].cidr \in Cidr /\ PageSize \in Nat \ {0}
      BY <1>1, Tables, BoundsAssumption DEF Base
    <3> HIDE DEF taken
    <3>2. IF NextHost(subs[s].cidr, taken, PageSize) = NoCidr THEN Hosts(subs[s].cidr) \subseteq taken
          ELSE NextHost(subs[s].cidr, taken, PageSize) \in Hosts(subs[s].cidr) \ taken
      BY <3>1, NextHostIs
    <3> QED
      BY <3>2 DEF taken
  <2> QED
    BY <2>1 DEF HostFound, Hosts
<1> QED
  BY <1>1, BaseAlways, PTL

-----------------------------------------------------------------------------
(* Containment, for templates that fit in the block.                       *)

\* The slot of a finished function holds no CIDR.
LEMMA IdleEmpty ==
  Idle.cidrs = {} /\ Idle.pc = "idle"
BY DEF Idle

\* What is stored and planned stays inside.
LEMMA InsideKept ==
  ASSUME Base, AllInside, NEW w \in Requests, NEW hw, Become(w, hw),
         \A c \in hw.cidrs : Inside(c), \A s \in SubIds : Inside(subs'[s].cidr)
  PROVE  AllInside'
<1>1. h \in [Requests -> Handler]
  BY DEF Base, TypeOK
<1>2. h'[w] = hw /\ \A v \in Requests : v # w => h'[v] = h[v]
  BY <1>1, SlotWritten
<1>3. \A v \in Requests : \A c \in h'[v].cidrs : Inside(c)
  BY <1>2 DEF AllInside
<1> QED
  BY <1>3 DEF AllInside, Inside

\* A row of the template that fits is inside.
LEMMA KeptInside ==
  ASSUME Base, NEW t \in Templates, Fits(t), NEW a \in Anchors,
         packIntoAnchor(Block, Siblings, t, a) # NoCidr, NEW i \in 1..Len(t)
  PROVE  Inside(packIntoAnchor(Block, Siblings, t, a)[i])
<1>1. t \in Entries /\ a \in 0..W /\ Siblings \in SUBSET Cidr
  BY InputsAssumption, Tables DEF Entries, Base
<1>2. \A x \in 1..Len(t) :
        /\ AnchorBase(Siblings, t, a) \in Nat
        /\ Assigned(Siblings, t, a, x) = EntryAt(AnchorBase(Siblings, t, a), t, x)
        /\ Addresses(Assigned(Siblings, t, a, x)) \subseteq Addresses(Block)
        /\ \A y \in Siblings : Apart(Assigned(Siblings, t, a, x), y)
  BY <1>1, PackPlaced, Zenon
<1> QED
  BY <1>2 DEF Inside, Assigned

\* AllInside is inductive, relative to Base.
LEMMA InsideStep ==
  ASSUME \A t \in Templates : Fits(t), Base, AllInside, [Next]_vars
  PROVE  AllInside'
<1>0. CASE UNCHANGED vars
  BY <1>0 DEF vars, AllInside, Inside
<1> SUFFICES ASSUME Step, mix' = mix PROVE AllInside'
  BY <1>0 DEF Next
<1>a. \A s \in SubIds : Inside(subs[s].cidr)
  BY DEF AllInside
<1>b. \A w \in Requests : h[w] \in Handler /\ h[w].cidrs \in SUBSET Cidr /\ HasTarget(h[w])
  <2>1. \A w \in Requests : h[w] \in Handler /\ HasTarget(h[w])
    BY DEF TypeOK, Base
  <2> QED
    BY <2>1 DEF Handler
<1>c. \A c \in Cidr : cidrContains(Block, c) => Inside(c)
  BY ContainsIs, BlockAssumption DEF Inside
<1>d. \A typed \in Requested : Normalize(typed.base, typed.len) \in Cidr
  <2>1. \A typed \in Requested : typed.base \in 0..(Space - 1) /\ typed.len \in 0..W
    BY InputsAssumption DEF Cidr
  <2> QED
    BY <2>1, NormalizeIs
<1>e. Inside(NoSub.cidr)
  BY DEF Inside, NoSub
<1>f. ASSUME NEW w \in Requests, NEW hw, Become(w, hw), hw.cidrs = {}, subs' = subs
      PROVE  AllInside'
  BY <1>a, <1>f, InsideKept
<1>1. ASSUME NEW w \in Requests, NEW typed \in Requested, CreateBegin(w, typed) PROVE AllInside'
  <2> DEFINE c == Normalize(typed.base, typed.len)
             hw == [Idle EXCEPT !.pc = "s_check", !.cidrs = {c}]
  <2>1. Become(w, hw) /\ subs' = subs /\ Inside(c) /\ c \in Cidr
    BY <1>1, <1>c, <1>d DEF CreateBegin
  <2> HIDE DEF c
  <2>2. hw.cidrs = {c}
    BY <2>1, PlanTyped
  <2> HIDE DEF hw
  <2> QED
    BY <1>a, <2>1, <2>2, InsideKept
<1>2. ASSUME NEW w \in Requests, NEW len \in Lengths, AllocateNext(w, len) PROVE AllInside'
  <2> DEFINE c == findNextAvailableSubnet(Block, Siblings, len)
             hw == [Idle EXCEPT !.pc = "s_check", !.cidrs = {c}]
  <2>1. len \in 0..W /\ Siblings \in SUBSET Cidr
    BY InputsAssumption, Tables DEF Base
  <2>2. c # NoCidr /\ Become(w, hw) /\ subs' = subs
    BY <1>2 DEF AllocateNext
  <2>3. c \in Cidr /\ Inside(c)
    BY <2>1, <2>2, NextSubnetIs DEF Inside
  <2> HIDE DEF c
  <2>4. hw.cidrs = {c}
    BY <2>3, PlanTyped
  <2> HIDE DEF hw
  <2> QED
    BY <1>a, <2>2, <2>3, <2>4, InsideKept
<1>3. ASSUME NEW w \in Requests, NEW t \in Templates, NEW a \in Anchors, BulkRead(w, t, a)
      PROVE  AllInside'
  <2> DEFINE packed == packIntoAnchor(Block, Siblings, t, a)
             kept == {packed[i] : i \in {j \in 1..Len(t) : ~t[j].skip}}
             hw == [Idle EXCEPT !.pc = "b_commit", !.cidrs = kept]
  <2>1. packed # NoCidr /\ Become(w, hw) /\ subs' = subs
    BY <1>3 DEF BulkRead
  <2>2. \A i \in 1..Len(t) : packed[i] \in Cidr /\ Inside(packed[i])
    BY <2>1, PackTyped, KeptInside, InputsAssumption DEF Entries
  <2>3. kept \in SUBSET Cidr /\ \A c \in kept : Inside(c)
    <3> HIDE DEF packed
    <3> QED
      BY <2>2
  <2> HIDE DEF kept, packed
  <2>4. hw.cidrs = kept
    BY <2>3, PlanTyped
  <2> HIDE DEF hw
  <2> QED
    BY <1>a, <2>1, <2>3, <2>4, InsideKept
<1>4. ASSUME NEW w \in Requests, SiblingCheck(w) PROVE AllInside'
  <2>1. subs' = subs
    BY <1>4 DEF SiblingCheck
  <2>2. CASE Finish(w)
    BY <1>f, <2>1, <2>2, IdleEmpty DEF Finish
  <2>3. CASE Become(w, [h[w] EXCEPT !.pc = "s_insert"])
    <3> DEFINE hw == [h[w] EXCEPT !.pc = "s_insert"]
    <3>1. hw.cidrs = h[w].cidrs
      BY <1>b, GoOnTyped
    <3>2. Become(w, hw)
      BY <2>3
    <3> HIDE DEF hw
    <3>3. \A c \in hw.cidrs : Inside(c)
      BY <3>1 DEF AllInside
    <3> QED
      BY <1>a, <2>1, <3>2, <3>3, InsideKept
  <2> QED
    BY <1>4, <2>2, <2>3 DEF SiblingCheck
<1>5. ASSUME NEW w \in Requests, NEW found \in BOOLEAN, InsertSubs(w, h[w].cidrs, found)
      PROVE  AllInside'
  <2>1. \A s \in SubIds : subs'[s] = subs[s] \/ subs'[s].cidr \in h[w].cidrs
    BY <1>5, <1>b, InsertIs DEF Base
  <2>2. \A s \in SubIds : Inside(subs'[s].cidr)
    BY <1>a, <2>1 DEF AllInside
  <2>3. Become(w, Idle)
    BY <1>5 DEF InsertSubs, Finish
  <2> QED
    BY <2>2, <2>3, IdleEmpty, InsideKept
<1>6. ASSUME NEW w \in Requests, NEW typed \in Requested, SyncSubnet(w, typed) PROVE AllInside'
  <2> DEFINE c == Normalize(typed.base, typed.len)
             hw == [Idle EXCEPT !.pc = "y_insert", !.cidrs = {c}]
  <2>1. subs' = subs
    BY <1>6 DEF SyncSubnet
  <2>2. CASE Become(w, hw) /\ cidrContains(Block, c)
    <3>1. c \in Cidr /\ Inside(c)
      BY <1>c, <1>d, <2>2
    <3> HIDE DEF c
    <3>2. hw.cidrs = {c}
      BY <3>1, PlanTyped
    <3> HIDE DEF hw
    <3> QED
      BY <1>a, <2>1, <2>2, <3>1, <3>2, InsideKept
  <2>3. ASSUME NEW s \in SubIds,
               Become(w, [Idle EXCEPT !.pc = "y_claim", !.sub = s, !.first = ~subs[s].found])
        PROVE  AllInside'
    <3> DEFINE b == ~subs[s].found
               hx == [Idle EXCEPT !.pc = "y_claim", !.sub = s, !.first = b]
    <3>1. b \in BOOLEAN
      OBVIOUS
    <3>2. hx.cidrs = {}
      BY <3>1, FoundTyped
    <3>3. Become(w, hx)
      BY <2>3
    <3> HIDE DEF hx
    <3> QED
      BY <1>f, <2>1, <3>2, <3>3
  <2> QED
    BY <1>6, <2>2, <2>3 DEF SyncSubnet
<1>7. ASSUME NEW w \in Requests, Become(w, Idle), \A s \in SubIds : subs'[s].cidr = subs[s].cidr
      PROVE  AllInside'
  BY <1>7, <1>a, IdleEmpty, InsideKept
<1>8. ASSUME NEW w \in Requests, SyncClaim(w) PROVE AllInside'
  BY <1>7, <1>8, SyncClaimIs DEF SyncClaim, Finish
<1>9. ASSUME NEW w \in Requests, NEW s \in SubIds,
             SyncGone(w, s) \/ DeleteSubnetCount(w, s)
      PROVE  AllInside'
  <2>1. PICK pc \in {"y_gone", "d_delete"} : Become(w, [Idle EXCEPT !.pc = pc, !.sub = s])
    BY <1>9 DEF SyncGone, DeleteSubnetCount
  <2>2. subs' = subs
    BY <1>9 DEF SyncGone, DeleteSubnetCount
  <2> DEFINE hw == [Idle EXCEPT !.pc = pc, !.sub = s]
  <2>3. hw.cidrs = {}
    BY DropTyped
  <2>4. Become(w, hw)
    BY <2>1
  <2> HIDE DEF hw
  <2> QED
    BY <1>f, <2>2, <2>3, <2>4
<1>10. ASSUME NEW w \in Requests, SyncDeprecate(w) PROVE AllInside'
  <2>1. h[w].sub \in SubIds /\ Become(w, Idle)
    BY <1>10, <1>b DEF SyncDeprecate, HasTarget, Finish
  <2>2. \A s \in SubIds : subs'[s].cidr = subs[s].cidr
    <3>1. CASE ~Exists(h[w].sub)
      BY <1>10, <3>1 DEF SyncDeprecate
    <3>2. CASE Exists(h[w].sub)
      <4>1. subs' = [subs EXCEPT ![h[w].sub].status = "deprecated"] /\ "deprecated" \in Statuses
        BY <1>10, <3>2 DEF SyncDeprecate, Statuses
      <4> QED
        BY <2>1, <3>2, <4>1, StatusSet
    <3> QED
      BY <3>1, <3>2
  <2> QED
    BY <1>7, <2>1, <2>2
<1>11. ASSUME NEW w \in Requests, NEW S \in SUBSET SubIds, Become(w, Idle),
              Cascade(S) \/ UNCHANGED <<subs, claims>>
       PROVE  AllInside'
  <2>1. \A s \in SubIds : subs'[s] = subs[s] \/ subs'[s] = NoSub
    BY <1>11, CascadeIs
  <2>2. \A s \in SubIds : Inside(subs'[s].cidr)
    BY <1>a, <1>e, <2>1
  <2> QED
    BY <1>11, <2>2, IdleEmpty, InsideKept
<1>12. ASSUME NEW w \in Requests, DeleteSubnet(w) PROVE AllInside'
  <2>1. Become(w, Idle) /\ {h[w].sub} \in SUBSET SubIds
    BY <1>12, <1>b DEF DeleteSubnet, Finish, HasTarget
  <2> QED
    BY <1>11, <1>12, <2>1 DEF DeleteSubnet
<1>13. ASSUME NEW w \in Requests, DeleteBlock(w) PROVE AllInside'
  BY <1>11, <1>13 DEF DeleteBlock, Finish
<1>14. ASSUME NEW w \in Requests, DeleteBlockCount(w) PROVE AllInside'
  BY <1>14, <1>f, BlockTyped DEF DeleteBlockCount
<1>15. ASSUME NEW w \in Requests, NEW s \in SubIds, NEW due \in BOOLEAN, ReserveCheck(w, s, due)
       PROVE  AllInside'
  BY <1>15, <1>f, WholeTyped DEF ReserveCheck
<1>16. ASSUME NEW w \in Requests, NEW s \in SubIds, NextReservation(w, s) PROVE AllInside'
  <2> DEFINE taken == {claims[k].ip : k \in ActiveIn(s)}
             ip == NextHost(subs[s].cidr, taken, PageSize)
             hw == [Idle EXCEPT !.pc = "c_check", !.sub = s, !.ip = ip]
  <2>1. ip # NoCidr /\ Become(w, hw) /\ subs' = subs
    BY <1>16 DEF NextReservation
  <2>2. ip \in Nat
    <3>1. subs[s].cidr \in Cidr
      BY Tables DEF Base
    <3> HIDE DEF taken
    <3>2. ip \in Hosts(subs[s].cidr)
      BY <2>1, <3>1, NextHostIs, BoundsAssumption
    <3> QED
      BY <3>1, <3>2, HostNumber
  <2> HIDE DEF ip
  <2>3. hw.cidrs = {}
    BY <2>2, HostTyped
  <2> HIDE DEF hw
  <2> QED
    BY <1>f, <2>1, <2>3
<1>17. ASSUME NEW w \in Requests, HostCheck(w) PROVE AllInside'
  <2>1. subs' = subs
    BY <1>17 DEF HostCheck
  <2>2. CASE Finish(w)
    BY <1>f, <2>1, <2>2, IdleEmpty DEF Finish
  <2>3. CASE Become(w, [h[w] EXCEPT !.pc = "c_insert"])
    <3> DEFINE hw == [h[w] EXCEPT !.pc = "c_insert"]
    <3>1. h[w].pc = "c_check"
      BY <1>17 DEF HostCheck
    <3>2. hw.cidrs = h[w].cidrs
      BY <1>b, <3>1, GoOnTyped
    <3>3. Become(w, hw)
      BY <2>3
    <3> HIDE DEF hw
    <3>4. \A c \in hw.cidrs : Inside(c)
      BY <3>2 DEF AllInside
    <3> QED
      BY <1>a, <2>1, <3>3, <3>4, InsideKept
  <2> QED
    BY <1>17, <2>2, <2>3 DEF HostCheck
<1>18. ASSUME NEW w \in Requests, ReserveInsert(w) PROVE AllInside'
  <2>1. Become(w, Idle)
    BY <1>18 DEF ReserveInsert, Finish
  <2>2. "reserved" \in Statuses
    BY DEF Statuses
  <2>3. \A s \in SubIds : subs'[s].cidr = subs[s].cidr
    <3>1. subs' = subs \/ (/\ h[w].sub \in SubIds /\ Exists(h[w].sub)
                           /\ subs' = [subs EXCEPT ![h[w].sub].status = "reserved"])
      BY <1>18, ReserveIs
    <3> QED
      BY <2>2, <3>1, StatusSet
  <2> QED
    BY <1>7, <2>1, <2>3
<1>19. ASSUME NEW w \in Requests, NEW k \in ClaimIds, ReleaseBegin(w, k) PROVE AllInside'
  <2>1. claims[k].ip \in {Whole} \cup Nat
    <3>1. claims[k] \in Claim
      BY <1>19, Tables DEF Base, ReleaseBegin
    <3> QED
      BY <3>1 DEF Claim
  <2> DEFINE ip == claims[k].ip
             hw == [Idle EXCEPT !.pc = "r_commit", !.claim = k, !.ip = ip]
  <2>2. hw.cidrs = {}
    <3> HIDE DEF ip
    <3>1. ip \in {Whole} \cup Nat
      BY <2>1 DEF ip
    <3> QED
      BY <3>1, ClaimTyped
  <2>3. Become(w, hw) /\ subs' = subs
    BY <1>19 DEF ReleaseBegin
  <2> HIDE DEF hw
  <2> QED
    BY <1>f, <2>2, <2>3
<1>20. ASSUME NEW w \in Requests, ReleaseCommit(w) PROVE AllInside'
  <2>1. Become(w, Idle)
    BY <1>20 DEF ReleaseCommit, Finish
  <2>2. "available" \in Statuses
    BY DEF Statuses
  <2>3. \A s \in SubIds : subs'[s].cidr = subs[s].cidr
    <3> DEFINE s == claims[h[w].claim].sub
    <3>1. subs' = subs \/ (/\ s \in SubIds /\ Exists(s)
                           /\ subs' = [subs EXCEPT ![s].status = "available"])
      BY <1>20, ReleaseIs
    <3> HIDE DEF s
    <3> QED
      BY <2>2, <3>1, StatusSet
  <2> QED
    BY <1>7, <2>1, <2>3
<1>21. ASSUME NEW s \in SubIds, NEW status \in Statuses, UpdateSubnet(s, status) PROVE AllInside'
  <2>1. \A t \in SubIds : subs'[t].cidr = subs[t].cidr
    BY <1>21, StatusSet DEF UpdateSubnet
  <2> QED
    BY <1>21, <2>1 DEF AllInside, Inside, UpdateSubnet
<1>22. ASSUME Expire PROVE AllInside'
  BY <1>22 DEF Expire, AllInside, Inside
<1>23. ASSUME NEW w \in Requests, Start(w) PROVE AllInside'
  BY <1>23, <1>1, <1>2, <1>3, <1>6, <1>9, <1>14, <1>15, <1>16, <1>19 DEF Start
<1>24. ASSUME NEW w \in Requests, Continue(w) PROVE AllInside'
  <2>1. ASSUME CreateInsert(w) \/ BulkCommit(w) \/ SyncInsert(w) PROVE AllInside'
    BY <2>1, <1>5 DEF CreateInsert, BulkCommit, SyncInsert
  <2> QED
    BY <1>24, <2>1, <1>4, <1>8, <1>10, <1>12, <1>13, <1>17, <1>18, <1>20 DEF Continue
<1> QED
  BY <1>21, <1>22, <1>23, <1>24 DEF Step

\* "Subnet must be contained within parent block CIDR", whatever runs at the
\* same time, when every bulk template fits in the block.
THEOREM AlwaysContained ==
  ASSUME \A t \in Templates : Fits(t)
  PROVE  Spec => []Contained
<1>1. Init => AllInside
  BY IdleEmpty DEF Init, AllInside, Inside, NoSub
<1>2. Base /\ AllInside /\ [Next]_vars => AllInside'
  BY InsideStep
<1>3. AllInside => Contained
  BY DEF AllInside, Contained, Inside
<1> QED
  BY <1>1, <1>2, <1>3, BaseAlways, PTL DEF Spec

-----------------------------------------------------------------------------
(* One function at a time: what it checked still holds when it writes.     *)

\* Nothing is expected of a slot that is idle.
LEMMA IdleHolds ==
  StillHolds(Idle)
BY IdleEmpty DEF StillHolds

\* A step that writes only its slot.
LEMMA AloneQuiet ==
  ASSUME Base, NEW w, Requests = {w}, Alone, NEW hw, Become(w, hw), StillHolds(hw),
         subs' = subs, claims' = claims, mix' = mix
  PROVE  Alone'
<1>1. h'[w] = hw
  BY SlotWritten DEF Base, TypeOK
<1>2. WholeClaims'
  BY DEF Alone, WholeClaims
<1>3. StillHolds(h[w])'
  BY <1>1 DEF StillHolds, ActiveIn, ActiveAt, Exists
<1> QED
  BY <1>2, <1>3 DEF Alone

\* A step that ends its function.
LEMMA AloneDone ==
  ASSUME Base, NEW w, Requests = {w}, Become(w, Idle), WholeClaims'
  PROVE  Alone'
<1>1. h'[w] = Idle
  BY SlotWritten DEF Base, TypeOK
<1>2. h'[w].pc = "idle"
  BY <1>1, IdleEmpty
<1>3. StillHolds(h[w])'
  BY <1>2 DEF StillHolds
<1> QED
  BY <1>3 DEF Alone

\* Rows that go, expire or are released leave at most one claim active.
LEMMA WholeClaimsKept ==
  ASSUME WholeClaims, mix' = mix,
         \A k \in ClaimIds :
           \/ claims'[k] = claims[k]
           \/ claims'[k].status = "none"
           \/ /\ claims'[k].sub = claims[k].sub /\ claims'[k].ip = claims[k].ip
              /\ claims'[k].status # "active" /\ claims[k].status # "none"
  PROVE  WholeClaims'
BY DEF WholeClaims

\* Alone is inductive, relative to Base.
LEMMA AloneStep ==
  ASSUME NEW w, Requests = {w}, Base, Alone, [Next]_vars
  PROVE  Alone'
<1>0. CASE UNCHANGED vars
  BY <1>0 DEF vars, Alone, WholeClaims, StillHolds, ActiveIn, ActiveAt, Exists
<1> SUFFICES ASSUME Step, mix' = mix PROVE Alone'
  BY <1>0 DEF Next
<1>a. w \in Requests /\ h[w] \in Handler /\ HasTarget(h[w]) /\ StillHolds(h[w])
  BY DEF Base, TypeOK, Alone
<1>b. \A k \in ClaimIds : claims[k] \in Claim \cup {NoClaim}
  BY DEF Base, TypeOK
<1>c. NoClaim.status = "none"
  BY DEF NoClaim
<1>d. WholeClaims
  BY DEF Alone
<1>e. ASSUME Become(w, Idle), claims' = claims PROVE Alone'
  <2>1. WholeClaims'
    BY <1>d, <1>e DEF WholeClaims
  <2> QED
    BY <1>e, <2>1, AloneDone
<1>f. ASSUME NEW hw, Become(w, hw), hw.pc \in {"s_check", "s_insert", "b_commit", "y_insert",
                                               "y_claim", "y_gone"},
             subs' = subs, claims' = claims,
             hw.pc \in {"y_claim", "y_gone"} => "sync" \in mix.ops
      PROVE  Alone'
  <2>1. StillHolds(hw)
    BY <1>f DEF StillHolds
  <2> QED
    BY <1>f, <2>1, AloneQuiet
<1>g. ASSUME NEW pc \in {"s_check", "b_commit", "y_insert"}, NEW C \in SUBSET Cidr,
             Become(w, [Idle EXCEPT !.pc = pc, !.cidrs = C]), subs' = subs, claims' = claims
      PROVE  Alone'
  <2> DEFINE hw == [Idle EXCEPT !.pc = pc, !.cidrs = C]
  <2>1. hw.pc = pc
    BY PlanTyped
  <2>2. Become(w, hw)
    BY <1>g
  <2> HIDE DEF hw
  <2> QED
    BY <1>f, <1>g, <2>1, <2>2
<1>h. \A typed \in Requested : Normalize(typed.base, typed.len) \in Cidr
  <2>1. \A typed \in Requested : typed.base \in 0..(Space - 1) /\ typed.len \in 0..W
    BY InputsAssumption DEF Cidr
  <2> QED
    BY <2>1, NormalizeIs
<1>1. ASSUME NEW typed \in Requested, CreateBegin(w, typed) PROVE Alone'
  BY <1>1, <1>g, <1>h DEF CreateBegin
<1>2. ASSUME NEW len \in Lengths, AllocateNext(w, len) PROVE Alone'
  <2> DEFINE c == findNextAvailableSubnet(Block, Siblings, len)
  <2>1. len \in 0..W /\ Siblings \in SUBSET Cidr
    BY InputsAssumption, Tables DEF Base
  <2>2. c \in Cidr
    BY <1>2, <2>1, NextSubnetIs DEF AllocateNext
  <2> QED
    BY <1>2, <1>g, <2>2 DEF AllocateNext
<1>3. ASSUME NEW t \in Templates, NEW a \in Anchors, BulkRead(w, t, a) PROVE Alone'
  <2> DEFINE packed == packIntoAnchor(Block, Siblings, t, a)
             kept == {packed[i] : i \in {j \in 1..Len(t) : ~t[j].skip}}
  <2>1. /\ packed # NoCidr /\ Become(w, [Idle EXCEPT !.pc = "b_commit", !.cidrs = kept])
        /\ subs' = subs /\ claims' = claims
    BY <1>3 DEF BulkRead
  <2>2. \A i \in 1..Len(t) : packed[i] \in Cidr
    BY <2>1, PackTyped, InputsAssumption DEF Entries
  <2>3. kept \in SUBSET Cidr
    <3> HIDE DEF packed
    <3> QED
      BY <2>2
  <2> HIDE DEF kept
  <2> QED
    BY <1>g, <2>1, <2>3
<1>4. ASSUME SiblingCheck(w) PROVE Alone'
  <2>1. subs' = subs /\ claims' = claims
    BY <1>4 DEF SiblingCheck
  <2>2. CASE Finish(w)
    BY <1>e, <2>1, <2>2 DEF Finish
  <2>3. CASE Become(w, [h[w] EXCEPT !.pc = "s_insert"])
    <3> DEFINE hw == [h[w] EXCEPT !.pc = "s_insert"]
    <3>1. hw.pc = "s_insert"
      BY <1>a, GoOnTyped
    <3>2. Become(w, hw)
      BY <2>3
    <3> HIDE DEF hw
    <3> QED
      BY <1>f, <2>1, <3>1, <3>2
  <2> QED
    BY <1>4, <2>2, <2>3 DEF SiblingCheck
<1>5. ASSUME CreateInsert(w) \/ BulkCommit(w) \/ SyncInsert(w) PROVE Alone'
  BY <1>5, <1>e DEF CreateInsert, BulkCommit, SyncInsert, InsertSubs, Finish
<1>6. ASSUME NEW typed \in Requested, SyncSubnet(w, typed) PROVE Alone'
  <2> DEFINE c == Normalize(typed.base, typed.len)
  <2>1. subs' = subs /\ claims' = claims /\ "sync" \in mix.ops
    BY <1>6 DEF SyncSubnet, Begin
  <2>2. CASE Become(w, [Idle EXCEPT !.pc = "y_insert", !.cidrs = {c}])
    <3>1. {c} \in SUBSET Cidr
      BY <1>h
    <3> HIDE DEF c
    <3> QED
      BY <1>g, <2>1, <2>2, <3>1
  <2>3. ASSUME NEW s \in SubIds,
               Become(w, [Idle EXCEPT !.pc = "y_claim", !.sub = s, !.first = ~subs[s].found])
        PROVE  Alone'
    <3> DEFINE b == ~subs[s].found
               hx == [Idle EXCEPT !.pc = "y_claim", !.sub = s, !.first = b]
    <3>1. b \in BOOLEAN
      OBVIOUS
    <3>2. hx.pc = "y_claim"
      BY <3>1, FoundTyped
    <3>3. Become(w, hx)
      BY <2>3
    <3> HIDE DEF hx
    <3> QED
      BY <1>f, <2>1, <3>2, <3>3
  <2> QED
    BY <1>6, <2>2, <2>3 DEF SyncSubnet
<1>7. ASSUME SyncClaim(w) \/ SyncDeprecate(w) PROVE Alone'
  BY <1>7, <1>e DEF SyncClaim, SyncDeprecate, Finish
<1>8. ASSUME NEW s \in SubIds, SyncGone(w, s) PROVE Alone'
  <2> DEFINE pc == "y_gone"
             hw == [Idle EXCEPT !.pc = pc, !.sub = s]
  <2>1. hw.pc = "y_gone"
    BY DropTyped
  <2>2. Become(w, hw) /\ subs' = subs /\ claims' = claims /\ "sync" \in mix.ops
    BY <1>8 DEF SyncGone, Begin
  <2> HIDE DEF hw
  <2> QED
    BY <1>f, <2>1, <2>2
<1>9. ASSUME NEW s \in SubIds, DeleteSubnetCount(w, s) PROVE Alone'
  <2> DEFINE pc == "d_delete"
             hw == [Idle EXCEPT !.pc = pc, !.sub = s]
  <2>1. hw.pc = "d_delete" /\ hw.sub = s
    BY DropTyped
  <2>2. Become(w, hw) /\ subs' = subs /\ claims' = claims /\ ActiveIn(s) = {}
    BY <1>9 DEF DeleteSubnetCount, Deletable
  <2> HIDE DEF hw
  <2>3. StillHolds(hw)
    BY <2>1, <2>2 DEF StillHolds
  <2> QED
    BY <2>2, <2>3, AloneQuiet
<1>10. ASSUME DeleteBlockCount(w) PROVE Alone'
  <2> DEFINE hw == [Idle EXCEPT !.pc = "k_delete"]
  <2>1. hw.pc = "k_delete"
    BY BlockTyped
  <2>2. /\ Become(w, hw) /\ subs' = subs /\ claims' = claims
        /\ \A s \in SubIds : Exists(s) => ActiveIn(s) = {}
    BY <1>10 DEF DeleteBlockCount, Deletable
  <2> HIDE DEF hw
  <2>3. \A s \in SubIds : ActiveIn(s) = {}
    <3>1. ASSUME NEW s \in SubIds, NEW k \in ActiveIn(s) PROVE FALSE
      <4>1. k \in ClaimIds /\ claims[k].status = "active" /\ claims[k].sub = s
        BY DEF ActiveIn
      <4>2. Exists(s)
        BY <4>1 DEF Base, ClaimsHaveSubs
      <4> QED
        BY <2>2, <3>1, <4>2
    <3> QED
      BY <3>1
  <2>4. StillHolds(hw)
    BY <2>1, <2>3 DEF StillHolds
  <2> QED
    BY <2>2, <2>4, AloneQuiet
<1>11. ASSUME NEW S \in SUBSET SubIds, Become(w, Idle),
              Cascade(S) \/ UNCHANGED <<subs, claims>>
       PROVE  Alone'
  <2>1. \A k \in ClaimIds : claims'[k] = claims[k] \/ claims'[k] = NoClaim
    BY <1>11, CascadeIs
  <2>2. WholeClaims'
    BY <1>c, <1>d, <2>1, WholeClaimsKept
  <2> QED
    BY <1>11, <2>2, AloneDone
<1>12. ASSUME DeleteSubnet(w) PROVE Alone'
  <2>1. Become(w, Idle) /\ {h[w].sub} \in SUBSET SubIds
    BY <1>12, <1>a DEF DeleteSubnet, Finish, HasTarget
  <2> QED
    BY <1>11, <1>12, <2>1 DEF DeleteSubnet
<1>13. ASSUME DeleteBlock(w) PROVE Alone'
  BY <1>11, <1>13 DEF DeleteBlock, Finish
<1>14. ASSUME NEW s \in SubIds, NEW due \in BOOLEAN, ReserveCheck(w, s, due) PROVE Alone'
  <2> DEFINE hw == [Idle EXCEPT !.pc = "c_insert", !.sub = s, !.due = due]
  <2>1. hw.pc = "c_insert" /\ hw.sub = s /\ hw.ip = Whole
    BY WholeTyped
  <2>2. /\ Become(w, hw) /\ subs' = subs /\ claims' = claims
        /\ Exists(s) /\ ActiveAt(s, Whole) = {} /\ "claim" \in mix.ops
    BY <1>14 DEF ReserveCheck, ClaimFree, Exists, Begin
  <2> HIDE DEF hw
  <2>3. StillHolds(hw)
    BY <2>1, <2>2 DEF StillHolds
  <2> QED
    BY <2>2, <2>3, AloneQuiet
<1>15. ASSUME NEW s \in SubIds, NextReservation(w, s) PROVE Alone'
  <2> DEFINE taken == {claims[k].ip : k \in ActiveIn(s)}
             ip == NextHost(subs[s].cidr, taken, PageSize)
             hw == [Idle EXCEPT !.pc = "c_check", !.sub = s, !.ip = ip]
  <2>1. ip # NoCidr /\ Become(w, hw) /\ subs' = subs /\ claims' = claims /\ Exists(s)
    BY <1>15 DEF NextReservation, Exists
  <2>2. ip \in Nat
    <3>1. subs[s].cidr \in Cidr
      BY Tables DEF Base
    <3> HIDE DEF taken
    <3>2. ip \in Hosts(subs[s].cidr)
      BY <2>1, <3>1, NextHostIs, BoundsAssumption
    <3> QED
      BY <3>1, <3>2, HostNumber
  <2> HIDE DEF ip
  <2>3. hw.pc = "c_check" /\ hw.sub = s /\ hw.ip = ip
    BY <2>2, HostTyped
  <2> HIDE DEF hw
  <2>4. hw.ip # Whole
    BY <2>2, <2>3 DEF Whole
  <2>5. StillHolds(hw)
    BY <2>1, <2>3, <2>4 DEF StillHolds
  <2> QED
    BY <2>1, <2>5, AloneQuiet
<1>16. ASSUME HostCheck(w) PROVE Alone'
  <2>1. subs' = subs /\ claims' = claims
    BY <1>16 DEF HostCheck
  <2>2. CASE Finish(w)
    BY <1>e, <2>1, <2>2 DEF Finish
  <2>3. CASE Become(w, [h[w] EXCEPT !.pc = "c_insert"])
    <3> DEFINE hw == [h[w] EXCEPT !.pc = "c_insert"]
    <3>1. h[w].pc = "c_check"
      BY <1>16 DEF HostCheck
    <3>2. hw.pc = "c_insert" /\ hw.sub = h[w].sub /\ hw.ip = h[w].ip
      BY <1>a, <3>1, GoOnTyped
    <3>3. Become(w, hw)
      BY <2>3
    <3> HIDE DEF hw
    <3>4. Exists(hw.sub) /\ hw.ip # Whole
      BY <1>a, <3>1, <3>2 DEF StillHolds
    <3>5. StillHolds(hw)
      BY <3>2, <3>4 DEF StillHolds
    <3> QED
      BY <2>1, <3>3, <3>5, AloneQuiet
  <2> QED
    BY <1>16, <2>2, <2>3 DEF HostCheck
<1>17. ASSUME ReserveInsert(w) PROVE Alone'
  <2>1. Become(w, Idle) /\ h[w].pc = "c_insert"
    BY <1>17 DEF ReserveInsert, Finish
  <2>2. CASE subs' = subs /\ claims' = claims
    BY <1>e, <2>1, <2>2
  <2>3. ASSUME NEW k \in ClaimIds,
               claims' = [claims EXCEPT ![k] = [sub |-> h[w].sub, ip |-> h[w].ip,
                                                status |-> "active", due |-> h[w].due]]
        PROVE  Alone'
    <3> DEFINE row == [sub |-> h[w].sub, ip |-> h[w].ip, status |-> "active", due |-> h[w].due]
    <3>1. row.sub = h[w].sub /\ row.ip = h[w].ip /\ row.status = "active"
      OBVIOUS
    <3>2. \A x \in ClaimIds : claims'[x] = IF x = k THEN row ELSE claims[x]
      BY <2>3 DEF Base, TypeOK
    <3> HIDE DEF row
    <3>3. h[w].ip = Whole => ActiveAt(h[w].sub, Whole) = {} /\ "claim" \in mix.ops
      BY <1>a, <2>1 DEF StillHolds
    <3>4. ASSUME NEW i \in ClaimIds, NEW j \in ClaimIds, i # j,
                 claims'[i].sub = claims'[j].sub, claims'[i].ip = Whole, claims'[j].ip = Whole
          PROVE  claims'[i].status # "active" \/ claims'[j].status # "active"
      <4>1. CASE i # k /\ j # k
        BY <1>d, <3>2, <3>4, <4>1 DEF WholeClaims
      <4>2. ASSUME NEW x \in ClaimIds, x # k, row.sub = claims[x].sub, row.ip = Whole,
                   claims[x].ip = Whole
            PROVE  claims[x].status # "active"
        <5>1. ActiveAt(h[w].sub, Whole) = {}
          BY <3>1, <3>3, <4>2
        <5> QED
          BY <3>1, <4>2, <5>1 DEF ActiveAt, ActiveIn
      <4> QED
        BY <3>2, <3>4, <4>1, <4>2
    <3>5. ASSUME "claim" \notin mix.ops, NEW x \in ClaimIds, claims'[x].status # "none"
          PROVE  claims'[x].ip # Whole
      BY <1>d, <3>1, <3>2, <3>3, <3>5 DEF WholeClaims
    <3>6. WholeClaims'
      BY <3>4, <3>5 DEF WholeClaims
    <3> QED
      BY <2>1, <3>6, AloneDone
  <2> QED
    BY <1>17, <1>a, <2>2, <2>3, ReserveIs
<1>18. ASSUME NEW k \in ClaimIds, ReleaseBegin(w, k) PROVE Alone'
  <2> DEFINE ip == claims[k].ip
             hw == [Idle EXCEPT !.pc = "r_commit", !.claim = k, !.ip = ip]
  <2>1. /\ Become(w, hw) /\ subs' = subs /\ claims' = claims
        /\ claims[k].status = "active"
    BY <1>18 DEF ReleaseBegin
  <2>2. hw.pc = "r_commit" /\ hw.claim = k /\ hw.ip = ip
    <3>1. claims[k] \in Claim
      BY <2>1, Tables DEF Base
    <3>2. ip \in {Whole} \cup Nat
      BY <3>1 DEF Claim
    <3> HIDE DEF ip
    <3> QED
      BY <3>2, ClaimTyped
  <2> HIDE DEF hw
  <2>3. ip = Whole => ActiveAt(claims[k].sub, Whole) \subseteq {k}
    BY <1>d, <2>1 DEF WholeClaims, ActiveAt, ActiveIn
  <2>4. StillHolds(hw)
    BY <2>1, <2>2, <2>3 DEF StillHolds
  <2> QED
    BY <2>1, <2>4, AloneQuiet
<1>19. ASSUME ReleaseCommit(w) PROVE Alone'
  <2>1. Become(w, Idle)
    BY <1>19 DEF ReleaseCommit, Finish
  <2>2. \A k \in ClaimIds :
           \/ claims'[k] = claims[k]
           \/ claims'[k].status = "none"
           \/ /\ claims'[k].sub = claims[k].sub /\ claims'[k].ip = claims[k].ip
              /\ claims'[k].status # "active" /\ claims[k].status # "none"
    BY <1>a, <1>c, <1>19, ReleaseIs
  <2>3. WholeClaims'
    BY <1>d, <2>2, WholeClaimsKept
  <2> QED
    BY <2>1, <2>3, AloneDone
<1>20. ASSUME NEW s \in SubIds, NEW status \in Statuses, UpdateSubnet(s, status) PROVE Alone'
  <2>1. claims' = claims /\ h' = h
    BY <1>20 DEF UpdateSubnet
  <2>2. \A t \in SubIds : subs[t].status = "none" <=> subs'[t].status = "none"
    BY <1>20, StatusSet DEF UpdateSubnet
  <2>3. WholeClaims'
    BY <1>d, <2>1 DEF WholeClaims
  <2>4. StillHolds(h[w])'
    <3>1. h[w].pc \in {"c_check", "c_insert"} => subs'[h[w].sub].status # "none"
      BY <1>a, <2>2 DEF StillHolds, HasTarget, Exists
    <3> QED
      BY <1>a, <2>1, <3>1 DEF StillHolds, ActiveIn, ActiveAt, Exists
  <2> QED
    BY <2>3, <2>4 DEF Alone
<1>21. ASSUME Expire PROVE Alone'
  <2>1. /\ subs' = subs /\ h' = h
        /\ \A k \in ClaimIds :
              \/ claims'[k] = claims[k]
              \/ /\ claims[k].status = "active" /\ claims'[k].status = "expired"
                 /\ claims'[k].sub = claims[k].sub /\ claims'[k].ip = claims[k].ip
    BY <1>21, ExpireIs
  <2>2. WholeClaims'
    BY <1>d, <2>1, WholeClaimsKept
  <2>3. \A s : ActiveIn(s)' \subseteq ActiveIn(s) /\ ActiveAt(s, Whole)' \subseteq ActiveAt(s, Whole)
    BY <2>1 DEF ActiveIn, ActiveAt
  <2>4. StillHolds(h[w])'
    <3>1. h[w].pc = "d_delete" => ActiveIn(h[w].sub)' = {}
      BY <1>a, <2>1, <2>3 DEF StillHolds, ActiveIn
    <3>2. h[w].pc = "k_delete" => \A s \in SubIds : ActiveIn(s)' = {}
      BY <1>a, <2>3 DEF StillHolds
    <3>3. (h[w].pc = "c_insert" /\ h[w].ip = Whole) => ActiveAt(h[w].sub, Whole)' = {}
      BY <1>a, <2>1, <2>3 DEF StillHolds, ActiveAt, ActiveIn
    <3>4. h[w].pc = "r_commit" =>
            /\ claims'[h[w].claim].status # "none" /\ claims'[h[w].claim].ip = h[w].ip
            /\ claims'[h[w].claim].sub = claims[h[w].claim].sub
      BY <1>a, <2>1 DEF StillHolds, HasTarget
    <3>5. (h[w].pc = "r_commit" /\ h[w].ip = Whole) =>
            {k \in ClaimIds : claims'[k].status = "active" /\ claims'[k].ip = Whole
               /\ claims'[k].sub = claims'[h[w].claim].sub} \subseteq {h[w].claim}
      BY <1>a, <2>1, <3>4 DEF StillHolds, ActiveAt, ActiveIn
    <3> QED
      BY <1>a, <2>1, <3>1, <3>2, <3>3, <3>4, <3>5 DEF StillHolds, ActiveIn, ActiveAt, Exists
  <2> QED
    BY <2>2, <2>4 DEF Alone
<1>22. ASSUME Start(w) PROVE Alone'
  BY <1>22, <1>1, <1>2, <1>3, <1>6, <1>8, <1>9, <1>10, <1>14, <1>15, <1>18 DEF Start
<1>23. ASSUME Continue(w) PROVE Alone'
  BY <1>23, <1>4, <1>5, <1>7, <1>12, <1>13, <1>16, <1>17, <1>19 DEF Continue
<1> QED
  BY <1>20, <1>21, <1>22, <1>23 DEF Step

\* While one function runs at a time, what it checked holds.
LEMMA AloneAlways ==
  ASSUME NEW w, Requests = {w}
  PROVE  Spec => []Alone
<1>1. Init => Alone
  <2> SUFFICES ASSUME Init PROVE Alone
    OBVIOUS
  <2>1. WholeClaims
    BY DEF Init, WholeClaims, NoClaim
  <2>2. h[w] = Idle
    BY DEF Init
  <2> QED
    BY <2>1, <2>2, IdleHolds DEF Alone
<1>2. Base /\ Alone /\ [Next]_vars => Alone'
  BY AloneStep
<1> QED
  BY <1>1, <1>2, BaseAlways, PTL DEF Spec

\* The rows of the reservations that a step touches.
LEMMA NoneLost ==
  ASSUME NEW w, Requests = {w}, Base, Alone, [Next]_vars,
         NEW k \in ClaimIds, claims[k].status = "active"
  PROVE  claims'[k].status # "none"
<1>0. CASE claims' = claims
  BY <1>0
<1>1. claims[k] \in Claim /\ claims[k].sub \in SubIds
  <2>1. claims[k] \in Claim
    BY Tables DEF Base
  <2> QED
    BY <2>1 DEF Claim
<1>2. k \in ActiveIn(claims[k].sub)
  BY DEF ActiveIn
<1>3. w \in Requests /\ HasTarget(h[w]) /\ StillHolds(h[w])
  BY DEF Base, Alone
<1>4. CASE DeleteSubnet(w)
  <2>1. CASE Cascade({h[w].sub})
    <3>1. h[w].sub \in SubIds /\ ActiveIn(h[w].sub) = {}
      BY <1>3, <1>4 DEF DeleteSubnet, StillHolds, HasTarget
    <3>2. claims[k].sub # h[w].sub
      BY <1>2, <3>1
    <3>3. claims'[k] = claims[k]
      BY <2>1, <3>1, <3>2, CascadeIs
    <3> QED
      BY <3>3
  <2> QED
    BY <1>0, <1>4, <2>1 DEF DeleteSubnet
<1>5. CASE DeleteBlock(w)
  <2>1. \A s \in SubIds : ActiveIn(s) = {}
    BY <1>3, <1>5 DEF DeleteBlock, StillHolds
  <2> QED
    BY <1>1, <1>2, <2>1
<1>6. CASE ReserveInsert(w)
  <2>1. ASSUME NEW x \in ClaimIds, claims[x].status = "none",
               claims' = [claims EXCEPT ![x] = [sub |-> h[w].sub, ip |-> h[w].ip,
                                                status |-> "active", due |-> h[w].due]]
        PROVE  claims'[k].status # "none"
    BY <2>1 DEF Base, TypeOK
  <2> QED
    BY <1>0, <1>3, <1>6, <2>1, ReserveIs
<1>7. CASE ReleaseCommit(w)
  BY <1>0, <1>3, <1>7, ReleaseIs
<1>8. CASE Expire
  BY <1>8, ExpireIs
<1>9. ASSUME Start(w) PROVE claims' = claims
  BY <1>9 DEF Start, CreateBegin, SyncSubnet, AllocateNext, BulkRead, SyncGone, DeleteSubnetCount,
     NextReservation, ReserveCheck, DeleteBlockCount, ReleaseBegin
<1>10. ASSUME Continue(w), ~DeleteSubnet(w), ~DeleteBlock(w), ~ReserveInsert(w), ~ReleaseCommit(w)
       PROVE  claims' = claims
  BY <1>10 DEF Continue, SiblingCheck, CreateInsert, BulkCommit, SyncInsert, InsertSubs, SyncClaim,
     SyncDeprecate, HostCheck
<1>11. ASSUME NEW s \in SubIds, NEW status \in Statuses, UpdateSubnet(s, status)
       PROVE  claims' = claims
  BY <1>11 DEF UpdateSubnet
<1>12. CASE UNCHANGED vars
  BY <1>0, <1>12 DEF vars
<1> QED
  BY <1>0, <1>4, <1>5, <1>6, <1>7, <1>8, <1>9, <1>10, <1>11, <1>12 DEF Next, Step

\* A deletion never takes an active reservation along, when no other function
\* runs between its count and its delete.
THEOREM ActiveNeverLost ==
  ASSUME NEW w, Requests = {w}
  PROVE  Spec => NoActiveLost
<1>1. Spec => []Alone
  BY AloneAlways
<1>2. Base /\ Alone /\ [Next]_vars =>
        [\A k \in ClaimIds : claims[k].status = "active" => claims'[k].status # "none"]_vars
  BY NoneLost
<1> QED
  BY <1>1, <1>2, BaseAlways, PTL DEF Spec, NoActiveLost

-----------------------------------------------------------------------------
(* The status of a subnet and its full-subnet claims.                      *)

\* Loads in which nobody sets a status by hand, except that of subnets that
\* nobody claims as a whole.
StatusByClaims ==
  \A m \in Mixes : /\ "revive" \notin m.ops
                   /\ "claim" \in m.ops => "sync" \notin m.ops /\ "deprecate" \notin m.ops

\* What StatusAgrees says of one subnet.
Agrees(s) ==
  Exists(s) =>
    /\ \A k \in ClaimIds : (claims[k].sub = s /\ claims[k].ip = Whole /\ claims[k].status = "active")
                             => subs[s].status = "reserved"
    /\ subs[s].status = "reserved" =>
         \E k \in ClaimIds : /\ claims[k].sub = s /\ claims[k].ip = Whole
                             /\ claims[k].status \in {"active", "expired"}

\* And of all.
LEMMA AgreesIs ==
  StatusAgrees <=> \A s \in SubIds : Agrees(s)
BY DEF StatusAgrees, Agrees

\* A claim's row that stays keeps the agreement of a subnet that stays.
LEMMA AgreesKept ==
  ASSUME NEW s \in SubIds, Agrees(s), subs'[s].status = subs[s].status,
         \A k \in ClaimIds :
           /\ (claims[k].sub = s /\ claims[k].ip = Whole /\ claims[k].status \in {"active", "expired"})
                => /\ claims'[k].sub = s /\ claims'[k].ip = Whole
                   /\ claims'[k].status \in {"active", "expired"}
           /\ (claims'[k].sub = s /\ claims'[k].ip = Whole /\ claims'[k].status = "active")
                => /\ claims[k].sub = s /\ claims[k].ip = Whole /\ claims[k].status = "active"
  PROVE  Agrees(s)'
BY DEF Agrees, Exists

\* A subnet whose status is not that of a claimed one, and that nobody claims.
LEMMA AgreesFree ==
  ASSUME NEW s \in SubIds, subs'[s].status # "reserved",
         \A k \in ClaimIds : ~(/\ claims'[k].sub = s /\ claims'[k].ip = Whole
                               /\ claims'[k].status = "active")
  PROVE  Agrees(s)'
BY DEF Agrees

\* StatusAgrees is inductive, relative to Base and Alone.
LEMMA AgreesStep ==
  ASSUME NEW w, Requests = {w}, StatusByClaims, Base, Alone, StatusAgrees, [Next]_vars
  PROVE  StatusAgrees'
<1> SUFFICES ASSUME NEW s \in SubIds PROVE Agrees(s)'
  BY DEF StatusAgrees, Agrees
<1>0. Agrees(s)
  BY AgreesIs
<1>a. CASE subs'[s].status = subs[s].status /\ claims' = claims
  BY <1>0, <1>a, AgreesKept
<1>b. CASE UNCHANGED vars
  BY <1>a, <1>b DEF vars
<1> SUFFICES ASSUME Step, mix' = mix PROVE Agrees(s)'
  BY <1>b DEF Next
<1>c. /\ w \in Requests /\ HasTarget(h[w]) /\ StillHolds(h[w]) /\ WholeClaims
      /\ h[w].cidrs \in SUBSET Cidr
  <2>1. h[w] \in Handler /\ HasTarget(h[w]) /\ StillHolds(h[w]) /\ WholeClaims
    BY DEF Base, TypeOK, Alone
  <2> QED
    BY <2>1 DEF Handler
<1>d. /\ "revive" \notin mix.ops
      /\ "claim" \in mix.ops => "sync" \notin mix.ops /\ "deprecate" \notin mix.ops
  BY DEF StatusByClaims, Base, TypeOK
<1>e. ASSUME claims' = claims, subs'[s].status = subs[s].status \/ subs'[s].status # "reserved",
             "claim" \notin mix.ops
      PROVE  Agrees(s)'
  <2>1. \A k \in ClaimIds : ~(/\ claims'[k].sub = s /\ claims'[k].ip = Whole
                              /\ claims'[k].status = "active")
    BY <1>c, <1>e DEF WholeClaims
  <2> QED
    BY <1>a, <1>e, <2>1, AgreesFree
<1>1. ASSUME Start(w) PROVE Agrees(s)'
  <2>1. subs' = subs /\ claims' = claims
    BY <1>1 DEF Start, CreateBegin, SyncSubnet, AllocateNext, BulkRead, SyncGone,
       DeleteSubnetCount, NextReservation, ReserveCheck, DeleteBlockCount, ReleaseBegin
  <2> QED
    BY <1>a, <2>1
<1>2. ASSUME SiblingCheck(w) \/ HostCheck(w) PROVE Agrees(s)'
  <2>1. subs' = subs /\ claims' = claims
    BY <1>2 DEF SiblingCheck, HostCheck
  <2> QED
    BY <1>a, <2>1
<1>3. ASSUME NEW found \in BOOLEAN, InsertSubs(w, h[w].cidrs, found) PROVE Agrees(s)'
  <2>1. /\ claims' = claims
        /\ subs'[s] = subs[s] \/ (~Exists(s) /\ subs'[s].status = "available")
    BY <1>3, <1>c, InsertIs DEF Base
  <2>2. CASE ~Exists(s) /\ subs'[s].status = "available"
    <3>1. \A k \in ClaimIds : claims[k].sub = s => claims[k].status = "none"
      BY <2>2 DEF Base, ClaimsHaveSubs
    <3> QED
      BY <2>1, <2>2, <3>1, AgreesFree
  <2> QED
    BY <1>a, <2>1, <2>2
<1>4. ASSUME SyncClaim(w) PROVE Agrees(s)'
  <2>1. claims' = claims /\ "claim" \notin mix.ops
    BY <1>4, <1>c, <1>d DEF SyncClaim, StillHolds
  <2>2. subs'[s].status = subs[s].status \/ subs'[s].status = "available"
    BY <1>4, <1>c, SyncClaimIs
  <2> QED
    BY <1>e, <2>1, <2>2
<1>5. ASSUME SyncDeprecate(w) PROVE Agrees(s)'
  <2>1. claims' = claims /\ "claim" \notin mix.ops /\ h[w].sub \in SubIds
    BY <1>5, <1>c, <1>d DEF SyncDeprecate, StillHolds, HasTarget
  <2>2. "deprecated" \in Statuses
    BY DEF Statuses
  <2>3. subs'[s].status = subs[s].status \/ subs'[s].status = "deprecated"
    <3>1. subs' = subs \/ (/\ Exists(h[w].sub)
                           /\ subs' = [subs EXCEPT ![h[w].sub].status = "deprecated"])
      BY <1>5 DEF SyncDeprecate
    <3> QED
      BY <2>1, <2>2, <3>1, StatusSet
  <2> QED
    BY <1>e, <2>1, <2>3
<1>6. ASSUME NEW S \in SUBSET SubIds, Cascade(S) \/ UNCHANGED <<subs, claims>> PROVE Agrees(s)'
  <2>1. CASE UNCHANGED <<subs, claims>>
    BY <1>a, <2>1
  <2>2. CASE Cascade(S)
    <3>1. /\ subs'[s] = IF s \in S THEN NoSub ELSE subs[s]
          /\ \A k \in ClaimIds : claims'[k] = IF claims[k].sub \in S THEN NoClaim ELSE claims[k]
      BY <2>2, CascadeIs
    <3>2. CASE s \in S
      BY <3>1, <3>2 DEF Agrees, Exists, NoSub
    <3>3. CASE s \notin S
      <4>1. \A k \in ClaimIds : claims'[k] = claims[k] \/ (claims[k].sub # s /\ claims'[k].status = "none")
        BY <3>1, <3>3 DEF NoClaim
      <4> QED
        BY <1>0, <3>1, <3>3, <4>1, AgreesKept
    <3> QED
      BY <3>2, <3>3
  <2> QED
    BY <1>6, <2>1, <2>2
<1>7. ASSUME DeleteSubnet(w) PROVE Agrees(s)'
  <2>1. {h[w].sub} \in SUBSET SubIds
    BY <1>7, <1>c DEF DeleteSubnet, HasTarget
  <2> QED
    BY <1>6, <1>7, <2>1 DEF DeleteSubnet
<1>8. ASSUME DeleteBlock(w) PROVE Agrees(s)'
  BY <1>6, <1>8 DEF DeleteBlock
<1>9. ASSUME ReserveInsert(w) PROVE Agrees(s)'
  <2>1. CASE subs' = subs /\ claims' = claims
    BY <1>a, <2>1
  <2>2. ASSUME NEW k \in ClaimIds, claims[k].status = "none",
               claims' = [claims EXCEPT ![k] = [sub |-> h[w].sub, ip |-> h[w].ip,
                                                status |-> "active", due |-> h[w].due]],
               h[w].sub \in SubIds, Exists(h[w].sub),
               IF h[w].ip = Whole THEN subs' = [subs EXCEPT ![h[w].sub].status = "reserved"]
               ELSE subs' = subs
        PROVE  Agrees(s)'
    <3> DEFINE row == [sub |-> h[w].sub, ip |-> h[w].ip, status |-> "active", due |-> h[w].due]
    <3>1. row.sub = h[w].sub /\ row.ip = h[w].ip /\ row.status = "active"
      OBVIOUS
    <3>2. \A x \in ClaimIds : claims'[x] = IF x = k THEN row ELSE claims[x]
      BY <2>2 DEF Base, TypeOK
    <3> HIDE DEF row
    <3>3. "reserved" \in Statuses
      BY DEF Statuses
    <3>4. CASE h[w].ip = Whole /\ s = h[w].sub
      <4>1. subs'[s].status = "reserved"
        BY <2>2, <3>3, <3>4, StatusSet
      <4>2. claims'[k].sub = s /\ claims'[k].ip = Whole /\ claims'[k].status = "active"
        BY <3>1, <3>2, <3>4
      <4> QED
        BY <4>1, <4>2 DEF Agrees
    <3>5. CASE h[w].ip # Whole \/ s # h[w].sub
      <4>1. subs'[s] = subs[s]
        BY <2>2, <3>3, <3>5, StatusSet
      <4>2. ~(row.sub = s /\ row.ip = Whole)
        BY <3>1, <3>5
      <4> QED
        BY <1>0, <2>2, <3>2, <4>1, <4>2, AgreesKept
    <3> QED
      BY <3>4, <3>5
  <2> QED
    BY <1>9, <1>c, <2>1, <2>2, ReserveIs
<1>10. ASSUME ReleaseCommit(w) PROVE Agrees(s)'
  <2> DEFINE k == h[w].claim
             t == claims[k].sub
  <2>1. CASE subs' = subs /\ claims' = claims
    BY <1>a, <2>1
  <2>2. CASE /\ k \in ClaimIds /\ t \in SubIds /\ Exists(t)
             /\ claims'[k].status = "released" /\ claims'[k].sub = t /\ claims'[k].ip = claims[k].ip
             /\ \A x \in ClaimIds : x # k =>
                  \/ claims'[x] = claims[x]
                  \/ claims[x].status = "released" /\ claims'[x] = NoClaim
             /\ IF h[w].ip = Whole THEN subs' = [subs EXCEPT ![t].status = "available"]
                ELSE subs' = subs
    <3>1. /\ claims[k].ip = h[w].ip
          /\ h[w].ip = Whole => ActiveAt(t, Whole) \subseteq {k}
      BY <1>10, <1>c DEF ReleaseCommit, StillHolds
    <3> HIDE DEF k, t
    <3>2. \A x \in ClaimIds : x # k =>
            \/ claims'[x] = claims[x]
            \/ claims[x].status = "released" /\ claims'[x].status = "none"
      BY <2>2 DEF NoClaim
    <3>3. "available" \in Statuses
      BY DEF Statuses
    <3>4. CASE h[w].ip = Whole /\ s = t
      <4>1. subs'[s].status = "available"
        BY <2>2, <3>3, <3>4, StatusSet
      <4>2. ASSUME NEW x \in ClaimIds, claims'[x].sub = s, claims'[x].ip = Whole,
                   claims'[x].status = "active"
            PROVE  FALSE
        <5>1. x # k
          BY <2>2, <4>2
        <5>2. claims'[x] = claims[x]
          BY <3>2, <4>2, <5>1
        <5>3. x \in ActiveAt(t, Whole)
          BY <3>4, <4>2, <5>2 DEF ActiveAt, ActiveIn
        <5> QED
          BY <3>1, <3>4, <5>1, <5>3
      <4> QED
        BY <4>1, <4>2, AgreesFree
    <3>5. CASE h[w].ip # Whole \/ s # t
      <4>1. subs'[s] = subs[s]
        BY <2>2, <3>3, <3>5, StatusSet
      <4>2. ~(claims[k].sub = s /\ claims[k].ip = Whole)
        BY <3>1, <3>5 DEF t
      <4> QED
        BY <1>0, <2>2, <3>2, <4>1, <4>2, AgreesKept
    <3> QED
      BY <3>4, <3>5
  <2> QED
    BY <1>10, <1>c, <2>1, <2>2, ReleaseIs
<1>11. ASSUME NEW t \in SubIds, NEW status \in Statuses, UpdateSubnet(t, status) PROVE Agrees(s)'
  <2>1. claims' = claims /\ status = "deprecated" /\ "claim" \notin mix.ops
    BY <1>11, <1>d DEF UpdateSubnet
  <2>2. subs'[s].status = subs[s].status \/ subs'[s].status = "deprecated"
    BY <1>11, <2>1, StatusSet DEF UpdateSubnet
  <2> QED
    BY <1>e, <2>1, <2>2
<1>12. ASSUME Expire PROVE Agrees(s)'
  <2>1. /\ subs' = subs
        /\ \A k \in ClaimIds :
              \/ claims'[k] = claims[k]
              \/ /\ claims[k].status = "active" /\ claims'[k].status = "expired"
                 /\ claims'[k].sub = claims[k].sub /\ claims'[k].ip = claims[k].ip
    BY <1>12, ExpireIs
  <2> QED
    BY <1>0, <2>1, AgreesKept
<1>13. ASSUME Continue(w) PROVE Agrees(s)'
  <2>1. ASSUME CreateInsert(w) \/ BulkCommit(w) \/ SyncInsert(w) PROVE Agrees(s)'
    BY <2>1, <1>3 DEF CreateInsert, BulkCommit, SyncInsert
  <2> QED
    BY <1>13, <2>1, <1>2, <1>4, <1>5, <1>7, <1>8, <1>9, <1>10 DEF Continue
<1> QED
  BY <1>1, <1>11, <1>12, <1>13 DEF Step

\* A subnet is shown reserved just while somebody claims it, or after a claim
\* of it expired: for one function at a time, and loads in which nobody sets
\* the status of a claimed subnet by hand.
THEOREM StatusAlwaysAgrees ==
  ASSUME NEW w, Requests = {w}, StatusByClaims
  PROVE  Spec => []StatusAgrees
<1>1. Init => StatusAgrees
  BY DEF Init, StatusAgrees, Exists, NoSub
<1>2. Base /\ Alone /\ StatusAgrees /\ [Next]_vars => StatusAgrees'
  BY AgreesStep
<1>3. Spec => []Alone
  BY AloneAlways
<1> QED
  BY <1>1, <1>2, <1>3, BaseAlways, PTL DEF Spec

-----------------------------------------------------------------------------
(* Disjointness of the subnets in use.                                     *)

\* Where discovery runs, nobody puts a deprecated subnet to use again: not an
\* operator, and not the release of a claim of it.
NoRevivalUnderSync ==
  \A m \in Mixes : "sync" \in m.ops => "revive" \notin m.ops /\ "claim" \notin m.ops

\* A slot without CIDRs plans nothing.
LEMMA NoPlan ==
  ASSUME NEW x, x.cidrs = {}, x.pc # "y_claim"
  PROVE  PlanFree(x)
BY DEF PlanFree

\* A step that writes only its slot.
LEMMA PlannedQuiet ==
  ASSUME Base, NEW w, Requests = {w}, Planned, NEW hw, Become(w, hw), PlanFree(hw),
         subs' = subs, mix' = mix
  PROVE  Planned'
<1>1. h'[w] = hw
  BY SlotWritten DEF Base, TypeOK
<1>2. BindingApart'
  BY DEF Planned, BindingApart, Binding, InUse, Exists, Apart
<1>3. PlanFree(h[w])'
  BY <1>1 DEF PlanFree, Binding, InUse, Exists, Apart
<1> QED
  BY <1>2, <1>3 DEF Planned

\* A step that ends its function.
LEMMA PlannedDone ==
  ASSUME Base, NEW w, Requests = {w}, Become(w, Idle), BindingApart'
  PROVE  Planned'
<1>1. h'[w] = Idle
  BY SlotWritten DEF Base, TypeOK
<1>2. h'[w].pc = "idle" /\ h'[w].cidrs = {}
  BY <1>1, IdleEmpty
<1>3. PlanFree(h[w])'
  BY <1>2 DEF PlanFree
<1> QED
  BY <1>3 DEF Planned

\* Binding subnets that stay where they are stay disjoint.
LEMMA ApartKept ==
  ASSUME BindingApart,
         \A s \in SubIds : Binding(s)' => Binding(s) /\ subs'[s].cidr = subs[s].cidr
  PROVE  BindingApart'
<1> SUFFICES ASSUME NEW s \in SubIds, NEW t \in SubIds, s # t, Binding(s)', Binding(t)'
             PROVE  Apart(subs'[s].cidr, subs'[t].cidr)
  BY DEF BindingApart, Apart
<1> QED
  BY DEF BindingApart

\* Planned is inductive, relative to Base and Alone.
LEMMA PlannedStep ==
  ASSUME NEW w, Requests = {w}, \A t \in Templates : Fits(t), NoRevivalUnderSync,
         Base, Alone, Planned, [Next]_vars
  PROVE  Planned'
<1>0. CASE UNCHANGED vars
  BY <1>0 DEF vars, Planned, BindingApart, PlanFree, Binding, InUse, Exists, Apart
<1> SUFFICES ASSUME Step, mix' = mix PROVE Planned'
  BY <1>0 DEF Next
<1>a. /\ w \in Requests /\ h[w] \in Handler /\ HasTarget(h[w]) /\ StillHolds(h[w]) /\ WholeClaims
      /\ PlanFree(h[w]) /\ BindingApart /\ h[w].cidrs \in SUBSET Cidr
  <2>1. /\ h[w] \in Handler /\ HasTarget(h[w]) /\ StillHolds(h[w]) /\ WholeClaims
        /\ PlanFree(h[w]) /\ BindingApart
    BY DEF Base, TypeOK, Alone, Planned
  <2> QED
    BY <2>1 DEF Handler
<1>b. "sync" \in mix.ops => "revive" \notin mix.ops /\ "claim" \notin mix.ops
  BY DEF NoRevivalUnderSync, Base, TypeOK
<1>c. \A s \in SubIds : Binding(s) => Exists(s) /\ subs[s].cidr \in Siblings /\ subs[s].cidr \in Cidr
  <2>1. \A s \in SubIds : Binding(s) => Exists(s)
    BY DEF Binding, InUse, Exists
  <2> QED
    BY <2>1, Tables DEF Siblings, Base
<1>d. \A x, c \in Cidr : ~cidrOverlaps(x, c) => Apart(c, x)
  BY OverlapsIs, DisjointSwap
<1>e. ASSUME NEW hw, Become(w, hw), hw.cidrs = {}, hw.pc # "y_claim", subs' = subs PROVE Planned'
  BY <1>e, NoPlan, PlannedQuiet
<1>f. ASSUME Become(w, Idle),
             \A s \in SubIds : Binding(s)' => Binding(s) /\ subs'[s].cidr = subs[s].cidr
      PROVE  Planned'
  BY <1>a, <1>f, ApartKept, PlannedDone
<1>g. ASSUME Become(w, Idle), subs' = subs PROVE Planned'
  BY <1>e, <1>g, IdleEmpty
<1>h. \A typed \in Requested : Normalize(typed.base, typed.len) \in Cidr
  <2>1. \A typed \in Requested : typed.base \in 0..(Space - 1) /\ typed.len \in 0..W
    BY InputsAssumption DEF Cidr
  <2> QED
    BY <2>1, NormalizeIs
<1>i. ASSUME NEW c \in Cidr, Become(w, [Idle EXCEPT !.pc = "s_check", !.cidrs = {c}]), subs' = subs
      PROVE  Planned'
  <2> DEFINE hw == [Idle EXCEPT !.pc = "s_check", !.cidrs = {c}]
  <2>1. hw.pc = "s_check" /\ hw.cidrs = {c}
    BY PlanTyped
  <2>2. Become(w, hw)
    BY <1>i
  <2> HIDE DEF hw
  <2>3. PlanFree(hw)
    BY <2>1 DEF PlanFree
  <2> QED
    BY <1>i, <2>2, <2>3, PlannedQuiet
<1>1. ASSUME NEW typed \in Requested, CreateBegin(w, typed) PROVE Planned'
  BY <1>1, <1>h, <1>i DEF CreateBegin
<1>2. ASSUME NEW len \in Lengths, AllocateNext(w, len) PROVE Planned'
  <2> DEFINE c == findNextAvailableSubnet(Block, Siblings, len)
  <2>1. len \in 0..W /\ Siblings \in SUBSET Cidr
    BY InputsAssumption, Tables DEF Base
  <2>2. c \in Cidr
    BY <1>2, <2>1, NextSubnetIs DEF AllocateNext
  <2> QED
    BY <1>2, <1>i, <2>2 DEF AllocateNext
<1>3. ASSUME NEW t \in Templates, NEW a \in Anchors, BulkRead(w, t, a) PROVE Planned'
  <2> DEFINE packed == packIntoAnchor(Block, Siblings, t, a)
             kept == {packed[i] : i \in {j \in 1..Len(t) : ~t[j].skip}}
             hw == [Idle EXCEPT !.pc = "b_commit", !.cidrs = kept]
  <2>1. /\ packed # NoCidr /\ Become(w, hw) /\ subs' = subs
        /\ \A c \in kept : \A x \in Siblings : ~cidrOverlaps(x, c)
    BY <1>3 DEF BulkRead
  <2>2. t \in Entries /\ Fits(t) /\ a \in 0..W /\ Siblings \in SUBSET Cidr
    BY InputsAssumption, Tables DEF Entries, Base
  <2>3. \A i \in 1..Len(t) : packed[i] \in Cidr
    BY <2>1, <2>2, PackTyped
  <2>4. \A i, j \in 1..Len(t) : i < j => Apart(packed[i], packed[j])
    <3>1. \A i, j \in 1..Len(t) : i < j => Apart(Assigned(Siblings, t, a, i), Assigned(Siblings, t, a, j))
      BY <2>1, <2>2, PackDisjoint
    <3> QED
      BY <3>1 DEF Assigned
  <2> HIDE DEF packed
  <2>5. kept \in SUBSET Cidr
    BY <2>3
  <2>6. ASSUME NEW c \in kept, NEW d \in kept, c # d PROVE Apart(c, d)
    <3>1. PICK i \in 1..Len(t) : c = packed[i]
      BY <2>6
    <3>2. PICK j \in 1..Len(t) : d = packed[j]
      BY <2>6
    <3>3. Len(t) \in Nat
      BY <2>2 DEF Entries
    <3>4. i < j \/ j < i
      BY <2>6, <3>1, <3>2, <3>3
    <3> QED
      BY <2>4, <3>1, <3>2, <3>4, DisjointSwap
  <2> HIDE DEF kept
  <2>7. hw.pc = "b_commit" /\ hw.cidrs = kept
    BY <2>5, PlanTyped
  <2> HIDE DEF hw
  <2>8. \A c \in kept : \A s \in SubIds : Binding(s) => Apart(c, subs[s].cidr)
    BY <1>c, <1>d, <2>1, <2>5
  <2>9. PlanFree(hw)
    BY <2>6, <2>7, <2>8 DEF PlanFree
  <2> QED
    BY <2>1, <2>9, PlannedQuiet
<1>4. ASSUME SiblingCheck(w) PROVE Planned'
  <2>1. subs' = subs
    BY <1>4 DEF SiblingCheck
  <2>2. CASE Finish(w)
    BY <1>g, <2>1, <2>2 DEF Finish
  <2>3. CASE /\ \A c \in h[w].cidrs : \A x \in Siblings : ~cidrOverlaps(x, c)
             /\ Become(w, [h[w] EXCEPT !.pc = "s_insert"])
    <3> DEFINE hw == [h[w] EXCEPT !.pc = "s_insert"]
    <3>1. hw.pc = "s_insert" /\ hw.cidrs = h[w].cidrs
      BY <1>a, GoOnTyped
    <3>2. Become(w, hw)
      BY <2>3
    <3> HIDE DEF hw
    <3>3. \A c \in h[w].cidrs : \A s \in SubIds : Binding(s) => Apart(c, subs[s].cidr)
      BY <1>a, <1>c, <1>d, <2>3
    <3>4. PlanFree(hw)
      BY <1>a, <3>1, <3>3 DEF PlanFree
    <3> QED
      BY <2>1, <3>2, <3>4, PlannedQuiet
  <2> QED
    BY <1>4, <2>2, <2>3 DEF SiblingCheck
<1>5. ASSUME NEW found \in BOOLEAN, h[w].pc \in {"s_insert", "b_commit", "y_insert"},
             InsertSubs(w, h[w].cidrs, found)
      PROVE  Planned'
  <2>1. /\ \A s \in SubIds :
             subs'[s] = subs[s] \/ subs'[s].cidr \in h[w].cidrs
        /\ \A s, t \in SubIds :
             (s # t /\ subs'[s] # subs[s] /\ subs'[t] # subs[t]) => subs'[s].cidr # subs'[t].cidr
    BY <1>5, <1>a, InsertIs DEF Base
  <2>2. /\ \A c \in h[w].cidrs : \A s \in SubIds : Binding(s) => Apart(c, subs[s].cidr)
        /\ \A c, d \in h[w].cidrs : c # d => Apart(c, d)
    BY <1>a, <1>5 DEF PlanFree
  <2>3. \A s \in SubIds : (subs'[s] = subs[s] /\ Binding(s)') => Binding(s)
    BY DEF Binding, InUse, Exists
  <2>4. ASSUME NEW s \in SubIds, NEW t \in SubIds, s # t, Binding(s)', Binding(t)'
        PROVE  Apart(subs'[s].cidr, subs'[t].cidr)
    <3>1. CASE subs'[s] = subs[s] /\ subs'[t] = subs[t]
      BY <1>a, <2>3, <2>4, <3>1 DEF BindingApart
    <3>2. CASE subs'[s] # subs[s] /\ subs'[t] = subs[t]
      BY <2>1, <2>2, <2>3, <2>4, <3>2
    <3>3. CASE subs'[s] = subs[s] /\ subs'[t] # subs[t]
      BY <2>1, <2>2, <2>3, <2>4, <3>3, DisjointSwap
    <3>4. CASE subs'[s] # subs[s] /\ subs'[t] # subs[t]
      BY <2>1, <2>2, <2>4, <3>4
    <3> QED
      BY <3>1, <3>2, <3>3, <3>4
  <2>5. BindingApart'
    BY <2>4 DEF BindingApart, Apart
  <2>6. Become(w, Idle)
    BY <1>5 DEF InsertSubs, Finish
  <2> QED
    BY <2>5, <2>6, PlannedDone
<1>6. ASSUME NEW typed \in Requested, SyncSubnet(w, typed) PROVE Planned'
  <2> DEFINE c == Normalize(typed.base, typed.len)
             hw == [Idle EXCEPT !.pc = "y_insert", !.cidrs = {c}]
  <2>1. subs' = subs /\ "sync" \in mix.ops
    BY <1>6 DEF SyncSubnet, Begin
  <2>2. CASE (\A x \in Current : ~cidrOverlaps(x, c)) /\ Become(w, hw)
    <3>1. c \in Cidr
      BY <1>h
    <3> HIDE DEF c
    <3>2. hw.pc = "y_insert" /\ hw.cidrs = {c}
      BY <3>1, PlanTyped
    <3> HIDE DEF hw
    <3>3. ASSUME NEW s \in SubIds, Binding(s) PROVE Apart(c, subs[s].cidr)
      <4>1. subs[s].cidr \in Current
        BY <2>1, <3>3 DEF Binding, InUse, Current
      <4> QED
        BY <1>c, <1>d, <2>2, <3>1, <3>3, <4>1
    <3>4. PlanFree(hw)
      BY <3>2, <3>3 DEF PlanFree
    <3> QED
      BY <2>1, <2>2, <3>4, PlannedQuiet
  <2>3. ASSUME NEW s \in SubIds, subs[s].status \notin {"none", "deprecated"},
               Become(w, [Idle EXCEPT !.pc = "y_claim", !.sub = s, !.first = ~subs[s].found])
        PROVE  Planned'
    <3> DEFINE b == ~subs[s].found
               hx == [Idle EXCEPT !.pc = "y_claim", !.sub = s, !.first = b]
    <3>1. b \in BOOLEAN
      OBVIOUS
    <3>2. hx.pc = "y_claim" /\ hx.sub = s /\ hx.cidrs = {}
      BY <3>1, FoundTyped
    <3>3. Become(w, hx)
      BY <2>3
    <3> HIDE DEF hx
    <3>4. Binding(s)
      <4>1. subs[s].status \in Statuses \cup {"none"}
        BY Tables DEF Base
      <4> QED
        BY <2>3, <4>1 DEF Binding, InUse, Exists, Statuses
    <3>5. \A t \in SubIds : (t # s /\ Binding(t)) => Apart(subs[s].cidr, subs[t].cidr)
      BY <1>a, <3>4 DEF BindingApart
    <3>6. PlanFree(hx)
      BY <3>2, <3>5 DEF PlanFree
    <3> QED
      BY <2>1, <3>3, <3>6, PlannedQuiet
  <2> QED
    BY <1>6, <2>2, <2>3 DEF SyncSubnet
<1>7. ASSUME SyncClaim(w) PROVE Planned'
  <2> DEFINE s == h[w].sub
  <2>1. /\ h[w].pc = "y_claim" /\ s \in SubIds /\ Become(w, Idle)
        /\ \A t \in SubIds : (t # s /\ Binding(t)) => Apart(subs[s].cidr, subs[t].cidr)
    BY <1>7, <1>a DEF SyncClaim, HasTarget, PlanFree, Finish
  <2>2. /\ \A t \in SubIds : t # s => subs'[t] = subs[t]
        /\ \A t \in SubIds : subs'[t].cidr = subs[t].cidr
    BY <1>7, <1>a, SyncClaimIs
  <2>3. \A t \in SubIds : (t # s /\ Binding(t)') => Binding(t)
    BY <2>2 DEF Binding, InUse, Exists
  <2> HIDE DEF s
  <2>4. ASSUME NEW t \in SubIds, NEW u \in SubIds, t # u, Binding(t)', Binding(u)'
        PROVE  Apart(subs'[t].cidr, subs'[u].cidr)
    <3>1. CASE t # s /\ u # s
      BY <1>a, <2>2, <2>3, <2>4, <3>1 DEF BindingApart
    <3>2. CASE t = s
      BY <2>1, <2>2, <2>3, <2>4, <3>2
    <3>3. CASE u = s
      BY <2>1, <2>2, <2>3, <2>4, <3>3, DisjointSwap
    <3> QED
      BY <3>1, <3>2, <3>3
  <2>5. BindingApart'
    BY <2>4 DEF BindingApart, Apart
  <2> QED
    BY <2>1, <2>5, PlannedDone
<1>8. ASSUME NEW s \in SubIds, SyncGone(w, s) \/ DeleteSubnetCount(w, s) PROVE Planned'
  <2>1. PICK pc \in {"y_gone", "d_delete"} : Become(w, [Idle EXCEPT !.pc = pc, !.sub = s])
    BY <1>8 DEF SyncGone, DeleteSubnetCount
  <2>2. subs' = subs
    BY <1>8 DEF SyncGone, DeleteSubnetCount
  <2> DEFINE hw == [Idle EXCEPT !.pc = pc, !.sub = s]
  <2>3. hw.cidrs = {} /\ hw.pc = pc
    BY DropTyped
  <2>4. Become(w, hw)
    BY <2>1
  <2> HIDE DEF hw
  <2> QED
    BY <1>e, <2>2, <2>3, <2>4
<1>9. ASSUME NEW s \in SubIds, Exists(s), NEW status \in Statuses,
             subs' = [subs EXCEPT ![s].status = status],
             "sync" \notin mix.ops \/ status = "deprecated"
      PROVE  \A t \in SubIds : /\ subs'[t].cidr = subs[t].cidr
                               /\ Binding(t)' => Binding(t)
  <2>1. /\ \A t \in SubIds : t # s => subs'[t] = subs[t]
        /\ \A t \in SubIds : subs'[t].cidr = subs[t].cidr
        /\ subs'[s].status = status
    BY <1>9, StatusSet
  <2>2. \A t \in SubIds : (t # s /\ Binding(t)') => Binding(t)
    BY <2>1 DEF Binding, InUse, Exists
  <2>3. Binding(s)' => Binding(s)
    BY <1>9, <2>1 DEF Binding, InUse, Exists
  <2> QED
    BY <2>1, <2>2, <2>3
<1>10. ASSUME SyncDeprecate(w) PROVE Planned'
  <2>1. h[w].sub \in SubIds /\ Become(w, Idle)
    BY <1>10, <1>a DEF SyncDeprecate, HasTarget, Finish
  <2>2. CASE ~Exists(h[w].sub)
    BY <1>10, <1>g, <2>1, <2>2 DEF SyncDeprecate
  <2>3. CASE Exists(h[w].sub)
    <3>1. subs' = [subs EXCEPT ![h[w].sub].status = "deprecated"] /\ "deprecated" \in Statuses
      BY <1>10, <2>3 DEF SyncDeprecate, Statuses
    <3> QED
      BY <1>9, <1>f, <2>1, <2>3, <3>1
  <2> QED
    BY <2>2, <2>3
<1>11. ASSUME NEW S \in SUBSET SubIds, Become(w, Idle),
              Cascade(S) \/ UNCHANGED <<subs, claims>>
       PROVE  Planned'
  <2>1. \A s \in SubIds : subs'[s] = subs[s] \/ subs'[s].status = "none"
    BY <1>11, CascadeIs DEF NoSub
  <2>2. \A s \in SubIds : Binding(s)' => Binding(s) /\ subs'[s].cidr = subs[s].cidr
    BY <2>1 DEF Binding, InUse, Exists
  <2> QED
    BY <1>11, <1>f, <2>2
<1>12. ASSUME DeleteSubnet(w) PROVE Planned'
  <2>1. Become(w, Idle) /\ {h[w].sub} \in SUBSET SubIds
    BY <1>12, <1>a DEF DeleteSubnet, Finish, HasTarget
  <2> QED
    BY <1>11, <1>12, <2>1 DEF DeleteSubnet
<1>13. ASSUME DeleteBlock(w) PROVE Planned'
  BY <1>11, <1>13 DEF DeleteBlock, Finish
<1>14. ASSUME DeleteBlockCount(w) PROVE Planned'
  <2> DEFINE hw == [Idle EXCEPT !.pc = "k_delete"]
  <2>1. hw.cidrs = {} /\ hw.pc = "k_delete"
    BY BlockTyped
  <2>2. Become(w, hw) /\ subs' = subs
    BY <1>14 DEF DeleteBlockCount
  <2> HIDE DEF hw
  <2> QED
    BY <1>e, <2>1, <2>2
<1>15. ASSUME NEW s \in SubIds, NEW due \in BOOLEAN, ReserveCheck(w, s, due) PROVE Planned'
  <2> DEFINE hw == [Idle EXCEPT !.pc = "c_insert", !.sub = s, !.due = due]
  <2>1. hw.cidrs = {} /\ hw.pc = "c_insert"
    BY WholeTyped
  <2>2. Become(w, hw) /\ subs' = subs
    BY <1>15 DEF ReserveCheck
  <2> HIDE DEF hw
  <2> QED
    BY <1>e, <2>1, <2>2
<1>16. ASSUME NEW s \in SubIds, NextReservation(w, s) PROVE Planned'
  <2> DEFINE taken == {claims[k].ip : k \in ActiveIn(s)}
             ip == NextHost(subs[s].cidr, taken, PageSize)
             hw == [Idle EXCEPT !.pc = "c_check", !.sub = s, !.ip = ip]
  <2>1. ip # NoCidr /\ Become(w, hw) /\ subs' = subs
    BY <1>16 DEF NextReservation
  <2>2. ip \in Nat
    <3>1. subs[s].cidr \in Cidr
      BY Tables DEF Base
    <3> HIDE DEF taken
    <3>2. ip \in Hosts(subs[s].cidr)
      BY <2>1, <3>1, NextHostIs, BoundsAssumption
    <3> QED
      BY <3>1, <3>2, HostNumber
  <2> HIDE DEF ip
  <2>3. hw.cidrs = {} /\ hw.pc = "c_check"
    BY <2>2, HostTyped
  <2> HIDE DEF hw
  <2> QED
    BY <1>e, <2>1, <2>3
<1>17. ASSUME HostCheck(w) PROVE Planned'
  <2>1. subs' = subs
    BY <1>17 DEF HostCheck
  <2>2. CASE Finish(w)
    BY <1>g, <2>1, <2>2 DEF Finish
  <2>3. CASE Become(w, [h[w] EXCEPT !.pc = "c_insert"])
    <3> DEFINE hw == [h[w] EXCEPT !.pc = "c_insert"]
    <3>1. h[w].pc = "c_check"
      BY <1>17 DEF HostCheck
    <3>2. hw.pc = "c_insert" /\ hw.cidrs = h[w].cidrs
      BY <1>a, <3>1, GoOnTyped
    <3>3. Become(w, hw)
      BY <2>3
    <3> HIDE DEF hw
    <3>4. PlanFree(hw)
      BY <1>a, <3>2 DEF PlanFree
    <3> QED
      BY <2>1, <3>3, <3>4, PlannedQuiet
  <2> QED
    BY <1>17, <2>2, <2>3 DEF HostCheck
<1>18. ASSUME ReserveInsert(w) PROVE Planned'
  <2>1. Become(w, Idle) /\ h[w].pc = "c_insert"
    BY <1>18 DEF ReserveInsert, Finish
  <2>2. CASE subs' = subs
    BY <1>g, <2>1, <2>2
  <2>3. CASE /\ h[w].ip = Whole /\ h[w].sub \in SubIds /\ Exists(h[w].sub)
             /\ subs' = [subs EXCEPT ![h[w].sub].status = "reserved"]
    <3>1. "sync" \notin mix.ops /\ "reserved" \in Statuses
      BY <1>a, <1>b, <2>1, <2>3 DEF StillHolds, Statuses
    <3> QED
      BY <1>9, <1>f, <2>1, <2>3, <3>1
  <2> QED
    BY <1>18, <1>a, <2>2, <2>3, ReserveIs
<1>19. ASSUME NEW k \in ClaimIds, ReleaseBegin(w, k) PROVE Planned'
  <2> DEFINE ip == claims[k].ip
             hw == [Idle EXCEPT !.pc = "r_commit", !.claim = k, !.ip = ip]
  <2>1. Become(w, hw) /\ subs' = subs /\ claims[k].status = "active"
    BY <1>19 DEF ReleaseBegin
  <2>2. hw.pc = "r_commit" /\ hw.cidrs = {}
    <3>1. claims[k] \in Claim
      BY <2>1, Tables DEF Base
    <3>2. ip \in {Whole} \cup Nat
      BY <3>1 DEF Claim
    <3> HIDE DEF ip
    <3> QED
      BY <3>2, ClaimTyped
  <2> HIDE DEF hw
  <2> QED
    BY <1>e, <2>1, <2>2
<1>20. ASSUME ReleaseCommit(w) PROVE Planned'
  <2> DEFINE k == h[w].claim
             s == claims[k].sub
  <2>1. Become(w, Idle) /\ h[w].pc = "r_commit" /\ k \in ClaimIds
    BY <1>20, <1>a DEF ReleaseCommit, Finish, HasTarget
  <2>2. CASE subs' = subs
    BY <1>g, <2>1, <2>2
  <2>3. CASE /\ h[w].ip = Whole /\ s \in SubIds /\ Exists(s)
             /\ subs' = [subs EXCEPT ![s].status = "available"]
    <3>1. claims[k].status # "none" /\ claims[k].ip = Whole
      BY <1>a, <2>1, <2>3 DEF StillHolds
    <3>2. "claim" \in mix.ops
      BY <1>a, <2>1, <3>1 DEF WholeClaims
    <3>3. "sync" \notin mix.ops /\ "available" \in Statuses
      BY <1>b, <3>2 DEF Statuses
    <3> HIDE DEF s
    <3> QED
      BY <1>9, <1>f, <2>1, <2>3, <3>3
  <2> QED
    BY <1>20, <1>a, <2>2, <2>3, ReleaseIs
<1>21. ASSUME NEW s \in SubIds, NEW status \in Statuses, UpdateSubnet(s, status) PROVE Planned'
  <2>1. /\ h' = h /\ Exists(s) /\ subs' = [subs EXCEPT ![s].status = status]
        /\ "sync" \notin mix.ops \/ status = "deprecated"
    BY <1>21, <1>b DEF UpdateSubnet
  <2>2. \A t \in SubIds : subs'[t].cidr = subs[t].cidr /\ (Binding(t)' => Binding(t))
    BY <1>9, <2>1
  <2>3. BindingApart'
    BY <1>a, <2>2, ApartKept
  <2>4. PlanFree(h[w])'
    <3>1. h[w].pc = "y_claim" => h[w].sub \in SubIds
      BY <1>a DEF HasTarget
    <3>2. \A c, d \in h'[w].cidrs : c # d => Apart(c, d)
      BY <1>a, <2>1 DEF PlanFree
    <3>3. h'[w].pc \in {"s_insert", "b_commit", "y_insert"} =>
            \A c \in h'[w].cidrs : \A t \in SubIds : Binding(t)' => Apart(c, subs'[t].cidr)
      BY <1>a, <2>1, <2>2 DEF PlanFree
    <3>4. h'[w].pc = "y_claim" =>
            \A t \in SubIds : (t # h'[w].sub /\ Binding(t)') => Apart(subs'[h'[w].sub].cidr, subs'[t].cidr)
      BY <1>a, <2>1, <2>2, <3>1 DEF PlanFree
    <3> QED
      BY <3>2, <3>3, <3>4 DEF PlanFree, Apart
  <2> QED
    BY <2>3, <2>4 DEF Planned
<1>22. ASSUME Expire PROVE Planned'
  BY <1>22, <1>a DEF Expire, Planned, BindingApart, PlanFree, Binding, InUse, Exists, Apart
<1>23. ASSUME Start(w) PROVE Planned'
  BY <1>23, <1>1, <1>2, <1>3, <1>6, <1>8, <1>14, <1>15, <1>16, <1>19 DEF Start
<1>24. ASSUME Continue(w) PROVE Planned'
  <2>1. ASSUME CreateInsert(w) \/ BulkCommit(w) \/ SyncInsert(w) PROVE Planned'
    BY <2>1, <1>5 DEF CreateInsert, BulkCommit, SyncInsert
  <2> QED
    BY <1>24, <2>1, <1>4, <1>7, <1>10, <1>12, <1>13, <1>17, <1>18, <1>20 DEF Continue
<1> QED
  BY <1>21, <1>22, <1>23, <1>24 DEF Step

\* Binding subnets stay disjoint.
LEMMA PlannedAlways ==
  ASSUME NEW w, Requests = {w}, \A t \in Templates : Fits(t), NoRevivalUnderSync
  PROVE  Spec => []Planned
<1>1. Init => Planned
  <2> SUFFICES ASSUME Init PROVE Planned
    OBVIOUS
  <2>1. BindingApart
    BY DEF Init, BindingApart, Binding, InUse, Exists, NoSub
  <2>2. h[w] = Idle
    BY DEF Init
  <2>3. PlanFree(h[w])
    BY <2>2, IdleEmpty, NoPlan
  <2> QED
    BY <2>1, <2>3 DEF Planned
<1>2. Base /\ Alone /\ Planned /\ [Next]_vars => Planned'
  BY PlannedStep
<1>3. Spec => []Alone
  BY AloneAlways
<1> QED
  BY <1>1, <1>2, <1>3, BaseAlways, PTL DEF Spec

\* Two subnets in use never share an address: for one function at a time,
\* templates that fit, and no way back for a deprecated subnet where
\* discovery runs.
THEOREM NeverOverlap ==
  ASSUME NEW w, Requests = {w}, \A t \in Templates : Fits(t), NoRevivalUnderSync
  PROVE  Spec => []NoOverlap
<1>1. Planned => NoOverlap
  BY DEF Planned, BindingApart, Binding, InUse, Exists, Apart, NoOverlap
<1>2. Spec => []Planned
  BY PlannedAlways
<1> QED
  BY <1>1, <1>2, PTL

=============================================================================

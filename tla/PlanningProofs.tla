---------------------------- MODULE PlanningProofs ----------------------------
(***************************************************************************)
(* What the planning operators compute, for every file size, every FEC     *)
(* parameters and every list of senders.                                   *)
(***************************************************************************)
EXTENDS Planning, FiniteSetTheorems, TLAPS

\* Quotient and remainder of a division by a positive divisor.
LEMMA DivisionLaw ==
    ASSUME NEW a \in Int, NEW d \in Nat, d > 0
    PROVE  /\ a \div d \in Int
           /\ a % d \in 0 .. d - 1
           /\ a = d * (a \div d) + (a % d)
OBVIOUS

\* A product with a larger factor is larger by at least one other factor.
LEMMA MultipleStep ==
    ASSUME NEW d \in Nat, d > 0, NEW p \in Int, NEW q \in Int, p < q
    PROVE  d * p + d <= d * q
<1>1. d * (q - p) >= d
  OBVIOUS
<1>2. d * (q - p) = d * q - d * p
  OBVIOUS
<1> QED
  BY <1>1, <1>2

\* Quotient and remainder are determined by the equation they satisfy.
LEMMA DivisionUnique ==
    ASSUME NEW d \in Nat, d > 0, NEW p \in Int, NEW q \in Int,
           NEW x \in Int, d * p <= x, x < d * p + d, d * q <= x, x < d * q + d
    PROVE  p = q
<1>1. ~ (p < q)
  BY MultipleStep
<1>2. ~ (q < p)
  BY MultipleStep
<1> QED
  BY <1>1, <1>2

\* FecParams the code accepts.
IsFec(fec) == fec.k \in Nat \ {0} /\ fec.symbol_bytes \in Nat \ {0}

LEMMA BlockSizePositive ==
    ASSUME NEW fec, IsFec(fec)
    PROVE  block_size(fec) \in Nat /\ block_size(fec) > 0
BY DEF IsFec, block_size

(***************************************************************************)
(* calculate_block_count is the ceiling: the blocks reach the end of the   *)
(* file, and the last one starts before it.                                *)
(***************************************************************************)
THEOREM BlockCountIsCeiling ==
    ASSUME NEW fec, IsFec(fec), NEW size \in Nat
    PROVE  LET n == calculate_block_count(size, fec)
               w == block_size(fec)
           IN  n \in Nat /\ size <= w * n /\ (n > 0 => w * (n - 1) < size)
<1> DEFINE w == block_size(fec)
           n == calculate_block_count(size, fec)
<1>1. w \in Nat /\ w > 0
  BY BlockSizePositive
<1>2. n = (size + w - 1) \div w
  BY DEF calculate_block_count
<1> HIDE DEF w, n
<1>3. n \in Int /\ size + w - 1 = w * n + ((size + w - 1) % w) /\ (size + w - 1) % w \in 0 .. w - 1
  BY <1>1, <1>2, DivisionLaw
<1>4. size <= w * n /\ w * n < size + w
  BY <1>1, <1>3
<1>5. n \in Nat
  <2>1. ~ (n < 0)
    BY <1>1, <1>3, <1>4, MultipleStep
  <2> QED
    BY <1>3, <2>1
<1>6. w * (n - 1) = w * n - w
  BY <1>1, <1>3
<1> QED
  BY <1>1, <1>4, <1>5, <1>6 DEF w, n

(***************************************************************************)
(* Every byte of a file lies in exactly one of its blocks.                 *)
(***************************************************************************)
THEOREM ByteInOneBlock ==
    ASSUME NEW fec, IsFec(fec), NEW size \in Nat, NEW x \in 0 .. size - 1
    PROVE  LET n == calculate_block_count(size, fec)
               w == block_size(fec)
           IN  \E b \in 0 .. n - 1 :
                  /\ x \in b * w .. minimum((b + 1) * w, size) - 1
                  /\ \A c \in 0 .. n - 1 :
                        x \in c * w .. minimum((c + 1) * w, size) - 1 => c = b
<1> DEFINE w == block_size(fec)
           n == calculate_block_count(size, fec)
           b == x \div w
<1>1. w \in Nat /\ w > 0
  BY BlockSizePositive
<1>2. n \in Nat /\ size <= w * n
  BY BlockCountIsCeiling
<1> HIDE DEF w, n
<1>3. b \in Int /\ x = w * b + (x % w) /\ x % w \in 0 .. w - 1
  BY <1>1, DivisionLaw
<1> HIDE DEF b
<1>4. b \in 0 .. n - 1
  <2>1. ~ (b < 0)
    BY <1>1, <1>3, MultipleStep
  <2>2. ~ (n <= b)
    <3>1. SUFFICES ASSUME n <= b PROVE FALSE
      OBVIOUS
    <3>2. w * n <= w * b
      <4>1. CASE n = b
        BY <1>1, <1>2, <4>1
      <4>2. CASE n < b
        BY <1>1, <1>2, <1>3, <4>2, MultipleStep
      <4> QED
        BY <1>2, <1>3, <3>1, <4>1, <4>2
    <3> QED
      BY <1>1, <1>2, <1>3, <3>2
  <2> QED
    BY <1>2, <1>3, <2>1, <2>2
<1>5. \A c \in 0 .. n - 1 : x \in c * w .. minimum((c + 1) * w, size) - 1
                              <=> w * c <= x /\ x < w * c + w
  <2>1. SUFFICES ASSUME NEW c \in 0 .. n - 1
                 PROVE  x \in c * w .. minimum((c + 1) * w, size) - 1
                              <=> w * c <= x /\ x < w * c + w
    OBVIOUS
  <2>2. c * w = w * c /\ (c + 1) * w = w * c + w /\ w * c \in Int
    BY <1>1, <1>2
  <2> QED
    BY <1>1, <1>2, <2>2 DEF minimum
<1>6. \A c \in 0 .. n - 1 : w * c <= x /\ x < w * c + w => c = b
  BY <1>1, <1>2, <1>3, DivisionUnique
<1>7. w * b <= x /\ x < w * b + w
  BY <1>1, <1>3
<1> QED
  BY <1>4, <1>5, <1>6, <1>7 DEF w, n

(***************************************************************************)
(* Every block lies in exactly one of the shards derive_shard_assignments  *)
(* deals out, whatever the senders are called.                             *)
(***************************************************************************)
THEOREM BlockInOneShard ==
    ASSUME NEW senders \in Seq(Int), senders # <<>>,
           NEW total \in Nat, NEW port \in Int, NEW b \in 0 .. total - 1
    PROVE  LET shards == derive_shard_assignments(total, senders, port)
           IN  \E i \in DOMAIN shards :
                  /\ b \in shards[i].assigned_blocks
                  /\ \A j \in DOMAIN shards : b \in shards[j].assigned_blocks => j = i
<1> DEFINE shards == derive_shard_assignments(total, senders, port)
           m == Len(senders)
<1>1. m \in Nat /\ m > 0 /\ DOMAIN senders = 1 .. m
  OBVIOUS
<1>2. DOMAIN shards = 1 .. m
  BY <1>1 DEF derive_shard_assignments
<1>3. \A i \in 1 .. m : shards[i].assigned_blocks = {c \in 0 .. total - 1 : c % m = i - 1}
  BY <1>1 DEF derive_shard_assignments, blocks_for_shard, residue_at
<1> HIDE DEF shards, m
<1>4. PICK r \in 0 .. m - 1 : b % m = r
  BY <1>1, DivisionLaw
<1>5. PICK i \in 1 .. m : i - 1 = r
  <2>1. r + 1 \in 1 .. m /\ (r + 1) - 1 = r
    BY <1>1, <1>4
  <2> QED
    BY <2>1
<1>6. b \in shards[i].assigned_blocks
  BY <1>3, <1>4, <1>5
<1>7. ASSUME NEW j \in 1 .. m, b \in shards[j].assigned_blocks PROVE j = i
  <2>1. b % m = j - 1
    BY <1>3, <1>7
  <2>2. j - 1 = r
    BY <1>4, <2>1
  <2> QED
    BY <1>1, <1>5, <2>2
<1> QED
  BY <1>2, <1>5, <1>6, <1>7 DEF shards

(***************************************************************************)
(* The ceiling of a division, by the inequalities it satisfies.            *)
(***************************************************************************)
LEMMA CeilingBounds ==
    ASSUME NEW x \in Nat, NEW d \in Nat, d > 0, NEW q \in Int
    PROVE  (x + d - 1) \div d = q <=> d * q - d < x /\ x <= d * q
<1>1. PICK p \in Int, r \in 0 .. d - 1 : p = (x + d - 1) \div d /\ x + d - 1 = d * p + r
  BY DivisionLaw
<1>2. d * p \in Int /\ d * q \in Int
  OBVIOUS
<1>3. CASE p = q
  BY <1>1, <1>2, <1>3
<1>4. CASE p # q
  <2>1. ASSUME d * q - d < x, x <= d * q PROVE p = q
    <3>1. d * q <= x + d - 1 /\ x + d - 1 < d * q + d
      BY <1>2, <2>1
    <3>2. d * p <= x + d - 1 /\ x + d - 1 < d * p + d
      BY <1>1, <1>2
    <3> QED
      BY <3>1, <3>2, DivisionUnique
  <2> QED
    BY <1>1, <1>4, <2>1
<1> QED
  BY <1>3, <1>4

\* A positive factor can be cancelled in an inequality.
LEMMA CancelFactor ==
    ASSUME NEW d \in Nat, d > 0, NEW p \in Int, NEW q \in Int
    PROVE  (d * p <= d * q => p <= q) /\ (d * p < d * q => p < q)
<1>1. q < p => d * q + d <= d * p
  BY MultipleStep
<1>2. d * p \in Int /\ d * q \in Int
  OBVIOUS
<1>3. p = q => d * p = d * q
  OBVIOUS
<1> QED
  BY <1>1, <1>2, <1>3

LEMMA Products ==
    ASSUME NEW p \in Int, NEW q \in Int, NEW r \in Int
    PROVE  /\ p * q \in Int /\ p * q = q * p
           /\ p * (q * r) = (p * q) * r
           /\ p * (q + r) = p * q + p * r /\ p * (q - r) = p * q - p * r
OBVIOUS

\* A product with a positive factor keeps an inequality.
LEMMA Multiplied ==
    ASSUME NEW d \in Nat, NEW p \in Int, NEW q \in Int, p <= q
    PROVE  d * p <= d * q
<1>1. d * (q - p) >= 0
  OBVIOUS
<1>2. d * (q - p) = d * q - d * p
  BY Products
<1> QED
  BY <1>1, <1>2

(***************************************************************************)
(* Why the block count survives floating point.  The quotient a / b is     *)
(* scaled by scale, a power of two, so that its significand is at least    *)
(* half = 2^(bits - 1), and rounded to an integer.  If a itself fits the   *)
(* significand (a < 2 * half), the ceiling of the rounded quotient is that *)
(* of the exact one: a quotient that exceeds an integer exceeds it by more *)
(* than half a unit of the significand, so it is not rounded down to it.   *)
(***************************************************************************)
THEOREM RoundingKeepsCeiling ==
    ASSUME NEW a \in Nat, NEW b \in Nat \ {0}, NEW scale \in Nat \ {0}, NEW half \in Nat,
           a < 2 * half, b * half <= a * scale
    PROVE  (round_half_even(a * scale, b) + scale - 1) \div scale = (a + b - 1) \div b
<1>1. PICK q \in Int : q = (a + b - 1) \div b
  BY DivisionLaw
<1>2. b * q - b < a /\ a <= b * q
  BY <1>1, CeilingBounds
<1>3. PICK m \in Nat : m = a * scale
  BY Products
<1>4. PICK u \in Int, r \in 0 .. b - 1 : u = m \div b /\ r = m % b /\ m = b * u + r
  BY DivisionLaw
<1>5. PICK sig \in Int :
        /\ sig = round_half_even(m, b)
        /\ sig = IF 2 * r > b \/ (2 * r = b /\ u % 2 = 1) THEN u + 1 ELSE u
  BY <1>4 DEF round_half_even
<1>6. 2 * scale > b
  <2> SUFFICES ASSUME 2 * scale <= b PROVE FALSE
    OBVIOUS
  <2>1. a * (2 * scale) <= a * b
    BY Multiplied
  <2>2. a * (2 * scale) = 2 * m
    BY <1>3, Products
  <2>3. 2 * (b * half) <= 2 * m
    BY <1>3, Products
  <2>4. 2 * (b * half) = b * (2 * half) /\ a * b = b * a
    BY Products
  <2>5. b * (2 * half) <= b * a
    BY <2>1, <2>2, <2>3, <2>4, Products
  <2>6. 2 * half <= a
    BY <2>5, CancelFactor
  <2> QED
    BY <2>6
<1>7. PICK c \in Int, top \in Int : top = scale * q /\ c = top - scale
  BY Products
<1>8. m <= b * top
  <2>1. scale * a <= scale * (b * q)
    BY <1>2, Multiplied, Products
  <2>2. scale * (b * q) = b * top /\ scale * a = m
    BY <1>3, <1>7, Products
  <2> QED
    BY <2>1, <2>2
<1>9. b * c + scale <= m
  <2>1. scale * (b * q - b + 1) <= scale * a
    BY <1>2, Multiplied, Products
  <2>2. scale * (b * q - b + 1) = scale * (b * q) - scale * b + scale
    BY Products
  <2>3. scale * (b * q) = b * top /\ scale * b = b * scale /\ scale * a = m
    BY <1>3, <1>7, Products
  <2>4. b * c = b * top - b * scale
    BY <1>7, Products
  <2> QED
    BY <2>1, <2>2, <2>3, <2>4, Products
<1>10. sig <= top
  <2>1. CASE sig = u
    <3>1. b * u <= b * top
      BY <1>4, <1>8, Products
    <3> QED
      BY <2>1, <3>1, CancelFactor
  <2>2. CASE sig = u + 1 /\ 2 * r >= b
    <3>1. b * u < b * top
      BY <1>4, <1>8, <2>2, Products
    <3>2. u < top
      BY <3>1, CancelFactor
    <3> QED
      BY <2>2, <3>2
  <2> QED
    BY <1>4, <1>5, <2>1, <2>2
<1>11. c < sig
  <2>1. CASE u > c
    BY <1>5, <2>1
  <2>2. CASE u < c
    <3>1. b * u + b <= b * c
      BY <2>2, MultipleStep
    <3> QED
      BY <1>4, <1>9, <3>1, Products
  <2>3. CASE u = c
    <3>1. r >= scale
      BY <1>4, <1>9, <2>3, Products
    <3>2. 2 * r > b
      BY <1>6, <3>1
    <3> QED
      BY <1>5, <2>3, <3>2
  <2> QED
    BY <2>1, <2>2, <2>3
<1>12. sig \in Nat
  <2>1. u \in Nat
    <3>1. ~ (u < 0)
      BY <1>4, MultipleStep
    <3> QED
      BY <3>1
  <2> QED
    BY <1>5, <2>1
<1>13. (sig + scale - 1) \div scale = q
  BY <1>7, <1>10, <1>11, <1>12, CeilingBounds
<1> QED
  BY <1>1, <1>3, <1>5, <1>13

(***************************************************************************)
(* Powers of two, for the scale of the significand.  2^n counts the        *)
(* subsets of 1 .. n, which gives its recurrence; what needs an induction  *)
(* is shown by looking at the least counterexample.                        *)
(***************************************************************************)
LEMMA LeastNatural ==
    ASSUME NEW T \in SUBSET Nat, T # {}
    PROVE  \E n \in T : \A m \in T : n <= m
<1> DEFINE R == {p \in Nat \X Nat : p[1] < p[2]}
<1>1. IsWellFoundedOn(OpToRel(<, Nat), Nat)
  BY NatLessThanWellFounded
<1>2. OpToRel(<, Nat) = R
  BY DEF OpToRel
<1>3. IsWellFoundedOn(R, Nat)
  BY <1>1, <1>2
<1> HIDE DEF R
<1>4. PICK n \in T : \A m \in T : ~ (<<m, n>> \in R)
  BY <1>3, WFMin
<1>5. \A m \in T : ~ m < n
  BY <1>4 DEF R
<1>6. \A m \in T : n \in Nat /\ m \in Nat
  OBVIOUS
<1> QED
  BY <1>5, <1>6

\* The subsets of 1 .. n + 1 without n + 1, and those with it.
LEMMA PowerOfTwo ==
    ASSUME NEW n \in Nat
    PROVE 2^n \in Nat /\ 2^(n + 1) = 2 * 2^n
<1> DEFINE S == 1 .. n
           A == SUBSET S
           B == {X \cup {n + 1} : X \in A}
<1>1. /\ IsFiniteSet(S) /\ Cardinality(S) = n
      /\ IsFiniteSet(1 .. n + 1) /\ Cardinality(1 .. n + 1) = n + 1
  BY FS_Interval
<1>2. /\ IsFiniteSet(A) /\ Cardinality(A) = 2^n
      /\ Cardinality(SUBSET (1 .. n + 1)) = 2^(n + 1)
  BY <1>1, FS_SUBSET
<1>3. SUBSET (1 .. n + 1) = A \cup B
  <2>1. ASSUME NEW X \in SUBSET (1 .. n + 1) PROVE X \in A \cup B
    <3>1. CASE n + 1 \notin X
      BY <3>1
    <3>2. CASE n + 1 \in X
      <4>1. X \ {n + 1} \in A
        OBVIOUS
      <4>2. X = (X \ {n + 1}) \cup {n + 1}
        BY <3>2
      <4> QED
        BY <4>1, <4>2
    <3> QED
      BY <3>1, <3>2
  <2>2. ASSUME NEW X \in A \cup B PROVE X \in SUBSET (1 .. n + 1)
    OBVIOUS
  <2> QED
    BY <2>1, <2>2
<1>4. A \cap B = {}
  OBVIOUS
<1>5. IsFiniteSet(B) /\ Cardinality(B) = Cardinality(A)
  <2> DEFINE f == [X \in A |-> X \cup {n + 1}]
  <2>1. f \in Bijection(A, B)
    <3>1. f \in [A -> B] /\ \A Y \in B : \E X \in A : f[X] = Y
      OBVIOUS
    <3>2. ASSUME NEW X \in A, NEW Y \in A, f[X] = f[Y] PROVE X = Y
      <4>1. X \cup {n + 1} = Y \cup {n + 1} /\ n + 1 \notin X /\ n + 1 \notin Y
        BY <3>2
      <4> QED
        BY <4>1
    <3> HIDE DEF f, A, B
    <3> QED
      BY <3>1, <3>2 DEF Bijection, Injection, Surjection, IsInjective
  <2>2. ExistsBijection(A, B)
    BY <2>1 DEF ExistsBijection
  <2> HIDE DEF A, B, f
  <2> QED
    BY <1>2, <2>2, FS_Bijection
<1> HIDE DEF A, B, S
<1>6. Cardinality(A \cup B) = Cardinality(A) + Cardinality(B) - Cardinality({})
  BY <1>2, <1>4, <1>5, FS_Union
<1>7. Cardinality(A) \in Nat
  BY <1>2, FS_CardinalityType
<1>8. 2^(n + 1) = Cardinality(A \cup B)
  BY <1>2, <1>3
<1>9. Cardinality(A \cup B) = Cardinality(A) + Cardinality(A)
  BY <1>5, <1>6, <1>7, FS_EmptySet
<1> QED
  BY <1>2, <1>7, <1>8, <1>9

LEMMA PowerZero == 2^0 = 1
<1>1. Cardinality(SUBSET {}) = 2^0
  BY FS_EmptySet, FS_SUBSET
<1>2. SUBSET {} = {{}}
  OBVIOUS
<1> QED
  BY <1>1, <1>2, FS_Singleton

LEMMA PowersOfTwo ==
    \A n \in Nat : 2^n \in Nat /\ 2^n > 0 /\ 2^(n + 1) = 2 * 2^n
<1> DEFINE T == {n \in Nat : ~ 2^n > 0}
<1>1. \A n \in Nat : 2^n \in Nat /\ 2^(n + 1) = 2 * 2^n
  BY PowerOfTwo
<1>2. 2^0 > 0
  BY PowerZero
<1>3. T = {}
  <2> SUFFICES ASSUME T # {} PROVE FALSE
    OBVIOUS
  <2>1. PICK n \in T : \A m \in T : n <= m
    BY LeastNatural
  <2>2. n # 0
    <3>1. 0 \notin T
      BY <1>2
    <3> QED
      BY <2>1, <3>1
  <2>3. PICK m \in Nat : n = m + 1
    BY <2>1, <2>2
  <2>4. m \notin T
    BY <2>1, <2>3
  <2>5. 2^m > 0 /\ 2^(m + 1) = 2 * 2^m
    BY <1>1, <2>3, <2>4
  <2> QED
    BY <1>1, <2>1, <2>3, <2>5
<1> QED
  BY <1>1, <1>3

\* Powers outgrow their exponent.
LEMMA PowerOutgrows ==
    ASSUME NEW m \in Nat
    PROVE  \A n \in Nat : n * 2^m <= 2^(n + m)
<1> DEFINE P(n) == (n + 1) * 2^m <= 2^(n + m)
           T == {n \in Nat : ~ P(n)}
<1>1. T = {}
  <2> SUFFICES ASSUME T # {} PROVE FALSE
    OBVIOUS
  <2>1. PICK n \in T : \A k \in T : n <= k
    BY LeastNatural
  <2>2. PICK p \in Nat : p = 2^m /\ p > 0
    BY PowersOfTwo
  <2>3. n # 0
    <3>1. P(0)
      BY <2>2
    <3> QED
      BY <2>1, <3>1
  <2>4. PICK k \in Nat : n = k + 1
    BY <2>1, <2>3
  <2>5. P(k)
    BY <2>1, <2>4
  <2>6. PICK q \in Nat : q = 2^(k + m) /\ 2^(k + m + 1) = 2 * q
    BY PowersOfTwo
  <2>7. (k + 1) * p <= q
    BY <2>2, <2>5, <2>6
  <2>8. (k + 2) * p <= 2 * ((k + 1) * p)
    BY <2>2
  <2>9. (k + 1) * p \in Nat /\ (k + 2) * p \in Nat
    BY <2>2
  <2>10. (k + 2) * p <= 2 * q
    BY <2>6, <2>7, <2>8, <2>9
  <2>11. k + 1 + m = k + m + 1 /\ k + 1 + 1 = k + 2
    OBVIOUS
  <2>12. P(n)
    BY <2>2, <2>4, <2>6, <2>10, <2>11
  <2> QED
    BY <2>1, <2>12
<1> SUFFICES ASSUME NEW n \in Nat PROVE n * 2^m <= 2^(n + m)
  OBVIOUS
<1>2. P(n)
  BY <1>1
<1>3. PICK p \in Nat, q \in Nat : p = 2^m /\ q = 2^(n + m)
  BY PowersOfTwo
<1>4. (n + 1) * p = n * p + p /\ n * p \in Nat
  BY <1>3
<1> QED
  BY <1>2, <1>3, <1>4

\* The scale that brings a quotient to the significand's size exists.
LEMMA ScaleExists ==
    ASSUME NEW bits \in Nat \ {0}, NEW a \in Nat \ {0}, NEW b \in Nat \ {0}, a < 2^bits
    PROVE  /\ float_scale(a, b, bits) \in Nat
           /\ b * 2^(bits - 1) <= a * 2^float_scale(a, b, bits)
<1> DEFINE Large(s) == b * 2^(bits - 1) <= a * 2^s
           T == {s \in Nat : Large(s)}
<1>1. PICK h \in Nat : h = 2^(bits - 1) /\ 2^bits = 2 * h /\ h > 0
  <2>1. PICK n \in Nat : n = bits - 1 /\ n + 1 = bits
    OBVIOUS
  <2> QED
    BY <2>1, PowersOfTwo
<1>2. PICK t \in Nat : t = b + (bits - 1)
  OBVIOUS
<1>3. t \in T
  <2>1. PICK p \in Nat : p = 2^t
    BY PowersOfTwo
  <2>2. b * h <= p
    <3>1. PICK m \in Nat : m = bits - 1
      OBVIOUS
    <3>2. b * 2^m <= 2^(b + m)
      BY PowerOutgrows
    <3> QED
      BY <1>1, <1>2, <2>1, <3>1, <3>2
  <2>3. p <= a * p
    <3>1. p * 1 <= p * a
      BY Multiplied
    <3> QED
      BY <3>1, Products
  <2>4. b * h \in Int /\ a * p \in Int
    BY Products
  <2>5. b * h <= a * p
    BY <2>2, <2>3, <2>4
  <2> QED
    BY <1>1, <2>1, <2>5
<1>4. PICK s \in T : \A r \in T : s <= r
  BY <1>3, LeastNatural
<1>5. s \in 0 .. bits + b
  BY <1>2, <1>3, <1>4
<1>6. a * 2^s < b * 2^bits
  <2>1. CASE s = 0
    <3>1. 2^0 = 1
      BY PowerZero
    <3>2. PICK p \in Nat : p = 2^bits
      BY PowersOfTwo
    <3>3. p * 1 <= p * b
      BY Multiplied
    <3>4. p <= b * p
      BY <3>3, Products
    <3>5. b * p \in Int
      BY Products
    <3>6. a < b * p
      BY <3>2, <3>4, <3>5
    <3> QED
      BY <2>1, <3>1, <3>2, <3>6
  <2>2. CASE s # 0
    <3>1. PICK r \in Nat : s = r + 1
      BY <1>4, <2>2
    <3>2. ~ Large(r)
      BY <1>4, <3>1
    <3>3. PICK q \in Nat : q = 2^r /\ 2^s = 2 * q
      BY <3>1, PowersOfTwo
    <3>4. a * q < b * h
      <4>1. a * q \in Int /\ b * h \in Int
        BY Products
      <4> QED
        BY <1>1, <3>2, <3>3, <4>1
    <3>5. a * (2 * q) = 2 * (a * q) /\ b * (2 * h) = 2 * (b * h)
      BY Products
    <3>6. a * (2 * q) < b * (2 * h)
      BY <3>4, <3>5, Products
    <3> QED
      BY <1>1, <3>3, <3>6
  <2> QED
    BY <2>1, <2>2
<1>7. \E r \in 0 .. bits + b : a * 2^r >= b * 2^(bits - 1) /\ a * 2^r < b * 2^bits
  <2>1. PICK x \in Int, y \in Int : x = a * 2^s /\ y = b * 2^(bits - 1)
    BY <1>1, <1>4, PowersOfTwo, Products
  <2>2. y <= x
    BY <1>4, <2>1
  <2>3. a * 2^s >= b * 2^(bits - 1)
    BY <2>1, <2>2
  <2> QED
    BY <1>5, <1>6, <2>3
<1>8. PICK z \in 0 .. bits + b :
        z = float_scale(a, b, bits) /\ a * 2^z >= b * 2^(bits - 1) /\ a * 2^z < b * 2^bits
  BY <1>7 DEF float_scale
<1>9. PICK x \in Int, y \in Int : x = a * 2^z /\ y = b * 2^(bits - 1)
  BY <1>1, PowersOfTwo, Products
<1>10. y <= x
  BY <1>8, <1>9
<1> QED
  BY <1>8, <1>9, <1>10

(***************************************************************************)
(* math.ceil of the float quotient is the exact ceiling, for every width   *)
(* of the significand and every dividend that fits it.                     *)
(***************************************************************************)
THEOREM FloatCeilingExact ==
    ASSUME NEW bits \in Nat \ {0}, NEW a \in Nat, NEW b \in Nat \ {0}, a < 2^bits
    PROVE  float_ceil_division(a, b, bits) = (a + b - 1) \div b
<1>1. CASE a = 0
  <2>1. float_ceil_division(a, b, bits) = 0
    BY <1>1 DEF float_ceil_division
  <2>2. (a + b - 1) \div b = 0
    <3>1. b * 0 = 0
      OBVIOUS
    <3> QED
      BY <1>1, <3>1, CeilingBounds
  <2> QED
    BY <2>1, <2>2
<1>2. CASE a # 0
  <2>1. PICK s \in Nat : s = float_scale(a, b, bits) /\ b * 2^(bits - 1) <= a * 2^s
    BY <1>2, ScaleExists
  <2>2. PICK scale \in Nat \ {0} : scale = 2^s
    BY PowersOfTwo
  <2>3. PICK half \in Nat : half = 2^(bits - 1) /\ 2^bits = 2 * half
    <3>1. PICK n \in Nat : n = bits - 1 /\ n + 1 = bits
      OBVIOUS
    <3> QED
      BY <3>1, PowersOfTwo
  <2>4. float_ceil_division(a, b, bits)
          = (round_half_even(a * scale, b) + scale - 1) \div scale
    BY <1>2, <2>1, <2>2 DEF float_ceil_division
  <2>5. a < 2 * half /\ b * half <= a * scale
    BY <2>1, <2>2, <2>3
  <2> QED
    BY <2>4, <2>5, RoundingKeepsCeiling
<1> QED
  BY <1>1, <1>2
===============================================================================

------------------------------ MODULE Arithmetic ------------------------------
(***************************************************************************)
(* Facts about natural numbers that the proofs of several components need: *)
(* induction and definition by recursion, in the form of sets and          *)
(* functions (which first-order provers can use, where the library's       *)
(* theorems take operators), powers of two, quotients and remainders,      *)
(* words into which entries of a fixed width are packed, which a write     *)
(* changes one at a time (PackedPutIs), the digits of a number (DigitsOf), *)
(* and varints: what is written is read back (VarintReadBack).             *)
(***************************************************************************)
EXTENDS Varint, FiniteSetTheorems, FunctionTheorems, SequenceTheorems, WellFoundedInduction, TLAPS

-----------------------------------------------------------------------------
(* Induction and recursion.                                                *)

\* A set that holds 0, and the successor of each natural number it holds, holds
\* them all: otherwise a least one would be missing.
LEMMA Induction ==
    ASSUME NEW S, 0 \in S, \A n \in Nat : n \in S => n + 1 \in S
    PROVE  \A n \in Nat : n \in S
<1>. DEFINE R == OpToRel(<, Nat)
            T == Nat \ S
<1>1. IsWellFoundedOn(R, Nat)
  BY NatLessThanWellFounded
<1>2. SUFFICES ASSUME T # {} PROVE FALSE
  OBVIOUS
<1>3. PICK x \in T : \A y \in T : ~ <<y, x>> \in R
  <2>1. T \subseteq Nat
    OBVIOUS
  <2>. HIDE DEF R, T
  <2> QED
    BY <1>1, <1>2, <2>1, WFMin
<1>4. x \in Nat /\ x # 0 /\ x - 1 \in Nat /\ x - 1 < x /\ (x - 1) + 1 = x
  OBVIOUS
<1>5. <<x - 1, x>> \in R
  BY <1>4, SMT DEF OpToRel
<1>6. x - 1 \in S
  BY <1>3, <1>4, <1>5
<1> QED
  BY <1>3, <1>4, <1>6

\* A set of natural numbers that is not empty has a least member.
LEMMA LeastMember ==
    ASSUME NEW K \in SUBSET Nat, K # {}
    PROVE  \E k \in K : \A j \in K : k <= j
<1>. DEFINE R == OpToRel(<, Nat)
<1>1. IsWellFoundedOn(R, Nat)
  BY NatLessThanWellFounded
<1>2. PICK k \in K : \A j \in K : ~ <<j, k>> \in R
  <2>. HIDE DEF R
  <2> QED
    BY <1>1, WFMin
<1>3. ASSUME NEW j \in K
      PROVE  k <= j
  <2>1. j \in Nat /\ k \in Nat /\ ~ (j < k)
    BY <1>2 DEF OpToRel
  <2> QED
    BY <2>1
<1> QED
  BY <1>2, <1>3

\* The same up to a bound.
LEMMA InductionUpTo ==
    ASSUME NEW m \in Nat, NEW S, 0 \in S, \A n \in 0 .. m - 1 : n \in S => n + 1 \in S
    PROVE  \A n \in 0 .. m : n \in S
<1>. DEFINE T == {n \in Nat : n \in S \/ n > m}
<1>1. 0 \in T
  OBVIOUS
<1>2. \A n \in Nat : n \in T => n + 1 \in T
  OBVIOUS
<1>. HIDE DEF T
<1>3. \A n \in Nat : n \in T
  BY <1>1, <1>2, Induction
<1> QED
  BY <1>3, SMT DEF T

\* f is computed from a first value, by a step for each number up to m.
Computed(f, m, first, step) ==
    f[0] = first /\ \A i \in 1 .. m : f[i] = step[i][f[i - 1]]

\* A first value, and a step for each number up to a bound, define a function.
LEMMA Recursion ==
    ASSUME NEW m \in Nat, NEW T, NEW a \in T, NEW step \in [1 .. m -> [T -> T]]
    PROVE  \E f \in [0 .. m -> T] : Computed(f, m, a, step)
<1>. DEFINE Defines(f, n) ==
                f \in [0 .. n -> T] /\ f[0] = a /\ \A i \in 1 .. n : f[i] = step[i][f[i - 1]]
            S == {n \in 0 .. m : \E f : Defines(f, n)}
<1>1. 0 \in S
  <2>1. Defines([i \in 0 .. 0 |-> a], 0)
    OBVIOUS
  <2>2. 0 \in 0 .. m
    OBVIOUS
  <2>. HIDE DEF Defines
  <2> QED
    BY <2>1, <2>2
<1>2. \A n \in 0 .. m - 1 : n \in S => n + 1 \in S
  <2> SUFFICES ASSUME NEW n \in 0 .. m - 1, n \in S
               PROVE  n + 1 \in S
    OBVIOUS
  <2>0. n + 1 \in 0 .. m
    BY SMT
  <2>1. PICK f : Defines(f, n)
    OBVIOUS
  <2>. DEFINE g == [i \in 0 .. n + 1 |-> IF i = n + 1 THEN step[n + 1][f[n]] ELSE f[i]]
  <2>2. f[n] \in T /\ n + 1 \in 1 .. m
    BY <2>1, SMT
  <2>3. step[n + 1][f[n]] \in T
    BY <2>2
  <2>4. g \in [0 .. n + 1 -> T] /\ g[0] = a
    BY <2>1, <2>3, SMT
  <2>5. ASSUME NEW i \in 1 .. n + 1
        PROVE  g[i] = step[i][g[i - 1]]
    <3>1. CASE i = n + 1
      BY <3>1, SMT
    <3>2. CASE i # n + 1
      <4>1. i \in 1 .. n /\ g[i] = f[i] /\ g[i - 1] = f[i - 1]
        BY <3>2, SMT
      <4> QED
        BY <4>1, <2>1
    <3> QED
      BY <3>1, <3>2
  <2>6. Defines(g, n + 1)
    BY <2>4, <2>5
  <2>. HIDE DEF Defines, g
  <2> QED
    BY <2>0, <2>6
<1>. HIDE DEF S
<1>3. \A n \in 0 .. m : n \in S
  BY <1>1, <1>2, InductionUpTo
<1>4. m \in S
  BY <1>3
<1> QED
  BY <1>4 DEF S, Computed

\* Natural numbers have partial sums, and those are natural.
LEMMA SumsExist ==
    ASSUME NEW m \in Nat, NEW w \in [1 .. m -> Nat]
    PROVE  \E f \in [0 .. m -> Nat] : f[0] = 0 /\ \A n \in 1 .. m : f[n] = f[n - 1] + w[n]
<1>. DEFINE step == [n \in 1 .. m |-> [x \in Nat |-> x + w[n]]]
<1>1. step \in [1 .. m -> [Nat -> Nat]]
  OBVIOUS
<1>2. PICK f \in [0 .. m -> Nat] : Computed(f, m, 0, step)
  <2>. HIDE DEF step
  <2>1. 0 \in Nat
    OBVIOUS
  <2> QED
    BY <1>1, <2>1, Recursion
<1>3. \A n \in 1 .. m : f[n] = f[n - 1] + w[n]
  <2> TAKE n \in 1 .. m
  <2>1. n - 1 \in 0 .. m
    OBVIOUS
  <2>2. f[n] = step[n][f[n - 1]] /\ f[n - 1] \in Nat
    BY <1>2, <2>1 DEF Computed
  <2> QED
    BY <2>2
<1> QED
  BY <1>2, <1>3 DEF Computed

LEMMA SumsAreNatural ==
    ASSUME NEW m \in Nat, NEW w \in [1 .. m -> Nat],
           NEW f, f[0] = 0, \A n \in 1 .. m : f[n] = f[n - 1] + w[n]
    PROVE  \A n \in 0 .. m : f[n] \in Nat
<1>. DEFINE S == {n \in 0 .. m : f[n] \in Nat}
<1>1. 0 \in S
  OBVIOUS
<1>2. ASSUME NEW n \in 0 .. m - 1, n \in S
      PROVE  n + 1 \in S
  <2>1. n + 1 \in 1 .. m /\ n + 1 \in 0 .. m /\ (n + 1) - 1 = n
    OBVIOUS
  <2>2. f[n + 1] = f[n] + w[n + 1] /\ w[n + 1] \in Nat /\ f[n] \in Nat
    BY <1>2, <2>1
  <2> QED
    BY <2>1, <2>2
<1>. HIDE DEF S
<1>3. \A n \in 0 .. m : n \in S
  BY <1>1, <1>2, InductionUpTo
<1> QED
  BY <1>3 DEF S

-----------------------------------------------------------------------------
(* Powers of two, as numbers of subsets.                                   *)

LEMMA TwoPositive ==
    ASSUME NEW n \in Nat
    PROVE  2^n \in Nat \ {0}
<1>1. IsFiniteSet(1 .. n) /\ Cardinality(1 .. n) = n
  BY FS_Interval, SMT
<1>2. IsFiniteSet(SUBSET (1 .. n)) /\ Cardinality(SUBSET (1 .. n)) = 2^n
  BY <1>1, FS_SUBSET
<1>3. Cardinality(SUBSET (1 .. n)) \in Nat
  BY <1>2, FS_CardinalityType
<1>4. SUBSET (1 .. n) # {}
  OBVIOUS
<1>5. Cardinality(SUBSET (1 .. n)) # 0
  BY <1>2, <1>4, FS_EmptySet
<1> QED
  BY <1>2, <1>3, <1>5

\* A subset of a + b elements is one of the first a and one of the other b.
LEMMA TwoSum ==
    ASSUME NEW a \in Nat, NEW b \in Nat
    PROVE  2^(a + b) = 2^a * 2^b
<1>. DEFINE A == 1 .. a
            B == a + 1 .. a + b
            C == 1 .. a + b
            join == [p \in (SUBSET A) \X (SUBSET B) |-> p[1] \cup p[2]]
<1>1. /\ IsFiniteSet(A) /\ Cardinality(A) = a
      /\ IsFiniteSet(B) /\ Cardinality(B) = b
      /\ IsFiniteSet(C) /\ Cardinality(C) = a + b
  <2>1. a + 1 \in Int /\ a + b \in Int /\ 1 \in Int /\ a \in Int
    OBVIOUS
  <2>2. /\ (IF 1 > a THEN 0 ELSE a - 1 + 1) = a
        /\ (IF a + 1 > a + b THEN 0 ELSE (a + b) - (a + 1) + 1) = b
        /\ (IF 1 > a + b THEN 0 ELSE (a + b) - 1 + 1) = a + b
    OBVIOUS
  <2>3. IsFiniteSet(A) /\ Cardinality(A) = IF 1 > a THEN 0 ELSE a - 1 + 1
    BY <2>1, FS_Interval
  <2>4. IsFiniteSet(B) /\ Cardinality(B) = IF a + 1 > a + b THEN 0 ELSE (a + b) - (a + 1) + 1
    BY <2>1, FS_Interval
  <2>5. IsFiniteSet(C) /\ Cardinality(C) = IF 1 > a + b THEN 0 ELSE (a + b) - 1 + 1
    BY <2>1, FS_Interval
  <2>. HIDE DEF A, B, C
  <2> QED
    BY <2>2, <2>3, <2>4, <2>5
<1>2. A \cup B = C /\ A \cap B = {}
  BY SMT
<1>. HIDE DEF A, B, C
<1>3. /\ IsFiniteSet(SUBSET A) /\ Cardinality(SUBSET A) = 2^a
      /\ IsFiniteSet(SUBSET B) /\ Cardinality(SUBSET B) = 2^b
      /\ IsFiniteSet(SUBSET C) /\ Cardinality(SUBSET C) = 2^(a + b)
  BY <1>1, FS_SUBSET
<1>4. /\ IsFiniteSet((SUBSET A) \X (SUBSET B))
      /\ Cardinality((SUBSET A) \X (SUBSET B)) = 2^a * 2^b
  <2>. DEFINE P == SUBSET A
              Q == SUBSET B
  <2>1. IsFiniteSet(P) /\ IsFiniteSet(Q) /\ Cardinality(P) = 2^a /\ Cardinality(Q) = 2^b
    BY <1>3
  <2>. HIDE DEF P, Q
  <2>2. IsFiniteSet(P \X Q) /\ Cardinality(P \X Q) = Cardinality(P) * Cardinality(Q)
    BY <2>1, FS_Product
  <2> QED
    BY <2>1, <2>2, Zenon DEF P, Q
<1>5. join \in Bijection((SUBSET A) \X (SUBSET B), SUBSET C)
  <2>1. join \in [(SUBSET A) \X (SUBSET B) -> SUBSET C]
    BY <1>2
  <2>2. ASSUME NEW p \in (SUBSET A) \X (SUBSET B), NEW q \in (SUBSET A) \X (SUBSET B),
               join[p] = join[q]
        PROVE  p = q
    <3>1. p[1] = join[p] \cap A /\ p[2] = join[p] \cap B
      BY <1>2
    <3>2. q[1] = join[q] \cap A /\ q[2] = join[q] \cap B
      BY <1>2
    <3>. HIDE DEF join
    <3>3. p[1] = q[1] /\ p[2] = q[2]
      BY <3>1, <3>2, <2>2
    <3> QED
      BY <3>3
  <2>3. ASSUME NEW t \in SUBSET C
        PROVE  \E p \in (SUBSET A) \X (SUBSET B) : join[p] = t
    <3>1. <<t \cap A, t \cap B>> \in (SUBSET A) \X (SUBSET B)
      OBVIOUS
    <3>2. join[<<t \cap A, t \cap B>>] = t
      BY <1>2, <3>1
    <3> QED
      BY <3>1, <3>2
  <2>. HIDE DEF join
  <2> QED
    BY <2>1, <2>2, <2>3, Fun_IsBij
<1>6. Cardinality(SUBSET C) = Cardinality((SUBSET A) \X (SUBSET B))
  <2>1. ExistsBijection((SUBSET A) \X (SUBSET B), SUBSET C)
    BY <1>5 DEF ExistsBijection
  <2> QED
    BY <1>4, <2>1, FS_Bijection
<1> QED
  BY <1>3, <1>4, <1>6

LEMMA TwoValues == 2^0 = 1 /\ 2^1 = 2
  OBVIOUS

LEMMA TwoMonotone ==
    ASSUME NEW a \in Nat, NEW b \in Nat, a <= b
    PROVE  2^a <= 2^b /\ (a < b => 2 * 2^a <= 2^b)
<1>1. ASSUME NEW c \in Nat, NEW d \in Nat, c <= d
      PROVE  2^c <= 2^d
  <2>1. d - c \in Nat /\ c + (d - c) = d
    BY <1>1
  <2>2. 2^d = 2^c * 2^(d - c)
    BY <2>1, TwoSum
  <2>3. 2^c \in Nat \ {0} /\ 2^(d - c) \in Nat \ {0}
    BY <2>1, TwoPositive
  <2> QED
    BY <2>2, <2>3, SMT
<1>2. ASSUME a < b
      PROVE  2 * 2^a <= 2^b
  <2>1. a + 1 \in Nat /\ a + 1 <= b
    BY <1>2
  <2>2. 2^(a + 1) = 2^a * 2^1
    BY TwoSum
  <2>3. 2^(a + 1) <= 2^b
    BY <1>1, <2>1
  <2>4. 2^a \in Nat
    BY TwoPositive
  <2> QED
    BY <2>2, <2>3, <2>4, TwoValues, SMT
<1> QED
  BY <1>1, <1>2

LEMMA TwoExceeds ==
    ASSUME NEW n \in Nat
    PROVE  n < 2^n
<1>. DEFINE S == {k \in Nat : k < 2^k}
<1>1. 0 \in S
  BY TwoValues
<1>2. ASSUME NEW k \in Nat, k \in S
      PROVE  k + 1 \in S
  <2>1. k + 1 \in Nat /\ k < k + 1 /\ 2 * 2^k <= 2^(k + 1)
    BY TwoMonotone
  <2>2. 2^k \in Nat \ {0} /\ 2^(k + 1) \in Nat
    BY <2>1, TwoPositive
  <2> QED
    BY <1>2, <2>1, <2>2
<1>. HIDE DEF S
<1>3. \A k \in Nat : k \in S
  BY <1>1, <1>2, Induction
<1> QED
  BY <1>3 DEF S

-----------------------------------------------------------------------------
(* Quotients and remainders.                                               *)

\* A quotient is the number between two multiples of its divisor.
LEMMA DivMod ==
    ASSUME NEW d \in Nat \ {0}, NEW q \in Int, NEW r \in 0 .. d - 1
    PROVE  (q * d + r) \div d = q /\ (q * d + r) % d = r
<1>. DEFINE n == q * d + r
            k == n \div d
            m == n % d
<1>1. n \in Int
  BY SMT
<1>2. k \in Int /\ m \in 0 .. d - 1 /\ n = d * k + m
  BY <1>1, SMT
<1>3. d * (q - k) = m - r
  BY <1>2, SMT
<1>. HIDE DEF n, k, m
<1>4. ~ q < k
  <2> SUFFICES ASSUME q < k PROVE FALSE
    OBVIOUS
  <2>1. d * (q - k) <= d * (-1)
    BY <1>2, SMT
  <2> QED
    BY <1>2, <1>3, <2>1, SMT
<1>5. ~ k < q
  <2> SUFFICES ASSUME k < q PROVE FALSE
    OBVIOUS
  <2>1. d * (q - k) >= d
    BY <1>2, SMT
  <2> QED
    BY <1>2, <1>3, <2>1, SMT
<1>6. k = q
  BY <1>2, <1>4, <1>5, SMT
<1>7. m = r
  BY <1>2, <1>3, <1>6, SMT
<1> QED
  BY <1>6, <1>7 DEF n, k, m

\* What quotient and remainder are of.
LEMMA DivModOf ==
    ASSUME NEW n \in Nat, NEW d \in Nat \ {0}
    PROVE  n \div d \in Nat /\ n % d \in 0 .. d - 1 /\ n = (n \div d) * d + (n % d)
<1>1. n \div d \in Nat /\ n % d \in 0 .. d - 1 /\ n = d * (n \div d) + (n % d)
  BY SMT
<1>. DEFINE q == n \div d
            r == n % d
<1>. HIDE DEF q, r
<1>2. q \in Nat /\ n = d * q + r
  BY <1>1 DEF q, r
<1>3. d * q = q * d
  BY <1>2, SMT
<1> QED
  BY <1>1, <1>2, <1>3 DEF q, r

\* Below its divisor a number is its own remainder.
LEMMA DivModSmall ==
    ASSUME NEW d \in Nat \ {0}, NEW n \in 0 .. d - 1
    PROVE  n \div d = 0 /\ n % d = n
<1>1. n \in Nat /\ 0 * d + n = n
  BY SMT
<1> QED
  BY <1>1, DivMod

\* What was added is taken away again.
LEMMA ModCancel ==
    ASSUME NEW d \in Nat \ {0}, NEW x \in 0 .. d - 1, NEW y \in 0 .. d - 1
    PROVE  (((x + y) % d) - y) % d = x
<1>1. CASE x + y < d
  <2>1. x + y \in 0 .. d - 1
    BY <1>1
  <2>2. (x + y) % d = x + y
    BY <2>1, DivModSmall
  <2>3. (x + y) - y = x
    OBVIOUS
  <2> QED
    BY <2>2, <2>3, DivModSmall
<1>2. CASE ~ x + y < d
  <2>. DEFINE r == x + y - d
  <2>1. r \in 0 .. d - 1 /\ x + y = 1 * d + r
    BY <1>2
  <2>2. r - y = (-1) * d + x
    OBVIOUS
  <2>. HIDE DEF r
  <2>3. (1 * d + r) % d = r
    BY <2>1, DivMod
  <2>4. ((-1) * d + x) % d = x
    BY DivMod
  <2> QED
    BY <2>1, <2>2, <2>3, <2>4
<1> QED
  BY <1>1, <1>2

\* A quotient is below q exactly where the number is below q times the divisor.
LEMMA DivBelow ==
    ASSUME NEW n \in Nat, NEW d \in Nat \ {0}, NEW q \in Nat
    PROVE  n \div d < q <=> n < q * d
<1>. DEFINE k == n \div d
            r == n % d
<1>1. k \in Nat /\ r \in 0 .. d - 1 /\ n = k * d + r
  BY DivModOf
<1>. HIDE DEF k, r
<1>2. ASSUME k < q
      PROVE  n < q * d
  <2>1. (k + 1) * d <= q * d
    BY <1>1, <1>2, SMT
  <2> QED
    BY <1>1, <2>1, SMT
<1>3. ASSUME ~ k < q
      PROVE  ~ n < q * d
  <2>1. q * d <= k * d
    BY <1>1, <1>3, SMT
  <2>2. q * d \in Nat /\ k * d \in Nat
    BY <1>1, SMT
  <2> QED
    BY <1>1, <2>1, <2>2, SMT
<1> QED
  BY <1>2, <1>3 DEF k

\* Dividing twice: the quotients multiply, and the remainders are digits.
LEMMA DivDiv ==
    ASSUME NEW n \in Nat, NEW a \in Nat \ {0}, NEW b \in Nat \ {0}
    PROVE  /\ (n \div a) \div b = n \div (a * b)
           /\ n % (a * b) = ((n \div a) % b) * a + (n % a)
<1>. DEFINE q == n \div a
            r == n % a
            k == q \div b
            m == q % b
<1>1. q \in Nat /\ r \in 0 .. a - 1 /\ n = q * a + r
  BY DivModOf
<1>2. k \in Nat /\ m \in 0 .. b - 1 /\ q = k * b + m
  BY <1>1, DivModOf
<1>. HIDE DEF q, r, k, m
<1>3. a * b \in Nat \ {0}
  BY SMT
<1>4. m * a + r \in 0 .. a * b - 1
  <2>1. m * a <= (b - 1) * a
    BY <1>2, SMT
  <2>2. (b - 1) * a = a * b - a
    BY SMT
  <2>3. m * a \in Nat
    BY <1>2, SMT
  <2> QED
    BY <1>1, <1>3, <2>1, <2>2, <2>3, SMT
<1>5. n = k * (a * b) + (m * a + r)
  <2>1. q * a = (k * b) * a + m * a
    BY <1>2, SMT
  <2>2. (k * b) * a = k * (a * b)
    BY <1>2, SMT
  <2>3. (k * b) * a \in Int /\ m * a \in Int
    BY <1>2, SMT
  <2> QED
    BY <1>1, <2>1, <2>2, <2>3, SMT
<1>6. n \div (a * b) = k /\ n % (a * b) = m * a + r
  <2>. DEFINE d == a * b
              l == m * a + r
  <2>1. d \in Nat \ {0} /\ l \in 0 .. d - 1 /\ n = k * d + l /\ k \in Int
    BY <1>2, <1>3, <1>4, <1>5
  <2>. HIDE DEF d, l
  <2>2. n \div d = k /\ n % d = l
    BY <2>1, DivMod
  <2> QED
    BY <2>2 DEF d, l
<1> QED
  BY <1>6 DEF k, m, q, r

-----------------------------------------------------------------------------
(* Words that hold entries.                                                *)

\* A quotient is the number between two multiples of its divisor.
LEMMA QuotientIs ==
    ASSUME NEW n \in Nat, NEW d \in Nat \ {0}, NEW q \in Nat, q * d <= n, n < (q + 1) * d
    PROVE  n \div d = q
<1>1. n \div d \in Nat /\ n % d \in 0 .. d - 1 /\ n = d * (n \div d) + (n % d)
  BY SMT
<1>. DEFINE k == n \div d
<1>. HIDE DEF k
<1>2. k \in Nat /\ k * d <= n /\ n < (k + 1) * d
  BY <1>1, SMT DEF k
<1>3. ~ k < q
  <2> SUFFICES ASSUME k < q PROVE FALSE
    OBVIOUS
  <2>1. (k + 1) * d <= q * d
    BY <1>2, SMT
  <2> QED
    BY <1>2, <2>1, SMT
<1>4. ~ q < k
  <2> SUFFICES ASSUME q < k PROVE FALSE
    OBVIOUS
  <2>1. (q + 1) * d <= k * d
    BY <1>2, SMT
  <2> QED
    BY <1>2, <2>1, SMT
<1> QED
  BY <1>2, <1>3, <1>4, SMT DEF k

\* What the scale and the divisor owe each other, over one index.
LEMMA ScaledIndex ==
    ASSUME NEW S \in Nat, NEW d \in Nat \ {0}, NEW R \in Nat, NEW i \in Nat,
           R * d >= S, R * d < S + d, i * d < S,
           NEW q \in Nat, NEW r \in 0 .. d - 1, i = d * q + r
    PROVE  q * S <= i * R /\ i * R < (q + 1) * S
<1>. DEFINE e == R * d - S
<1>0. e \in 0 .. d - 1 /\ R * d = S + e
  BY SMT
<1>. HIDE DEF e
<1>1. i * R = q * (R * d) + r * R
  BY SMT
<1>2. q * S <= q * (R * d)
  BY SMT
<1>3. r * R >= 0
  BY SMT
<1>4. q * S <= i * R
  BY <1>1, <1>2, <1>3, SMT
<1>5. (i * R) * d = i * S + i * e
  <2>1. (i * R) * d = i * (R * d)
    BY SMT
  <2>2. i * (S + e) = i * S + i * e
    BY <1>0, SMT
  <2> QED
    BY <1>0, <2>1, <2>2, SMT
<1>6. i * e <= i * d
  BY <1>0, SMT
<1>7. i + 1 <= (q + 1) * d
  BY SMT
<1>8. (i + 1) * S <= ((q + 1) * d) * S
  BY <1>7, SMT
<1>9. (i + 1) * S = i * S + S
  BY SMT
<1>10. (i * R) * d < ((q + 1) * d) * S
  BY <1>0, <1>5, <1>6, <1>8, <1>9, SMT
<1>11. ((q + 1) * d) * S = ((q + 1) * S) * d
  BY SMT
<1>12. i * R < (q + 1) * S
  <2>1. i * R \in Nat /\ (q + 1) * S \in Nat
    BY SMT
  <2>. DEFINE a == i * R
              b == (q + 1) * S
  <2>. HIDE DEF a, b
  <2>2. a \in Nat /\ b \in Nat /\ a * d < b * d
    BY <1>10, <1>11, <2>1 DEF a, b
  <2>3. a < b
    BY <2>2, SMT
  <2> QED
    BY <2>3 DEF a, b
<1> QED
  BY <1>4, <1>12

\* A number over d, by the reciprocal of d to the scale S, rounded up.
LEMMA ReciprocalExact ==
    ASSUME NEW S \in Nat \ {0}, NEW d \in Nat \ {0}, NEW i \in Nat, i * d < S
    PROVE  (i * ((S + d - 1) \div d)) \div S = i \div d
<1>. DEFINE n == S + d - 1
            R == n \div d
            q == i \div d
            r == i % d
<1>1. n \in Nat
  OBVIOUS
<1>2. n - (n % d) >= S /\ n - (n % d) < S + d /\ n = R * d + (n % d) /\ R \in Nat
  <2>1. n \div d \in Nat /\ n % d \in 0 .. d - 1 /\ n = (n \div d) * d + (n % d)
    <3>. HIDE DEF n
    <3> QED
      BY <1>1, DivModOf
  <2>. DEFINE m == n % d
  <2>. HIDE DEF m, R
  <2>2. m \in 0 .. d - 1 /\ n = R * d + m /\ R \in Nat
    BY <2>1 DEF m, R
  <2>3. n - m >= S /\ n - m < S + d
    BY <2>2
  <2> QED
    BY <2>2, <2>3 DEF m
<1>3. q \in Nat /\ r \in 0 .. d - 1 /\ i = q * d + r
  BY DivModOf
<1>. HIDE DEF n, R, q, r
<1>4. R * d >= S /\ R * d < S + d
  <2>. DEFINE x == R * d
              m == n % d
  <2>1. x \in Nat /\ m \in Int
    BY <1>1, <1>2, SMT
  <2>. HIDE DEF x, m
  <2>2. n = x + m /\ n - m >= S /\ n - m < S + d
    BY <1>2 DEF x, m
  <2> QED
    BY <1>1, <2>1, <2>2 DEF x
<1>5. i = d * q + r
  BY <1>3, SMT
<1>6. q * S <= i * R /\ i * R < (q + 1) * S
  BY <1>2, <1>3, <1>4, <1>5, ScaledIndex
<1>7. i * R \in Nat
  BY <1>2, SMT
<1> QED
  BY <1>3, <1>6, <1>7, QuotientIs DEF R, n, q

\* What there is room for of entries that do not straddle words: an entry's place
\* in its word.
LEMMA EntryPlace ==
    ASSUME NEW W \in Nat \ {0}, NEW b \in 1 .. W \div 2, NEW len \in Nat, NEW i \in 0 .. len - 1
    PROVE  LET d == W \div b
               words == (len + d - 1) \div d
           IN  /\ d \in Nat \ {0} /\ d <= W /\ words \in Nat
               /\ i \div d \in 0 .. words - 1
               /\ i % d \in 0 .. d - 1
               /\ i = (i \div d) * d + (i % d)
               /\ (i % d) * b \in Nat /\ (i % d) * b + b <= W
<1>. DEFINE d == W \div b
            q == i \div d
            r == i % d
            words == (len + d - 1) \div d
<1>1. b * 2 <= W /\ b \in Nat \ {0}
  BY SMT
<1>2. d \in Nat /\ W = d * b + (W % b) /\ W % b \in 0 .. b - 1
  BY <1>1, DivModOf
<1>. HIDE DEF d
<1>3. d # 0
  <2> SUFFICES ASSUME d = 0 PROVE FALSE
    OBVIOUS
  <2>1. W = W % b
    BY <1>1, <1>2, SMT
  <2> QED
    BY <1>1, <1>2, <2>1, SMT
<1>4. d <= W
  <2>1. d <= d * b /\ d * b \in Nat
    BY <1>1, <1>2, SMT
  <2> QED
    BY <1>2, <2>1
<1>5. q \in Nat /\ r \in 0 .. d - 1 /\ i = q * d + r
  <2>1. i \in Nat /\ d \in Nat \ {0}
    BY <1>2, <1>3
  <2> QED
    BY <2>1, DivModOf
<1>. HIDE DEF q, r
<1>6. q < words /\ words \in Nat
  <2>. DEFINE n == len + d - 1
  <2>1. n \in Nat
    BY <1>2, <1>3
  <2>2. (q + 1) * d = q * d + d /\ q * d \in Nat
    BY <1>2, <1>5, SMT
  <2>3. ~ n < (q + 1) * d
    BY <1>2, <1>5, <2>2
  <2>. HIDE DEF n
  <2>4. n \div d \in Nat /\ (n \div d < q + 1 <=> n < (q + 1) * d)
    <3>1. q + 1 \in Nat
      BY <1>5
    <3>2. n \div d \in Nat
      BY <2>1, <1>2, <1>3, DivModOf
    <3>3. n \div d < q + 1 <=> n < (q + 1) * d
      BY <2>1, <1>2, <1>3, <3>1, DivBelow
    <3> QED
      BY <3>2, <3>3
  <2>. DEFINE k == n \div d
  <2>5. words = k
    BY DEF n
  <2>. HIDE DEF k, words
  <2> QED
    BY <1>5, <2>3, <2>4, <2>5 DEF k
<1>7. r * b \in Nat /\ r * b + b <= W
  <2>1. (r + 1) * b <= d * b /\ (r + 1) * b = r * b + b /\ r * b \in Nat /\ d * b \in Nat
    BY <1>1, <1>2, <1>5, SMT
  <2> QED
    BY <1>1, <1>2, <2>1
<1>8. q \in 0 .. words - 1
  BY <1>5, <1>6
<1> QED
  BY <1>2, <1>3, <1>4, <1>5, <1>6, <1>7, <1>8 DEF q, r, d

\* The word of an entry, by the reciprocal of how many there are in one: exact
\* where the entries are fewer than the scale has words.
LEMMA EntryByReciprocal ==
    ASSUME NEW W \in Nat \ {0}, NEW S \in Nat \ {0}, NEW b \in 1 .. W \div 2,
           NEW len \in Nat, len < S \div W, NEW i \in 0 .. len - 1
    PROVE  LET d == W \div b IN (i * ((S + d - 1) \div d)) \div S = i \div d
<1>. DEFINE d == W \div b
<1>1. d \in Nat \ {0} /\ d <= W
  BY EntryPlace
<1>. HIDE DEF d
<1>2. i * W < S
  <2>. DEFINE k == S \div W
  <2>1. k \in Nat /\ S % W \in 0 .. W - 1 /\ S = k * W + (S % W)
    BY DivModOf
  <2>2. i < k
    <3>. HIDE DEF k
    <3>1. len < k
      BY DEF k
    <3> QED
      BY <2>1, <3>1
  <2>. HIDE DEF k
  <2>3. (i + 1) * W <= k * W /\ (i + 1) * W = i * W + W /\ i * W \in Nat /\ k * W \in Nat
    BY <2>1, <2>2, SMT
  <2> QED
    BY <2>1, <2>3
<1>3. i * d < S
  <2>1. i * d <= i * W /\ i * d \in Nat /\ i * W \in Nat
    BY <1>1, SMT
  <2> QED
    BY <1>2, <2>1
<1>4. (i * ((S + d - 1) \div d)) \div S = i \div d
  BY <1>1, <1>3, i \in Nat, ReciprocalExact
<1> QED
  BY <1>4 DEF d

-----------------------------------------------------------------------------
(* The fields of a word: `width` bits at an offset.                        *)

WordField(word, offset, width) == (word \div 2^offset) % 2^width

\* The word with another value in that field.
WordWith(word, offset, width, value) ==
    (word - WordField(word, offset, width) * 2^offset) + value * 2^offset

\* A field of a word is what lies between the bits above and the bits below it.
LEMMA FieldOf ==
    ASSUME NEW o \in Nat, NEW b \in Nat, NEW a \in Nat, NEW f \in 0 .. 2^b - 1,
           NEW low \in 0 .. 2^o - 1
    PROVE  /\ WordField((a * 2^b + f) * 2^o + low, o, b) = f
           /\ ((a * 2^b + f) * 2^o + low) \div 2^o = a * 2^b + f
<1>1. 2^o \in Nat \ {0} /\ 2^b \in Nat \ {0}
  BY TwoPositive
<1>. DEFINE q == a * 2^b + f
<1>2. q \in Int
  BY <1>1, SMT
<1>3. q % 2^b = f
  BY <1>1, DivMod
<1>. HIDE DEF q
<1>4. (q * 2^o + low) \div 2^o = q
  BY <1>1, <1>2, DivMod
<1> QED
  BY <1>3, <1>4 DEF WordField, q

\* What lies above a field does not show in it.
LEMMA FieldBelow ==
    ASSUME NEW o \in Nat, NEW b \in Nat, NEW p \in Nat, p + b <= o,
           NEW k \in Nat, NEW low \in 0 .. 2^o - 1
    PROVE  WordField(k * 2^o + low, p, b) = WordField(low, p, b)
<1>. DEFINE t == (o - p) - b
            P == 2^p
            B == 2^b
            T == 2^t
<1>1. t \in Nat /\ o = p + (b + t) /\ b + t \in Nat
  BY SMT
<1>. HIDE DEF t
<1>2. P \in Nat \ {0} /\ B \in Nat \ {0} /\ T \in Nat \ {0}
  BY <1>1, TwoPositive
<1>3. 2^o = P * (B * T)
  <2>1. 2^o = 2^p * 2^(b + t)
    BY <1>1, TwoSum
  <2>2. 2^(b + t) = 2^b * 2^t
    BY <1>1, TwoSum
  <2> QED
    BY <2>1, <2>2
<1>4. low \in Nat
  <2>1. 2^o \in Nat
    BY TwoPositive
  <2> QED
    BY <2>1
<1>. HIDE DEF P, B, T
<1>. DEFINE q == low \div P
            r == low % P
            q1 == q \div B
            q2 == q % B
<1>5. q \in Nat /\ r \in 0 .. P - 1 /\ low = q * P + r
  BY <1>2, <1>4, DivModOf
<1>. HIDE DEF q, r
<1>6. q1 \in Nat /\ q2 \in 0 .. B - 1 /\ q = q1 * B + q2
  BY <1>2, <1>5, DivModOf
<1>. HIDE DEF q1, q2
<1>. DEFINE h == k * T + q1
            n == k * 2^o + low
<1>7. h \in Nat /\ k * T \in Nat
  BY <1>2, <1>6, SMT
<1>8. n = (h * B + q2) * P + r
  <2>. DEFINE x == k * T
  <2>1. k * 2^o = (x * B) * P
    BY <1>2, <1>3, SMT
  <2>. HIDE DEF x
  <2>2. x \in Nat
    BY <1>7 DEF x
  <2>3. h * B = x * B + q1 * B
    BY <1>2, <1>6, <2>2, SMT DEF x
  <2>. DEFINE y == x * B
              z == q1 * B
  <2>4. y \in Nat /\ z \in Nat
    BY <1>2, <1>6, <2>2, SMT
  <2>. HIDE DEF y, z, h
  <2>5. q = z + q2 /\ h * B = y + z /\ k * 2^o = y * P
    BY <1>6, <2>1, <2>3 DEF y, z
  <2>6. ((y + z) + q2) * P = y * P + (z + q2) * P
    BY <1>2, <1>6, <2>4, SMT
  <2>. DEFINE u == y * P
              w == (z + q2) * P
  <2>7. u \in Nat /\ w \in Nat
    BY <1>2, <1>6, <2>4, SMT
  <2>. HIDE DEF u, w
  <2>8. n = u + (w + r) /\ (h * B + q2) * P = u + w
    BY <1>5, <2>5, <2>6 DEF u, w
  <2>9. r \in Nat
    BY <1>2, <1>5
  <2> QED
    BY <2>7, <2>8, <2>9, SMT
<1>. HIDE DEF h, n
<1>9. n \div P = h * B + q2
  <2>1. h * B + q2 \in Int
    BY <1>2, <1>6, <1>7, SMT
  <2> QED
    BY <1>2, <1>5, <1>8, <2>1, DivMod
<1>10. (n \div P) % B = q2
  <2>1. (h * B + q2) % B = q2
    BY <1>2, <1>6, <1>7, DivMod
  <2> QED
    BY <1>9, <2>1
<1> QED
  BY <1>10 DEF WordField, n, P, B, q2, q

\* What lies below a field does not show in it.
LEMMA FieldAbove ==
    ASSUME NEW o \in Nat, NEW b \in Nat, NEW p \in Nat, o + b <= p,
           NEW a \in Nat, NEW f \in 0 .. 2^b - 1, NEW low \in 0 .. 2^o - 1
    PROVE  WordField((a * 2^b + f) * 2^o + low, p, b) = WordField(a, (p - o) - b, b)
<1>. DEFINE t == (p - o) - b
            P == 2^o
            B == 2^b
            T == 2^t
            m == f * P + low
            n == (a * B + f) * P + low
<1>1. t \in Nat /\ p = o + (b + t) /\ b + t \in Nat /\ o + b \in Nat
  BY SMT
<1>. HIDE DEF t
<1>2. P \in Nat \ {0} /\ B \in Nat \ {0} /\ T \in Nat \ {0}
  BY <1>1, TwoPositive
<1>3. 2^p = (P * B) * T
  <2>1. p = (o + b) + t
    BY <1>1
  <2>2. 2^((o + b) + t) = 2^(o + b) * 2^t
    BY <1>1, TwoSum
  <2>3. 2^(o + b) = 2^o * 2^b
    BY TwoSum
  <2> QED
    BY <2>1, <2>2, <2>3
<1>. HIDE DEF P, B, T
<1>4. f \in Nat /\ f <= B - 1 /\ low \in Nat /\ low <= P - 1
  BY <1>2 DEF B, P
<1>5. m \in 0 .. P * B - 1
  <2>1. f * P <= (B - 1) * P
    BY <1>2, <1>4, SMT
  <2>2. (B - 1) * P = P * B - P /\ P * B \in Nat /\ f * P \in Nat
    BY <1>2, <1>4, SMT
  <2> QED
    BY <1>2, <1>4, <2>1, <2>2
<1>6. n = a * (P * B) + m /\ P * B \in Nat \ {0} /\ n \in Nat
  BY <1>2, <1>4, SMT
<1>. HIDE DEF m, n
<1>7. n \div (P * B) = a
  BY <1>5, <1>6, DivMod
<1>8. (n \div (P * B)) \div T = n \div ((P * B) * T)
  BY <1>2, <1>6, DivDiv
<1> QED
  BY <1>3, <1>7, <1>8 DEF WordField, n, P, B, T, t

\* Writing a field: the word stays a word, the field holds the value, and no
\* other field beside it changes.
LEMMA FieldWritten ==
    ASSUME NEW W \in Nat, NEW word \in 0 .. 2^W - 1, NEW o \in Nat, NEW b \in Nat, o + b <= W,
           NEW v \in 0 .. 2^b - 1
    PROVE  /\ WordWith(word, o, b, v) \in 0 .. 2^W - 1
           /\ WordField(WordWith(word, o, b, v), o, b) = v
           /\ \A p \in Nat : p + b <= o \/ o + b <= p =>
                 WordField(WordWith(word, o, b, v), p, b) = WordField(word, p, b)
<1>. DEFINE t == (W - o) - b
            P == 2^o
            B == 2^b
            T == 2^t
            q == word \div P
            low == word % P
            a == q \div B
            f == q % B
            new == (word - f * P) + v * P
<1>1. t \in Nat /\ W = o + (b + t) /\ b + t \in Nat
  BY SMT
<1>. HIDE DEF t
<1>2. P \in Nat \ {0} /\ B \in Nat \ {0} /\ T \in Nat \ {0} /\ 2^W \in Nat
  BY <1>1, TwoPositive
<1>3. 2^W = P * (B * T)
  <2>1. 2^W = 2^o * 2^(b + t)
    BY <1>1, TwoSum
  <2>2. 2^(b + t) = 2^b * 2^t
    BY <1>1, TwoSum
  <2> QED
    BY <2>1, <2>2
<1>4. word \in Nat /\ word < 2^W
  BY <1>2
<1>. HIDE DEF P, B, T
<1>5. q \in Nat /\ low \in 0 .. P - 1 /\ word = q * P + low
  BY <1>2, <1>4, DivModOf
<1>6. q < B * T
  <2>1. word < (B * T) * P /\ B * T \in Nat
    BY <1>2, <1>3, <1>4, SMT
  <2> QED
    BY <1>2, <1>4, <2>1, DivBelow
<1>. HIDE DEF q, low
<1>7. a \in Nat /\ f \in 0 .. B - 1 /\ q = a * B + f
  BY <1>2, <1>5, DivModOf
<1>8. a < T
  <2>1. q < T * B
    BY <1>2, <1>5, <1>6, SMT
  <2> QED
    BY <1>2, <1>5, <2>1, DivBelow
<1>9. WordField(word, o, b) = f
  BY DEF WordField, f, q, P, B
<1>. HIDE DEF a, f
<1>10. v \in 0 .. B - 1
  BY DEF B
<1>11. word = (a * B + f) * P + low /\ new = (a * B + v) * P + low
  <2>1. word = (a * B + f) * P + low
    BY <1>5, <1>7
  <2>. DEFINE x == a * B
  <2>2. x \in Nat /\ v \in Nat /\ f \in Nat /\ low \in Nat
    BY <1>2, <1>5, <1>7, <1>10, SMT
  <2>. HIDE DEF x
  <2>3. (x + f) * P = x * P + f * P /\ (x + v) * P = x * P + v * P
    BY <1>2, <2>2, SMT
  <2>4. x * P \in Nat /\ f * P \in Nat /\ v * P \in Nat
    BY <1>2, <2>2, SMT
  <2>5. word = (x * P + f * P) + low
    BY <2>1, <2>3 DEF x
  <2>6. new = (x * P + v * P) + low
    BY <2>2, <2>4, <2>5, SMT
  <2> QED
    BY <2>1, <2>3, <2>6 DEF x
<1>. HIDE DEF new
<1>12. new \in 0 .. 2^W - 1
  <2>1. (a + 1) * B <= T * B /\ a * B \in Nat /\ (a + 1) * B = a * B + B
    BY <1>2, <1>7, <1>8, SMT
  <2>. DEFINE x == a * B + v
              y == T * B
  <2>2. x \in Nat /\ x + 1 <= y /\ y \in Nat
    BY <1>2, <1>10, <2>1, SMT
  <2>3. P * (B * T) = y * P
    BY <1>2, SMT
  <2>. HIDE DEF x, y
  <2>4. (x + 1) * P <= y * P /\ (x + 1) * P = x * P + P /\ x * P \in Nat
    BY <1>2, <2>2, SMT
  <2>5. new = x * P + low
    BY <1>11 DEF x
  <2> QED
    BY <1>2, <1>3, <1>5, <2>3, <2>4, <2>5
<1>13. WordField(new, o, b) = v
  BY <1>5, <1>7, <1>10, <1>11, FieldOf DEF P, B
<1>14. ASSUME NEW p \in Nat, p + b <= o
       PROVE  WordField(new, p, b) = WordField(word, p, b)
  <2>1. a * B + f \in Nat /\ a * B + v \in Nat
    BY <1>2, <1>7, <1>10, SMT
  <2>2. \A k \in Nat : WordField(k * P + low, p, b) = WordField(low, p, b)
    <3> TAKE k \in Nat
    <3>1. low \in 0 .. 2^o - 1
      BY <1>5 DEF P
    <3>2. WordField(k * 2^o + low, p, b) = WordField(low, p, b)
      BY <1>14, <3>1, FieldBelow
    <3> QED
      BY <3>2 DEF P
  <2>3. WordField((a * B + v) * P + low, p, b) = WordField(low, p, b)
    BY <2>1, <2>2, Zenon
  <2>4. WordField((a * B + f) * P + low, p, b) = WordField(low, p, b)
    BY <2>1, <2>2, Zenon
  <2> QED
    BY <1>11, <2>3, <2>4
<1>15. ASSUME NEW p \in Nat, o + b <= p
       PROVE  WordField(new, p, b) = WordField(word, p, b)
  <2>1. ASSUME NEW g \in 0 .. B - 1
        PROVE  WordField((a * B + g) * P + low, p, b) = WordField(a, (p - o) - b, b)
    <3>1. low \in 0 .. 2^o - 1 /\ g \in 0 .. 2^b - 1 /\ a \in Nat
      BY <1>5, <1>7 DEF P, B
    <3>2. o + b <= p
      BY <1>15
    <3>3. \A c \in Nat : \A h \in 0 .. 2^b - 1 : \A l \in 0 .. 2^o - 1 :
             WordField((c * 2^b + h) * 2^o + l, p, b) = WordField(c, (p - o) - b, b)
      BY <3>2, FieldAbove
    <3>4. WordField((a * 2^b + g) * 2^o + low, p, b) = WordField(a, (p - o) - b, b)
      BY <3>1, <3>3, Zenon
    <3> QED
      BY <3>4 DEF P, B
  <2> QED
    BY <1>7, <1>10, <1>11, <2>1
<1>16. new = WordWith(word, o, b, v)
  BY <1>9 DEF new, P, WordWith
<1> QED
  BY <1>12, <1>13, <1>14, <1>15, <1>16

-----------------------------------------------------------------------------
(* A word after the other, W \div b entries of b bits in each.             *)

Packings(W, b, len) == [0 .. (len + (W \div b) - 1) \div (W \div b) - 1 -> 0 .. 2^W - 1]

PackedEntry(W, b, data, i) == WordField(data[i \div (W \div b)], (i % (W \div b)) * b, b)

PackedPut(W, b, data, i, v) ==
    LET cell == i \div (W \div b)
        offset == (i % (W \div b)) * b
    IN  [data EXCEPT ![cell] = WordWith(data[cell], offset, b, v)]

\* A write changes the entry it names and no other.
LEMMA PackedPutIs ==
    ASSUME NEW W \in Nat \ {0}, NEW b \in 1 .. W \div 2, NEW len \in Nat,
           NEW data \in Packings(W, b, len), NEW i \in 0 .. len - 1, NEW v \in 0 .. 2^b - 1
    PROVE  /\ PackedPut(W, b, data, i, v) \in Packings(W, b, len)
           /\ \A j \in 0 .. len - 1 :
                 PackedEntry(W, b, PackedPut(W, b, data, i, v), j) =
                     IF j = i THEN v ELSE PackedEntry(W, b, data, j)
<1>. DEFINE d == W \div b
            words == (len + d - 1) \div d
            q(j) == j \div d
            p(j) == (j % d) * b
            word == data[q(i)]
            new == WordWith(word, p(i), b, v)
            after == PackedPut(W, b, data, i, v)
<1>1. data \in [0 .. words - 1 -> 0 .. 2^W - 1]
  BY DEF Packings
<1>2. /\ d \in Nat \ {0}
      /\ \A j \in 0 .. len - 1 :
            /\ q(j) \in 0 .. words - 1
            /\ j % d \in 0 .. d - 1 /\ j = q(j) * d + (j % d)
            /\ p(j) \in Nat /\ p(j) + b <= W
  BY EntryPlace
<1>3. after = [data EXCEPT ![q(i)] = new]
  BY DEF PackedPut
<1>4. b \in Nat /\ W \in Nat
  BY SMT
<1>. HIDE DEF words
<1>5. word \in 0 .. 2^W - 1
  BY <1>1, <1>2
<1>6. /\ new \in 0 .. 2^W - 1
      /\ WordField(new, p(i), b) = v
      /\ \A k \in Nat : k + b <= p(i) \/ p(i) + b <= k =>
            WordField(new, k, b) = WordField(word, k, b)
  <2>. DEFINE o == p(i)
  <2>1. o \in Nat /\ o + b <= W
    BY <1>2
  <2>. HIDE DEF o, word
  <2>2. v \in 0 .. 2^b - 1
    OBVIOUS
  <2>. HIDE DEF d, q, p
  <2>3. WordWith(word, o, b, v) \in 0 .. 2^W - 1
    BY <1>4, <1>5, <2>1, <2>2, FieldWritten
  <2>4. WordField(WordWith(word, o, b, v), o, b) = v
    BY <1>4, <1>5, <2>1, <2>2, FieldWritten
  <2>5. \A k \in Nat : k + b <= o \/ o + b <= k =>
           WordField(WordWith(word, o, b, v), k, b) = WordField(word, k, b)
    BY <1>4, <1>5, <2>1, <2>2, FieldWritten
  <2> QED
    BY <2>3, <2>4, <2>5 DEF o
<1>. HIDE DEF new, word, after
<1>7. after \in [0 .. words - 1 -> 0 .. 2^W - 1]
  <2>. HIDE DEF q
  <2> QED
    BY <1>1, <1>3, <1>6
<1>8. ASSUME NEW j \in 0 .. len - 1
      PROVE  PackedEntry(W, b, after, j) = IF j = i THEN v ELSE PackedEntry(W, b, data, j)
  <2>1. PackedEntry(W, b, after, j) = WordField(after[q(j)], p(j), b)
    BY DEF PackedEntry
  <2>2. PackedEntry(W, b, data, j) = WordField(data[q(j)], p(j), b)
    BY DEF PackedEntry
  <2>3. q(j) \in 0 .. words - 1 /\ q(i) \in 0 .. words - 1
    BY <1>2
  <2>4. CASE q(j) # q(i)
    <3>1. after[q(j)] = data[q(j)]
      BY <1>1, <1>3, <2>3, <2>4
    <3>2. j # i
      BY <2>4
    <3> QED
      BY <2>1, <2>2, <3>1, <3>2
  <2>5. CASE q(j) = q(i) /\ j # i
    <3>1. after[q(j)] = new /\ data[q(j)] = word
      BY <1>1, <1>3, <2>3, <2>5 DEF word
    <3>2. p(j) + b <= p(i) \/ p(i) + b <= p(j)
      <4>. DEFINE x == j % d
                  y == i % d
      <4>1. x \in Nat /\ y \in Nat /\ x # y
        <5>1. x \in 0 .. d - 1 /\ y \in 0 .. d - 1 /\ j = q(j) * d + x /\ i = q(i) * d + y
          BY <1>2
        <5> QED
          BY <2>5, <5>1
      <4>2. p(j) = x * b /\ p(i) = y * b
        OBVIOUS
      <4>. HIDE DEF x, y, p
      <4>3. CASE x < y
        <5>1. (x + 1) * b <= y * b /\ (x + 1) * b = x * b + b
          BY <1>4, <4>1, <4>3, SMT
        <5> QED
          BY <4>2, <5>1
      <4>4. CASE y < x
        <5>1. (y + 1) * b <= x * b /\ (y + 1) * b = y * b + b
          BY <1>4, <4>1, <4>4, SMT
        <5> QED
          BY <4>2, <5>1
      <4> QED
        BY <4>1, <4>3, <4>4
    <3>3. p(j) \in Nat
      BY <1>2
    <3>4. WordField(new, p(j), b) = WordField(word, p(j), b)
      BY <1>6, <3>2, <3>3
    <3> QED
      BY <2>1, <2>2, <2>5, <3>1, <3>4
  <2>6. CASE j = i
    <3>1. after[q(j)] = new
      BY <1>1, <1>3, <2>3, <2>6
    <3> QED
      BY <1>6, <2>1, <2>6, <3>1
  <2> QED
    BY <2>4, <2>5, <2>6
<1> QED
  BY <1>7, <1>8 DEF after, words, Packings

\* Words of zeros hold zeros.
LEMMA PackedZeros ==
    ASSUME NEW W \in Nat \ {0}, NEW b \in 1 .. W \div 2, NEW len \in Nat
    PROVE  LET zeros == [cell \in 0 .. (len + (W \div b) - 1) \div (W \div b) - 1 |-> 0]
           IN  /\ zeros \in Packings(W, b, len)
               /\ \A j \in 0 .. len - 1 : PackedEntry(W, b, zeros, j) = 0
<1>. DEFINE d == W \div b
            words == (len + d - 1) \div d
            zeros == [cell \in 0 .. words - 1 |-> 0]
<1>1. 0 \in 0 .. 2^W - 1 /\ b \in Nat
  <2>1. 2^W \in Nat \ {0}
    BY TwoPositive
  <2> QED
    BY <2>1
<1>2. zeros \in Packings(W, b, len)
  BY <1>1 DEF Packings
<1>3. ASSUME NEW j \in 0 .. len - 1
      PROVE  PackedEntry(W, b, zeros, j) = 0
  <2>. DEFINE q == j \div d
              p == (j % d) * b
  <2>1. q \in 0 .. words - 1 /\ p \in Nat
    BY EntryPlace
  <2>2. zeros[q] = 0
    <3>. HIDE DEF words, q
    <3> QED
      BY <2>1
  <2>3. PackedEntry(W, b, zeros, j) = WordField(0, p, b)
    <3>. HIDE DEF zeros
    <3> QED
      BY <2>2 DEF PackedEntry
  <2>. HIDE DEF p
  <2>4. 2^p \in Nat \ {0} /\ 2^b \in Nat \ {0}
    BY <1>1, <2>1, TwoPositive
  <2>5. 0 \in 0 .. 2^p - 1 /\ 0 \in 0 .. 2^b - 1
    BY <2>4
  <2>6. 0 \div 2^p = 0
    BY <2>4, <2>5, DivModSmall
  <2>7. 0 % 2^b = 0
    BY <2>4, <2>5, DivModSmall
  <2> QED
    BY <2>3, <2>6, <2>7 DEF WordField
<1> QED
  BY <1>2, <1>3
-----------------------------------------------------------------------------
(* Numbers and their digits.                                               *)

\* What has been added up of digits of g bits each, the lowest first.
AddsUp(sum, d, g, k) ==
    sum[0] = 0 /\ \A i \in 1 .. k : sum[i] = sum[i - 1] + d[i] * 2^(g * (i - 1))

Weight(g, i) == 2^(g * (i - 1))

\* The digit at a place, of numbers in some base.
DigitAt(n, place, base) == (n \div place) % base

\* A digit above some others, and one of those.
LEMMA DigitOnTop ==
    ASSUME NEW P \in Nat \ {0}, NEW B \in Nat \ {0}, NEW s \in Nat, s < P, NEW e \in 0 .. B - 1
    PROVE  /\ s + e * P < P * B
           /\ DigitAt(s + e * P, P, B) = e
<1>1. P \in Nat /\ P > 0 /\ B \in Nat /\ e \in Nat /\ e + 1 <= B /\ s \in 0 .. P - 1
  OBVIOUS
<1>2. (e * P + s) \div P = e
  BY <1>1, DivMod
<1>3. s + e * P = e * P + s
  BY <1>1
<1>4. e % B = e
  BY DivModSmall
<1>5. (e + 1) * P <= B * P
  BY <1>1, SMT
<1>6. (e + 1) * P = e * P + P /\ B * P = P * B
  BY <1>1, SMT
<1>. DEFINE x == e * P
            y == P * B
<1>7. x \in Nat /\ y \in Nat /\ x + P <= y
  BY <1>1, <1>5, <1>6
<1>. HIDE DEF x, y
<1>8. s + x < y
  BY <1>1, <1>7
<1> QED
  BY <1>2, <1>3, <1>4, <1>8 DEF x, y, DigitAt

\* A number, and above it a digit e whose place is R digits of base B beyond Q.
OnTop(t, s, e, Q, B, R) == t = s + e * (Q * B * R)

LEMMA DigitBelow ==
    ASSUME NEW Q \in Nat \ {0}, NEW B \in Nat \ {0}, NEW R \in Nat,
           NEW s \in Nat, NEW e \in Nat, NEW t, OnTop(t, s, e, Q, B, R)
    PROVE  DigitAt(t, Q, B) = DigitAt(s, Q, B)
<1>. DEFINE q == s \div Q
            r == s % Q
            h == q \div B
            c == q % B
<1>1. q \in Nat /\ r \in 0 .. Q - 1 /\ s = q * Q + r
  BY DivModOf
<1>. HIDE DEF q, r
<1>2. h \in Nat /\ c \in 0 .. B - 1 /\ q = h * B + c
  BY <1>1, DivModOf
<1>. HIDE DEF h, c
<1>. DEFINE f == e * R
            a == f * B + q
            b == f + h
<1>3. f \in Nat
  BY SMT
<1>4. e * (Q * B * R) = (f * B) * Q
  BY SMT
<1>. HIDE DEF f
<1>5. a \in Nat /\ b \in Nat /\ f * B \in Nat
  BY <1>1, <1>2, <1>3, SMT
<1>6. a * Q = (f * B) * Q + q * Q
  BY <1>1, <1>5, SMT
<1>7. s + (f * B) * Q = a * Q + r
  <2>. DEFINE u == (f * B) * Q
              v == q * Q
  <2>1. u \in Nat /\ v \in Nat /\ r \in Nat
    BY <1>1, <1>5, SMT
  <2>. HIDE DEF u, v
  <2>2. s = v + r /\ a * Q = u + v
    BY <1>1, <1>6 DEF u, v
  <2>3. s + u = (u + v) + r
    BY <2>1, <2>2
  <2> QED
    BY <2>2, <2>3 DEF u
<1>8. b * B = f * B + h * B
  BY <1>2, <1>3, SMT
<1>9. a = b * B + c
  BY <1>2, <1>3, <1>8, SMT
<1>. HIDE DEF a, b
<1>20. a \in Int /\ b \in Int /\ r \in 0 .. Q - 1 /\ c \in 0 .. B - 1
  BY <1>1, <1>2, <1>5
<1>10. (a * Q + r) \div Q = a
  BY <1>20, DivMod
<1>11. (b * B + c) % B = c
  BY <1>20, DivMod
<1>12. t \div Q = a
  BY <1>4, <1>7, <1>10 DEF OnTop
<1> QED
  BY <1>9, <1>11, <1>12 DEF c, q, DigitAt

\* Each sum stays below the next weight and has the digits added up to it.
HasDigits(sum, d, g, k) ==
    \A n \in 0 .. k :
        /\ sum[n] < 2^(g * n)
        /\ \A i \in 1 .. n : DigitAt(sum[n], Weight(g, i), 2^g) = d[i]

\* The digits of what was added up are those that were added.
LEMMA DigitsOf ==
    ASSUME NEW g \in Nat, NEW k \in Nat, NEW d \in [1 .. k -> 0 .. 2^g - 1],
           NEW sum \in [0 .. k -> Nat], AddsUp(sum, d, g, k)
    PROVE  HasDigits(sum, d, g, k)
<1>. DEFINE B == 2^g
            Right(n) == /\ sum[n] < 2^(g * n)
                        /\ \A i \in 1 .. n : DigitAt(sum[n], 2^(g * (i - 1)), B) = d[i]
            S == {n \in 0 .. k : Right(n)}
<1>0. B \in Nat \ {0}
  BY TwoPositive
<1>1. 0 \in S
  <2>0. g * 0 = 0
    BY SMT
  <2>1. sum[0] = 0 /\ g * 0 = 0 /\ 2^0 = 1
    BY <2>0, TwoValues DEF AddsUp
  <2>2. 0 \in 0 .. k /\ 1 .. 0 = {}
    OBVIOUS
  <2>. DEFINE y == 2^(g * 0)
  <2>4. y = 1
    BY <2>1, Zenon
  <2>. HIDE DEF y
  <2>5. sum[0] < y
    BY <2>1, <2>4
  <2>3. sum[0] < 2^(g * 0)
    BY <2>5, Zenon DEF y
  <2> QED
    BY <2>2, <2>3
<1>2. ASSUME NEW n \in 0 .. k - 1, n \in S
      PROVE  n + 1 \in S
  <2>. DEFINE P == 2^(g * n)
              m == n + 1
              e == d[m]
              s == sum[n]
  <2>1. n \in Nat /\ m \in 1 .. k /\ m \in 0 .. k /\ m - 1 = n /\ g * n \in Nat
    BY SMT
  <2>2. P \in Nat \ {0} /\ s \in Nat /\ e \in 0 .. B - 1
    BY <2>1, TwoPositive
  <2>3. sum[m] = s + e * P
    BY <2>1 DEF AddsUp
  <2>4. s < P /\ \A i \in 1 .. n : DigitAt(s, 2^(g * (i - 1)), B) = d[i]
    BY <1>2
  <2>5. 2^(g * m) = P * B
    <3>1. g * m = g * n + g
      BY <2>1, SMT
    <3> QED
      BY <2>1, <3>1, TwoSum
  <2>6. ASSUME NEW i \in 1 .. n
        PROVE  DigitAt(sum[m], 2^(g * (i - 1)), B) = d[i]
    <3>. DEFINE Q == 2^(g * (i - 1))
                R == 2^(g * (n - i))
    <3>1. i - 1 \in Nat /\ n - i \in Nat
      BY <2>1
    <3>2. g * (i - 1) \in Nat /\ g * (n - i) \in Nat /\ g * n = (g * (i - 1) + g) + g * (n - i)
          /\ g * (i - 1) + g \in Nat
      BY <2>1, <3>1, SMT
    <3>3. Q \in Nat \ {0} /\ R \in Nat
      BY <3>2, TwoPositive
    <3>4. 2^(g * (i - 1) + g) = Q * B /\ P = 2^(g * (i - 1) + g) * R
      BY <3>2, TwoSum
    <3>5. OnTop(sum[m], s, e, Q, B, R)
      BY <2>3, <3>4 DEF OnTop
    <3>. HIDE DEF Q, R, P, B, e, s, m
    <3>6. Q \in Nat \ {0} /\ B \in Nat \ {0} /\ R \in Nat /\ s \in Nat /\ e \in Nat
      BY <1>0, <2>2, <3>3
    <3>7. DigitAt(sum[m], Q, B) = DigitAt(s, Q, B)
      BY <3>5, <3>6, DigitBelow
    <3>8. DigitAt(s, Q, B) = d[i]
      BY <2>4, Zenon DEF Q
    <3>9. DigitAt(sum[m], Q, B) = d[i]
      BY <3>7, <3>8, Zenon
    <3> QED
      BY <3>9, Zenon DEF Q
  <2>. HIDE DEF P, B, e, s
  <2>7. s + e * P < P * B /\ DigitAt(s + e * P, P, B) = e
    BY <1>0, <2>2, <2>4, DigitOnTop
  <2>8. \A i \in 1 .. m : i = m \/ i \in 1 .. n
    BY <2>1
  <2>. HIDE DEF m
  <2>9. DigitAt(sum[m], 2^(g * (m - 1)), B) = d[m]
    BY <2>1, <2>3, <2>7 DEF P, e
  <2>10. Right(m)
    BY <2>3, <2>5, <2>6, <2>7, <2>8, <2>9
  <2> QED
    BY <2>1, <2>10 DEF m
<1>. HIDE DEF S
<1>3. \A n \in 0 .. k : n \in S
  BY <1>1, <1>2, InductionUpTo
<1> QED
  BY <1>3 DEF S, Weight, HasDigits

-----------------------------------------------------------------------------
(* Varints.                                                                *)

\* Where the i-th group of an integer begins.
Place(i) == 2^(Group * (i - 1))

\* The i-th group.
Digit(v, i) == (v \div Place(i)) % Base

LEMMA BaseIs == Base = 2^Group
BY VarintAssumption

\* Putting bytes together is associative.
LEMMA BytesAssociate == \A s, t, u \in Seq(Byte) : (s \o t) \o u = s \o (t \o u)
  BY ConcatAssociative, SMT

LEMMA PlaceIs ==
    /\ Base \in Nat \ {0} /\ Place(1) = 1
    /\ \A i \in Nat \ {0} : Place(i) \in Nat \ {0} /\ Place(i + 1) = Place(i) * Base
    /\ \A i, j \in Nat \ {0} : i <= j => Place(i) <= Place(j)
<1>1. Group \in Nat \ {0}
  BY VarintAssumption
<1>2. \A i \in Nat \ {0} : Group * (i - 1) \in Nat
  BY <1>1, SMT
<1>3. Place(1) = 1
  <2>1. Group * (1 - 1) = 0
    BY <1>1, SMT
  <2> QED
    BY <2>1, TwoValues DEF Place
<1>4. ASSUME NEW i \in Nat \ {0}
      PROVE  Place(i) \in Nat \ {0} /\ Place(i + 1) = Place(i) * Base
  <2>. DEFINE g == Group * (i - 1)
  <2>1. g \in Nat /\ Group * (i + 1 - 1) = g + Group
    BY <1>1, SMT
  <2>. HIDE DEF g
  <2>2. 2^(g + Group) = 2^g * 2^Group /\ 2^g \in Nat \ {0}
    BY <1>1, <2>1, TwoSum, TwoPositive
  <2> QED
    BY <2>1, <2>2, BaseIs DEF Place, g
<1>5. ASSUME NEW i \in Nat \ {0}, NEW j \in Nat \ {0}, i <= j
      PROVE  Place(i) <= Place(j)
  <2>1. Group * (i - 1) <= Group * (j - 1)
    BY <1>1, <1>5, SMT
  <2> QED
    BY <1>2, <2>1, TwoMonotone DEF Place
<1> QED
  BY <1>1, <1>3, <1>4, <1>5, TwoPositive, BaseIs

\* Every integer has a width: the number of its bits.
LEMMA WidthOf ==
    ASSUME NEW v \in Unsigned
    PROVE  \E b \in 0 .. Width : v < 2^b /\ (b = 0 \/ v >= 2^(b - 1))
<1>0. Width \in Nat
  BY VarintAssumption
<1>1. v \in Nat /\ v < 2^Width
  <2>1. 2^Width \in Nat
    BY <1>0, TwoPositive
  <2> QED
    BY <2>1, SMT DEF Unsigned
<1>2. SUFFICES ASSUME \A b \in 0 .. Width : v < 2^b => b # 0 /\ v < 2^(b - 1)
               PROVE  FALSE
  <2>1. \A b \in 0 .. Width : 2^b \in Nat
    BY <1>0, TwoPositive
  <2>2. \A b \in 1 .. Width : 2^(b - 1) \in Nat
    BY <1>0, TwoPositive
  <2> QED
    BY <1>1, <2>1, <2>2
<1>. DEFINE S == {n \in 0 .. Width : v < 2^(Width - n)}
<1>3. 0 \in S
  BY <1>0, <1>1
<1>4. \A n \in 0 .. Width - 1 : n \in S => n + 1 \in S
  <2> SUFFICES ASSUME NEW n \in 0 .. Width - 1, n \in S
               PROVE  n + 1 \in S
    OBVIOUS
  <2>1. Width - n \in 0 .. Width /\ (Width - n) - 1 = Width - (n + 1) /\ n + 1 \in 0 .. Width
    BY <1>0, SMT
  <2> QED
    BY <1>2, <2>1
<1>. HIDE DEF S
<1>5. \A n \in 0 .. Width : n \in S
  BY <1>0, <1>3, <1>4, InductionUpTo
<1>6. v < 2^0
  <2>1. Width \in 0 .. Width /\ Width - Width = 0
    BY <1>0
  <2> QED
    BY <1>5, <2>1 DEF S
<1>7. 0 \in 0 .. Width
  BY <1>0
<1> QED
  BY <1>2, <1>6, <1>7

\* varint_len is the number of groups there is something in.
LEMMA VarintLenIs ==
    ASSUME NEW v \in Unsigned
    PROVE  /\ VarintLen(v) \in 1 .. MaxVarintBytes
           /\ v < Place(VarintLen(v) + 1)
           /\ VarintLen(v) = 1 \/ v >= Place(VarintLen(v))
<1>0. /\ Group \in Nat \ {0} /\ Width \in Nat \ {0} /\ MaxVarintBytes \in Nat \ {0}
      /\ Width <= Group * MaxVarintBytes
  BY VarintAssumption
<1>. DEFINE width == CHOOSE b \in 0 .. Width : v < 2^b /\ (b = 0 \/ v >= 2^(b - 1))
            used == IF width = 0 THEN 0 ELSE width - 1
            k == used \div Group
<1>1. width \in 0 .. Width /\ v < 2^width /\ (width = 0 \/ v >= 2^(width - 1))
  BY WidthOf
<1>2. VarintLen(v) = k + 1
  BY DEF VarintLen
<1>. HIDE DEF width
<1>3. used \in Nat
  BY <1>0, <1>1
<1>4. k \in Nat /\ k * Group <= used /\ used < (k + 1) * Group
  <2>1. k \in Nat
    BY <1>0, <1>3, DivModOf
  <2>. HIDE DEF used
  <2>2. (k < k <=> used < k * Group) /\ (k < k + 1 <=> used < (k + 1) * Group)
    BY <1>0, <1>3, <2>1, DivBelow
  <2>3. k * Group \in Nat
    BY <1>0, <2>1, SMT
  <2>. HIDE DEF k
  <2> QED
    BY <1>3, <2>1, <2>2, <2>3
<1>. HIDE DEF k
<1>5. k + 1 <= MaxVarintBytes
  <2> SUFFICES ASSUME MaxVarintBytes <= k
               PROVE  FALSE
    BY <1>0, <1>4
  <2>1. MaxVarintBytes * Group <= k * Group
    BY <1>0, <1>4, SMT
  <2>2. MaxVarintBytes * Group = Group * MaxVarintBytes
    BY <1>0, SMT
  <2>3. used < Width
    BY <1>0, <1>1
  <2>4. k * Group \in Nat /\ Group * MaxVarintBytes \in Nat
    BY <1>0, <1>4, SMT
  <2> QED
    BY <1>0, <1>3, <1>4, <2>1, <2>2, <2>3, <2>4
<1>6. v \in Nat
  BY <1>0, TwoPositive, SMT DEF Unsigned
<1>7. v < Place(k + 2)
  <2>1. Group * ((k + 2) - 1) = (k + 1) * Group /\ (k + 1) * Group \in Nat
    BY <1>0, <1>4, SMT
  <2>2. width <= (k + 1) * Group /\ width \in Nat
    BY <1>0, <1>1, <1>4, <2>1
  <2>3. 2^width <= 2^((k + 1) * Group) /\ 2^width \in Nat /\ 2^((k + 1) * Group) \in Nat
    BY <2>1, <2>2, TwoMonotone, TwoPositive
  <2>4. Place(k + 2) = 2^((k + 1) * Group)
    BY <2>1, Zenon DEF Place
  <2> QED
    BY <1>1, <1>6, <2>3, <2>4
<1>8. k = 0 \/ v >= Place(k + 1)
  <2> SUFFICES ASSUME k # 0
               PROVE  v >= Place(k + 1)
    OBVIOUS
  <2>1. Group * ((k + 1) - 1) = k * Group /\ k * Group \in Nat /\ k * Group >= 1
    BY <1>0, <1>4, SMT
  <2>2. width # 0 /\ k * Group <= width - 1 /\ width - 1 \in Nat
    BY <1>0, <1>1, <1>4, <2>1
  <2>3. 2^(k * Group) <= 2^(width - 1) /\ 2^(width - 1) \in Nat /\ 2^(k * Group) \in Nat
    BY <2>1, <2>2, TwoMonotone, TwoPositive
  <2>4. Place(k + 1) = 2^(k * Group)
    BY <2>1, Zenon DEF Place
  <2> QED
    BY <1>1, <1>6, <2>2, <2>3, <2>4
<1>9. k + 1 \in 1 .. MaxVarintBytes /\ k + 1 + 1 = k + 2
  BY <1>0, <1>4, <1>5
<1> QED
  BY <1>2, <1>4, <1>7, <1>8, <1>9

\* No other number of groups does.
LEMMA VarintLenOnly ==
    ASSUME NEW v \in Unsigned, NEW k \in Nat \ {0}, v < Place(k + 1), k = 1 \/ v >= Place(k)
    PROVE  VarintLen(v) = k
<1>. DEFINE n == VarintLen(v)
<1>0. v \in Nat
  BY VarintAssumption, TwoPositive, SMT DEF Unsigned
<1>1. n \in Nat \ {0} /\ v < Place(n + 1) /\ (n = 1 \/ v >= Place(n))
  BY VarintLenIs, VarintAssumption
<1>. HIDE DEF n
<1>2. ~ n < k
  <2> SUFFICES ASSUME n < k PROVE FALSE
    OBVIOUS
  <2>1. n + 1 \in Nat \ {0} /\ n + 1 <= k /\ k # 1
    BY <1>1
  <2>2. Place(n + 1) <= Place(k) /\ Place(n + 1) \in Nat /\ Place(k) \in Nat
    BY <2>1, PlaceIs
  <2> QED
    BY <1>0, <1>1, <2>1, <2>2
<1>3. ~ k < n
  <2> SUFFICES ASSUME k < n PROVE FALSE
    OBVIOUS
  <2>1. k + 1 \in Nat \ {0} /\ k + 1 <= n /\ n # 1
    BY <1>1
  <2>2. Place(k + 1) <= Place(n) /\ Place(k + 1) \in Nat /\ Place(n) \in Nat
    BY <1>1, <2>1, PlaceIs
  <2> QED
    BY <1>0, <1>1, <2>1, <2>2
<1>4. n = k
  BY <1>1, <1>2, <1>3
<1> QED
  BY <1>4 DEF n

LEMMA ByteIs ==
    /\ Byte = 0 .. 2 * Base - 1 /\ 2 * Base \in Nat \ {0}
    /\ Byte \subseteq Nat
  BY PlaceIs, SMT DEF Byte

\* A function on 1 .. n is a sequence of length n.
LEMMA SeqOfFunction ==
    ASSUME NEW S, NEW n \in Nat, NEW f \in [1 .. n -> S]
    PROVE  f \in Seq(S) /\ Len(f) = n
<1>1. f \in Seq(S)
  BY SeqDef
<1>2. Len(f) \in Nat /\ DOMAIN f = 1 .. Len(f)
  BY <1>1, LenProperties
<1>3. 1 .. n = 1 .. Len(f)
  BY <1>2
<1>4. n = Len(f)
  BY <1>2, <1>3, SMT
<1> QED
  BY <1>1, <1>4

\* The groups of an integer, all but the last flagged.
Groups(v) ==
    [i \in 1 .. VarintLen(v) |->
        IF i = VarintLen(v) THEN Digit(v, i) ELSE Digit(v, i) + Base]

LEMMA DigitType ==
    ASSUME NEW v \in Nat, NEW i \in Nat \ {0}
    PROVE  Digit(v, i) \in 0 .. Base - 1 /\ v \div Place(i) \in Nat
<1>1. Place(i) \in Nat \ {0} /\ Base \in Nat \ {0}
  BY PlaceIs
<1>2. v \div Place(i) \in Nat
  BY <1>1, DivModOf
<1> QED
  BY <1>1, <1>2, DivModOf DEF Digit

LEMMA GroupsType ==
    ASSUME NEW v \in Unsigned
    PROVE  Groups(v) \in Seq(Byte) /\ Len(Groups(v)) = VarintLen(v)
<1>0. v \in Nat
  BY VarintAssumption, TwoPositive, SMT DEF Unsigned
<1>1. VarintLen(v) \in Nat
  BY VarintLenIs, VarintAssumption
<1>2. \A i \in 1 .. VarintLen(v) : Digit(v, i) \in 0 .. Base - 1
  BY <1>0, <1>1, DigitType
<1>3. Base \in Nat
  BY PlaceIs
<1>4. Groups(v) \in [1 .. VarintLen(v) -> Byte]
  BY <1>2, <1>3 DEF Groups, Byte
<1> QED
  BY <1>1, <1>4, SeqOfFunction

\* Shifting a group out moves the others down.
LEMMA Shifted ==
    ASSUME NEW v \in Unsigned, v >= Base
    PROVE  /\ v \div Base \in Unsigned /\ v \div Base < v
           /\ VarintLen(v) > 1 /\ VarintLen(v \div Base) = VarintLen(v) - 1
           /\ \A i \in Nat \ {0} : Digit(v \div Base, i) = Digit(v, i + 1)
<1>. DEFINE w == v \div Base
            n == VarintLen(v)
<1>0. v \in Nat /\ v <= 2^Width - 1 /\ 2^Width \in Nat
  BY VarintAssumption, TwoPositive, SMT DEF Unsigned
<1>1. Base \in Nat \ {0} /\ Base >= 2
  <2>1. Group \in Nat /\ 0 < Group /\ 0 \in Nat /\ 0 <= Group
    BY VarintAssumption
  <2>2. 2 * 2^0 <= 2^Group
    BY <2>1, TwoMonotone, Zenon
  <2> QED
    BY <2>2, TwoValues, PlaceIs, BaseIs
<1>2. w \in Nat /\ w < v
  <2>. DEFINE r == v % Base
  <2>1. w \in Nat /\ r \in 0 .. Base - 1 /\ v = w * Base + r
    BY <1>0, <1>1, DivModOf
  <2>. HIDE DEF w, r
  <2>2. w * 2 <= w * Base
    BY <1>1, <2>1, SMT
  <2>3. w * Base \in Nat
    BY <1>1, <2>1, SMT
  <2> QED
    BY <1>0, <1>1, <2>1, <2>2, <2>3
<1>3. w \in Unsigned
  BY <1>0, <1>2 DEF Unsigned
<1>4. n \in Nat \ {0} /\ v < Place(n + 1) /\ (n = 1 \/ v >= Place(n))
  BY VarintLenIs, VarintAssumption
<1>5. n > 1
  <2>1. Place(1 + 1) = Place(1) * Base /\ Place(1) = 1
    BY PlaceIs
  <2>2. Place(1 + 1) = Base
    BY <1>1, <2>1
  <2>. HIDE DEF n
  <2> QED
    BY <1>0, <1>1, <1>4, <2>2
<1>6. /\ Place(n) \in Nat \ {0} /\ Place(n + 1) = Place(n) * Base
      /\ Place(n - 1) \in Nat \ {0} /\ Place(n) = Place(n - 1) * Base
  <2>1. n - 1 \in Nat \ {0} /\ (n - 1) + 1 = n
    BY <1>4, <1>5
  <2> QED
    BY <1>4, <2>1, PlaceIs
<1>7. w < Place(n)
  <2>1. v \div Base < Place(n) <=> v < Place(n) * Base
    BY <1>0, <1>1, <1>6, DivBelow
  <2> QED
    BY <1>4, <1>6, <2>1
<1>8. w >= Place(n - 1)
  <2>1. v \div Base < Place(n - 1) <=> v < Place(n - 1) * Base
    BY <1>0, <1>1, <1>6, DivBelow
  <2>2. ~ v < Place(n)
    BY <1>0, <1>4, <1>5, <1>6
  <2>3. ~ w < Place(n - 1)
    BY <1>6, <2>1, <2>2
  <2>. HIDE DEF w
  <2> QED
    BY <1>2, <1>6, <2>3
<1>9. VarintLen(w) = n - 1
  <2>1. n - 1 \in Nat \ {0} /\ (n - 1) + 1 = n
    BY <1>4, <1>5
  <2>. HIDE DEF w, n
  <2> QED
    BY <1>3, <1>7, <1>8, <2>1, VarintLenOnly
<1>10. ASSUME NEW i \in Nat \ {0}
       PROVE  Digit(w, i) = Digit(v, i + 1)
  <2>1. Place(i) \in Nat \ {0} /\ Place(i + 1) = Place(i) * Base
    BY PlaceIs
  <2>2. (v \div Base) \div Place(i) = v \div (Base * Place(i))
    BY <1>0, <1>1, <2>1, DivDiv
  <2>3. Base * Place(i) = Place(i) * Base
    BY <1>1, <2>1, SMT
  <2> QED
    BY <2>1, <2>2, <2>3 DEF Digit
<1> QED
  BY <1>2, <1>3, <1>5, <1>9, <1>10 DEF w, n

\* What write_varint's loop does at one group, said of all groups at once.
LEMMA GroupsRecur ==
    ASSUME NEW v \in Unsigned
    PROVE  Groups(v) = IF v < Base THEN <<v>> ELSE <<(v % Base) + Base>> \o Groups(v \div Base)
<1>. DEFINE n == VarintLen(v)
<1>0. v \in Nat /\ Base \in Nat \ {0}
  BY VarintAssumption, TwoPositive, PlaceIs, SMT DEF Unsigned
<1>1. n \in Nat \ {0} /\ Groups(v) \in Seq(Byte) /\ Len(Groups(v)) = n
  BY VarintLenIs, GroupsType, VarintAssumption
<1>2. Digit(v, 1) = v % Base
  <2>1. v = v * 1 + 0 /\ 0 \in 0 .. 1 - 1 /\ v \in Int /\ 1 \in Nat \ {0}
    BY <1>0
  <2>2. (v * 1 + 0) \div 1 = v
    BY <2>1, DivMod
  <2> QED
    BY <2>1, <2>2, PlaceIs DEF Digit
<1>. HIDE DEF n
<1>3. CASE v < Base
  <2>1. n = 1
    <3>1. Place(1 + 1) = Place(1) * Base /\ Place(1) = 1
      BY PlaceIs
    <3>2. v < Place(1 + 1)
      BY <1>0, <1>3, <3>1
    <3> QED
      BY <3>2, VarintLenOnly DEF n
  <2>2. Digit(v, 1) = v
    BY <1>0, <1>2, <1>3, DivModSmall
  <2>3. Groups(v) = [i \in 1 .. 1 |-> v]
    BY <2>1, <2>2 DEF Groups, n
  <2>4. Groups(v)[1] = v /\ Len(Groups(v)) = 1
    BY <1>1, <2>1, <2>3
  <2>5. <<v>> \in Seq(Byte) /\ Len(<<v>>) = 1 /\ <<v>>[1] = v
    BY <1>0, <1>3 DEF Byte
  <2>6. Groups(v) = <<v>>
    <3>1. \A i \in 1 .. Len(Groups(v)) : Groups(v)[i] = <<v>>[i]
      BY <2>4, <2>5
    <3> QED
      BY <1>1, <2>4, <2>5, <3>1, SeqEqual
  <2> QED
    BY <1>3, <2>6
<1>4. CASE ~ v < Base
  <2>. DEFINE w == v \div Base
              first == <<(v % Base) + Base>>
  <2>1. /\ w \in Unsigned /\ n > 1 /\ VarintLen(w) = n - 1
        /\ \A i \in Nat \ {0} : Digit(w, i) = Digit(v, i + 1)
    <3>1. v >= Base
      BY <1>0, <1>4
    <3> QED
      BY <3>1, Shifted DEF n
  <2>2. v % Base \in 0 .. Base - 1
    BY <1>0, DivModOf
  <2>3. first \in Seq(Byte) /\ Len(first) = 1 /\ first[1] = (v % Base) + Base
    BY <1>0, <2>2 DEF Byte
  <2>4. Groups(w) \in Seq(Byte) /\ Len(Groups(w)) = n - 1
    BY <2>1, GroupsType
  <2>. HIDE DEF w, first
  <2>5. /\ first \o Groups(w) \in Seq(Byte)
        /\ Len(first \o Groups(w)) = 1 + (n - 1)
        /\ \A i \in 1 .. 1 + (n - 1) :
              (first \o Groups(w))[i] = IF i <= 1 THEN first[i] ELSE Groups(w)[i - 1]
    <3>1. Len(first) = 1 /\ first \in Seq(Byte)
      BY <2>3
    <3>2. Len(Groups(w)) = n - 1 /\ Groups(w) \in Seq(Byte)
      BY <2>4
    <3>3. /\ first \o Groups(w) \in Seq(Byte)
          /\ Len(first \o Groups(w)) = Len(first) + Len(Groups(w))
          /\ \A i \in 1 .. Len(first) + Len(Groups(w)) :
                (first \o Groups(w))[i] =
                    IF i <= Len(first) THEN first[i] ELSE Groups(w)[i - Len(first)]
      BY <3>1, <3>2, ConcatProperties
    <3> QED
      BY <3>1, <3>2, <3>3
  <2>6. Len(first \o Groups(w)) = n /\ 1 + (n - 1) = n
    BY <1>1, <2>5
  <2>7. ASSUME NEW i \in 1 .. n
        PROVE  Groups(v)[i] = (first \o Groups(w))[i]
    <3>1. Groups(v)[i] = IF i = n THEN Digit(v, i) ELSE Digit(v, i) + Base
      BY DEF Groups, n
    <3>2. CASE i = 1
      <4>1. Groups(v)[i] = Digit(v, 1) + Base
        BY <1>1, <2>1, <3>1, <3>2
      <4>2. (first \o Groups(w))[i] = first[1]
        BY <1>1, <2>5, <2>6, <3>2
      <4> QED
        BY <1>2, <2>3, <4>1, <4>2
    <3>3. CASE i # 1
      <4>1. i - 1 \in 1 .. n - 1 /\ i - 1 \in Nat \ {0} /\ (i - 1) + 1 = i /\ (i - 1 = n - 1 <=> i = n)
        BY <1>1, <3>3
      <4>2. (first \o Groups(w))[i] = Groups(w)[i - 1]
        BY <1>1, <2>5, <2>6, <3>3
      <4>3. Groups(w)[i - 1] = IF i - 1 = n - 1 THEN Digit(w, i - 1) ELSE Digit(w, i - 1) + Base
        BY <2>1, <4>1 DEF Groups
      <4>4. Digit(w, i - 1) = Digit(v, i)
        BY <2>1, <4>1
      <4> QED
        BY <3>1, <4>1, <4>2, <4>3, <4>4
    <3> QED
      BY <3>2, <3>3
  <2>8. Groups(v) = first \o Groups(w)
    BY <1>1, <2>5, <2>6, <2>7, SeqEqual
  <2> QED
    BY <1>4, <2>8 DEF w, first
<1> QED
  BY <1>3, <1>4

\* The loop writes the groups.
LEMMA WriteVarintIs ==
    ASSUME NEW v \in Unsigned
    PROVE  WriteVarint(v) = Groups(v)
<1>. DEFINE Body(g) == [rest \in Unsigned |->
                IF rest < Base THEN <<rest>> ELSE <<(rest % Base) + Base>> \o g[rest \div Base]]
            groups == CHOOSE g : g = Body(g)
            closed == [rest \in Unsigned |-> Groups(rest)]
<1>0. \A u \in Unsigned : u \in Nat
  BY VarintAssumption, TwoPositive, SMT DEF Unsigned
<1>00. Base \in Nat \ {0}
  BY PlaceIs
<1>1. closed = Body(closed)
  <2>1. ASSUME NEW u \in Unsigned
        PROVE  closed[u] = Body(closed)[u]
    <3>1. CASE u < Base
      BY <3>1, GroupsRecur
    <3>2. CASE ~ u < Base
      <4>1. u \div Base \in Unsigned
        BY <1>0, <1>00, <3>2, Shifted
      <4>2. closed[u] = <<(u % Base) + Base>> \o closed[u \div Base]
        BY <3>2, <4>1, GroupsRecur
      <4>. HIDE DEF closed
      <4> QED
        BY <3>2, <4>2
    <3> QED
      BY <3>1, <3>2
  <2> QED
    BY <2>1
<1>2. groups = Body(groups)
  <2>. HIDE DEF Body, closed
  <2> QED
    BY <1>1
<1>. HIDE DEF groups
<1>3. \A u \in Unsigned :
         groups[u] = IF u < Base THEN <<u>> ELSE <<(u % Base) + Base>> \o groups[u \div Base]
  BY <1>2
<1>. DEFINE S == {n \in Nat : \A u \in Unsigned : u <= n => groups[u] = Groups(u)}
<1>4. 0 \in S
  <2>1. \A u \in Unsigned : u <= 0 => u < Base
    BY <1>0, <1>00
  <2> QED
    BY <1>3, <2>1, GroupsRecur
<1>5. \A n \in Nat : n \in S => n + 1 \in S
  <2> SUFFICES ASSUME NEW n \in Nat, n \in S, NEW u \in Unsigned, u <= n + 1
               PROVE  groups[u] = Groups(u)
    OBVIOUS
  <2>1. CASE u < Base
    BY <1>3, <2>1, GroupsRecur
  <2>2. CASE ~ u < Base
    <3>1. u \div Base \in Unsigned /\ u \div Base < u
      BY <1>0, <1>00, <2>2, Shifted
    <3>2. u \div Base <= n
      BY <1>0, <3>1
    <3>3. groups[u \div Base] = Groups(u \div Base)
      BY <3>1, <3>2
    <3> QED
      BY <1>3, <2>2, <3>3, GroupsRecur
  <2> QED
    BY <2>1, <2>2
<1>. HIDE DEF S
<1>6. v \in S
  BY <1>0, <1>4, <1>5, Induction
<1>7. groups[v] = Groups(v)
  BY <1>0, <1>6 DEF S
<1>8. WriteVarint(v) = groups[v]
  BY DEF WriteVarint, groups
<1> QED
  BY <1>7, <1>8

\* How many bytes read_varint looks at, where it stops, and what it has by then.
Limit(bytes) == IF Len(bytes) < MaxVarintBytes THEN Len(bytes) ELSE MaxVarintBytes
Stops(bytes, i) == bytes[i] < Base /\ \A j \in 1 .. i - 1 : bytes[j] >= Base
SumStep(bytes, i, before) == before + (bytes[i] % Base) * 2^(Group * (i - 1))

\* What read_varint answers, with its sum a function that adds group by group.
LEMMA ReadVarintIs ==
    ASSUME NEW bytes \in Seq(Byte)
    PROVE  \E sum \in [0 .. Limit(bytes) -> Nat] :
              /\ sum[0] = 0
              /\ \A i \in 1 .. Limit(bytes) : sum[i] = SumStep(bytes, i, sum[i - 1])
              /\ ReadVarint(bytes) =
                    IF \E i \in 1 .. Limit(bytes) : Stops(bytes, i)
                    THEN LET last == CHOOSE i \in 1 .. Limit(bytes) : Stops(bytes, i)
                         IN  [kind |-> "ok", value |-> Signed(sum[last] % 2^Width), used |-> last]
                    ELSE IF Len(bytes) < MaxVarintBytes THEN Incomplete ELSE TooLong
<1>. DEFINE limit == Limit(bytes)
            Body(g) == [i \in 0 .. limit |-> IF i = 0 THEN 0 ELSE SumStep(bytes, i, g[i - 1])]
            value == CHOOSE g : g = Body(g)
            step == [i \in 1 .. limit |-> [n \in Nat |-> SumStep(bytes, i, n)]]
<1>1. limit \in Nat /\ limit <= Len(bytes)
  BY LenProperties, VarintAssumption DEF Limit
<1>2. \A i \in 1 .. limit : \A n \in Nat : SumStep(bytes, i, n) \in Nat
  <2> SUFFICES ASSUME NEW i \in 1 .. limit, NEW n \in Nat
               PROVE  SumStep(bytes, i, n) \in Nat
    OBVIOUS
  <2>1. i \in 1 .. Len(bytes) /\ i \in Nat \ {0}
    BY <1>1
  <2>2. bytes[i] \in Nat
    <3>1. bytes[i] \in Byte
      BY <2>1, ElementOfSeq
    <3> QED
      BY <3>1, PlaceIs DEF Byte
  <2>3. bytes[i] % Base \in Nat
    <3>. DEFINE b == bytes[i]
    <3>1. b \in Nat /\ Base \in Nat \ {0}
      BY <2>2, PlaceIs
    <3>. HIDE DEF b
    <3>2. b % Base \in 0 .. Base - 1
      BY <3>1, DivModOf
    <3> QED
      BY <3>1, <3>2 DEF b
  <2>4. Place(i) \in Nat
    BY <2>1, PlaceIs
  <2>. DEFINE x == bytes[i] % Base
              y == 2^(Group * (i - 1))
  <2>5. x \in Nat /\ y \in Nat
    BY <2>3, <2>4 DEF Place
  <2>6. SumStep(bytes, i, n) = n + x * y
    BY DEF SumStep
  <2>. HIDE DEF x, y
  <2>7. x * y \in Nat
    BY <2>5, SMT
  <2> QED
    BY <2>6, <2>7
<1>3. step \in [1 .. limit -> [Nat -> Nat]]
  BY <1>2
<1>. HIDE DEF limit
<1>4. PICK f \in [0 .. limit -> Nat] : Computed(f, limit, 0, step)
  <2>. HIDE DEF step
  <2> QED
    BY <1>1, <1>3, Recursion
<1>5. \A i \in 1 .. limit : f[i] = SumStep(bytes, i, f[i - 1])
  <2> TAKE i \in 1 .. limit
  <2>1. i - 1 \in 0 .. limit
    BY <1>1
  <2>2. f[i - 1] \in Nat
    BY <2>1
  <2> QED
    BY <1>4, <2>2 DEF Computed
<1>6. f = Body(f)
  <2>1. \A i \in 0 .. limit : f[i] = IF i = 0 THEN 0 ELSE SumStep(bytes, i, f[i - 1])
    BY <1>1, <1>4, <1>5 DEF Computed
  <2> QED
    BY <2>1
<1>7. value = Body(value)
  <2>. HIDE DEF Body
  <2> QED
    BY <1>6
<1>. HIDE DEF value
<1>8. value[0] = 0 /\ \A i \in 1 .. limit : value[i] = SumStep(bytes, i, value[i - 1])
  BY <1>1, <1>7
<1>9. value \in [0 .. limit -> Nat]
  <2>. DEFINE S == {n \in 0 .. limit : value[n] \in Nat}
  <2>1. 0 \in S
    BY <1>1, <1>8
  <2>2. \A n \in 0 .. limit - 1 : n \in S => n + 1 \in S
    <3> SUFFICES ASSUME NEW n \in 0 .. limit - 1, n \in S
                 PROVE  n + 1 \in S
      OBVIOUS
    <3>1. n + 1 \in 1 .. limit /\ (n + 1) - 1 = n /\ n + 1 \in 0 .. limit
      BY <1>1
    <3>2. value[n + 1] = SumStep(bytes, n + 1, value[n])
      BY <1>8, <3>1
    <3> QED
      BY <1>2, <3>1, <3>2
  <2>. HIDE DEF S
  <2>3. \A n \in 0 .. limit : n \in S
    BY <1>1, <2>1, <2>2, InductionUpTo
  <2>4. \A n \in 0 .. limit : value[n] \in Nat
    BY <2>3 DEF S
  <2> QED
    BY <1>7, <2>4
<1>10. ReadVarint(bytes) =
          IF \E i \in 1 .. limit : Stops(bytes, i)
          THEN LET last == CHOOSE i \in 1 .. limit : Stops(bytes, i)
               IN  [kind |-> "ok", value |-> Signed(value[last] % 2^Width), used |-> last]
          ELSE IF Len(bytes) < MaxVarintBytes THEN Incomplete ELSE TooLong
  BY DEF ReadVarint, limit, value, Limit, Stops, SumStep
<1> QED
  BY <1>8, <1>9, <1>10 DEF limit

\* What read_varint answers to any bytes.
LEMMA ReadVarintType ==
    ASSUME NEW bytes \in Seq(Byte)
    PROVE  LET header == ReadVarint(bytes)
           IN  \/ /\ header.kind = "ok" /\ header.value \in Int
                  /\ header.used \in 1 .. MaxVarintBytes /\ header.used <= Len(bytes)
               \/ header = Incomplete /\ Len(bytes) < MaxVarintBytes
               \/ header = TooLong
<1>. DEFINE limit == Limit(bytes)
<1>1. limit \in Nat /\ limit <= Len(bytes) /\ limit <= MaxVarintBytes /\ Len(bytes) \in Nat
  BY LenProperties, VarintAssumption DEF Limit
<1>2. PICK sum \in [0 .. limit -> Nat] :
          ReadVarint(bytes) =
              IF \E i \in 1 .. limit : Stops(bytes, i)
              THEN LET last == CHOOSE i \in 1 .. limit : Stops(bytes, i)
                   IN  [kind |-> "ok", value |-> Signed(sum[last] % 2^Width), used |-> last]
              ELSE IF Len(bytes) < MaxVarintBytes THEN Incomplete ELSE TooLong
  BY ReadVarintIs
<1>. HIDE DEF limit
<1>3. CASE \E i \in 1 .. limit : Stops(bytes, i)
  <2>. DEFINE last == CHOOSE i \in 1 .. limit : Stops(bytes, i)
  <2>1. last \in 1 .. limit
    BY <1>3
  <2>2. ReadVarint(bytes) = [kind |-> "ok", value |-> Signed(sum[last] % 2^Width), used |-> last]
    BY <1>2, <1>3
  <2>. HIDE DEF last
  <2>3. 2^Width \in Nat \ {0} /\ 2^(Width - 1) \in Nat
    BY VarintAssumption, TwoPositive
  <2>4. last \in 0 .. limit
    BY <1>1, <2>1
  <2>5. sum[last] % 2^Width \in Nat
    <3>. DEFINE s == sum[last]
                w == 2^Width
    <3>1. s \in Nat /\ w \in Nat \ {0}
      BY <2>3, <2>4
    <3>. HIDE DEF s, w
    <3>2. s % w \in 0 .. w - 1
      BY <3>1, DivModOf
    <3> QED
      BY <3>1, <3>2 DEF s, w
  <2>6. Signed(sum[last] % 2^Width) \in Int
    BY <2>3, <2>5 DEF Signed
  <2>7. last \in 1 .. MaxVarintBytes /\ last <= Len(bytes)
    BY <1>1, <2>1, VarintAssumption
  <2> QED
    BY <2>2, <2>6, <2>7
<1>4. CASE ~ \E i \in 1 .. limit : Stops(bytes, i)
  BY <1>2, <1>4
<1> QED
  BY <1>3, <1>4

\* A byte of an integer's encoding: its group, and flagged unless it is the last.
LEMMA GroupIs ==
    ASSUME NEW v \in Unsigned, NEW i \in 1 .. VarintLen(v)
    PROVE  /\ Groups(v)[i] \in Byte
           /\ Groups(v)[i] % Base = Digit(v, i)
           /\ Groups(v)[i] < Base <=> i = VarintLen(v)
<1>0. v \in Nat /\ Base \in Nat \ {0} /\ VarintLen(v) \in Nat
  BY VarintAssumption, TwoPositive, PlaceIs, VarintLenIs, SMT DEF Unsigned
<1>. DEFINE d == Digit(v, i)
<1>1. d \in 0 .. Base - 1 /\ i \in Nat \ {0}
  BY <1>0, DigitType
<1>2. Groups(v)[i] = IF i = VarintLen(v) THEN d ELSE d + Base
  BY DEF Groups
<1>. HIDE DEF d
<1>3. d % Base = d
  BY <1>0, <1>1, DivModSmall
<1>4. (d + Base) % Base = d
  <2>1. d + Base = 1 * Base + d
    BY <1>0, <1>1
  <2>2. (1 * Base + d) % Base = d
    BY <1>0, <1>1, DivMod
  <2> QED
    BY <2>1, <2>2
<1> QED
  BY <1>0, <1>1, <1>2, <1>3, <1>4 DEF d, Byte

\* read_varint gives back what was written, whatever comes after it.
LEMMA VarintReadBack ==
    ASSUME NEW v \in Unsigned, NEW bytes \in Seq(Byte), Len(bytes) >= VarintLen(v),
           \A i \in 1 .. VarintLen(v) : bytes[i] = Groups(v)[i]
    PROVE  ReadVarint(bytes) = [kind |-> "ok", value |-> Signed(v), used |-> VarintLen(v)]
<1>. DEFINE limit == Limit(bytes)
            n == VarintLen(v)
<1>0. v \in Nat /\ Base \in Nat \ {0} /\ v <= 2^Width - 1 /\ 2^Width \in Nat \ {0}
  <2>1. 2^Width \in Nat \ {0} /\ Base \in Nat \ {0}
    BY VarintAssumption, TwoPositive, PlaceIs
  <2> QED
    BY <2>1, SMT DEF Unsigned
<1>1. limit \in Nat /\ n \in 1 .. limit /\ limit <= Len(bytes)
  BY LenProperties, VarintAssumption, VarintLenIs DEF Limit
<1>2. PICK sum \in [0 .. limit -> Nat] :
          /\ sum[0] = 0
          /\ \A i \in 1 .. limit : sum[i] = SumStep(bytes, i, sum[i - 1])
          /\ ReadVarint(bytes) =
                IF \E i \in 1 .. limit : Stops(bytes, i)
                THEN LET last == CHOOSE i \in 1 .. limit : Stops(bytes, i)
                     IN  [kind |-> "ok", value |-> Signed(sum[last] % 2^Width), used |-> last]
                ELSE IF Len(bytes) < MaxVarintBytes THEN Incomplete ELSE TooLong
  BY ReadVarintIs
<1>3. \A i \in 1 .. n : bytes[i] \in Byte /\ (bytes[i] % Base) = Digit(v, i) /\ (bytes[i] < Base <=> i = n)
  BY GroupIs
<1>4. v < Place(n + 1)
  BY VarintLenIs
<1>. HIDE DEF limit, n
<1>5. Stops(bytes, n)
  <2>1. \A j \in 1 .. n - 1 : bytes[j] >= Base
    <3> TAKE j \in 1 .. n - 1
    <3>1. j \in 1 .. n /\ j # n
      BY <1>1
    <3>2. bytes[j] \in Byte /\ ~ bytes[j] < Base
      BY <1>3, <3>1
    <3> QED
      BY <1>0, <3>2 DEF Byte
  <2> QED
    BY <1>1, <1>3, <2>1 DEF Stops
<1>6. \A i \in 1 .. limit : Stops(bytes, i) => i = n
  <2> SUFFICES ASSUME NEW i \in 1 .. limit, Stops(bytes, i), i # n
               PROVE  FALSE
    OBVIOUS
  <2>1. CASE i < n
    <3>1. i \in 1 .. n /\ ~ bytes[i] < Base
      BY <1>1, <1>3, <2>1
    <3> QED
      BY <3>1 DEF Stops
  <2>2. CASE n < i
    <3>1. n \in 1 .. i - 1
      BY <1>1, <2>2
    <3>2. bytes[n] >= Base
      BY <3>1 DEF Stops
    <3>3. bytes[n] < Base /\ bytes[n] \in Byte
      BY <1>1, <1>3
    <3> QED
      BY <1>0, <3>2, <3>3 DEF Byte
  <2> QED
    BY <1>1, <2>1, <2>2
<1>7. n = CHOOSE i \in 1 .. limit : Stops(bytes, i)
  BY <1>1, <1>5, <1>6
<1>8. \A i \in 0 .. n : sum[i] = v % Place(i + 1)
  <2>. DEFINE S == {i \in 0 .. n : sum[i] = v % Place(i + 1)}
  <2>1. 0 \in S
    <3>1. v % 1 = 0
      BY <1>0, DivModOf, SMT
    <3>2. Place(0 + 1) = 1
      BY PlaceIs
    <3> QED
      BY <1>1, <1>2, <3>1, <3>2
  <2>2. \A i \in 0 .. n - 1 : i \in S => i + 1 \in S
    <3> SUFFICES ASSUME NEW i \in 0 .. n - 1, i \in S
                 PROVE  i + 1 \in S
      OBVIOUS
    <3>1. i + 1 \in 1 .. n /\ i + 1 \in 1 .. limit /\ (i + 1) - 1 = i /\ i + 1 \in 0 .. n
      BY <1>1
    <3>2. sum[i + 1] = SumStep(bytes, i + 1, sum[i])
      BY <1>2, <3>1
    <3>3. sum[i + 1] = (v % Place(i + 1)) + Digit(v, i + 1) * Place(i + 1)
      BY <1>3, <3>1, <3>2 DEF SumStep, Place
    <3>4. i + 1 \in Nat \ {0}
      BY <3>1, <1>1
    <3>5. Place(i + 1) \in Nat \ {0} /\ Place((i + 1) + 1) = Place(i + 1) * Base
      BY <3>4, PlaceIs
    <3>6. v % (Place(i + 1) * Base)
            = ((v \div Place(i + 1)) % Base) * Place(i + 1) + (v % Place(i + 1))
      BY <1>0, <3>5, DivDiv
    <3>. DEFINE a == v % Place(i + 1)
                b == Digit(v, i + 1)
                d == Place(i + 1)
    <3>7. a \in Nat /\ b \in Nat /\ d \in Nat
      <4>1. d \in Nat \ {0}
        BY <3>5
      <4>2. b \in 0 .. Base - 1
        BY <1>0, <3>4, DigitType
      <4>. HIDE DEF b, d
      <4>3. v % d \in 0 .. d - 1
        BY <1>0, <4>1, DivModOf
      <4>4. v % d = a
        BY DEF d
      <4>. HIDE DEF a
      <4> QED
        BY <1>0, <4>1, <4>2, <4>3, <4>4
    <3>8. sum[i + 1] = a + b * d /\ v % Place((i + 1) + 1) = b * d + a
      BY <3>3, <3>5, <3>6 DEF Digit
    <3>. HIDE DEF a, b, d
    <3>9. b * d \in Nat
      BY <3>7, SMT
    <3>10. sum[i + 1] = v % Place((i + 1) + 1)
      BY <3>7, <3>8, <3>9
    <3> QED
      BY <3>1, <3>10
  <2>. HIDE DEF S
  <2>3. n \in Nat
    BY <1>1
  <2>4. \A i \in 0 .. n : i \in S
    BY <2>1, <2>2, <2>3, InductionUpTo
  <2> QED
    BY <2>4 DEF S
<1>9. sum[n] = v
  <2>1. n \in 0 .. n /\ n + 1 \in Nat \ {0}
    BY <1>1
  <2>2. sum[n] = v % Place(n + 1)
    BY <1>8, <2>1
  <2>3. v % Place(n + 1) = v
    <3>1. Place(n + 1) \in Nat \ {0}
      BY <2>1, PlaceIs
    <3>2. v \in 0 .. Place(n + 1) - 1
      BY <1>0, <1>4, <3>1
    <3> QED
      BY <3>1, <3>2, DivModSmall
  <2> QED
    BY <2>2, <2>3
<1>10. v % 2^Width = v
  <2>. DEFINE w == 2^Width
  <2>1. w \in Nat \ {0} /\ v \in 0 .. w - 1
    BY <1>0
  <2>. HIDE DEF w
  <2>2. v % w = v
    BY <2>1, DivModSmall
  <2> QED
    BY <2>2 DEF w
<1>11. \E i \in 1 .. limit : Stops(bytes, i)
  BY <1>1, <1>5
<1>12. ReadVarint(bytes) = [kind |-> "ok", value |-> Signed(sum[n] % 2^Width), used |-> n]
  BY <1>2, <1>7, <1>11
<1> QED
  BY <1>9, <1>10, <1>12 DEF n

\* A part of what was written is not a number yet.
LEMMA ReadPart ==
    ASSUME NEW v \in Unsigned, NEW bytes \in Seq(Byte), Len(bytes) < VarintLen(v),
           \A i \in 1 .. Len(bytes) : bytes[i] = Groups(v)[i]
    PROVE  ReadVarint(bytes) = Incomplete
<1>1. Len(bytes) \in Nat /\ VarintLen(v) \in 1 .. MaxVarintBytes /\ MaxVarintBytes \in Nat
  BY LenProperties, VarintLenIs, VarintAssumption
<1>2. Limit(bytes) = Len(bytes) /\ Len(bytes) < MaxVarintBytes
  BY <1>1 DEF Limit
<1>3. \A i \in 1 .. Limit(bytes) : ~ Stops(bytes, i)
  <2> TAKE i \in 1 .. Limit(bytes)
  <2>1. i \in 1 .. VarintLen(v) /\ i # VarintLen(v) /\ i \in 1 .. Len(bytes)
    BY <1>1, <1>2
  <2>2. ~ Groups(v)[i] < Base
    BY <2>1, GroupIs
  <2>3. bytes[i] = Groups(v)[i]
    BY <2>1
  <2> QED
    BY <2>2, <2>3 DEF Stops
<1> QED
  BY <1>2, <1>3, ReadVarintIs

LEMMA UnsignedType == Unsigned \subseteq Nat
<1>1. 2^Width \in Nat
  BY VarintAssumption, TwoPositive
<1> QED
  BY <1>1 DEF Unsigned

\* Whatever a buffer holds, varints read from it are those written.
LEMMA VarintsOf ==
    ASSUME NEW bytes \in Seq(Byte), NEW v \in Unsigned
    PROVE  /\ WriteVarint(v) \in Seq(Byte)
           /\ Len(WriteVarint(v)) = VarintLen(v)
           /\ Len(WriteVarint(v)) \in 1 .. MaxVarintBytes
           /\ ReadVarint(WriteVarint(v) \o bytes)
                = [kind |-> "ok", value |-> Signed(v), used |-> Len(WriteVarint(v))]
           /\ \A n \in 0 .. Len(WriteVarint(v)) - 1 :
                  ReadVarint(SubSeq(WriteVarint(v), 1, n)) = Incomplete
<1>. DEFINE written == WriteVarint(v)
<1>1. /\ written \in Seq(Byte) /\ Len(written) = VarintLen(v)
      /\ VarintLen(v) \in 1 .. MaxVarintBytes /\ MaxVarintBytes \in Nat
      /\ written = Groups(v)
  BY GroupsType, WriteVarintIs, VarintLenIs, VarintAssumption
<1>. HIDE DEF written
<1>2. ReadVarint(written \o bytes) = [kind |-> "ok", value |-> Signed(v), used |-> Len(written)]
  <2>. DEFINE all == written \o bytes
  <2>1. /\ all \in Seq(Byte) /\ Len(all) = Len(written) + Len(bytes)
        /\ \A i \in 1 .. Len(written) + Len(bytes) :
              all[i] = IF i <= Len(written) THEN written[i] ELSE bytes[i - Len(written)]
    BY <1>1, ConcatProperties
  <2>2. Len(bytes) \in Nat
    BY LenProperties
  <2>. HIDE DEF all
  <2>3. Len(all) >= VarintLen(v)
    BY <1>1, <2>1, <2>2
  <2>4. \A i \in 1 .. VarintLen(v) : all[i] = Groups(v)[i]
    BY <1>1, <2>1, <2>2
  <2>5. ReadVarint(all) = [kind |-> "ok", value |-> Signed(v), used |-> VarintLen(v)]
    BY <2>1, <2>3, <2>4, VarintReadBack
  <2> QED
    BY <1>1, <2>5 DEF all
<1>3. ASSUME NEW n \in 0 .. Len(written) - 1
      PROVE  ReadVarint(SubSeq(written, 1, n)) = Incomplete
  <2>. DEFINE part == SubSeq(written, 1, n)
  <2>1. \A i \in 1 .. n : written[i] \in Byte
    BY <1>1, ElementOfSeq
  <2>2. 1 \in Int /\ n \in Int
    BY <1>1
  <2>3. /\ part \in Seq(Byte) /\ Len(part) = IF 1 <= n THEN n - 1 + 1 ELSE 0
        /\ \A i \in 1 .. n - 1 + 1 : part[i] = written[1 + i - 1]
    BY <2>1, <2>2, SubSeqProperties
  <2>. HIDE DEF part
  <2>4. Len(part) = n /\ n < VarintLen(v)
    BY <1>1, <2>3
  <2>5. \A i \in 1 .. Len(part) : part[i] = Groups(v)[i]
    BY <1>1, <2>3, <2>4
  <2>6. ReadVarint(part) = Incomplete
    BY <2>3, <2>4, <2>5, ReadPart
  <2> QED
    BY <2>6 DEF part
<1> QED
  BY <1>1, <1>2, <1>3 DEF written

\* A byte string's front and what follows it.
LEMMA Cut ==
    ASSUME NEW bytes \in Seq(Byte), NEW n \in 0 .. Len(bytes)
    PROVE  /\ SubSeq(bytes, 1, n) \in Seq(Byte) /\ Len(SubSeq(bytes, 1, n)) = n
           /\ SubSeq(bytes, n + 1, Len(bytes)) \in Seq(Byte)
           /\ Len(SubSeq(bytes, n + 1, Len(bytes))) = Len(bytes) - n
           /\ \A i \in 1 .. n : SubSeq(bytes, 1, n)[i] = bytes[i]
           /\ \A i \in 1 .. Len(bytes) - n : SubSeq(bytes, n + 1, Len(bytes))[i] = bytes[n + i]
           /\ SubSeq(bytes, 1, n) \o SubSeq(bytes, n + 1, Len(bytes)) = bytes
<1>. DEFINE m == Len(bytes)
<1>1. m \in Nat /\ \A i \in 1 .. m : bytes[i] \in Byte
  BY LenProperties, ElementOfSeq
<1>. HIDE DEF m
<1>2. n \in 0 .. m
  BY DEF m
<1>3. /\ SubSeq(bytes, 1, n) \in Seq(Byte)
      /\ Len(SubSeq(bytes, 1, n)) = IF 1 <= n THEN n - 1 + 1 ELSE 0
      /\ \A i \in 1 .. n - 1 + 1 : SubSeq(bytes, 1, n)[i] = bytes[1 + i - 1]
  BY <1>1, <1>2, SubSeqProperties
<1>4. /\ SubSeq(bytes, n + 1, m) \in Seq(Byte)
      /\ Len(SubSeq(bytes, n + 1, m)) = IF n + 1 <= m THEN m - (n + 1) + 1 ELSE 0
      /\ \A i \in 1 .. m - (n + 1) + 1 : SubSeq(bytes, n + 1, m)[i] = bytes[n + 1 + i - 1]
  <2>. DEFINE k == n + 1
  <2>1. k \in Int /\ m \in Int /\ \A j \in k .. m : bytes[j] \in Byte
    BY <1>1, <1>2
  <2>. HIDE DEF k
  <2>2. /\ SubSeq(bytes, k, m) \in Seq(Byte)
        /\ Len(SubSeq(bytes, k, m)) = IF k <= m THEN m - k + 1 ELSE 0
        /\ \A i \in 1 .. m - k + 1 : SubSeq(bytes, k, m)[i] = bytes[k + i - 1]
    BY <2>1, SubSeqProperties
  <2> QED
    BY <2>2 DEF k
<1>5. SubSeq(bytes, 1, n) \o SubSeq(bytes, n + 1, m) = bytes
  <2>1. 1 \in 1 .. Len(bytes) + 1 /\ n \in 1 - 1 .. Len(bytes) /\ m \in n .. Len(bytes)
    BY <1>1, <1>2 DEF m
  <2>2. SubSeq(bytes, 1, n) \o SubSeq(bytes, n + 1, m) = SubSeq(bytes, 1, m)
    BY <2>1, ConcatAdjacentSubSeq
  <2> QED
    BY <2>2, SubSeqFull DEF m
<1>6. SubSeq(bytes, 1, n) \in Seq(Byte) /\ Len(SubSeq(bytes, 1, n)) = n
  BY <1>1, <1>2, <1>3
<1>7. SubSeq(bytes, n + 1, m) \in Seq(Byte) /\ Len(SubSeq(bytes, n + 1, m)) = m - n
  BY <1>1, <1>2, <1>4
<1>8. \A i \in 1 .. n : SubSeq(bytes, 1, n)[i] = bytes[i]
  BY <1>1, <1>2, <1>3
<1>9. \A i \in 1 .. m - n : SubSeq(bytes, n + 1, m)[i] = bytes[n + i]
  <2> TAKE i \in 1 .. m - n
  <2>1. i \in 1 .. m - (n + 1) + 1 /\ n + 1 + i - 1 = n + i
    BY <1>1, <1>2
  <2> QED
    BY <1>4, <2>1
<1> QED
  BY <1>5, <1>6, <1>7, <1>8, <1>9 DEF m

\* Lengths are written as they are: no sign, no width lost.
LEMMA SignedIs ==
    ASSUME NEW k \in Nat, k < 2^(Width - 1)
    PROVE  k \in Unsigned /\ Signed(k) = k
<1>1. Width - 1 \in Nat /\ Width \in Nat /\ Width - 1 <= Width
  BY VarintAssumption
<1>. DEFINE a == 2^(Width - 1)
            b == 2^Width
<1>2. a <= b /\ a \in Nat /\ b \in Nat
  BY <1>1, TwoMonotone, TwoPositive
<1>3. k < a
  OBVIOUS
<1>4. Unsigned = 0 .. b - 1 /\ Signed(k) = IF k < a THEN k ELSE k - b
  BY DEF Unsigned, Signed
<1>. HIDE DEF a, b
<1> QED
  BY <1>2, <1>3, <1>4

\* The number 0 takes one byte.
LEMMA ZeroIs ==
    /\ 0 \in Unsigned /\ Signed(0) = 0 /\ VarintLen(0) = 1
    /\ WriteVarint(0) \in Seq(Byte) /\ Len(WriteVarint(0)) = 1
<1>1. 0 \in Nat /\ 0 < 2^(Width - 1)
  BY VarintAssumption, TwoPositive
<1>2. 0 \in Unsigned /\ Signed(0) = 0
  BY <1>1, SignedIs
<1>3. VarintLen(0) = 1
  <2>1. 1 \in Nat \ {0} /\ Place(1 + 1) \in Nat \ {0}
    BY PlaceIs
  <2>2. 0 < Place(1 + 1)
    BY <2>1
  <2>. DEFINE z == 0
              k == 1
  <2>3. z \in Unsigned /\ k \in Nat \ {0} /\ z < Place(k + 1) /\ k = 1
    BY <1>2, <2>1, <2>2
  <2>. HIDE DEF z, k
  <2>4. VarintLen(z) = k
    BY <2>3, VarintLenOnly
  <2> QED
    BY <2>4 DEF z, k
<1>4. WriteVarint(0) \in Seq(Byte) /\ Len(WriteVarint(0)) = VarintLen(0)
  BY <1>2, GroupsType, WriteVarintIs
<1> QED
  BY <1>2, <1>3, <1>4

=============================================================================

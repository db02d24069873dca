-------------------------- MODULE BitArithmeticProofs --------------------------
(***************************************************************************)
(* That the arithmetic of BulkPlan is the bit arithmetic of network.c, for *)
(* every number of bits.  The induction over the bits is one over sets of  *)
(* numbers (Induction), from the well-foundedness of <.                    *)
(***************************************************************************)
EXTENDS BulkPlanProofs, WellFoundedInduction

\* A set of numbers that is not empty has a least one.
LEMMA LeastNumber ==
    ASSUME NEW T \in SUBSET Nat, T # {}
    PROVE  \E n \in T : \A m \in T : n <= m
<1>1. PICK n \in T : \A m \in T : <<m, n>> \notin OpToRel(<, Nat)
    BY NatLessThanWellFounded, WFMin
<1>2. \A m \in T : ~(m < n)
    BY <1>1 DEF OpToRel
<1> QED
    BY <1>2

\* Induction: a set of numbers that holds 0 and the successors of its elements
\* holds them all.
LEMMA Induction ==
    ASSUME NEW T \in SUBSET Nat, 0 \in T, \A n \in T : n + 1 \in T
    PROVE  T = Nat
<1>1. SUFFICES ASSUME Nat \ T # {}
               PROVE  FALSE
    OBVIOUS
<1>2. PICK n \in Nat \ T : \A m \in Nat \ T : n <= m
    BY <1>1, LeastNumber
<1>3. n # 0 /\ n - 1 \in Nat
    BY <1>2
<1>4. n - 1 \in T
    BY <1>2, <1>3
<1> QED
    BY <1>2, <1>4, (n - 1) + 1 = n

-----------------------------------------------------------------------------
(* Powers of two                                                           *)

\* f is TwoTo up to n.
IsTwoToUpTo(f, n) == f[0] = 1 /\ \A k \in 1..n : f[k] = 2 * f[k - 1]

\* Up to every number there is such a function.
LEMMA TwoToExistsUpTo ==
    ASSUME NEW n \in Nat
    PROVE  \E f \in [0..n -> Nat] : IsTwoToUpTo(f, n)
<1> DEFINE T == {m \in Nat : \E f \in [0..m -> Nat] : IsTwoToUpTo(f, m)}
<1>1. 0 \in T
    <2>1. IsTwoToUpTo([k \in 0..0 |-> 1], 0)
        BY DEF IsTwoToUpTo
    <2> QED
        BY <2>1
<1>2. ASSUME NEW m \in T
      PROVE  m + 1 \in T
    <2>1. PICK f \in [0..m -> Nat] : IsTwoToUpTo(f, m)
        OBVIOUS
    <2> DEFINE g == [k \in 0..(m + 1) |-> IF k = m + 1 THEN 2 * f[m] ELSE f[k]]
    <2>2. g \in [0..(m + 1) -> Nat]
        OBVIOUS
    <2>3. g[0] = 1
        BY <2>1 DEF IsTwoToUpTo
    <2>4. ASSUME NEW k \in 1..(m + 1)
          PROVE  g[k] = 2 * g[k - 1]
        <3>1. CASE k = m + 1
            BY <3>1
        <3>2. CASE k # m + 1
            <4>1. k \in 1..m /\ k - 1 \in 0..m
                BY <3>2
            <4> QED
                BY <2>1, <3>2, <4>1 DEF IsTwoToUpTo
        <3> QED
            BY <3>1, <3>2
    <2>5. IsTwoToUpTo(g, m + 1)
        BY <2>3, <2>4 DEF IsTwoToUpTo
    <2> QED
        BY <2>2, <2>5
<1> HIDE DEF T
<1>3. T \in SUBSET Nat
    BY DEF T
<1>4. T = Nat
    BY <1>1, <1>2, <1>3, Induction
<1> QED
    BY <1>4 DEF T

\* Two such functions agree as far as both go.
LEMMA TwoToUniqueUpTo ==
    ASSUME NEW f, NEW g, NEW n \in Nat, NEW m \in 0..n, IsTwoToUpTo(f, m), IsTwoToUpTo(g, n)
    PROVE  f[m] = g[m]
<1> DEFINE T == {k \in Nat : k <= m => f[k] = g[k]}
<1>1. 0 \in T
    BY DEF IsTwoToUpTo
<1>2. ASSUME NEW k \in T
      PROVE  k + 1 \in T
    <2> SUFFICES ASSUME k + 1 <= m
                 PROVE  f[k + 1] = g[k + 1]
        OBVIOUS
    <2>1. k + 1 \in 1..m /\ k + 1 \in 1..n /\ (k + 1) - 1 = k
        OBVIOUS
    <2>2. f[k + 1] = 2 * f[k]
        BY <2>1 DEF IsTwoToUpTo
    <2>3. g[k + 1] = 2 * g[k]
        BY <2>1 DEF IsTwoToUpTo
    <2> QED
        BY <2>2, <2>3
<1> HIDE DEF T
<1>3. T \in SUBSET Nat
    BY DEF T
<1>4. T = Nat
    BY <1>1, <1>2, <1>3, Induction
<1> QED
    BY <1>4 DEF T

\* Hence the recursion of TwoTo defines a function.
LEMMA TwoToRecursion ==
    /\ TwoTo \in [Nat -> Nat]
    /\ TwoTo[0] = 1
    /\ \A k \in Nat : TwoTo[k + 1] = 2 * TwoTo[k]
<1> DEFINE upTo(n) == CHOOSE f \in [0..n -> Nat] : IsTwoToUpTo(f, n)
           power == [k \in Nat |-> upTo(k)[k]]
           step(f) == [k \in Nat |-> IF k = 0 THEN 1 ELSE 2 * f[k - 1]]
<1>1. ASSUME NEW n \in Nat
      PROVE  upTo(n) \in [0..n -> Nat] /\ IsTwoToUpTo(upTo(n), n)
    BY TwoToExistsUpTo
<1> HIDE DEF upTo
<1>2. \A k \in Nat : power[k] = upTo(k)[k] /\ power[k] \in Nat
    BY <1>1
<1>3. power[0] = 1
    BY <1>1, <1>2 DEF IsTwoToUpTo
<1>4. ASSUME NEW k \in Nat
      PROVE  power[k + 1] = 2 * power[k]
    <2>1. k + 1 \in Nat /\ k \in 0..(k + 1) /\ k + 1 \in 1..(k + 1) /\ (k + 1) - 1 = k
        OBVIOUS
    <2>2. IsTwoToUpTo(upTo(k), k) /\ IsTwoToUpTo(upTo(k + 1), k + 1)
        BY <1>1, <2>1
    <2>3. upTo(k)[k] = upTo(k + 1)[k]
        BY <2>1, <2>2, TwoToUniqueUpTo
    <2>4. upTo(k + 1)[k + 1] = 2 * upTo(k + 1)[k]
        BY <2>1, <2>2 DEF IsTwoToUpTo
    <2> QED
        BY <1>2, <2>1, <2>3, <2>4
<1> HIDE DEF power
<1>5. power = step(power)
    <2>1. ASSUME NEW k \in Nat
          PROVE  power[k] = IF k = 0 THEN 1 ELSE 2 * power[k - 1]
        <3>1. CASE k # 0
            <4>1. k - 1 \in Nat /\ (k - 1) + 1 = k
                BY <3>1
            <4> QED
                BY <1>4, <3>1, <4>1
        <3> QED
            BY <1>3, <3>1
    <2> QED
        BY <2>1 DEF power
<1>6. \E f : f = step(f)
    BY <1>5
<1>7. TwoTo = step(TwoTo)
    BY <1>6 DEF TwoTo
<1>8. TwoTo[0] = 1
    BY <1>7
<1>9. ASSUME NEW k \in Nat
      PROVE  TwoTo[k + 1] = 2 * TwoTo[k]
    <2>1. k + 1 \in Nat /\ k + 1 # 0 /\ (k + 1) - 1 = k
        OBVIOUS
    <2> QED
        BY <1>7, <2>1
<1>10. \A k \in Nat : TwoTo[k] \in Nat
    <2> DEFINE T == {k \in Nat : TwoTo[k] \in Nat}
    <2>1. 0 \in T
        BY <1>8
    <2>2. ASSUME NEW k \in T
          PROVE  k + 1 \in T
        BY <1>9
    <2>3. T = Nat
        <3> HIDE DEF T
        <3>1. T \in SUBSET Nat
            BY DEF T
        <3> QED
            BY <2>1, <2>2, <3>1, Induction
    <2> QED
        BY <2>3
<1>11. DOMAIN TwoTo = Nat /\ TwoTo = [k \in DOMAIN TwoTo |-> TwoTo[k]]
    BY <1>7
<1> QED
    BY <1>8, <1>9, <1>10, <1>11

\* Powers of two are positive.
LEMMA TwoToPositive ==
    ASSUME NEW k \in Nat
    PROVE  TwoTo[k] \in Nat /\ TwoTo[k] > 0
<1> DEFINE T == {n \in Nat : TwoTo[n] > 0}
<1>1. 0 \in T
    BY TwoToRecursion
<1>2. ASSUME NEW n \in T
      PROVE  n + 1 \in T
    BY TwoToRecursion
<1> HIDE DEF T
<1>3. T \in SUBSET Nat
    BY DEF T
<1>4. T = Nat
    BY <1>1, <1>2, <1>3, Induction
<1> QED
    BY <1>4, TwoToRecursion DEF T

\* A power of a sum is a product.
LEMMA TwoToSum ==
    ASSUME NEW m \in Nat, NEW n \in Nat
    PROVE  TwoTo[m + n] = TwoTo[m] * TwoTo[n]
<1> DEFINE T == {k \in Nat : TwoTo[m + k] = TwoTo[m] * TwoTo[k]}
<1>1. 0 \in T
    BY TwoToRecursion
<1>2. ASSUME NEW k \in T
      PROVE  k + 1 \in T
    <2>1. TwoTo[m + (k + 1)] = 2 * TwoTo[m + k] /\ TwoTo[k + 1] = 2 * TwoTo[k]
        BY TwoToRecursion, m + (k + 1) = (m + k) + 1
    <2>2. TwoTo[m] \in Nat /\ TwoTo[k] \in Nat
        BY TwoToRecursion
    <2> QED
        BY <2>1, <2>2
<1> HIDE DEF T
<1>3. T \in SUBSET Nat
    BY DEF T
<1>4. T = Nat
    BY <1>1, <1>2, <1>3, Induction
<1> QED
    BY <1>4 DEF T

\* A larger power is a multiple of a smaller one.
LEMMA TwoToMultiple ==
    ASSUME NEW k \in Nat, NEW j \in Nat, k <= j
    PROVE  /\ TwoTo[j - k] \in Nat /\ TwoTo[j - k] > 0
           /\ TwoTo[j] = TwoTo[k] * TwoTo[j - k]
           /\ TwoTo[k] <= TwoTo[j]
<1>1. j - k \in Nat /\ k + (j - k) = j
    OBVIOUS
<1>2. TwoTo[k] \in Nat /\ TwoTo[j - k] \in Nat /\ TwoTo[j - k] > 0
    BY <1>1, TwoToPositive
<1>3. TwoTo[j] = TwoTo[k] * TwoTo[j - k]
    BY <1>1, TwoToSum
<1>4. TwoTo[k] <= TwoTo[j]
    BY <1>2, <1>3
<1> QED
    BY <1>2, <1>3, <1>4

\* An even one if they differ.
LEMMA TwoToEven ==
    ASSUME NEW k \in Nat, NEW j \in Nat, k < j
    PROVE  \E h \in Nat : h > 0 /\ TwoTo[j - k] = 2 * h
<1>1. (j - k) - 1 \in Nat /\ ((j - k) - 1) + 1 = j - k
    OBVIOUS
<1>2. TwoTo[j - k] = 2 * TwoTo[(j - k) - 1]
    BY <1>1, TwoToRecursion
<1>3. TwoTo[(j - k) - 1] \in Nat /\ TwoTo[(j - k) - 1] > 0
    BY <1>1, TwoToPositive
<1> QED
    BY <1>2, <1>3

-----------------------------------------------------------------------------
(* Quotients and remainders                                                *)

\* A number has one quotient and one remainder.
LEMMA Division ==
    ASSUME NEW a \in Nat, NEW n \in Nat, n > 0
    PROVE  /\ a \div n \in Nat /\ a % n \in Nat /\ a % n < n
           /\ a = n * (a \div n) + (a % n)
OBVIOUS

\* What divides like a quotient and a remainder is the quotient.
LEMMA QuotientIs ==
    ASSUME NEW a \in Nat, NEW n \in Nat, NEW q \in Nat, NEW r \in Nat, r < n, a = n * q + r
    PROVE  a \div n = q /\ a % n = r
OBVIOUS

\* A number in two steps: digits below n, below n * m and above.
LEMMA Digits ==
    ASSUME NEW a \in Nat, NEW n \in Nat, NEW m \in Nat, n > 0, m > 0
    PROVE  /\ a \div (n * m) = (a \div n) \div m
           /\ (a % (n * m)) \div n = (a \div n) % m
<1> DEFINE q == a \div n
           r == a % n
           high == q \div m
           low == q % m
<1>1. q \in Nat /\ r \in Nat /\ r < n /\ a = n * q + r
    BY Division
<1> HIDE DEF q, r
<1>2. high \in Nat /\ low \in Nat /\ low < m /\ q = m * high + low
    BY <1>1, Division
<1> HIDE DEF high, low
<1> DEFINE rest == n * low + r
           both == n * m
<1>3. rest \in Nat /\ rest < both
    <2>1. low + 1 <= m
        BY <1>2
    <2>2. n * (low + 1) <= n * m
        BY <1>2, <2>1
    <2>3. n * (low + 1) = n * low + n
        BY <1>2
    <2> QED
        BY <1>1, <1>2, <2>2, <2>3
<1>4. both \in Nat /\ a = both * high + rest
    BY <1>1, <1>2
<1>5. rest = n * low + r
    OBVIOUS
<1>6. high \in Nat /\ low \in Nat /\ r \in Nat /\ r < n
    BY <1>1, <1>2
<1> HIDE DEF rest, both
<1>7. a \div both = high /\ a % both = rest
    BY <1>3, <1>4, <1>6, QuotientIs
<1>8. rest \div n = low
    BY <1>3, <1>5, <1>6, QuotientIs
<1> QED
    BY <1>7, <1>8 DEF q, high, low, both

\* A remainder by an even number keeps the lowest digit.
LEMMA LowestDigit ==
    ASSUME NEW a \in Nat, NEW h \in Nat, h > 0
    PROVE  (a % (2 * h)) % 2 = a % 2
<1> DEFINE q == a \div (2 * h)
           r == a % (2 * h)
<1>1. 2 * h \in Nat /\ 2 * h > 0
    OBVIOUS
<1>2. q \in Nat /\ r \in Nat /\ a = (2 * h) * q + r
    BY <1>1, Division
<1> HIDE DEF q, r
<1>3. a = 2 * (h * q) + r /\ h * q \in Nat
    BY <1>2
<1>4. a % 2 = r % 2
    BY <1>2, <1>3
<1> QED
    BY <1>4 DEF r

-----------------------------------------------------------------------------
(* Bits                                                                    *)

\* A bit by division.
LEMMA BitIs ==
    ASSUME NEW a \in Nat, NEW k \in 0..Bits
    PROVE  Bit(a, k) = (a \div TwoTo[k]) % 2 /\ Bit(a, k) \in {0, 1}
<1>1. Power[k] = TwoTo[k]
    BY DEF Power
<1>2. k \in Nat
    BY BulkPlanAssumption
<1>3. TwoTo[k] \in Nat /\ TwoTo[k] > 0
    BY <1>2, TwoToPositive
<1>4. a \div TwoTo[k] \in Nat
    BY <1>3, Division
<1> QED
    BY <1>1, <1>4 DEF Bit

\* What a power of two leaves of a number below it.
LEMMA BitAbove ==
    ASSUME NEW a \in Nat, NEW k \in 0..Bits, a < TwoTo[k]
    PROVE  a \div TwoTo[k] = 0 /\ Bit(a, k) = 0
<1>1. k \in Nat
    BY BulkPlanAssumption
<1>2. TwoTo[k] \in Nat /\ a = TwoTo[k] * 0 + a
    BY <1>1, TwoToPositive
<1>3. a \div TwoTo[k] = 0
    BY <1>2, QuotientIs
<1> QED
    BY <1>3, BitIs

\* Only bit j of TwoTo[j] is set, and only the bits below are of TwoTo[j] - 1.
LEMMA BitsOfPower ==
    ASSUME NEW j \in 0..Bits, NEW k \in 0..Bits
    PROVE  /\ TwoTo[j] \in Nat /\ TwoTo[j] - 1 \in Nat
           /\ k # j => Bit(TwoTo[j], k) = 0
           /\ Bit(TwoTo[j] - 1, k) = IF k < j THEN 1 ELSE 0
<1>1. j \in Nat /\ k \in Nat
    BY BulkPlanAssumption
<1>2. TwoTo[j] \in Nat /\ TwoTo[j] > 0 /\ TwoTo[k] \in Nat /\ TwoTo[k] > 0
    BY <1>1, TwoToPositive
<1>3. TwoTo[j] - 1 \in Nat
    BY <1>2
<1>4. CASE k < j
    <2>1. /\ TwoTo[j - k] \in Nat /\ TwoTo[j - k] > 0
          /\ TwoTo[j] = TwoTo[k] * TwoTo[j - k]
        BY <1>1, <1>4, TwoToMultiple
    <2>2. PICK h \in Nat : h > 0 /\ TwoTo[j - k] = 2 * h
        BY <1>1, <1>4, TwoToEven
    <2>3. TwoTo[j] \div TwoTo[k] = TwoTo[j - k]
        <3>1. TwoTo[j] = TwoTo[k] * TwoTo[j - k] + 0
            BY <1>2, <2>1
        <3> QED
            BY <1>2, <2>1, <3>1, QuotientIs
    <2>4. (TwoTo[j] - 1) \div TwoTo[k] = TwoTo[j - k] - 1
        <3>1. TwoTo[j - k] - 1 \in Nat /\ TwoTo[k] - 1 \in Nat /\ TwoTo[k] - 1 < TwoTo[k]
            BY <1>2, <2>1
        <3>2. TwoTo[j] - 1 = TwoTo[k] * (TwoTo[j - k] - 1) + (TwoTo[k] - 1)
            BY <1>2, <2>1
        <3> DEFINE a == TwoTo[j] - 1
                   n == TwoTo[k]
                   q == TwoTo[j - k] - 1
                   r == TwoTo[k] - 1
        <3>3. a \in Nat /\ n \in Nat /\ q \in Nat /\ r \in Nat /\ r < n /\ a = n * q + r
            BY <1>2, <1>3, <3>1, <3>2
        <3> HIDE DEF a, n, q, r
        <3>4. a \div n = q
            BY <3>3, QuotientIs
        <3> QED
            BY <3>4 DEF a, n, q
    <2>5. TwoTo[j - k] % 2 = 0 /\ (TwoTo[j - k] - 1) % 2 = 1
        BY <2>1, <2>2
    <2> QED
        BY <1>2, <1>3, <1>4, <2>3, <2>4, <2>5, BitIs
<1>5. CASE k = j
    <2>1. TwoTo[j] - 1 < TwoTo[k]
        BY <1>2, <1>5
    <2> QED
        BY <1>2, <1>3, <1>5, <2>1, BitAbove
<1>6. CASE k > j
    <2>1. j + 1 \in Nat /\ j + 1 <= k
        BY <1>1, <1>6
    <2>2. TwoTo[j + 1] <= TwoTo[k] /\ TwoTo[j + 1] = 2 * TwoTo[j]
        BY <1>1, <2>1, TwoToMultiple, TwoToRecursion
    <2>3. TwoTo[j] < TwoTo[k] /\ TwoTo[j] - 1 < TwoTo[k]
        BY <1>2, <2>2
    <2> QED
        BY <1>2, <1>3, <1>6, <2>3, BitAbove
<1> QED
    BY <1>1, <1>2, <1>3, <1>4, <1>5, <1>6

\* A number lies between two powers of two.
LEMMA Between ==
    ASSUME NEW n \in Nat, n > 0, NEW top \in Nat, n < TwoTo[top]
    PROVE  \E j \in Nat : j < top /\ TwoTo[j] <= n /\ n < TwoTo[j + 1]
<1> DEFINE T == {k \in Nat : n < TwoTo[k]}
<1>1. T \in SUBSET Nat /\ T # {}
    OBVIOUS
<1>2. PICK k \in T : \A m \in T : k <= m
    BY <1>1, LeastNumber
<1>3. k \in Nat /\ n < TwoTo[k] /\ k <= top
    BY <1>2
<1>4. k # 0
    BY <1>3, TwoToRecursion
<1>5. k - 1 \in Nat /\ (k - 1) + 1 = k /\ k - 1 < top
    BY <1>3, <1>4
<1>6. TwoTo[k - 1] \in Nat
    BY <1>5, TwoToPositive
<1>7. ~(n < TwoTo[k - 1])
    BY <1>2, <1>3, <1>5
<1> QED
    BY <1>3, <1>5, <1>6, <1>7

\* A number goes once into one less than twice as large.
LEMMA OneTime ==
    ASSUME NEW a \in Nat, NEW n \in Nat, n <= a, a < 2 * n
    PROVE  a \div n = 1
<1> DEFINE r == a - n
<1>1. r \in Nat /\ r < n /\ a = n * 1 + r
    OBVIOUS
<1> HIDE DEF r
<1> QED
    BY <1>1, QuotientIs

\* A number and the one below it share no bit exactly if it is a power of two:
\* the test of tvt_network_validate for a contiguous mask.
LEMMA PowerByBits ==
    ASSUME NEW n \in Nat, n > 0, n < Size
    PROVE  IsPowerOfTwo(n) <=> \A k \in 0..Bits : Bit(n - 1, k) = 0 \/ Bit(n, k) = 0
<1>1. Bits \in Nat /\ TwoTo[Bits] = Size
    BY BulkPlanAssumption
<1>2. ASSUME IsPowerOfTwo(n), NEW k \in 0..Bits
      PROVE  Bit(n - 1, k) = 0 \/ Bit(n, k) = 0
    <2>1. PICK j \in 0..Bits : n = TwoTo[j]
        BY <1>2 DEF IsPowerOfTwo, Power
    <2>2. k # j => Bit(n, k) = 0
        BY <2>1, BitsOfPower
    <2>3. Bit(n - 1, k) = IF k < j THEN 1 ELSE 0
        BY <2>1, BitsOfPower
    <2> QED
        BY <2>2, <2>3
<1>3. ASSUME ~IsPowerOfTwo(n)
      PROVE  \E k \in 0..Bits : Bit(n - 1, k) # 0 /\ Bit(n, k) # 0
    <2>1. PICK j \in Nat : j < Bits /\ TwoTo[j] <= n /\ n < TwoTo[j + 1]
        BY <1>1, Between
    <2>2. j \in 0..Bits
        BY <1>1, <2>1
    <2>3. TwoTo[j] \in Nat /\ TwoTo[j] > 0 /\ TwoTo[j + 1] = 2 * TwoTo[j]
        BY TwoToPositive, TwoToRecursion
    <2>4. n # TwoTo[j]
        BY <1>3, <2>2 DEF IsPowerOfTwo, Power
    <2>5. n - 1 \in Nat
        OBVIOUS
    <2>6. n \div TwoTo[j] = 1
        BY <2>1, <2>3, OneTime
    <2>7. (n - 1) \div TwoTo[j] = 1
        <3>1. TwoTo[j] <= n - 1 /\ n - 1 < 2 * TwoTo[j]
            BY <2>1, <2>3, <2>4
        <3> QED
            BY <2>3, <2>5, <3>1, OneTime
    <2>8. Bit(n, j) = 1 /\ Bit(n - 1, j) = 1
        BY <2>2, <2>5, <2>6, <2>7, BitIs
    <2> QED
        BY <2>2, <2>8
<1> QED
    BY <1>2, <1>3

\* The host bits of an address are those the inverse mask has.
LEMMA HostBits ==
    ASSUME NEW a \in Nat, NEW j \in 0..Bits, NEW k \in 0..Bits
    PROVE  Bit(a % TwoTo[j], k) = Bit(a, k) * Bit(TwoTo[j] - 1, k)
<1>1. j \in Nat /\ k \in Nat
    BY BulkPlanAssumption
<1>2. TwoTo[j] \in Nat /\ TwoTo[j] > 0 /\ TwoTo[k] \in Nat /\ TwoTo[k] > 0
    BY <1>1, TwoToPositive
<1>3. a % TwoTo[j] \in Nat /\ a % TwoTo[j] < TwoTo[j]
    BY <1>2, Division
<1>4. Bit(a, k) \in {0, 1}
    BY BitIs
<1>5. CASE k < j
    <2>1. /\ TwoTo[j - k] \in Nat /\ TwoTo[j - k] > 0
          /\ TwoTo[j] = TwoTo[k] * TwoTo[j - k]
        BY <1>1, <1>5, TwoToMultiple
    <2>2. PICK h \in Nat : h > 0 /\ TwoTo[j - k] = 2 * h
        BY <1>1, <1>5, TwoToEven
    <2>3. (a % TwoTo[j]) \div TwoTo[k] = (a \div TwoTo[k]) % TwoTo[j - k]
        BY <1>2, <2>1, Digits
    <2>4. a \div TwoTo[k] \in Nat
        BY <1>2, Division
    <2>5. ((a \div TwoTo[k]) % (2 * h)) % 2 = (a \div TwoTo[k]) % 2
        BY <2>2, <2>4, LowestDigit
    <2>6. Bit(a % TwoTo[j], k) = Bit(a, k)
        BY <1>3, <2>2, <2>3, <2>5, BitIs
    <2>7. Bit(TwoTo[j] - 1, k) = 1
        BY <1>5, BitsOfPower
    <2> QED
        BY <1>4, <2>6, <2>7
<1>6. CASE j <= k
    <2>1. TwoTo[j] <= TwoTo[k]
        BY <1>1, <1>6, TwoToMultiple
    <2>2. Bit(a % TwoTo[j], k) = 0
        BY <1>2, <1>3, <2>1, BitAbove
    <2>3. Bit(TwoTo[j] - 1, k) = 0
        BY <1>1, <1>6, BitsOfPower
    <2> QED
        BY <1>4, <2>2, <2>3
<1> QED
    BY <1>1, <1>5, <1>6

\* A mask with subnets of TwoTo[j] addresses has all the bits from j on.
LEMMA MaskBits ==
    ASSUME NEW j \in 0..Bits, NEW k \in 0..Bits
    PROVE  /\ Size - TwoTo[j] \in Nat
           /\ Bit(Size - TwoTo[j], k) = IF j <= k /\ k < Bits THEN 1 ELSE 0
<1>1. j \in Nat /\ k \in Nat /\ Bits \in Nat /\ TwoTo[Bits] = Size /\ Bits \in 0..Bits
    BY BulkPlanAssumption
<1>2. /\ TwoTo[j] \in Nat /\ TwoTo[j] > 0 /\ TwoTo[k] \in Nat /\ TwoTo[k] > 0
      /\ TwoTo[j] <= Size /\ Size \in Nat
    BY <1>1, TwoToPositive, TwoToMultiple
<1> DEFINE mask == Size - TwoTo[j]
           n == TwoTo[k]
<1>3. mask \in Nat /\ n \in Nat /\ n > 0
    BY <1>2
<1>4. CASE k = Bits
    <2>1. mask < TwoTo[k]
        BY <1>1, <1>2, <1>4
    <2> QED
        BY <1>3, <1>4, <2>1, BitAbove
<1>5. CASE k < Bits
    <2>1. /\ TwoTo[Bits - k] \in Nat /\ TwoTo[Bits - k] > 0
          /\ Size = TwoTo[k] * TwoTo[Bits - k]
        BY <1>1, <1>5, TwoToMultiple
    <2>2. PICK g \in Nat : g > 0 /\ TwoTo[Bits - k] = 2 * g
        BY <1>1, <1>5, TwoToEven
    <2>3. CASE j <= k
        <3> DEFINE q == 2 * g - 1
                   r == TwoTo[k] - TwoTo[j]
        <3>1. TwoTo[j] <= TwoTo[k]
            BY <1>1, <2>3, TwoToMultiple
        <3>2. q \in Nat /\ r \in Nat /\ r < n
            BY <1>2, <2>1, <2>2, <3>1
        <3>3. Size = n * (2 * g)
            BY <2>1, <2>2
        <3>4. mask = n * q + r
            BY <1>2, <3>3
        <3>5. q % 2 = 1
            BY <2>1, <2>2
        <3> HIDE DEF mask, n, q, r
        <3>6. mask \div n = q
            BY <1>3, <3>2, <3>4, QuotientIs
        <3>7. Bit(mask, k) = 1
            BY <1>3, <3>5, <3>6, BitIs DEF n
        <3> QED
            BY <1>3, <1>5, <2>3, <3>7 DEF mask
    <2>4. CASE k < j
        <3>1. TwoTo[j] = TwoTo[k] * TwoTo[j - k]
            BY <1>1, <2>4, TwoToMultiple
        <3>2. PICK h \in Nat : h > 0 /\ TwoTo[j - k] = 2 * h
            BY <1>1, <2>4, TwoToEven
        <3>3. Size = n * (2 * g) /\ TwoTo[j] = n * (2 * h)
            BY <2>1, <2>2, <3>1, <3>2
        <3>4. h <= g
            <4>1. n * (2 * h) <= n * (2 * g)
                BY <1>2, <3>3
            <4> HIDE DEF n
            <4>2. ASSUME g < h
                  PROVE  FALSE
                <5>1. 2 * g + 1 <= 2 * h
                    BY <4>2
                <5>2. n * (2 * g + 1) <= n * (2 * h)
                    BY <1>3, <5>1
                <5>3. n * (2 * g + 1) = n * (2 * g) + n
                    BY <1>3
                <5> QED
                    BY <1>3, <4>1, <5>2, <5>3
            <4> QED
                BY <4>2
        <3> DEFINE q == 2 * (g - h)
        <3>5. q \in Nat /\ q % 2 = 0
            BY <3>4
        <3>6. mask = n * q + 0
            BY <1>3, <3>3
        <3> HIDE DEF mask, n, q
        <3>7. mask \div n = q
            BY <1>3, <3>5, <3>6, QuotientIs
        <3>8. Bit(mask, k) = 0
            BY <1>3, <3>5, <3>7, BitIs DEF n
        <3> QED
            BY <1>3, <2>4, <3>8 DEF mask
    <2> QED
        BY <1>1, <2>3, <2>4
<1> QED
    BY <1>1, <1>4, <1>5

\* A quotient by a power of two is the next one and a bit.
LEMMA OneBitMore ==
    ASSUME NEW a \in Nat, NEW k \in 0..Bits, k < Bits
    PROVE  a \div TwoTo[k] = 2 * (a \div TwoTo[k + 1]) + Bit(a, k)
<1>1. k \in Nat
    BY BulkPlanAssumption
<1>2. TwoTo[k] \in Nat /\ TwoTo[k] > 0 /\ TwoTo[k + 1] = TwoTo[k] * 2
    BY <1>1, TwoToPositive, TwoToRecursion
<1>3. a \div TwoTo[k + 1] = (a \div TwoTo[k]) \div 2
    BY <1>2, Digits
<1> DEFINE q == a \div TwoTo[k]
<1>4. q \in Nat
    BY <1>2, Division
<1>5. Bit(a, k) = q % 2
    BY BitIs
<1> HIDE DEF q
<1>6. q = 2 * (q \div 2) + (q % 2)
    BY <1>4, Division
<1> QED
    BY <1>3, <1>5, <1>6 DEF q

\* Addresses have one quotient by a power of two exactly if they have the same
\* bits from there on.
LEMMA SameHighBits ==
    ASSUME NEW a \in Address, NEW b \in Address, NEW j \in 0..Bits
    PROVE  a \div TwoTo[j] = b \div TwoTo[j]
              <=> \A k \in 0..Bits : j <= k /\ k < Bits => Bit(a, k) = Bit(b, k)
<1>1. j \in Nat /\ Bits \in Nat /\ TwoTo[Bits] = Size /\ Bits \in 0..Bits
    BY BulkPlanAssumption
<1>2. a \in Nat /\ b \in Nat /\ a < Size /\ b < Size
    BY Sizes DEF Address
<1>3. ASSUME a \div TwoTo[j] = b \div TwoTo[j], NEW k \in 0..Bits, j <= k
      PROVE  Bit(a, k) = Bit(b, k)
    <2>1. k \in Nat
        BY <1>1
    <2>2. /\ TwoTo[k] = TwoTo[j] * TwoTo[k - j]
          /\ TwoTo[k - j] \in Nat /\ TwoTo[k - j] > 0
        BY <1>1, <1>3, <2>1, TwoToMultiple
    <2>3. TwoTo[j] \in Nat /\ TwoTo[j] > 0
        BY <1>1, TwoToPositive
    <2>4. /\ a \div TwoTo[k] = (a \div TwoTo[j]) \div TwoTo[k - j]
          /\ b \div TwoTo[k] = (b \div TwoTo[j]) \div TwoTo[k - j]
        BY <1>2, <2>2, <2>3, Digits
    <2> QED
        BY <1>2, <1>3, <2>4, BitIs
<1>4. ASSUME \A k \in 0..Bits : j <= k /\ k < Bits => Bit(a, k) = Bit(b, k)
      PROVE  a \div TwoTo[j] = b \div TwoTo[j]
    <2> DEFINE T == {i \in Nat : i <= Bits - j =>
                                     a \div TwoTo[Bits - i] = b \div TwoTo[Bits - i]}
    <2>1. 0 \in T
        <3>1. a \div TwoTo[Bits] = 0 /\ b \div TwoTo[Bits] = 0
            BY <1>1, <1>2, BitAbove
        <3> QED
            BY <1>1, <3>1, Bits - 0 = Bits
    <2>2. ASSUME NEW i \in T
          PROVE  i + 1 \in T
        <3> SUFFICES ASSUME i + 1 <= Bits - j
                     PROVE  a \div TwoTo[Bits - (i + 1)] = b \div TwoTo[Bits - (i + 1)]
            OBVIOUS
        <3> DEFINE k == Bits - (i + 1)
        <3>1. /\ k \in 0..Bits /\ j <= k /\ k < Bits
              /\ k + 1 = Bits - i
            BY <1>1
        <3>2. i <= Bits - j
            BY <1>1
        <3> HIDE DEF k
        <3>3. Bit(a, k) = Bit(b, k)
            BY <1>4, <3>1
        <3>4. a \div TwoTo[k + 1] = b \div TwoTo[k + 1]
            BY <3>1, <3>2
        <3>5. a \div TwoTo[k] = b \div TwoTo[k]
            BY <1>2, <3>1, <3>3, <3>4, OneBitMore
        <3> QED
            BY <3>5 DEF k
    <2> HIDE DEF T
    <2>3. T \in SUBSET Nat
        BY DEF T
    <2>4. T = Nat
        BY <2>1, <2>2, <2>3, Induction
    <2>5. Bits - j \in T /\ Bits - (Bits - j) = j
        BY <1>1, <2>4
    <2> QED
        BY <2>5 DEF T
<1> QED
    BY <1>3, <1>4

\* Two addresses are in one subnet exactly if they agree in the bits of the mask:
\* the comparison of tvt_network_validate.
LEMMA SubnetBits ==
    ASSUME NEW a \in Address, NEW b \in Address, NEW j \in 0..Bits
    PROVE  a \div TwoTo[j] = b \div TwoTo[j]
              <=> \A k \in 0..Bits : Bit(a, k) * Bit(Size - TwoTo[j], k)
                                   = Bit(b, k) * Bit(Size - TwoTo[j], k)
<1>1. a \in Nat /\ b \in Nat
    BY Sizes DEF Address
<1>2. \A k \in 0..Bits : /\ Bit(a, k) \in {0, 1} /\ Bit(b, k) \in {0, 1}
                         /\ Bit(Size - TwoTo[j], k) = IF j <= k /\ k < Bits THEN 1 ELSE 0
    BY <1>1, BitIs, MaskBits
<1>3. ASSUME NEW k \in 0..Bits
      PROVE  Bit(a, k) * Bit(Size - TwoTo[j], k) = Bit(b, k) * Bit(Size - TwoTo[j], k)
                <=> (j <= k /\ k < Bits => Bit(a, k) = Bit(b, k))
    BY <1>2
<1> QED
    BY <1>3, SameHighBits

\* The arithmetic of this module does what the bit operations of network.c do, for
\* every mask and all addresses that can be typed.
THEOREM PlanArithmetic == Spec => []ArithmeticIsBitwise
<1>1. ASSUME TypeOK
      PROVE  ArithmeticIsBitwise
    <2> SUFFICES ASSUME form.mask # NotAnAddress
                 PROVE  ArithmeticIsBitwise
        BY DEF ArithmeticIsBitwise
    <2> DEFINE mask == form.mask
               size == SubnetSize(mask)
               inverse == Size - 1 - mask
               addresses == {form.start, form.gateway} \ {NotAnAddress}
    <2>1. mask \in Address /\ addresses \subseteq Address
        BY <1>1, BulkPlanAssumption DEF TypeOK, Form
    <2>2. Size \in Nat /\ mask \in Nat /\ size \in Nat /\ size > 0 /\ inverse = size - 1 /\ inverse + 1 = size
        BY <2>1, Sizes DEF SubnetSize, Address
    <2>3. Contiguous(mask) <=>
              /\ mask # 0 /\ mask # Size - 1
              /\ \A k \in 0..Bits : Bit(inverse, k) = 0 \/ Bit(inverse + 1, k) = 0
        <3>1. CASE mask = 0
            BY <3>1 DEF Contiguous
        <3>2. CASE mask # 0
            <4>1. size < Size
                BY <2>2, <3>2 DEF SubnetSize
            <4>2. IsPowerOfTwo(size) <=> \A k \in 0..Bits : Bit(size - 1, k) = 0 \/ Bit(size, k) = 0
                BY <2>2, <4>1, PowerByBits
            <4> QED
                BY <2>2, <3>2, <4>2 DEF Contiguous
        <3> QED
            BY <3>1, <3>2
    <2>4. ASSUME Contiguous(mask), NEW a \in addresses, NEW b \in addresses
          PROVE  /\ \A k \in 0..Bits : Bit(HostPart(a, mask), k) = Bit(a, k) * Bit(inverse, k)
                 /\ Subnet(a, mask) = Subnet(b, mask) <=>
                        \A k \in 0..Bits : Bit(a, k) * Bit(mask, k) = Bit(b, k) * Bit(mask, k)
        <3>1. PICK j \in 0..Bits : size = TwoTo[j]
            BY <2>4 DEF Contiguous, IsPowerOfTwo, Power
        <3>2. mask = Size - TwoTo[j]
            BY <2>2, <3>1 DEF SubnetSize
        <3>3. a \in Address /\ b \in Address /\ a \in Nat
            BY <2>1, Sizes DEF Address
        <3>4. HostPart(a, mask) = a % TwoTo[j]
            BY <3>1 DEF HostPart
        <3>5. Subnet(a, mask) = a \div TwoTo[j] /\ Subnet(b, mask) = b \div TwoTo[j]
            BY <3>1 DEF Subnet
        <3> HIDE DEF mask, inverse
        <3>6. \A k \in 0..Bits : Bit(HostPart(a, mask), k) = Bit(a, k) * Bit(inverse, k)
            BY <2>2, <3>1, <3>3, <3>4, HostBits
        <3>7. Subnet(a, mask) = Subnet(b, mask) <=>
                  \A k \in 0..Bits : Bit(a, k) * Bit(mask, k) = Bit(b, k) * Bit(mask, k)
            BY <3>2, <3>3, <3>5, SubnetBits
        <3> QED
            BY <3>6, <3>7
    <2> QED
        BY <2>3, <2>4 DEF ArithmeticIsBitwise
<1> QED
    BY <1>1, PlanTypes, PTL

\* The sizes of the code are ones the theorems speak of: addresses of 32 bits,
\* four octets.
THEOREM CodeSizes == TwoTo[32] = 256 * 256 * 256 * 256
<1>1. TwoTo[8] = 256
    <2>1. /\ TwoTo[1] = 2 /\ TwoTo[2] = 4 /\ TwoTo[3] = 8 /\ TwoTo[4] = 16
        BY TwoToRecursion, 0 + 1 = 1, 1 + 1 = 2, 2 + 1 = 3, 3 + 1 = 4
    <2>2. TwoTo[8] = TwoTo[4] * TwoTo[4]
        BY TwoToSum, 4 + 4 = 8
    <2> QED
        BY <2>1, <2>2
<1>2. TwoTo[16] = TwoTo[8] * TwoTo[8] /\ TwoTo[32] = TwoTo[16] * TwoTo[16]
    BY TwoToSum, 8 + 8 = 16, 16 + 16 = 32
<1> QED
    BY <1>1, <1>2
=============================================================================

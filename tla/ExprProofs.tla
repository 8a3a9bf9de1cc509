----------------------------- MODULE ExprProofs -----------------------------
(***************************************************************************)
(* Theorems on Expr, for any checked program, literals, operators, casts,  *)
(* bounds and size of a byte.                                              *)
(***************************************************************************)
EXTENDS Expr, ListLemmas

-----------------------------------------------------------------------------
(***************************************************************************)
(* Powers of two.                                                          *)
(***************************************************************************)
Positive == Nat \ {0}

\* A word has eight bytes of at least one bit.
LEMMA BitsType ==
  Bits \in Nat /\ Byte \in Positive /\ Bits = 8 * Byte /\ WordSize = 8
BY ConstantsAssumption DEF ConstantsAssumption, Bits, WordSize, Positive

ArePowers(f) == f = [k \in 0..Bits |-> IF k = 0 THEN 1 ELSE 2 * f[k - 1]]

\* The recursion of Power defines a number for each place.
LEMMA PowersExist ==
  \E f \in [0..Bits -> Positive] : ArePowers(f)
<1> DEFINE twice == [x \in Positive |-> 2 * x]
<1>1. twice \in [Positive -> Positive] /\ \A x \in Positive : twice[x] = 2 * x
  BY DEF Positive
<1>2. PICK step \in [1..Bits -> [Positive -> Positive]] : \A i \in 1..Bits : step[i] = twice
  <2> HIDE DEF twice
  <2>1. [i \in 1..Bits |-> twice] \in [1..Bits -> [Positive -> Positive]]
    BY <1>1
  <2> QED
    BY <2>1
<1>3. PICK f \in [0..Bits -> Positive] : Repeats(f, Bits, 1, step)
  <2>1. 1 \in Positive
    BY DEF Positive
  <2> QED
    BY <2>1, BitsType, RecursionTo
<1>4. f[0] = 1 /\ \A i \in 1..Bits : f[i] = 2 * f[i - 1]
  <2>1. \A i \in 1..Bits : i - 1 \in 0..Bits
    BY BitsType
  <2>2. f[0] = 1 /\ \A i \in 1..Bits : f[i] = twice[f[i - 1]]
    BY <1>2, <1>3 DEF Repeats
  <2> HIDE DEF twice
  <2> QED
    BY <2>1, <2>2, <1>1
<1>5. ArePowers(f)
  <2>1. \A i \in 0..Bits : i # 0 => i \in 1..Bits
    BY BitsType
  <2>2. f = [i \in 0..Bits |-> f[i]]
    OBVIOUS
  <2>3. \A i \in 0..Bits : f[i] = IF i = 0 THEN 1 ELSE 2 * f[i - 1]
    BY <2>1, <1>4
  <2> QED
    BY <2>2, <2>3 DEF ArePowers
<1> QED
  BY <1>5

\* Power is what its recursion says.
LEMMA PowerIs ==
  /\ Power[0] = 1
  /\ \A k \in 1..Bits : Power[k] = 2 * Power[k - 1]
<1>1. ArePowers(Power)
  <2>1. \E f : ArePowers(f)
    BY PowersExist
  <2>2. Power = CHOOSE f : ArePowers(f)
    BY DEF Power, ArePowers
  <2> QED
    BY <2>1, <2>2
<1>2. 0 \in 0..Bits /\ \A k \in 1..Bits : k \in 0..Bits /\ k # 0
  BY BitsType
<1>3. Power = [k \in 0..Bits |-> IF k = 0 THEN 1 ELSE 2 * Power[k - 1]]
  BY <1>1 DEF ArePowers
<1> DEFINE e(k) == IF k = 0 THEN 1 ELSE 2 * Power[k - 1]
<1>4. \A k \in 0..Bits : Power[k] = e(k)
  <2>1. Power = [k \in 0..Bits |-> e(k)]
    BY <1>3
  <2> HIDE DEF e
  <2> QED
    BY <2>1
<1> QED
  BY <1>2, <1>4

\* A power of two is a positive number.
LEMMA PowerType ==
  ASSUME NEW k \in 0..Bits
  PROVE  Power[k] \in Positive
<1> DEFINE Good == {i \in 0..Bits : Power[i] \in Positive}
<1>1. 0 \in Good
  BY PowerIs, BitsType DEF Positive
<1>2. ASSUME NEW i \in 1..Bits, i - 1 \in Good
      PROVE  i \in Good
  <2>1. Power[i] = 2 * Power[i - 1] /\ i \in 0..Bits
    BY PowerIs, BitsType
  <2>2. Power[i - 1] \in Positive
    BY <1>2
  <2> QED
    BY <2>1, <2>2 DEF Positive
<1>3. 0..Bits \subseteq Good
  <2> HIDE DEF Good
  <2> QED
    BY <1>1, <1>2, BitsType, InductionTo
<1> QED
  BY <1>3

\* A power divides every higher one.
LEMMA PowerDivides ==
  ASSUME NEW j \in 0..Bits, NEW k \in 0..Bits, j <= k
  PROVE  \E q \in Positive : Power[k] = q * Power[j]
<1> DEFINE Good == {i \in 0..Bits : j <= i => \E q \in Positive : Power[i] = q * Power[j]}
<1>1. \A i \in 0..Bits : Power[i] \in Positive
  BY PowerType
<1>2. Power[j] = 1 * Power[j] /\ 1 \in Positive
  BY <1>1 DEF Positive
<1>3. 0 \in Good
  <2>1. 0 \in 0..Bits
    BY BitsType
  <2>2. ASSUME j <= 0
        PROVE  \E q \in Positive : Power[0] = q * Power[j]
    <3>1. j = 0
      BY <2>2
    <3> QED
      BY <3>1, <1>2
  <2> QED
    BY <2>1, <2>2
<1>4. ASSUME NEW i \in 1..Bits, i - 1 \in Good
      PROVE  i \in Good
  <2>1. i \in 0..Bits /\ i - 1 \in 0..Bits
    BY BitsType
  <2>2. ASSUME j <= i
        PROVE  \E q \in Positive : Power[i] = q * Power[j]
    <3>1. CASE j = i
      BY <3>1, <1>2
    <3>2. CASE j # i
      <4>1. j <= i - 1
        BY <2>2, <3>2, BitsType
      <4>2. PICK q \in Positive : Power[i - 1] = q * Power[j]
        BY <4>1, <1>4
      <4>3. Power[i] = 2 * (q * Power[j])
        BY <4>2, PowerIs
      <4>4. 2 * (q * Power[j]) = (2 * q) * Power[j] /\ 2 * q \in Positive
        BY <1>1 DEF Positive
      <4> QED
        BY <4>3, <4>4
    <3> QED
      BY <3>1, <3>2
  <2> QED
    BY <2>1, <2>2
<1>5. 0..Bits \subseteq Good
  <2> HIDE DEF Good
  <2> QED
    BY <1>3, <1>4, BitsType, InductionTo
<1> QED
  BY <1>5

-----------------------------------------------------------------------------
(***************************************************************************)
(* Remainders.                                                             *)
(***************************************************************************)
\* A number is its quotient times the divisor plus its remainder.
LEMMA Division ==
  ASSUME NEW a \in Int, NEW m \in Positive
  PROVE  a \div m \in Int /\ a % m \in 0..(m - 1) /\ a = m * (a \div m) + (a % m)
BY DEF Positive

\* There is one remainder.
LEMMA RemainderIs ==
  ASSUME NEW a \in Int, NEW m \in Positive, NEW q \in Int, NEW r \in 0..(m - 1), a = m * q + r
  PROVE  a % m = r
<1> DEFINE p == a \div m
           s == a % m
<1>1. p \in Int /\ s \in 0..(m - 1) /\ a = m * p + s
  BY Division
<1> HIDE DEF p, s
<1>2. m \in Int /\ m > 0 /\ r \in Int /\ s \in Int
  BY <1>1 DEF Positive
<1>3. m * (p - q) = r - s
  BY <1>1, <1>2
<1>4. p - q \in Int /\ r - s < m /\ r - s > -m
  BY <1>1, <1>2
<1>5. CASE p - q >= 1
  <2>1. m * (p - q) >= m
    BY <1>5, <1>2, <1>4
  <2> QED
    BY <2>1, <1>3, <1>4, <1>2
<1>6. CASE p - q <= -1
  <2>1. m * (p - q) <= -m
    BY <1>6, <1>2, <1>4
  <2> QED
    BY <2>1, <1>3, <1>4, <1>2
<1>7. CASE p - q = 0
  <2>1. r = s
    BY <1>7, <1>3, <1>2
  <2> QED
    BY <2>1 DEF s
<1> QED
  BY <1>4, <1>5, <1>6, <1>7

\* Whole turns do not change a remainder.
LEMMA RemainderShift ==
  ASSUME NEW a \in Int, NEW m \in Positive, NEW q \in Int
  PROVE  (a + m * q) % m = a % m
<1> DEFINE p == a \div m
           s == a % m
<1>1. p \in Int /\ s \in 0..(m - 1) /\ a = m * p + s
  BY Division
<1> HIDE DEF p, s
<1>2. m \in Int /\ m * q \in Int /\ m * p \in Int
  BY <1>1 DEF Positive
<1>3. m * (p + q) = m * p + m * q /\ p + q \in Int
  BY <1>1, <1>2
<1>4. a + m * q = m * (p + q) + s /\ a + m * q \in Int
  BY <1>1, <1>2, <1>3
<1>5. (a + m * q) % m = s
  BY <1>1, <1>3, <1>4, RemainderIs
<1> QED
  BY <1>5 DEF s

\* The remainder by a multiple has the same remainder.
LEMMA RemainderTwice ==
  ASSUME NEW a \in Int, NEW m \in Positive, NEW q \in Positive
  PROVE  (a % (q * m)) % m = a % m
<1> DEFINE n == q * m
           p == a \div n
           s == a % n
<1>1. n \in Positive
  BY DEF Positive
<1>2. p \in Int /\ s \in 0..(n - 1) /\ a = n * p + s
  <2> HIDE DEF n
  <2> QED
    BY <1>1, Division
<1> HIDE DEF p, s
<1>3. s \in Int /\ q \in Int /\ m \in Int
  BY <1>1, <1>2 DEF Positive
<1>4. n * p = m * (q * p) /\ q * p \in Int
  BY <1>2, <1>3
<1>5. a = s + m * (q * p)
  <2> HIDE DEF n
  <2>1. n * p \in Int /\ a = n * p + s
    BY <1>2, <1>1 DEF Positive
  <2> QED
    BY <2>1, <1>3, <1>4
<1>6. (s + m * (q * p)) % m = s % m
  <2> HIDE DEF n
  <2> DEFINE z == q * p
  <2>1. z \in Int
    BY <1>4
  <2> HIDE DEF z
  <2>2. (s + m * z) % m = s % m
    BY <2>1, <1>3, RemainderShift
  <2> QED
    BY <2>2 DEF z
<1>7. a % m = s % m
  BY <1>5, <1>6
<1> QED
  BY <1>7 DEF s

\* A number below the divisor is its remainder, and so it is one turn below.
LEMMA RemainderSmall ==
  ASSUME NEW m \in Positive, NEW r \in 0..(m - 1)
  PROVE  r % m = r /\ (r - m) % m = r
<1>1. r \in Int /\ m \in Int
  BY DEF Positive
<1>2. r = m * 0 + r /\ r - m = m * (-1) + r
  BY <1>1
<1>3. r % m = r
  BY <1>1, <1>2, RemainderIs
<1>4. (r - m) % m = r
  <2>1. r - m \in Int /\ -1 \in Int
    BY <1>1
  <2> QED
    BY <1>2, <2>1, RemainderIs
<1> QED
  BY <1>3, <1>4

-----------------------------------------------------------------------------
(***************************************************************************)
(* Words, sizes and the numbers of a type.                                 *)
(***************************************************************************)
Half(size) == Modulus(size) \div 2

\* The modulus of a size is a power of two, and even.
LEMMA ModulusIs ==
  ASSUME NEW size \in IntegerSizes
  PROVE  /\ size * Byte \in 0..Bits /\ Modulus(size) = Power[size * Byte]
         /\ Modulus(size) \in Positive /\ Half(size) \in Positive
         /\ Modulus(size) = 2 * Half(size)
<1> DEFINE k == size * Byte
<1>1. k \in 1..Bits /\ Modulus(size) = Power[k]
  <2>1. CASE size = 1
    BY <2>1, BitsType DEF Modulus, Word, Positive
  <2>2. CASE size = 2
    BY <2>2, BitsType DEF Modulus, Word, Positive
  <2>3. CASE size = 4
    BY <2>3, BitsType DEF Modulus, Word, Positive
  <2>4. CASE size = 8
    BY <2>4, BitsType DEF Modulus, Word, Positive
  <2> QED
    BY <2>1, <2>2, <2>3, <2>4 DEF IntegerSizes
<1> HIDE DEF k
<1>2. k \in 0..Bits /\ k - 1 \in 0..Bits
  BY <1>1, BitsType
<1>3. Power[k] = 2 * Power[k - 1] /\ Power[k - 1] \in Positive
  BY <1>1, <1>2, PowerIs, PowerType
<1> DEFINE h == Power[k - 1]
<1>4. (2 * h) \div 2 = h
  <2>1. h \in Nat
    BY <1>3 DEF Positive
  <2> HIDE DEF h
  <2> QED
    BY <2>1
<1>5. Half(size) = h
  BY <1>1, <1>3, <1>4 DEF Half
<1> QED
  BY <1>1, <1>2, <1>3, <1>5 DEF k, Positive

\* The modulus of a size divides that of a larger one, and a word.
LEMMA ModulusDivides ==
  ASSUME NEW s \in IntegerSizes, NEW t \in IntegerSizes, s <= t
  PROVE  \E q \in Positive : Modulus(t) = q * Modulus(s)
<1> DEFINE j == s * Byte
           k == t * Byte
<1>1. /\ j \in 0..Bits /\ Modulus(s) = Power[j]
      /\ k \in 0..Bits /\ Modulus(t) = Power[k]
  BY ModulusIs
<1>2. j <= k
  <2>1. CASE s = 1
    BY <2>1, BitsType DEF IntegerSizes, Positive
  <2>2. CASE s = 2
    BY <2>2, BitsType DEF IntegerSizes, Positive
  <2>3. CASE s = 4
    BY <2>3, BitsType DEF IntegerSizes, Positive
  <2>4. CASE s = 8
    BY <2>4, BitsType DEF IntegerSizes, Positive
  <2> QED
    BY <2>1, <2>2, <2>3, <2>4 DEF IntegerSizes
<1> HIDE DEF j, k
<1> QED
  BY <1>1, <1>2, PowerDivides

\* A word has the modulus of the largest size, which is at least that of another.
LEMMA WordIs ==
  /\ Word = Modulus(8) /\ 8 \in IntegerSizes
  /\ \A size \in IntegerSizes : Modulus(size) <= Word /\ Half(size) <= Half(8)
<1>1. Word = Modulus(8) /\ 8 \in IntegerSizes
  BY DEF Modulus, WordSize, IntegerSizes
<1>2. ASSUME NEW size \in IntegerSizes
      PROVE  Modulus(size) <= Word /\ Half(size) <= Half(8)
  <2>1. size <= 8
    BY DEF IntegerSizes
  <2>2. PICK q \in Positive : Modulus(8) = q * Modulus(size)
    BY <1>1, <2>1, ModulusDivides
  <2> DEFINE m == Modulus(size)
  <2>3. m \in Positive /\ Half(size) \in Positive /\ m = 2 * Half(size)
    BY ModulusIs
  <2>4. Half(8) \in Positive /\ Modulus(8) = 2 * Half(8)
    BY <1>1, ModulusIs
  <2>5. q * m >= m
    <3> HIDE DEF m
    <3>1. q >= 1 /\ m >= 1 /\ q \in Int /\ m \in Int
      BY <2>3 DEF Positive
    <3>2. (q - 1) * m >= 0 /\ q * m = (q - 1) * m + m
      BY <3>1
    <3> QED
      BY <3>1, <3>2
  <2>6. m <= Modulus(8)
    BY <2>2, <2>5
  <2> HIDE DEF m
  <2>7. Half(size) <= Half(8)
    BY <2>3, <2>4, <2>6 DEF Positive
  <2> QED
    BY <1>1, <2>6, <2>7 DEF m
<1> QED
  BY <1>1, <1>2

\* A number that its type has.
Canonical(n) ==
  /\ n.size \in IntegerSizes /\ n.signed \in BOOLEAN /\ n.v \in Int
  /\ IF n.signed THEN -Half(n.size) <= n.v /\ n.v < Half(n.size)
     ELSE 0 <= n.v /\ n.v < Modulus(n.size)

\* The number that a remainder stands for.
Reading(r, size, signed) == IF signed /\ r >= Half(size) THEN r - Modulus(size) ELSE r

\* It has that remainder, and its type has it.
LEMMA ReadingRight ==
  ASSUME NEW size \in IntegerSizes, NEW signed \in BOOLEAN, NEW r \in 0..(Modulus(size) - 1)
  PROVE  /\ Reading(r, size, signed) \in Int /\ Reading(r, size, signed) % Modulus(size) = r
         /\ Canonical(Number(Reading(r, size, signed), size, signed))
<1> DEFINE m == Modulus(size)
           h == Half(size)
<1>1. m \in Positive /\ h \in Positive /\ m = 2 * h
  BY ModulusIs
<1>2. r % m = r /\ (r - m) % m = r
  <2>1. r \in 0..(m - 1)
    OBVIOUS
  <2> HIDE DEF m
  <2> QED
    BY <1>1, <2>1, RemainderSmall
<1> HIDE DEF m, h
<1>3. r \in Int /\ r < m /\ r >= 0 /\ m \in Int /\ h \in Int
  BY <1>1 DEF m, Positive
<1>4. Reading(r, size, signed) = IF signed /\ r >= h THEN r - m ELSE r
  BY DEF Reading, m, h
<1>5. Canonical(Number(Reading(r, size, signed), size, signed))
  <2> DEFINE v == Reading(r, size, signed)
  <2>1. v \in Int /\ IF signed THEN -h <= v /\ v < h ELSE 0 <= v /\ v < m
    BY <1>1, <1>3, <1>4
  <2>2. Canonical(Number(v, size, signed))
    <3> HIDE DEF v
    <3> QED
      BY <2>1 DEF Canonical, Number, m, h
  <2> QED
    BY <2>2
<1>6. Reading(r, size, signed) \in Int /\ Reading(r, size, signed) % m = r
  BY <1>2, <1>3, <1>4
<1>7. Reading(r, size, signed) % Modulus(size) = r
  BY <1>6 DEF m
<1> QED
  BY <1>5, <1>6, <1>7

\* A number of a type is what its remainder stands for.
LEMMA CanonicalIs ==
  ASSUME NEW n, Canonical(n)
  PROVE  n.v = Reading(n.v % Modulus(n.size), n.size, n.signed)
<1> DEFINE m == Modulus(n.size)
           h == Half(n.size)
           v == n.v
<1>1. n.size \in IntegerSizes /\ n.signed \in BOOLEAN /\ v \in Int
  BY DEF Canonical
<1>2. m \in Positive /\ h \in Positive /\ m = 2 * h
  BY <1>1, ModulusIs
<1>3. IF n.signed THEN -h <= v /\ v < h ELSE 0 <= v /\ v < m
  BY DEF Canonical
<1> HIDE DEF m, h, v
<1>4. m \in Int /\ h \in Int
  BY <1>2 DEF Positive
<1>5. CASE v >= 0
  <2>1. v \in 0..(m - 1) /\ (n.signed => v < h)
    BY <1>1, <1>2, <1>3, <1>4, <1>5 DEF Positive
  <2>2. v % m = v
    BY <2>1, <1>2, RemainderSmall
  <2> QED
    BY <2>1, <2>2, <1>1, <1>4 DEF Reading, v, m, h
<1>6. CASE v < 0
  <2> DEFINE r == v + m
  <2>1. r \in 0..(m - 1) /\ n.signed /\ r >= h /\ v = r - m
    BY <1>1, <1>2, <1>3, <1>4, <1>6 DEF Positive
  <2>2. v % m = r
    <3> HIDE DEF r
    <3> QED
      BY <2>1, <1>2, RemainderSmall
  <2> QED
    BY <2>1, <2>2, <1>1, <1>4 DEF Reading, v, m, h
<1> QED
  BY <1>1, <1>5, <1>6

\* Wrapped gives the number of the type that has the remainder.
LEMMA WrappedIs ==
  ASSUME NEW size \in IntegerSizes, NEW signed \in BOOLEAN, NEW v \in Int
  PROVE  /\ Wrapped(v, size, signed) = Number(Reading(v % Modulus(size), size, signed), size, signed)
         /\ v % Modulus(size) \in 0..(Modulus(size) - 1)
<1>1. Modulus(size) \in Positive /\ Modulus(size) = Power[size * Byte]
  BY ModulusIs
<1>2. Wrapped(v, size, signed) = Number(Reading(v % Modulus(size), size, signed), size, signed)
  BY <1>1 DEF Wrapped, Reading, Half
<1> QED
  BY <1>1, <1>2, Division

-----------------------------------------------------------------------------
(***************************************************************************)
(* Literal::convert_to and sign_extend.                                    *)
(***************************************************************************)
\* A literal that denotes a number holds its remainder.
LEMMA DenotesIs ==
  ASSUME NEW lit, NEW n, Canonical(n), Denotes(lit, n)
  PROVE  /\ lit.size = n.size /\ lit.signed = n.signed /\ n.size \in IntegerSizes
         /\ lit.value = n.v % Modulus(n.size) /\ lit.value \in 0..(Modulus(n.size) - 1)
         /\ lit.value % Modulus(n.size) = lit.value
         /\ n.v = Reading(lit.value, n.size, n.signed)
<1> DEFINE m == Modulus(n.size)
<1>1. n.size \in IntegerSizes /\ n.v \in Int
  BY DEF Canonical
<1>2. m \in Positive /\ m = Power[n.size * Byte]
  BY <1>1, ModulusIs
<1>3. lit.size = n.size /\ lit.signed = n.signed /\ lit.value = n.v % m
  BY <1>2 DEF Denotes
<1>4. n.v = Reading(n.v % m, n.size, n.signed)
  BY CanonicalIs
<1> HIDE DEF m
<1>5. n.v % m \in 0..(m - 1)
  BY <1>1, <1>2, Division
<1>6. lit.value % m = lit.value
  BY <1>3, <1>5, <1>2, RemainderSmall
<1> QED
  BY <1>1, <1>3, <1>4, <1>5, <1>6 DEF m

\* sign_extend gives what a signed remainder stands for, as a word.
LEMMA ExtendedIs ==
  ASSUME NEW size \in IntegerSizes, NEW r \in 0..(Modulus(size) - 1)
  PROVE  /\ sign_extend(r, size) = word(Reading(r, size, TRUE)) \/ sign_extend(r, size) = r
         /\ r >= Half(size) => sign_extend(r, size) = word(Reading(r, size, TRUE))
         /\ int64(sign_extend(r, size)) = Reading(r, size, TRUE)
<1> DEFINE m == Modulus(size)
           h == Half(size)
           w == Modulus(8)
           g == Half(8)
<1>1. m \in Positive /\ h \in Positive /\ m = 2 * h
  BY ModulusIs
<1>2. w \in Positive /\ g \in Positive /\ w = 2 * g /\ w = Word /\ m <= w /\ h <= g
  BY WordIs, ModulusIs
<1>3. sign_extend(r, size) = IF r >= h THEN word(r - m) ELSE r
  <2>1. r % m = r
    <3>1. r \in 0..(m - 1)
      OBVIOUS
    <3> HIDE DEF m
    <3> QED
      BY <3>1, <1>1, RemainderSmall
  <2> QED
    BY <2>1 DEF sign_extend, Half
<1>4. \A x : int64(x) = IF x >= g THEN x - w ELSE x
  BY <1>2 DEF int64, Half
<1>5. Reading(r, size, TRUE) = IF r >= h THEN r - m ELSE r
  BY DEF Reading
<1>6. r \in 0..(m - 1)
  OBVIOUS
<1> HIDE DEF m, h, w, g
<1>7. r \in Int /\ r >= 0 /\ r < m /\ m \in Int /\ h \in Int /\ w \in Int /\ g \in Int
  BY <1>1, <1>2, <1>6 DEF Positive
<1>8. CASE r >= h
  <2> DEFINE x == r - m + w
  <2>1. x \in 0..(w - 1) /\ r - m = x - w /\ x >= g
    BY <1>8, <1>1, <1>2, <1>7 DEF Positive
  <2>2. (r - m) % w = x
    <3> HIDE DEF x
    <3> QED
      BY <2>1, <1>2, RemainderSmall
  <2>3. word(r - m) = x
    BY <2>2, <1>2 DEF word
  <2>4. int64(x) = r - m
    <3>1. int64(x) = x - w
      BY <2>1, <1>4
    <3> QED
      BY <3>1, <2>1
  <2> QED
    BY <1>3, <1>5, <1>8, <2>3, <2>4 DEF h
<1>9. CASE ~(r >= h)
  <2>1. ~(r >= g)
    BY <1>9, <1>2, <1>7
  <2>2. sign_extend(r, size) = r /\ Reading(r, size, TRUE) = r /\ int64(r) = r
    BY <1>3, <1>4, <1>5, <1>9, <2>1
  <2> QED
    BY <2>2, <1>9 DEF h
<1> QED
  BY <1>8, <1>9

\* convert_to gives the remainder of the number in the new size.
LEMMA ConvertMeans ==
  ASSUME NEW lit, NEW n, Canonical(n), Denotes(lit, n), NEW size \in IntegerSizes, NEW signed
  PROVE  convert_to(lit.value, lit.size, lit.signed, size, signed) = n.v % Modulus(size)
<1> DEFINE from == n.size
           m == Modulus(from)
           k == Modulus(size)
           r == lit.value
<1>1. /\ lit.size = from /\ lit.signed = n.signed /\ from \in IntegerSizes
      /\ r = n.v % m /\ r \in 0..(m - 1) /\ r % m = r /\ n.v = Reading(r, from, n.signed)
  BY DenotesIs
<1>2. m \in Positive /\ k \in Positive /\ n.v \in Int /\ n.signed \in BOOLEAN /\ Word \in Positive
  BY <1>1, ModulusIs, WordIs DEF Canonical
<1>3. convert_to(r, lit.size, lit.signed, size, signed)
        = (IF from < size /\ n.signed THEN sign_extend(r, from) ELSE r) % k
  BY <1>1 DEF convert_to
<1>4. from \in Int /\ size \in Int
  BY <1>1 DEF IntegerSizes
<1>5. CASE from < size /\ n.signed
  <2>1. n.v = Reading(r, from, TRUE)
    BY <1>1, <1>5
  <2>2. sign_extend(r, from) = word(n.v) \/ (sign_extend(r, from) = r /\ n.v = r)
    <3>1. CASE r >= Half(from)
      BY <3>1, <2>1, <1>1, ExtendedIs
    <3>2. CASE ~(r >= Half(from))
      <4>1. n.v = r
        BY <3>2, <2>1 DEF Reading
      <4> QED
        BY <4>1, <2>1, <1>1, ExtendedIs
    <3> QED
      BY <3>1, <3>2
  <2>3. word(n.v) % k = n.v % k
    <3>1. size <= 8
      BY DEF IntegerSizes
    <3>2. PICK q \in Positive : Word = q * k
      BY <3>1, WordIs, ModulusDivides
    <3> HIDE DEF k
    <3>3. (n.v % (q * k)) % k = n.v % k
      BY <1>2, RemainderTwice
    <3> QED
      BY <3>2, <3>3 DEF word
  <2> QED
    BY <1>3, <1>5, <2>2, <2>3
<1>6. CASE from < size /\ ~n.signed
  <2>1. n.v = r
    BY <1>1, <1>6 DEF Reading
  <2> QED
    BY <1>3, <1>6, <2>1
<1>7. CASE ~(from < size)
  <2>1. size <= from
    BY <1>4, <1>7
  <2>2. PICK q \in Positive : m = q * k
    BY <2>1, <1>1, ModulusDivides
  <2>3. r % k = n.v % k
    <3> HIDE DEF k, m, r
    <3>1. (n.v % (q * k)) % k = n.v % k
      BY <1>2, RemainderTwice
    <3> QED
      BY <3>1, <2>2, <1>1
  <2> QED
    BY <1>3, <1>7, <2>3
<1> QED
  BY <1>5, <1>6, <1>7

-----------------------------------------------------------------------------
(***************************************************************************)
(* Literal::apply.                                                         *)
(***************************************************************************)
\* low[k] is the word that has the ones of S below k.
AreLow(low, S) ==
  low = [k \in 0..Bits |-> IF k = 0 THEN 0 ELSE low[k - 1] + (IF k - 1 \in S THEN Power[k - 1] ELSE 0)]

\* The word that has its ones in some places is a number.
LEMMA OnesType ==
  ASSUME NEW S
  PROVE  with_ones(S) \in Nat
<1> DEFINE plus(k, x) == x + (IF k - 1 \in S THEN Power[k - 1] ELSE 0)
           table == [k \in 1..Bits |-> [x \in Nat |-> plus(k, x)]]
           low == CHOOSE low : AreLow(low, S)
<1>1. \A k \in 1..Bits : \A x \in Nat : plus(k, x) \in Nat
  <2>1. \A k \in 1..Bits : k - 1 \in 0..Bits
    BY BitsType
  <2>2. \A k \in 1..Bits : Power[k - 1] \in Nat
    BY <2>1, PowerType DEF Positive
  <2> QED
    BY <2>2
<1>2. PICK step \in [1..Bits -> [Nat -> Nat]] : \A k \in 1..Bits : \A x \in Nat : step[k][x] = plus(k, x)
  <2> HIDE DEF plus
  <2>1. /\ table \in [1..Bits -> [Nat -> Nat]]
        /\ \A k \in 1..Bits : \A x \in Nat : table[k][x] = plus(k, x)
    BY <1>1
  <2> QED
    BY <2>1
<1>3. PICK f \in [0..Bits -> Nat] : Repeats(f, Bits, 0, step)
  BY BitsType, RecursionTo
<1>4. AreLow(f, S)
  <2>1. \A k \in 1..Bits : k - 1 \in 0..Bits
    BY BitsType
  <2>2. f[0] = 0 /\ \A k \in 1..Bits : f[k] = plus(k, f[k - 1])
    <3> HIDE DEF plus
    <3> QED
      BY <1>2, <1>3, <2>1 DEF Repeats
  <2>3. \A k \in 0..Bits : k # 0 => k \in 1..Bits
    BY BitsType
  <2>4. \A k \in 0..Bits : f[k] = IF k = 0 THEN 0 ELSE plus(k, f[k - 1])
    <3> HIDE DEF plus
    <3> QED
      BY <2>2, <2>3
  <2>5. f = [k \in 0..Bits |-> f[k]]
    OBVIOUS
  <2>6. f = [k \in 0..Bits |-> IF k = 0 THEN 0 ELSE plus(k, f[k - 1])]
    <3> HIDE DEF plus
    <3> QED
      BY <2>4, <2>5
  <2> QED
    BY <2>6 DEF AreLow
<1>5. AreLow(low, S)
  BY <1>4
<1>6. with_ones(S) = low[Bits]
  BY DEF with_ones, AreLow
<1> HIDE DEF low
<1> DEFINE e(k) == IF k = 0 THEN 0 ELSE plus(k, low[k - 1])
<1>7. \A k \in 0..Bits : low[k] = e(k)
  <2>1. low = [k \in 0..Bits |-> e(k)]
    BY <1>5 DEF AreLow
  <2> HIDE DEF e
  <2> QED
    BY <2>1
<1> DEFINE Good == {k \in 0..Bits : low[k] \in Nat}
<1>8. 0 \in Good
  <2>1. 0 \in 0..Bits /\ e(0) = 0
    BY BitsType
  <2> HIDE DEF e
  <2> QED
    BY <2>1, <1>7
<1>9. ASSUME NEW k \in 1..Bits, k - 1 \in Good
      PROVE  k \in Good
  <2>1. k \in 0..Bits /\ k # 0
    BY BitsType
  <2>2. low[k] = plus(k, low[k - 1])
    <3> HIDE DEF plus
    <3> QED
      BY <2>1, <1>7
  <2>3. plus(k, low[k - 1]) \in Nat
    <3> HIDE DEF plus
    <3> QED
      BY <1>1, <1>9
  <2> HIDE DEF plus
  <2> QED
    BY <2>1, <2>2, <2>3
<1>10. 0..Bits \subseteq Good
  <2> HIDE DEF Good
  <2> QED
    BY <1>8, <1>9, BitsType, InductionTo
<1> QED
  BY <1>6, <1>10, BitsType

\* A quotient is a number.
LEMMA QuotientType ==
  ASSUME NEW a \in Int, NEW b \in Int, b # 0
  PROVE  quotient(a, b) \in Int
<1>1. Magnitude(a) \in Nat /\ Magnitude(b) \in Positive
  BY DEF Magnitude, Positive
<1>2. Magnitude(a) \div Magnitude(b) \in Int
  BY <1>1, Division
<1> QED
  BY <1>2 DEF quotient

\* An operator that divides by no zero and shifts by no more than a word gives a number.
LEMMA CalculatedType ==
  ASSUME NEW op \in BitOps \cup Arithmetic, NEW a \in Int, NEW b \in Int,
         op \in {"/", "%"} => b # 0,
         op \in {"<<", ">>"} => b \in 0..(Bits - 1)
  PROVE  calculated(op, a, b) \in Int
<1>1. CASE op \in {"/", "%"}
  <2>1. quotient(a, b) \in Int
    BY <1>1, QuotientType
  <2> QED
    BY <1>1, <2>1 DEF calculated
<1>2. CASE op \in {"<<", ">>"}
  <2>1. b \in 0..Bits
    BY <1>2, BitsType
  <2>2. Power[b] \in Positive
    BY <2>1, PowerType
  <2>3. a * Power[b] \in Int
    BY <2>2 DEF Positive
  <2>4. a \div Power[b] \in Int
    BY <2>2, Division
  <2>5. CASE op = "<<"
    BY <2>3, <2>5 DEF calculated
  <2>6. CASE op = ">>"
    <3> DEFINE x == a \div Power[b]
    <3>1. calculated(op, a, b) = x
      BY <2>6 DEF calculated
    <3> QED
      BY <3>1, <2>4
  <2> QED
    BY <1>2, <2>5, <2>6
<1>3. CASE op \in {"|", "^", "&"}
  <2> DEFINE A == ones(word(a))
             B == ones(word(b))
  <2>1. with_ones(A \cup B) \in Nat /\ with_ones(A \cap B) \in Nat
        /\ with_ones((A \cup B) \ (A \cap B)) \in Nat
    BY OnesType
  <2>2. CASE op = "|"
    BY <2>1, <2>2 DEF calculated
  <2>3. CASE op = "^"
    BY <2>1, <2>3 DEF calculated
  <2>4. CASE op = "&"
    BY <2>1, <2>4 DEF calculated
  <2> QED
    BY <1>3, <2>2, <2>3, <2>4
<1>4. CASE op \in {"+", "-", "*"}
  BY <1>4 DEF calculated
<1> QED
  BY <1>1, <1>2, <1>3, <1>4 DEF BitOps, Arithmetic

\* The literal with the remainder of a number denotes the number wrapped.
LEMMA WrappedDenoted ==
  ASSUME NEW size \in IntegerSizes, NEW signed \in BOOLEAN, NEW v \in Int
  PROVE  /\ Denotes(Literal(v % Modulus(size), size, signed), Wrapped(v, size, signed))
         /\ Canonical(Wrapped(v, size, signed))
<1> DEFINE r == v % Modulus(size)
           x == Reading(r, size, signed)
<1>1. Wrapped(v, size, signed) = Number(x, size, signed) /\ r \in 0..(Modulus(size) - 1)
  BY WrappedIs
<1>2. x % Modulus(size) = r /\ Canonical(Number(x, size, signed))
  <2> HIDE DEF r
  <2> QED
    BY <1>1, ReadingRight
<1>3. Modulus(size) = Power[size * Byte]
  BY ModulusIs
<1>4. Denotes(Literal(r, size, signed), Number(x, size, signed))
  <2> HIDE DEF r, x
  <2> QED
    BY <1>2, <1>3 DEF Denotes, Literal, Number
<1> QED
  BY <1>1, <1>2, <1>4

\* What a comparison gives is a number of its type.
LEMMA BooleanDenoted ==
  ASSUME NEW b
  PROVE  /\ Denotes(make_bool(b), Number(IF b THEN 1 ELSE 0, 4, TRUE))
         /\ Canonical(Number(IF b THEN 1 ELSE 0, 4, TRUE))
<1> DEFINE m == Modulus(4)
           x == IF b THEN 1 ELSE 0
<1>1. 4 \in IntegerSizes /\ x \in {0, 1}
  BY DEF IntegerSizes
<1>2. m \in Positive /\ Half(4) \in Positive /\ m = 2 * Half(4) /\ m = Power[4 * Byte] /\ 4 * Byte \in 0..Bits
  BY <1>1, ModulusIs
<1>3. m >= 4
  <2>1. 2 \in 0..Bits /\ 2 \in 1..Bits /\ 1 \in 1..Bits /\ 2 <= 4 * Byte
    BY BitsType DEF Positive
  <2>2. Power[0] = 1 /\ Power[1] = 2 * Power[1 - 1] /\ Power[2] = 2 * Power[2 - 1]
    BY <2>1, PowerIs
  <2>3. Power[2] = 4
    BY <2>2
  <2>4. PICK q \in Positive : Power[4 * Byte] = q * Power[2]
    BY <1>2, <2>1, PowerDivides
  <2> HIDE DEF m
  <2> QED
    BY <1>2, <2>3, <2>4 DEF Positive
<1> HIDE DEF m, x
<1>4. x \in 0..(m - 1) /\ -Half(4) <= x /\ x < Half(4) /\ x \in Int
  BY <1>1, <1>2, <1>3 DEF Positive
<1>5. x % m = x
  BY <1>2, <1>4, RemainderSmall
<1>6. Canonical(Number(x, 4, TRUE))
  BY <1>1, <1>4 DEF Canonical, Number
<1>7. Denotes(Literal(x, 4, TRUE), Number(x, 4, TRUE))
  BY <1>2, <1>5 DEF Denotes, Literal, Number
<1> QED
  BY <1>6, <1>7 DEF make_bool, x

\* The larger of two numbers.
LEMMA MaxOfTwo ==
  ASSUME NEW a \in Nat, NEW b \in Nat
  PROVE  Max({a, b}) = IF a > b THEN a ELSE b
<1> DEFINE S == {a, b}
           n == a + b
<1>1. n \in Nat /\ S \in SUBSET (0..n) /\ S # {}
  OBVIOUS
<1>2. Max(S) \in S /\ \A y \in S : y <= Max(S)
  <2> HIDE DEF S, n
  <2> QED
    BY <1>1, MaxOfSet
<1> QED
  BY <1>2

\* apply finds the type that the language says.
LEMMA CommonIs ==
  ASSUME NEW l, NEW r, NEW m, NEW n, Canonical(m), Canonical(n), Denotes(l, m), Denotes(r, n)
  PROVE  /\ CommonType(m, n) = [size |-> common_size(l, r), signed |-> common_signed(l, r)]
         /\ common_size(l, r) \in IntegerSizes /\ common_signed(l, r) \in BOOLEAN
<1>1. /\ m.size \in IntegerSizes /\ n.size \in IntegerSizes /\ m.signed \in BOOLEAN /\ n.signed \in BOOLEAN
      /\ l.size = m.size /\ l.signed = m.signed /\ r.size = n.size /\ r.signed = n.signed
  BY DEF Canonical, Denotes
<1>2. m.size \in Nat /\ n.size \in Nat
  BY <1>1 DEF IntegerSizes
<1> DEFINE size == common_size(l, r)
           signed == common_signed(l, r)
           big == Max({m.size, n.size})
<1>3. big = IF m.size > n.size THEN m.size ELSE n.size
  BY <1>2, MaxOfTwo
<1>4. size = big
  BY <1>1, <1>3 DEF common_size
<1>5. size \in IntegerSizes /\ signed \in BOOLEAN
  BY <1>1, <1>3, <1>4 DEF common_signed
<1>6. signed = (\A k \in {x \in {m, n} : x.size = big} : k.signed)
  BY <1>1, <1>2, <1>3 DEF common_signed
<1> QED
  BY <1>4, <1>5, <1>6 DEF CommonType

\* An operand of apply, converted.
Converted_operand(lit, size, signed) ==
  LET low == convert_to(lit.value, lit.size, lit.signed, size, signed)
  IN  IF signed THEN int64(sign_extend(low, size)) ELSE low

\* It is the operand of the language, wrapped.
LEMMA OperandMeans ==
  ASSUME NEW lit, NEW n, Canonical(n), Denotes(lit, n),
         NEW size \in IntegerSizes, NEW signed \in BOOLEAN
  PROVE  /\ Converted_operand(lit, size, signed) = Wrapped(n.v, size, signed).v
         /\ Wrapped(n.v, size, signed).v \in Int
         /\ convert_to(lit.value, lit.size, lit.signed, size, signed) = n.v % Modulus(size)
         /\ Wrapped(n.v, size, signed).v = 0 => n.v % Modulus(size) = 0
<1> DEFINE r == n.v % Modulus(size)
           x == Reading(r, size, signed)
<1>1. convert_to(lit.value, lit.size, lit.signed, size, signed) = r
  BY ConvertMeans
<1>2. n.v \in Int
  BY DEF Canonical
<1>3. Wrapped(n.v, size, signed) = Number(x, size, signed) /\ r \in 0..(Modulus(size) - 1)
  BY <1>2, WrappedIs
<1> HIDE DEF r
<1>4. int64(sign_extend(r, size)) = Reading(r, size, TRUE)
  BY <1>3, ExtendedIs
<1>5. Reading(r, size, FALSE) = r
  BY DEF Reading
<1>6. Converted_operand(lit, size, signed) = x
  BY <1>1, <1>4, <1>5 DEF Converted_operand
<1>7. x \in Int /\ x % Modulus(size) = r
  BY <1>3, ReadingRight
<1>8. Wrapped(n.v, size, signed).v = x
  <2> HIDE DEF x
  <2> QED
    BY <1>3 DEF Number
<1>9. x = 0 => r = 0
  <2>1. Modulus(size) \in Positive
    BY ModulusIs
  <2>2. 0 \in 0..(Modulus(size) - 1)
    BY <2>1 DEF Positive
  <2>3. 0 % Modulus(size) = 0
    BY <2>1, <2>2, RemainderSmall
  <2> HIDE DEF x
  <2> QED
    BY <1>7, <2>3
<1> QED
  BY <1>1, <1>6, <1>7, <1>8, <1>9 DEF r

\* apply of two operands comes to the number that the language says.
LEMMA BinaryRight ==
  ASSUME NEW op \in Comparisons \cup Logic \cup BitOps \cup Arithmetic,
         NEW l, NEW r, NEW m, NEW n, Canonical(m), Canonical(n), Denotes(l, m), Denotes(r, n),
         apply_binary(op, l, r).kind = "value"
  PROVE  /\ Denotes(apply_binary(op, l, r).lit, BinaryMeaning(op, m, n))
         /\ Canonical(BinaryMeaning(op, m, n))
<1> DEFINE size == common_size(l, r)
           signed == common_signed(l, r)
           low == convert_to(r.value, r.size, r.signed, size, signed)
           a == Converted_operand(l, size, signed)
           b == Converted_operand(r, size, signed)
           value == IF op \in Comparisons \cup Logic THEN make_bool(holds(op, a, b))
                    ELSE Literal(calculated(op, a, b) % Modulus(size), size, signed)
<1>1. /\ CommonType(m, n) = [size |-> size, signed |-> signed]
      /\ size \in IntegerSizes /\ signed \in BOOLEAN
  BY CommonIs
<1>2. /\ apply_binary(op, l, r).lit = value
      /\ ~(op \in {"/", "%"} /\ low = 0)
      /\ ~(op \in {"<<", ">>"} /\ b \notin 0..(Bits - 1))
  <2> DEFINE overflows == signed /\ op \in Arithmetic
                          /\ ~InInt64(IF op = "%" THEN quotient(a, b) ELSE calculated(op, a, b))
             zero == op \in {"/", "%"} /\ low = 0
             wide == op \in {"<<", ">>"} /\ b \notin 0..(Bits - 1)
  <2>1. apply_binary(op, l, r) =
          IF size = 0 THEN Undefined
          ELSE IF zero THEN Throw
          ELSE IF wide \/ overflows THEN Undefined
          ELSE Outcome(value)
    <3>1. apply_binary(op, l, r) =
            IF size = 0 THEN Undefined
            ELSE IF zero THEN Throw
            ELSE IF wide \/ overflows THEN Undefined
            ELSE IF op \in Comparisons \cup Logic THEN Outcome(make_bool(holds(op, a, b)))
            ELSE Outcome(Literal(calculated(op, a, b) % Modulus(size), size, signed))
      BY DEF apply_binary, Converted_operand
    <3> HIDE DEF zero, wide, overflows, size, signed, a, b
    <3> QED
      BY <3>1
  <2> HIDE DEF zero, wide, overflows, value, size
  <2>2. ~zero /\ ~wide /\ apply_binary(op, l, r) = Outcome(value)
    BY <2>1 DEF Throw, Undefined
  <2>3. Outcome(value).lit = value
    BY DEF Outcome
  <2> QED
    BY <2>2, <2>3 DEF zero, wide
<1>3. /\ a = Wrapped(m.v, size, signed).v /\ a \in Int
      /\ b = Wrapped(n.v, size, signed).v /\ b \in Int /\ (b = 0 => low = 0)
  <2> HIDE DEF size, signed
  <2> QED
    BY <1>1, OperandMeans
<1>4. BinaryMeaning(op, m, n) =
        IF op \in Comparisons \cup Logic THEN Number(IF holds(op, a, b) THEN 1 ELSE 0, 4, TRUE)
        ELSE Wrapped(calculated(op, a, b), size, signed)
  <2> HIDE DEF size, signed, a, b
  <2> QED
    BY <1>1, <1>3 DEF BinaryMeaning
<1>5. CASE op \in Comparisons \cup Logic
  <2> HIDE DEF a, b, size, signed
  <2>1. value = make_bool(holds(op, a, b))
    BY <1>5
  <2>2. BinaryMeaning(op, m, n) = Number(IF holds(op, a, b) THEN 1 ELSE 0, 4, TRUE)
    BY <1>4, <1>5
  <2> QED
    BY <1>2, <2>1, <2>2, BooleanDenoted
<1>6. CASE op \notin Comparisons \cup Logic
  <2>1. op \in BitOps \cup Arithmetic
    BY <1>6
  <2> HIDE DEF a, b, size, signed, low
  <2>2. calculated(op, a, b) \in Int
    BY <2>1, <1>2, <1>3, CalculatedType
  <2>3. value = Literal(calculated(op, a, b) % Modulus(size), size, signed)
    BY <1>6
  <2>4. BinaryMeaning(op, m, n) = Wrapped(calculated(op, a, b), size, signed)
    BY <1>4, <1>6
  <2> QED
    BY <1>1, <1>2, <2>2, <2>3, <2>4, WrappedDenoted
<1> QED
  BY <1>5, <1>6

\* apply of one operand comes to the number that the language says.
LEMMA UnaryRight ==
  ASSUME NEW op \in {"-", "~", "!"}, NEW l, NEW m, Canonical(m), Denotes(l, m),
         apply_unary(op, l).kind = "value"
  PROVE  /\ Denotes(apply_unary(op, l).lit, UnaryMeaning(op, m))
         /\ Canonical(UnaryMeaning(op, m))
<1> DEFINE size == m.size
           signed == m.signed
           a == IF l.signed THEN int64(sign_extend(l.value, l.size)) ELSE l.value
           value == CASE op = "!" -> make_bool(a = 0)
                      [] op = "-" -> Literal((-a) % Modulus(size), size, signed)
                      [] op = "~" -> Literal((-a - 1) % Modulus(size), size, signed)
<1>1. /\ l.size = size /\ l.signed = signed /\ size \in IntegerSizes /\ signed \in BOOLEAN /\ m.v \in Int
      /\ l.value \in 0..(Modulus(size) - 1) /\ m.v = Reading(l.value, size, signed)
  BY DenotesIs DEF Canonical
<1>2. a = m.v
  <2>1. int64(sign_extend(l.value, size)) = Reading(l.value, size, TRUE)
    BY <1>1, ExtendedIs
  <2>2. Reading(l.value, size, FALSE) = l.value
    BY DEF Reading
  <2> QED
    BY <1>1, <2>1, <2>2
<1>3. apply_unary(op, l) =
        IF l.size = 0 \/ (op = "-" /\ l.signed /\ ~InInt64(-a)) THEN Undefined
        ELSE CASE op = "!" -> Outcome(make_bool(a = 0))
               [] op = "-" -> Outcome(Literal((-a) % Modulus(l.size), l.size, l.signed))
               [] op = "~" -> Outcome(Literal((-a - 1) % Modulus(l.size), l.size, l.signed))
  BY DEF apply_unary
<1> HIDE DEF a
<1>4. apply_unary(op, l) = Outcome(value)
  <2> DEFINE bad == l.size = 0 \/ (op = "-" /\ l.signed /\ ~InInt64(-a))
             good == CASE op = "!" -> Outcome(make_bool(a = 0))
               [] op = "-" -> Outcome(Literal((-a) % Modulus(l.size), l.size, l.signed))
               [] op = "~" -> Outcome(Literal((-a - 1) % Modulus(l.size), l.size, l.signed))
  <2>1. apply_unary(op, l) = IF bad THEN Undefined ELSE good
    BY <1>3
  <2>2. good = Outcome(value)
    BY <1>1
  <2> HIDE DEF bad, good, value
  <2>3. ~bad
    BY <2>1 DEF Undefined
  <2> QED
    BY <2>1, <2>2, <2>3
<1>5. apply_unary(op, l).lit = value
  <2> HIDE DEF value
  <2> QED
    BY <1>4 DEF Outcome
<1>6. CASE op = "!"
  <2>1. value = make_bool(m.v = 0)
    BY <1>6, <1>2
  <2>2. UnaryMeaning(op, m) = Number(IF m.v = 0 THEN 1 ELSE 0, 4, TRUE)
    BY <1>6 DEF UnaryMeaning
  <2> HIDE DEF value
  <2> QED
    BY <1>5, <2>1, <2>2, BooleanDenoted
<1>7. CASE op = "-"
  <2>1. value = Literal((-m.v) % Modulus(size), size, signed)
    BY <1>7, <1>2
  <2>2. UnaryMeaning(op, m) = Wrapped(-m.v, size, signed)
    BY <1>7 DEF UnaryMeaning
  <2>3. -m.v \in Int
    BY <1>1
  <2> HIDE DEF value
  <2> QED
    BY <1>1, <1>5, <2>1, <2>2, <2>3, WrappedDenoted
<1>8. CASE op = "~"
  <2>1. value = Literal((-m.v - 1) % Modulus(size), size, signed)
    BY <1>8, <1>2
  <2>2. UnaryMeaning(op, m) = Wrapped(-m.v - 1, size, signed)
    BY <1>8 DEF UnaryMeaning
  <2>3. -m.v - 1 \in Int
    BY <1>1
  <2> HIDE DEF value
  <2> QED
    BY <1>1, <1>5, <2>1, <2>2, <2>3, WrappedDenoted
<1> QED
  BY <1>6, <1>7, <1>8

\* A conversion comes to the number wrapped into the new type.
LEMMA ConvertedRight ==
  ASSUME NEW l, NEW m, Canonical(m), Denotes(l, m), NEW size \in IntegerSizes, NEW signed \in BOOLEAN
  PROVE  /\ Denotes(converted(l, size, signed), Wrapped(m.v, size, signed))
         /\ Canonical(Wrapped(m.v, size, signed))
         /\ converted(l, size, signed).value = m.v % Modulus(size)
<1>1. m.v \in Int
  BY DEF Canonical
<1>2. converted(l, size, signed) = Literal(m.v % Modulus(size), size, signed)
  BY ConvertMeans DEF converted
<1>3. converted(l, size, signed).value = m.v % Modulus(size)
  BY <1>2 DEF Literal
<1> QED
  BY <1>1, <1>2, <1>3, WrappedDenoted

-----------------------------------------------------------------------------
(***************************************************************************)
(* The types of the program and their sizes.                               *)
(***************************************************************************)
Sizes == 0..(SizeLimit - 1)
Mods == {Pointer, ConstPointer} \cup (Nat \ {0})

\* Every number taken modulo SizeLimit is a size, and so are 0, 1 and PtrSize.
LEMMA Limits ==
  /\ SizeLimit \in Nat /\ SizeLimit > 1 /\ PtrSize \in Nat \ {0} /\ PtrSize \in Sizes
  /\ 0 \in Sizes /\ 1 \in Sizes
  /\ \A k \in Int : k % SizeLimit \in Sizes
BY TypeTableAssumption DEF TypeTableAssumption, Sizes

\* A type of the program is an entry of the table with modifiers around it.
LEMMA ProgramType ==
  ASSUME NEW t \in ProgramTypes
  PROVE  /\ t.id \in Entries /\ t.const \in BOOLEAN /\ t.mods \in Seq(Mods)
         /\ t = [id |-> t.id, const |-> t.const, mods |-> t.mods]
         /\ Table[t.id].kind = "function" => ~t.const /\ (t.mods # <<>> => IsPointer(t.mods[1]))
         /\ Table[t.id].size \in Sizes
<1>1. t \in [id : Entries, const : BOOLEAN, mods : Seq(Mods)]
  BY DEF ProgramTypes, Mods
<1>2. Table[t.id].kind = "function" => ~t.const /\ (t.mods # <<>> => IsPointer(t.mods[1]))
  BY DEF ProgramTypes
<1>3. t.id \in Entries
  BY <1>1
<1>4. Table[t.id].size \in Sizes
  BY <1>3, TableAssumption DEF TableAssumption, Sizes
<1> QED
  BY <1>1, <1>2, <1>4

\* f[i] is the size with the first i modifiers around an entry of the size base.
Scaled(m, x) == IF IsPointer(m) THEN PtrSize ELSE (x * m) % SizeLimit
AreSizes(f, base, mods) ==
  f = [i \in 0..Len(mods) |-> IF i = 0 THEN base
                              ELSE IF IsPointer(mods[i]) THEN PtrSize
                              ELSE (f[i - 1] * mods[i]) % SizeLimit]

\* A modifier takes a size to a size.
LEMMA ScaledType ==
  ASSUME NEW m \in Mods, NEW x \in Sizes
  PROVE  Scaled(m, x) \in Sizes
<1>1. CASE IsPointer(m)
  BY <1>1, Limits DEF Scaled
<1>2. CASE ~IsPointer(m)
  <2>1. m \in Nat /\ x \in Nat
    BY <1>2, Limits DEF IsPointer, Mods, Sizes
  <2>2. x * m \in Int
    BY <2>1
  <2> QED
    BY <1>2, <2>2, Limits DEF Scaled
<1> QED
  BY <1>1, <1>2

\* The recursion of size_of defines a size for each number of modifiers.
LEMMA SizesExist ==
  ASSUME NEW base \in Sizes, NEW mods \in Seq(Mods)
  PROVE  \E f \in [0..Len(mods) -> Sizes] : AreSizes(f, base, mods)
<1> DEFINE n == Len(mods)
           table == [i \in 1..n |-> [x \in Sizes |-> Scaled(mods[i], x)]]
<1>1. n \in Nat /\ \A i \in 1..n : mods[i] \in Mods
  BY LenProperties
<1>2. /\ table \in [1..n -> [Sizes -> Sizes]]
      /\ \A i \in 1..n : \A x \in Sizes : table[i][x] = Scaled(mods[i], x)
  BY <1>1, ScaledType
<1>a. PICK step \in [1..n -> [Sizes -> Sizes]] :
        \A i \in 1..n : \A x \in Sizes : step[i][x] = Scaled(mods[i], x)
  BY <1>2
<1>b. PICK f \in [0..n -> Sizes] : Repeats(f, n, base, step)
  <2>1. n \in Nat
    BY <1>1
  <2> HIDE DEF n
  <2> QED
    BY <2>1, RecursionTo
<1>3. f[0] = base /\ \A i \in 1..n : f[i] = step[i][f[i - 1]]
  BY <1>b DEF Repeats
<1>4. ASSUME NEW i \in 1..n
      PROVE  f[i] = Scaled(mods[i], f[i - 1])
  <2>1. i - 1 \in 0..n
    BY <1>1
  <2> QED
    BY <1>3, <1>a, <2>1
<1>5. AreSizes(f, base, mods)
  <2>1. \A i \in 0..n : i # 0 => i \in 1..n
    BY <1>1
  <2>2. f = [i \in 0..n |-> f[i]]
    OBVIOUS
  <2>3. \A i \in 0..n : f[i] = IF i = 0 THEN base ELSE Scaled(mods[i], f[i - 1])
    BY <2>1, <1>3, <1>4
  <2> HIDE DEF n
  <2>4. f = [i \in 0..n |-> IF i = 0 THEN base ELSE Scaled(mods[i], f[i - 1])]
    BY <2>2, <2>3
  <2> QED
    BY <2>4 DEF AreSizes, Scaled, n
<1> QED
  BY <1>5

\* What the recursion of size_of says of each number of modifiers.
LEMMA SizeAt ==
  ASSUME NEW f, NEW base, NEW mods \in Seq(Mods), AreSizes(f, base, mods)
  PROVE  /\ f[0] = base
         /\ \A i \in 1..Len(mods) : f[i] = Scaled(mods[i], f[i - 1])
<1>1. Len(mods) \in Nat
  BY LenProperties
<1>2. 0 \in 0..Len(mods) /\ \A i \in 1..Len(mods) : i \in 0..Len(mods) /\ i # 0
  BY <1>1
<1>3. f[0] = base
  BY <1>2 DEF AreSizes
<1>4. ASSUME NEW i \in 1..Len(mods)
      PROVE  f[i] = Scaled(mods[i], f[i - 1])
  <2> DEFINE e(j) == IF j = 0 THEN base
                     ELSE IF IsPointer(mods[j]) THEN PtrSize
                     ELSE (f[j - 1] * mods[j]) % SizeLimit
  <2>1. f = [j \in 0..Len(mods) |-> e(j)]
    BY DEF AreSizes
  <2>2. f[i] = e(i)
    <3> HIDE DEF e
    <3> QED
      BY <2>1, <1>2
  <2> QED
    BY <2>2, <1>2 DEF Scaled
<1> QED
  BY <1>3, <1>4

\* size_of is given by these sizes.
LEMMA SizeOfIs ==
  ASSUME NEW tab, NEW t, tab[t.id].size \in Sizes, t.mods \in Seq(Mods)
  PROVE  \E f : AreSizes(f, tab[t.id].size, t.mods) /\ size_of(tab, t) = f[Len(t.mods)]
<1> DEFINE F == CHOOSE f : AreSizes(f, tab[t.id].size, t.mods)
<1>1. \E f : AreSizes(f, tab[t.id].size, t.mods)
  BY SizesExist
<1>2. AreSizes(F, tab[t.id].size, t.mods)
  BY <1>1
<1>3. size_of(tab, t) = F[Len(t.mods)]
  BY DEF size_of, AreSizes
<1> QED
  BY <1>2, <1>3

\* A size is a size: it is below the limit.
LEMMA SizeOfType ==
  ASSUME NEW tab, NEW t, tab[t.id].size \in Sizes, t.mods \in Seq(Mods)
  PROVE  size_of(tab, t) \in Sizes
<1> DEFINE n == Len(t.mods)
           base == tab[t.id].size
<1>1. PICK f : AreSizes(f, base, t.mods) /\ size_of(tab, t) = f[n]
  BY SizeOfIs
<1>2. n \in Nat /\ \A i \in 1..n : t.mods[i] \in Mods
  BY LenProperties
<1>3. f[0] = base /\ \A i \in 1..n : f[i] = Scaled(t.mods[i], f[i - 1])
  BY <1>1, SizeAt
<1> DEFINE Good == {i \in 0..n : f[i] \in Sizes}
<1>4. 0 \in Good
  BY <1>2, <1>3
<1>5. ASSUME NEW i \in 1..n, i - 1 \in Good
      PROVE  i \in Good
  <2>1. f[i - 1] \in Sizes
    BY <1>5
  <2>2. f[i] \in Sizes
    BY <2>1, <1>2, <1>3, ScaledType
  <2> QED
    BY <2>2, <1>2
<1>6. 0..n \subseteq Good
  <2> HIDE DEF Good, n
  <2> QED
    BY <1>2, <1>4, <1>5, InductionTo
<1> QED
  BY <1>1, <1>2, <1>6

\* The size of a type without modifiers is that of the entry.
LEMMA SizeOfPlain ==
  ASSUME NEW t \in ProgramTypes, t.mods = <<>>
  PROVE  size_of(Table, t) = Table[t.id].size
<1>1. t.mods \in Seq(Mods) /\ Table[t.id].size \in Sizes
  BY ProgramType
<1>2. PICK f : AreSizes(f, Table[t.id].size, t.mods) /\ size_of(Table, t) = f[Len(t.mods)]
  BY <1>1, SizeOfIs
<1>3. f[0] = Table[t.id].size
  BY <1>1, <1>2, SizeAt
<1>4. Len(t.mods) = 0
  OBVIOUS
<1> QED
  BY <1>2, <1>3, <1>4

\* The last modifier of a type that has one.
LEMMA LastMod ==
  ASSUME NEW t \in ProgramTypes, t.mods # <<>>
  PROVE  /\ Len(t.mods) \in 1..Len(t.mods) /\ Last(t.mods) = t.mods[Len(t.mods)]
         /\ is_pointer(t) <=> IsPointer(t.mods[Len(t.mods)])
         /\ is_array(t) <=> ~IsPointer(t.mods[Len(t.mods)])
<1>1. t.mods \in Seq(Mods)
  BY ProgramType
<1>2. Len(t.mods) \in 1..Len(t.mods) /\ Last(t.mods) = t.mods[Len(t.mods)]
  BY <1>1, FrontProperties
<1> QED
  BY <1>2 DEF is_pointer, is_array

\* Every pointer has the size of a pointer.
LEMMA SizeOfPointer ==
  ASSUME NEW t \in ProgramTypes, is_pointer(t)
  PROVE  size_of(Table, t) = PtrSize
<1> DEFINE n == Len(t.mods)
<1>1. t.mods \in Seq(Mods) /\ Table[t.id].size \in Sizes
  BY ProgramType
<1>2. PICK f : AreSizes(f, Table[t.id].size, t.mods) /\ size_of(Table, t) = f[n]
  BY <1>1, SizeOfIs
<1>3. t.mods # <<>>
  BY DEF is_pointer
<1>4. n \in 1..n /\ IsPointer(t.mods[n])
  BY <1>3, LastMod
<1>5. f[n] = Scaled(t.mods[n], f[n - 1])
  BY <1>1, <1>2, <1>4, SizeAt
<1> QED
  BY <1>2, <1>4, <1>5 DEF Scaled

\* Two modifiers that are the same or both a pointer.
Alike(a, b) == a = b \/ (IsPointer(a) /\ IsPointer(b))

\* The size depends on the entry and on what the modifiers are, not on const.
LEMMA SizeOfAlike ==
  ASSUME NEW t \in ProgramTypes, NEW u \in ProgramTypes,
         Table[t.id].size = Table[u.id].size, Len(t.mods) = Len(u.mods),
         \A i \in 1..Len(t.mods) : Alike(t.mods[i], u.mods[i])
  PROVE  size_of(Table, t) = size_of(Table, u)
<1> DEFINE n == Len(t.mods)
           base == Table[t.id].size
<1>1. /\ t.mods \in Seq(Mods) /\ Table[t.id].size \in Sizes
      /\ u.mods \in Seq(Mods) /\ Table[u.id].size \in Sizes
  BY ProgramType
<1>2. n \in Nat
  BY <1>1, LenProperties
<1>3. PICK f : AreSizes(f, Table[t.id].size, t.mods) /\ size_of(Table, t) = f[n]
  BY <1>1, SizeOfIs
<1>4. PICK g : AreSizes(g, Table[u.id].size, u.mods) /\ size_of(Table, u) = g[Len(u.mods)]
  BY <1>1, SizeOfIs
<1>5. f[0] = base /\ \A i \in 1..n : f[i] = Scaled(t.mods[i], f[i - 1])
  BY <1>1, <1>3, SizeAt
<1>6. g[0] = base /\ \A i \in 1..n : g[i] = Scaled(u.mods[i], g[i - 1])
  BY <1>1, <1>4, SizeAt
<1> DEFINE Good == {i \in 0..n : f[i] = g[i]}
<1>7. 0 \in Good
  BY <1>2, <1>5, <1>6
<1>8. ASSUME NEW i \in 1..n, i - 1 \in Good
      PROVE  i \in Good
  <2>1. f[i - 1] = g[i - 1] /\ Alike(t.mods[i], u.mods[i])
    BY <1>8
  <2>2. f[i] = g[i]
    BY <2>1, <1>5, <1>6 DEF Scaled, Alike
  <2> QED
    BY <2>2, <1>2
<1>9. 0..n \subseteq Good
  <2> HIDE DEF Good, n
  <2> QED
    BY <1>2, <1>7, <1>8, InductionTo
<1>10. f[n] = g[n]
  BY <1>2, <1>9
<1> QED
  BY <1>3, <1>4, <1>10

-----------------------------------------------------------------------------
(***************************************************************************)
(* pointee_type, the address, element, and what is declared const.         *)
(***************************************************************************)
\* What a pointer points to, or an array has.
LEMMA PointeeIs ==
  ASSUME NEW t \in ProgramTypes, t.mods # <<>>
  PROVE  /\ pointee_type(t) \in ProgramTypes
         /\ pointee_type(t).id = t.id /\ pointee_type(t).const = t.const
         /\ Len(pointee_type(t).mods) = Len(t.mods) - 1
         /\ \A i \in 1..(Len(t.mods) - 1) : pointee_type(t).mods[i] = t.mods[i]
<1>1. /\ t.id \in Entries /\ t.const \in BOOLEAN /\ t.mods \in Seq(Mods)
      /\ t = [id |-> t.id, const |-> t.const, mods |-> t.mods]
      /\ Table[t.id].kind = "function" => ~t.const /\ (t.mods # <<>> => IsPointer(t.mods[1]))
  BY ProgramType
<1> DEFINE s == Front(t.mods)
<1>2. /\ s \in Seq(Mods) /\ Len(s) = Len(t.mods) - 1
      /\ \A i \in 1..(Len(t.mods) - 1) : s[i] = t.mods[i]
  BY <1>1, FrontProperties
<1> HIDE DEF s
<1>3. pointee_type(t) = [id |-> t.id, const |-> t.const, mods |-> s]
  BY <1>1 DEF pointee_type, s
<1>4. s # <<>> => 1 \in 1..(Len(t.mods) - 1)
  <2>1. Len(s) \in Nat /\ (Len(s) = 0 => s = <<>>)
    BY <1>2, EmptySeq, LenProperties
  <2> QED
    BY <2>1, <1>2
<1>5. Table[t.id].kind = "function" => ~t.const /\ (s # <<>> => IsPointer(s[1]))
  BY <1>1, <1>2, <1>4
<1>6. [id |-> t.id, const |-> t.const, mods |-> s] \in ProgramTypes
  BY <1>1, <1>2, <1>5 DEF ProgramTypes, Mods
<1> QED
  BY <1>2, <1>3, <1>6

\* Two types that have all in common are one.
LEMMA SameType ==
  ASSUME NEW t \in ProgramTypes, NEW u \in ProgramTypes, t.id = u.id, t.const = u.const,
         Len(t.mods) = Len(u.mods), \A i \in 1..Len(t.mods) : t.mods[i] = u.mods[i]
  PROVE  t = u
<1>1. /\ t = [id |-> t.id, const |-> t.const, mods |-> t.mods] /\ t.mods \in Seq(Mods)
      /\ u = [id |-> u.id, const |-> u.const, mods |-> u.mods] /\ u.mods \in Seq(Mods)
  BY ProgramType
<1>2. t.mods = u.mods
  BY <1>1, SeqEqual
<1> QED
  BY <1>1, <1>2

Address(t) == [t EXCEPT !.mods = Append(@, Pointer)]

\* The address of an object is a pointer to it.
LEMMA AddressIs ==
  ASSUME NEW t \in ProgramTypes
  PROVE  /\ Address(t) \in ProgramTypes /\ is_pointer(Address(t))
         /\ pointee_type(Address(t)) = t
<1> DEFINE s == Append(t.mods, Pointer)
           n == Len(t.mods)
           a == Address(t)
<1>1. /\ t.id \in Entries /\ t.const \in BOOLEAN /\ t.mods \in Seq(Mods)
      /\ t = [id |-> t.id, const |-> t.const, mods |-> t.mods]
      /\ Table[t.id].kind = "function" => ~t.const /\ (t.mods # <<>> => IsPointer(t.mods[1]))
  BY ProgramType
<1>2. Pointer \in Mods /\ n \in Nat
  BY <1>1, LenProperties DEF Mods
<1>3. /\ s \in Seq(Mods) /\ Len(s) = n + 1 /\ s[n + 1] = Pointer /\ s # <<>>
      /\ \A i \in 1..n : s[i] = t.mods[i]
  BY <1>1, <1>2, AppendProperties
<1>4. a = [id |-> t.id, const |-> t.const, mods |-> s]
  <2>1. a = [t EXCEPT !.mods = s]
    BY DEF Address
  <2> HIDE DEF s, a
  <2> QED
    BY <2>1, <1>1
<1> HIDE DEF s
<1>5. IsPointer(Pointer)
  BY DEF IsPointer
<1>6. Table[t.id].kind = "function" => ~t.const /\ IsPointer(s[1])
  <2>1. CASE t.mods = <<>>
    <3>1. s[1] = Pointer
      BY <2>1, <1>3
    <3> QED
      BY <3>1, <1>1, <1>5
  <2>2. CASE t.mods # <<>>
    <3>1. 1 \in 1..n
      BY <2>2, <1>1, LastMod
    <3> QED
      BY <2>2, <3>1, <1>1, <1>3
  <2> QED
    BY <2>1, <2>2
<1>7. a \in ProgramTypes
  BY <1>1, <1>3, <1>4, <1>6 DEF ProgramTypes, Mods
<1>8. a.mods = s /\ a.id = t.id /\ a.const = t.const
  BY <1>4
<1> HIDE DEF a
<1>9. is_pointer(a)
  BY <1>3, <1>5, <1>7, <1>8, LastMod
<1>10. pointee_type(a) = t
  <2>1. /\ pointee_type(a) \in ProgramTypes
        /\ pointee_type(a).id = t.id /\ pointee_type(a).const = t.const
        /\ Len(pointee_type(a).mods) = n
        /\ \A i \in 1..n : pointee_type(a).mods[i] = t.mods[i]
    <3>1. Len(a.mods) - 1 = n
      BY <1>2, <1>3, <1>8
    <3> QED
      BY <3>1, <1>3, <1>7, <1>8, PointeeIs
  <2> QED
    BY <2>1, SameType
<1> QED
  BY <1>7, <1>9, <1>10 DEF a

\* The last pointer of a type, if it has one.
NoPointer(t) == \A i \in 1..Len(t.mods) : ~IsPointer(t.mods[i])
LastPointer(t, p) ==
  /\ p \in 1..Len(t.mods) /\ IsPointer(t.mods[p])
  /\ \A i \in (p + 1)..Len(t.mods) : ~IsPointer(t.mods[i])

\* The arrays on top of a type end below its last pointer.
LEMMA ElementIs ==
  ASSUME NEW t \in ProgramTypes
  PROVE  \/ NoPointer(t) /\ element(t).mods = <<>> /\ Len(element(t).mods) = 0
         \/ \E p : /\ LastPointer(t, p) /\ element(t).mods # <<>> /\ Len(element(t).mods) = p
                   /\ Last(element(t).mods) = t.mods[p]
<1> DEFINE n == Len(t.mods)
           S == {0} \cup {i \in 1..n : IsPointer(t.mods[i])}
           last == Max(S)
           s == SubSeq(t.mods, 1, last)
<1>1. n \in Nat /\ t.mods \in Seq(Mods) /\ \A i \in 1..n : t.mods[i] \in Mods
  BY ProgramType, LenProperties
<1>2. S \in SUBSET (0..n) /\ S # {}
  BY <1>1
<1>3. last \in S /\ \A y \in S : y <= last
  <2> HIDE DEF S, n
  <2> QED
    BY <1>1, <1>2, MaxOfSet
<1>4. element(t).mods = s
  <2>1. t = [id |-> t.id, const |-> t.const, mods |-> t.mods]
    BY ProgramType
  <2>2. element(t) = [t EXCEPT !.mods = s]
    BY DEF element
  <2> HIDE DEF s
  <2> QED
    BY <2>1, <2>2
<1>5. last \in 0..n /\ (last # 0 => last \in 1..n /\ IsPointer(t.mods[last]))
      /\ \A i \in 1..n : IsPointer(t.mods[i]) => i <= last
  BY <1>1, <1>3
<1> HIDE DEF last
<1>6. s \in Seq(Mods) /\ Len(s) = last /\ \A i \in 1..last : s[i] = t.mods[i]
  <2>1. 1 \in Int /\ last \in Int /\ \A i \in 1..last : t.mods[i] \in Mods
    BY <1>1, <1>5
  <2>2. /\ s \in Seq(Mods)
        /\ Len(s) = IF 1 <= last THEN last - 1 + 1 ELSE 0
        /\ \A i \in 1..(last - 1 + 1) : s[i] = t.mods[1 + i - 1]
    BY <2>1, SubSeqProperties
  <2>3. last - 1 + 1 = last /\ \A i \in 1..last : 1 + i - 1 = i
    BY <2>1
  <2> QED
    BY <2>2, <2>3, <1>5
<1> HIDE DEF s
<1>7. CASE last = 0
  <2>1. s = <<>>
    BY <1>6, <1>7, EmptySeq
  <2>2. NoPointer(t)
    BY <1>1, <1>5, <1>7 DEF NoPointer
  <2> QED
    BY <2>1, <2>2, <1>4, <1>6, <1>7
<1>8. CASE last # 0
  <2>1. LastPointer(t, last)
    BY <1>1, <1>5, <1>8 DEF LastPointer
  <2>2. s # <<>>
    <3>1. Len(<<>>) = 0
      OBVIOUS
    <3> QED
      BY <3>1, <1>6, <1>8
  <2>3. Last(s) = t.mods[last]
    <3>1. Last(s) = s[Len(s)] /\ Len(s) \in 1..Len(s)
      BY <2>2, <1>6, FrontProperties
    <3> QED
      BY <3>1, <1>6
  <2> QED
    BY <2>1, <2>2, <2>3, <1>4, <1>6
<1> QED
  BY <1>7, <1>8

\* A type is declared const by its const, or by that of its last pointer.
LEMMA DeclaredIs ==
  ASSUME NEW t \in ProgramTypes
  PROVE  /\ NoPointer(t) => (declared_const(Table, t) <=> t.const \/ Table[t.id].kind = "function")
         /\ \A p : LastPointer(t, p) => (declared_const(Table, t) <=> t.mods[p] = ConstPointer)
<1>1. Len(t.mods) \in Nat
  BY ProgramType, LenProperties
<1>2. CASE NoPointer(t) /\ element(t).mods = <<>>
  BY <1>2 DEF declared_const, NoPointer, LastPointer
<1>3. ASSUME NEW q, LastPointer(t, q), element(t).mods # <<>>, Last(element(t).mods) = t.mods[q]
      PROVE  /\ NoPointer(t) => (declared_const(Table, t) <=> t.const \/ Table[t.id].kind = "function")
             /\ \A p : LastPointer(t, p) => (declared_const(Table, t) <=> t.mods[p] = ConstPointer)
  <2>1. ~NoPointer(t)
    BY <1>3 DEF NoPointer, LastPointer
  <2>2. \A p : LastPointer(t, p) => p = q
    BY <1>1, <1>3 DEF LastPointer
  <2>3. declared_const(Table, t) <=> t.mods[q] = ConstPointer
    BY <1>3 DEF declared_const
  <2> QED
    BY <2>1, <2>2, <2>3
<1> QED
  BY <1>2, <1>3, ElementIs

\* A type with a pointer in it is no function type, and no function has arrays
\* but no pointer around it.
LEMMA FunctionIs ==
  ASSUME NEW t \in ProgramTypes
  PROVE  /\ t.mods # <<>> => ~is_function(Table, t)
         /\ t.mods # <<>> /\ NoPointer(t) => Table[t.id].kind # "function"
         /\ ~is_function(Table, t) /\ NoPointer(t) => Table[t.id].kind # "function"
         /\ \A p : LastPointer(t, p) => t.mods # <<>>
<1>1. Table[t.id].kind = "function" /\ t.mods # <<>> => ~NoPointer(t)
  <2>1. t.mods # <<>> => 1 \in 1..Len(t.mods)
    BY LastMod
  <2> QED
    BY <2>1, ProgramType DEF NoPointer
<1>2. \A p : LastPointer(t, p) => t.mods # <<>>
  <2>1. Len(<<>>) = 0
    OBVIOUS
  <2> QED
    BY <2>1 DEF LastPointer
<1> QED
  BY <1>1, <1>2 DEF is_function

\* Every type has a last pointer or none.
LEMMA PointerOrNone ==
  ASSUME NEW t \in ProgramTypes
  PROVE  NoPointer(t) \/ \E p : LastPointer(t, p)
BY ElementIs

\* The elements of an array that is declared const are const.
LEMMA FrozenElement ==
  ASSUME NEW t \in ProgramTypes, is_array(t), Frozen(t)
  PROVE  Frozen(pointee_type(t))
<1> DEFINE u == pointee_type(t)
           n == Len(t.mods)
<1>1. t.mods # <<>>
  BY DEF is_array
<1>2. n \in 1..n /\ ~IsPointer(t.mods[n]) /\ n \in Nat
  <2>1. n \in Nat
    BY ProgramType, LenProperties
  <2> QED
    BY <1>1, <2>1, LastMod
<1>3. /\ u \in ProgramTypes /\ u.id = t.id /\ u.const = t.const /\ Len(u.mods) = n - 1
      /\ \A i \in 1..(n - 1) : u.mods[i] = t.mods[i]
  BY <1>1, PointeeIs
<1> HIDE DEF u
<1>4. declared_const(Table, t)
  BY DEF Frozen
<1>5. CASE NoPointer(t)
  <2>1. t.const /\ Table[t.id].kind # "function"
    BY <1>1, <1>4, <1>5, DeclaredIs, FunctionIs
  <2>2. NoPointer(u)
    BY <1>2, <1>3, <1>5 DEF NoPointer
  <2>3. declared_const(Table, u) /\ ~is_function(Table, u)
    BY <1>3, <2>1, <2>2, DeclaredIs DEF is_function
  <2> QED
    BY <2>3 DEF Frozen, u
<1>6. ASSUME NEW p, LastPointer(t, p)
      PROVE  Frozen(u)
  <2>1. p # n /\ p \in 1..(n - 1)
    BY <1>2, <1>6 DEF LastPointer
  <2>2. LastPointer(u, p)
    BY <1>2, <1>3, <1>6, <2>1 DEF LastPointer
  <2>3. u.mods[p] = ConstPointer
    BY <1>3, <1>4, <1>6, <2>1, DeclaredIs
  <2>4. declared_const(Table, u) /\ ~is_function(Table, u)
    BY <1>3, <2>2, <2>3, DeclaredIs, FunctionIs
  <2> QED
    BY <2>4 DEF Frozen
<1> QED
  BY <1>5, <1>6, PointerOrNone DEF u

\* as_const makes a type const, and changes neither its size nor what it points to.
LEMMA AsConstIs ==
  ASSUME NEW u \in ProgramTypes, ~is_function(Table, u)
  PROVE  /\ as_const(u) \in ProgramTypes /\ Frozen(as_const(u))
         /\ size_of(Table, as_const(u)) = size_of(Table, u)
         /\ PointsToConst(u) => PointsToConst(as_const(u))
<1> DEFINE n == Len(u.mods)
           c == as_const(u)
<1>1. /\ u.id \in Entries /\ u.const \in BOOLEAN /\ u.mods \in Seq(Mods)
      /\ u = [id |-> u.id, const |-> u.const, mods |-> u.mods]
      /\ Table[u.id].kind = "function" => ~u.const /\ (u.mods # <<>> => IsPointer(u.mods[1]))
      /\ Table[u.id].size \in Sizes
  BY ProgramType
<1>2. n \in Nat
  BY <1>1, LenProperties
<1>3. CASE NoPointer(u) /\ Len(element(u).mods) = 0
  <2>1. c = [u EXCEPT !.const = TRUE]
    BY <1>3 DEF as_const
  <2> HIDE DEF c
  <2>2. c = [id |-> u.id, const |-> TRUE, mods |-> u.mods]
    BY <2>1, <1>1
  <2>3. c.id = u.id /\ c.const /\ c.mods = u.mods /\ Table[u.id].kind # "function"
    BY <2>2, <1>3, FunctionIs
  <2>4. c \in ProgramTypes
    BY <2>2, <2>3, <1>1 DEF ProgramTypes, Mods
  <2>5. Frozen(c)
    <3>1. NoPointer(c)
      BY <2>3, <1>3 DEF NoPointer
    <3> QED
      BY <3>1, <2>3, <2>4, DeclaredIs DEF Frozen, is_function
  <2>6. size_of(Table, c) = size_of(Table, u)
    BY <2>3, <2>4, SizeOfAlike DEF Alike
  <2>7. ~PointsToConst(u)
    <3>1. u.mods # <<>> => ~is_pointer(u)
      BY <1>3, LastMod DEF NoPointer
    <3> QED
      BY <3>1 DEF PointsToConst, is_pointer
  <2> QED
    BY <2>4, <2>5, <2>6, <2>7 DEF c
<1>4. ASSUME NEW p, LastPointer(u, p), Len(element(u).mods) = p
      PROVE  /\ c \in ProgramTypes /\ Frozen(c) /\ size_of(Table, c) = size_of(Table, u)
             /\ PointsToConst(u) => PointsToConst(c)
  <2> DEFINE s == [u.mods EXCEPT ![p] = ConstPointer]
  <2>1. p \in 1..n /\ p # 0 /\ IsPointer(u.mods[p])
    BY <1>2, <1>4 DEF LastPointer
  <2>2. ConstPointer \in Mods /\ IsPointer(ConstPointer)
    BY DEF Mods, IsPointer
  <2>3. /\ s \in Seq(Mods) /\ Len(s) = n
        /\ \A i \in 1..n : s[i] = IF i = p THEN ConstPointer ELSE u.mods[i]
    BY <1>1, <2>1, <2>2, ExceptSeq
  <2>4. c = [id |-> u.id, const |-> u.const, mods |-> s]
    <3>1. c = [u EXCEPT !.mods = s]
      BY <1>4, <2>1 DEF as_const
    <3> HIDE DEF c, s
    <3> QED
      BY <3>1, <1>1
  <2> HIDE DEF c, s
  <2>5. c.id = u.id /\ c.const = u.const /\ c.mods = s
    BY <2>4
  <2>6. s # <<>>
    BY <2>1, <2>3
  <2>7. Table[u.id].kind = "function" => ~u.const /\ (s # <<>> => IsPointer(s[1]))
    <3>1. 1 \in 1..n /\ u.mods # <<>>
      BY <1>2, <2>1
    <3>2. IsPointer(u.mods[1]) => IsPointer(s[1])
      BY <3>1, <2>2, <2>3
    <3> QED
      BY <3>1, <3>2, <1>1
  <2>8. c \in ProgramTypes
    BY <2>3, <2>4, <2>7, <1>1 DEF ProgramTypes, Mods
  <2>9. LastPointer(c, p) /\ c.mods[p] = ConstPointer
    <3>1. \A i \in (p + 1)..n : i \in 1..n /\ i # p
      BY <1>2, <2>1
    <3> QED
      BY <3>1, <1>4, <2>1, <2>2, <2>3, <2>5 DEF LastPointer
  <2>10. Frozen(c)
    BY <2>5, <2>6, <2>8, <2>9, DeclaredIs, FunctionIs DEF Frozen
  <2>11. size_of(Table, c) = size_of(Table, u)
    <3>1. \A i \in 1..n : Alike(c.mods[i], u.mods[i])
      BY <2>1, <2>2, <2>3, <2>5 DEF Alike
    <3> QED
      BY <3>1, <2>3, <2>5, <2>8, SizeOfAlike
  <2>12. ASSUME PointsToConst(u)
         PROVE  PointsToConst(c)
    <3>1. is_pointer(u) /\ u.mods # <<>> /\ Frozen(pointee_type(u))
      BY <2>12 DEF PointsToConst, is_pointer
    <3>2. p = n
      <4>1. IsPointer(u.mods[n]) /\ n \in 1..n
        BY <3>1, LastMod
      <4> QED
        BY <4>1, <1>2, <1>4 DEF LastPointer
    <3>3. is_pointer(c)
      BY <3>2, <2>3, <2>5, <2>6, <2>8, <2>9, LastMod DEF LastPointer
    <3>4. /\ pointee_type(u) \in ProgramTypes /\ pointee_type(u).id = u.id
          /\ pointee_type(u).const = u.const /\ Len(pointee_type(u).mods) = n - 1
          /\ \A i \in 1..(n - 1) : pointee_type(u).mods[i] = u.mods[i]
      BY <3>1, PointeeIs
    <3>5. /\ pointee_type(c) \in ProgramTypes /\ pointee_type(c).id = u.id
          /\ pointee_type(c).const = u.const /\ Len(pointee_type(c).mods) = n - 1
          /\ \A i \in 1..(n - 1) : pointee_type(c).mods[i] = s[i]
      BY <2>3, <2>5, <2>6, <2>8, PointeeIs
    <3>6. \A i \in 1..(n - 1) : s[i] = u.mods[i]
      BY <1>2, <2>3, <3>2
    <3>7. pointee_type(c) = pointee_type(u)
      BY <3>4, <3>5, <3>6, SameType
    <3> QED
      BY <3>1, <3>3, <3>7 DEF PointsToConst
  <2> QED
    BY <2>8, <2>10, <2>11, <2>12
<1> QED
  <2> HIDE DEF c
  <2>1. \/ NoPointer(u) /\ Len(element(u).mods) = 0
        \/ \E p : LastPointer(u, p) /\ Len(element(u).mods) = p
    BY ElementIs
  <2> QED
    BY <2>1, <1>3, <1>4 DEF c

-----------------------------------------------------------------------------
(***************************************************************************)
(* is_types_compatible.                                                    *)
(***************************************************************************)
\* Types of one shape have as many modifiers, which are alike.
LEMMA ShapeIs ==
  ASSUME NEW policy, NEW a, NEW b, same_shape(policy, a, b)
  PROVE  /\ Len(a.mods) = Len(b.mods) /\ check_const(policy, a.const, b.const)
         /\ \A i \in 1..Len(a.mods) : Alike(a.mods[i], b.mods[i])
         /\ \A i \in 1..Len(a.mods) : check_const(policy, a.mods[i] = ConstPointer, b.mods[i] = ConstPointer)
BY DEF same_shape, Alike

\* Compatible types have one size: the entries of functions have none.
LEMMA CompatibleSize ==
  ASSUME NEW a \in ProgramTypes, NEW b \in ProgramTypes, NEW policy,
         is_types_compatible(Table, a, b, policy)
  PROVE  size_of(Table, a) = size_of(Table, b)
<1>1. CASE values_compatible(Table, a, b, policy)
  <2>1. PICK p : same_shape(p, a, b) /\ (a.id = b.id \/ (is_pointer(a) /\ is_pointer(b)))
    BY <1>1 DEF values_compatible
  <2>2. CASE a.id = b.id
    <3>1. Len(a.mods) = Len(b.mods) /\ \A i \in 1..Len(a.mods) : Alike(a.mods[i], b.mods[i])
      BY <2>1, ShapeIs
    <3> QED
      BY <3>1, <2>2, SizeOfAlike
  <2>3. CASE is_pointer(a) /\ is_pointer(b)
    BY <2>3, SizeOfPointer
  <2> QED
    BY <2>1, <2>2, <2>3
<1>2. CASE is_function(Table, a) /\ is_function(Table, b)
  <2>1. a.id \in Entries /\ b.id \in Entries
    BY ProgramType
  <2>2. Table[a.id].size = 0 /\ Table[b.id].size = 0
    BY <1>2, <2>1, TableAssumption DEF TableAssumption, is_function
  <2>3. size_of(Table, a) = Table[a.id].size /\ size_of(Table, b) = Table[b.id].size
    BY <1>2, SizeOfPlain DEF is_function
  <2> QED
    BY <2>2, <2>3
<1> QED
  BY <1>1, <1>2 DEF is_types_compatible

\* A pointer to something const is compatible with no other, where const may be gained.
LEMMA CompatiblePoints ==
  ASSUME NEW a \in ProgramTypes, NEW b \in ProgramTypes,
         is_types_compatible(Table, a, b, "MAY_BE_CONST"), PointsToConst(b)
  PROVE  PointsToConst(a)
<1> DEFINE u == pointee_type(a)
           w == pointee_type(b)
           n == Len(b.mods)
<1>1. is_pointer(b) /\ b.mods # <<>> /\ Frozen(w)
  BY DEF PointsToConst, is_pointer
<1>2. ~is_function(Table, b) /\ ~is_integer(Table, b)
  BY <1>1 DEF is_function, is_integer
<1>3. same_shape("MAY_BE_CONST", a, b)
  BY <1>2 DEF is_types_compatible, values_compatible
<1>4. /\ Len(a.mods) = n /\ check_const("MAY_BE_CONST", a.const, b.const)
      /\ \A i \in 1..n : Alike(a.mods[i], b.mods[i])
      /\ \A i \in 1..n : check_const("MAY_BE_CONST", a.mods[i] = ConstPointer, b.mods[i] = ConstPointer)
  BY <1>3, ShapeIs
<1>5. n \in 1..n /\ IsPointer(b.mods[n]) /\ n \in Nat
  <2>1. n \in Nat
    BY ProgramType, LenProperties
  <2> QED
    BY <1>1, <2>1, LastMod
<1>6. IsPointer(a.mods[n]) /\ a.mods # <<>> /\ is_pointer(a)
  <2>1. a.mods # <<>>
    <3>1. Len(<<>>) = 0
      OBVIOUS
    <3> QED
      BY <3>1, <1>4, <1>5
  <2>2. IsPointer(a.mods[n])
    BY <1>4, <1>5 DEF Alike
  <2> QED
    BY <2>1, <2>2, <1>4, LastMod
<1>7. /\ u \in ProgramTypes /\ u.id = a.id /\ u.const = a.const /\ Len(u.mods) = n - 1
      /\ \A i \in 1..(n - 1) : u.mods[i] = a.mods[i]
  BY <1>4, <1>6, PointeeIs
<1>8. /\ w \in ProgramTypes /\ w.id = b.id /\ w.const = b.const /\ Len(w.mods) = n - 1
      /\ \A i \in 1..(n - 1) : w.mods[i] = b.mods[i]
  BY <1>1, PointeeIs
<1> HIDE DEF u, w
<1>9. \A i \in 1..(n - 1) : i \in 1..n /\ (IsPointer(u.mods[i]) <=> IsPointer(w.mods[i]))
  <2>1. \A i \in 1..(n - 1) : i \in 1..n
    BY <1>5
  <2> QED
    BY <2>1, <1>4, <1>7, <1>8 DEF Alike
<1>10. ~is_function(Table, w) /\ declared_const(Table, w)
  BY <1>1 DEF Frozen
<1>11. CASE NoPointer(w)
  <2>1. w.const
    BY <1>8, <1>10, <1>11, DeclaredIs, FunctionIs
  <2>2. a.const
    BY <2>1, <1>4, <1>8 DEF check_const
  <2>3. Table[u.id].kind # "function"
    BY <2>2, <1>7, ProgramType
  <2>4. NoPointer(u)
    BY <1>7, <1>8, <1>9, <1>11 DEF NoPointer
  <2>5. declared_const(Table, u) /\ ~is_function(Table, u)
    BY <2>2, <2>3, <2>4, <1>7, DeclaredIs DEF is_function
  <2> QED
    BY <2>5, <1>6 DEF PointsToConst, Frozen, u
<1>12. ASSUME NEW p, LastPointer(w, p)
       PROVE  PointsToConst(a)
  <2>1. w.mods[p] = ConstPointer /\ p \in 1..(n - 1) /\ p \in 1..n
    BY <1>8, <1>9, <1>10, <1>12, DeclaredIs DEF LastPointer
  <2>2. b.mods[p] = ConstPointer
    BY <2>1, <1>8
  <2>3. a.mods[p] = ConstPointer
    BY <2>1, <2>2, <1>4 DEF check_const
  <2>4. u.mods[p] = ConstPointer
    BY <2>1, <2>3, <1>7
  <2>5. LastPointer(u, p)
    <3>1. p \in Nat
      BY <2>1
    <3>2. \A i \in (p + 1)..(n - 1) : i \in 1..(n - 1)
      BY <3>1
    <3>3. \A i \in (p + 1)..(n - 1) : ~IsPointer(w.mods[i])
      BY <1>8, <1>12 DEF LastPointer
    <3> QED
      BY <3>2, <3>3, <2>1, <2>4, <1>7, <1>9 DEF LastPointer, IsPointer
  <2>6. declared_const(Table, u) /\ ~is_function(Table, u)
    BY <2>4, <2>5, <1>7, DeclaredIs, FunctionIs
  <2> QED
    BY <2>6, <1>6 DEF PointsToConst, Frozen, u
<1> QED
  BY <1>8, <1>11, <1>12, PointerOrNone

-----------------------------------------------------------------------------
(***************************************************************************)
(* is_const.                                                               *)
(***************************************************************************)
\* The recursion of is_const: what has a const field, or a field that has one.
Held(u) == IF element(u).mods = <<>> THEN {u.id} ELSE {}
HasConst(i, S) ==
  \E k \in 1..Len(Table[i].fields) :
    LET u == Table[i].fields[k].type
    IN  declared_const(Table, u) \/ \E j \in Held(u) : j \in S
AreConst(f) ==
  f = [i \in Entries |->
         \E k \in 1..Len(Table[i].fields) :
           LET u == Table[i].fields[k].type
           IN  declared_const(Table, u) \/ \E j \in Held(u) : f[j]]

\* A field of an entry has a type of the program.
LEMMA FieldIs ==
  ASSUME NEW i \in Entries
  PROVE  /\ Len(Table[i].fields) \in Nat
         /\ \A k \in 1..Len(Table[i].fields) :
              LET f == Table[i].fields[k]
              IN  /\ f \in ToSet(Table[i].fields)
                  /\ f.type \in ProgramTypes /\ f.type.id \in Entries /\ ~is_function(Table, f.type)
                  /\ f.size = size_of(Table, f.type)
         /\ \A f \in ToSet(Table[i].fields) : \E k \in 1..Len(Table[i].fields) : f = Table[i].fields[k]
<1> DEFINE s == Table[i].fields
<1>1. s \in Seq(ToSet(s))
  BY TableAssumption DEF TableAssumption
<1>2. \A f \in ToSet(s) : f.type \in ProgramTypes /\ ~is_function(Table, f.type) /\ f.size = size_of(Table, f.type)
  BY TableAssumption DEF TableAssumption
<1> HIDE DEF s
<1>3. Len(s) \in Nat /\ \A k \in 1..Len(s) : s[k] \in ToSet(s)
  BY <1>1, LenProperties
<1>4. \A f \in ToSet(s) : \E k \in 1..Len(s) : f = s[k]
  <2>1. DOMAIN s = 1..Len(s)
    BY <1>1, LenProperties
  <2> QED
    BY <2>1 DEF ToSet
<1>5. \A t \in ProgramTypes : t.id \in Entries
  BY ProgramType
<1> QED
  BY <1>2, <1>3, <1>4, <1>5 DEF s

\* The recursion has a solution, the largest set that agrees with it.
LEMMA ConstExists ==
  \E f : AreConst(f)
<1> DEFINE Agree(S) == \A i \in S : HasConst(i, S)
           Large == UNION {S \in SUBSET Entries : Agree(S)}
           All == {i \in Entries : HasConst(i, Large)}
           f == [i \in Entries |-> i \in Large]
<1>1. \A i, S, T : S \subseteq T /\ HasConst(i, S) => HasConst(i, T)
  BY DEF HasConst
<1>2. Large \subseteq All
  <2>1. SUFFICES ASSUME NEW S \in SUBSET Entries, Agree(S), NEW i \in S PROVE i \in All
    BY Zenon
  <2>2. S \subseteq Large
    BY <2>1
  <2>3. HasConst(i, S)
    BY <2>1
  <2> HIDE DEF Large
  <2> QED
    BY <2>2, <2>3, <1>1
<1>3. All \subseteq Large
  <2>1. Agree(All)
    <3> HIDE DEF Large
    <3> QED
      BY <1>1, <1>2
  <2>2. All \in SUBSET Entries
    OBVIOUS
  <2> HIDE DEF All, Agree
  <2> QED
    BY <2>1, <2>2
<1>4. \A i \in Entries : i \in Large <=> HasConst(i, Large)
  <2> HIDE DEF Large
  <2> QED
    BY <1>2, <1>3
<1> HIDE DEF Large
<1>5. ASSUME NEW i \in Entries
      PROVE  HasConst(i, Large) <=> \E k \in 1..Len(Table[i].fields) :
               LET u == Table[i].fields[k].type
               IN  declared_const(Table, u) \/ \E j \in Held(u) : f[j]
  <2>1. ASSUME NEW k \in 1..Len(Table[i].fields), NEW j \in Held(Table[i].fields[k].type)
        PROVE  f[j] <=> j \in Large
    <3>1. j \in Entries
      BY FieldIs DEF Held
    <3> QED
      BY <3>1
  <2> HIDE DEF f
  <2> QED
    BY <2>1 DEF HasConst
<1>6. AreConst(f)
  <2> DEFINE e(i) == \E k \in 1..Len(Table[i].fields) :
               LET u == Table[i].fields[k].type
               IN  declared_const(Table, u) \/ \E j \in Held(u) : f[j]
  <2>1. \A i \in Entries : (i \in Large) <=> e(i)
    <3> HIDE DEF f
    <3> QED
      BY <1>4, <1>5
  <2>2. \A i \in Entries : (i \in Large) \in BOOLEAN /\ e(i) \in BOOLEAN
    OBVIOUS
  <2>3. \A i \in Entries : (i \in Large) = e(i)
    <3> HIDE DEF e
    <3> QED
      BY <2>1, <2>2
  <2>4. f = [i \in Entries |-> e(i)]
    <3> HIDE DEF e
    <3> QED
      BY <2>3
  <2> HIDE DEF f
  <2> QED
    BY <2>4 DEF AreConst
<1> QED
  BY <1>6

\* is_const in terms of the recursion, which every entry obeys.
LEMMA IsConstIs ==
  \E f : /\ \A t : is_const(Table, t) <=> declared_const(Table, t) \/ \E j \in Held(t) : f[j]
         /\ \A i \in Entries : \A k \in 1..Len(Table[i].fields) :
              LET u == Table[i].fields[k].type
              IN  declared_const(Table, u) \/ (\E j \in Held(u) : f[j]) => f[i]
<1> DEFINE f == CHOOSE f : AreConst(f)
<1>1. AreConst(f)
  BY ConstExists
<1>2. ASSUME NEW t
      PROVE  is_const(Table, t) <=> declared_const(Table, t) \/ \E j \in Held(t) : f[j]
  BY DEF is_const, AreConst, Held, Entries
<1> HIDE DEF f
<1> DEFINE e(i) == \E k \in 1..Len(Table[i].fields) :
             LET u == Table[i].fields[k].type
             IN  declared_const(Table, u) \/ \E j \in Held(u) : f[j]
<1>3. \A i \in Entries : f[i] = e(i)
  <2>1. f = [i \in Entries |-> e(i)]
    BY <1>1 DEF AreConst
  <2> HIDE DEF e
  <2> QED
    BY <2>1
<1>4. \A i \in Entries : \A k \in 1..Len(Table[i].fields) :
        LET u == Table[i].fields[k].type
        IN  declared_const(Table, u) \/ (\E j \in Held(u) : f[j]) => e(i)
  OBVIOUS
<1> HIDE DEF e
<1> QED
  BY <1>2, <1>3, <1>4

\* What is_const lets pass holds nothing frozen.
LEMMA HoldsNothing ==
  ASSUME NEW t \in ProgramTypes, ~is_const(Table, t)
  PROVE  ~Frozen(t) /\ ~HoldsFrozen(t)
<1>1. PICK f : /\ \A u : is_const(Table, u) <=> declared_const(Table, u) \/ \E j \in Held(u) : f[j]
               /\ \A i \in Entries : \A k \in 1..Len(Table[i].fields) :
                    LET u == Table[i].fields[k].type
                    IN  declared_const(Table, u) \/ (\E j \in Held(u) : f[j]) => f[i]
  BY IsConstIs
<1>2. \A u, i : ByValue(u, i) => i \in Held(u)
  BY DEF ByValue, Held
<1>3. ~Frozen(t)
  BY <1>1 DEF Frozen
<1> DEFINE Carries(Q) == \A p \in Q : p[1] \in Entries /\ p[2] \in Entries /\ (f[p[2]] => f[p[1]])
<1>4. Carries(Within)
  <2>1. SUFFICES ASSUME NEW p \in Within, f[p[2]]
                 PROVE  f[p[1]]
    BY DEF Within
  <2>2. p[1] \in Entries /\ p[2] \in Entries
    BY DEF Within
  <2>3. CASE p[1] = p[2]
    BY <2>1, <2>3
  <2>4. CASE \E g \in ToSet(Table[p[1]].fields) : ByValue(g.type, p[2])
    <3>1. PICK g \in ToSet(Table[p[1]].fields) : ByValue(g.type, p[2])
      BY <2>4
    <3>2. PICK k \in 1..Len(Table[p[1]].fields) : g = Table[p[1]].fields[k]
      BY <2>2, FieldIs
    <3>3. p[2] \in Held(Table[p[1]].fields[k].type)
      BY <1>2, <3>1, <3>2
    <3> QED
      BY <1>1, <2>1, <2>2, <3>3
  <2> QED
    BY <2>3, <2>4 DEF Within
<1>5. ASSUME NEW Q, Carries(Q)
      PROVE  Carries(Compose(Q, Q))
  <2>1. SUFFICES ASSUME NEW p \in Compose(Q, Q), f[p[2]]
                 PROVE  f[p[1]]
    BY DEF Compose
  <2>2. PICK j \in Entries : <<p[1], j>> \in Q /\ <<j, p[2]>> \in Q
    BY DEF Compose
  <2>3. <<j, p[2]>>[1] = j /\ <<j, p[2]>>[2] = p[2] /\ <<p[1], j>>[1] = p[1] /\ <<p[1], j>>[2] = j
    OBVIOUS
  <2>4. f[j]
    BY <1>5, <2>1, <2>2, <2>3
  <2> QED
    BY <1>5, <2>2, <2>3, <2>4
<1>6. Carries(Parts)
  <2> HIDE DEF Carries
  <2> QED
    BY <1>4, <1>5 DEF Parts, Twice
<1>7. ASSUME NEW p \in Parts, ByValue(t, p[1]), NEW g \in ToSet(Table[p[2]].fields), Frozen(g.type)
      PROVE  FALSE
  <2>1. p[1] \in Entries /\ p[2] \in Entries /\ (f[p[2]] => f[p[1]])
    BY <1>6
  <2>2. PICK k \in 1..Len(Table[p[2]].fields) : g = Table[p[2]].fields[k]
    BY <2>1, FieldIs
  <2>3. f[p[2]]
    BY <1>1, <1>7, <2>1, <2>2 DEF Frozen
  <2>4. p[1] \in Held(t)
    BY <1>2, <1>7
  <2> QED
    BY <1>1, <2>1, <2>3, <2>4
<1> QED
  BY <1>3, <1>7 DEF HoldsFrozen

\* What is declared const is const.
LEMMA FrozenIsConst ==
  ASSUME NEW t, Frozen(t)
  PROVE  is_const(Table, t)
BY DEF is_const, Frozen

-----------------------------------------------------------------------------
(***************************************************************************)
(* make_integer_type and the types of operators.                           *)
(***************************************************************************)
\* The integer type of a size and a sign is a type of the program.
LEMMA IntegerType ==
  ASSUME NEW size \in IntegerSizes, NEW signed \in BOOLEAN
  PROVE  LET t == make_integer_type(size, signed)
         IN  /\ t \in ProgramTypes /\ is_integer(Table, t)
             /\ Table[t.id].size = size /\ is_signed(t) = signed
<1> DEFINE i == CHOOSE i \in integer_entries(size, signed) : TRUE
           t == make_integer_type(size, signed)
<1>1. integer_entries(size, signed) # {}
  BY TableAssumption DEF TableAssumption
<1>2. i \in integer_entries(size, signed)
  BY <1>1
<1>3. t = [id |-> i, const |-> FALSE, mods |-> <<>>]
  BY DEF make_integer_type, Type
<1> HIDE DEF i, t
<1>4. /\ i \in Entries /\ Table[i].kind = "basic" /\ Table[i].size = size
      /\ (Table[i].name \in Signed) = signed /\ Table[i].name # "void_t"
  BY <1>2 DEF integer_entries, Basics
<1>5. t.id = i /\ t.const = FALSE /\ t.mods = <<>>
  BY <1>3
<1>6. <<>> \in Seq(Mods)
  BY EmptySeq
<1>7. t \in ProgramTypes
  BY <1>3, <1>4, <1>5, <1>6 DEF ProgramTypes, Mods
<1> QED
  BY <1>4, <1>5, <1>7 DEF is_integer, is_signed, t

\* Every integer has the size of an integer.
LEMMA IntegerIs ==
  ASSUME NEW t \in ProgramTypes, is_integer(Table, t)
  PROVE  /\ Table[t.id].size \in IntegerSizes /\ size_of(Table, t) = Table[t.id].size
         /\ is_signed(t) \in BOOLEAN /\ t.mods = <<>>
<1>1. t.id \in Entries
  BY ProgramType
<1>2. Table[t.id].size \in IntegerSizes
  BY <1>1, TableAssumption DEF TableAssumption, is_integer
<1>3. t.mods = <<>>
  BY DEF is_integer
<1> QED
  BY <1>2, <1>3, SizeOfPlain DEF is_signed

-----------------------------------------------------------------------------
(***************************************************************************)
(* The invariant.                                                          *)
(***************************************************************************)
\* What a place says is no more than what the type says: what is frozen cannot be
\* taken for something else, and is as large as its type.
PlaceRight(t, place, cast) ==
  /\ ~CastTargets => /\ place.points => PointsToConst(t)
                     /\ place.frozen /\ ~cast => Frozen(t)
  /\ ~ArrayCasts => place.room = size_of(Table, t)

\* The literal denotes the number, and has the size and the sign of the type.
ValueRight(c, t, lit, meaning) ==
  /\ lit # NoValue /\ meaning # NoValue => Canonical(meaning) /\ Denotes(lit, meaning)
  /\ ~MixedBits /\ c = "global" /\ lit # NoValue /\ is_integer(Table, t) =>
       lit.size = Table[t.id].size /\ lit.signed = is_signed(t)

OperandRight(c, o) ==
  /\ o.type = NoType \/ o.type \in ProgramTypes
  /\ c = "global" \/ (c = "local" /\ ~AssignOperands) => o.type # NoType
  /\ c = "local" /\ o.type # NoType => PlaceRight(o.type, o.place, o.cast)
  /\ c = "local" => o.value = NoValue
  /\ c # "local" => ValueRight(c, o.type, o.value, o.meaning) /\ o.place = NoPlace

MoveRight(c, d) ==
  /\ ~ArrayCasts /\ c = "local" /\ d.kind \in {"assign", "pass", "init"} => d.from.room = d.place.room
  /\ ~CastTargets => /\ d.kind = "assign" => ~d.place.frozen /\ ~HoldsFrozen(d.type)
                     /\ d.kind = "pass" /\ d.from.points => PointsToConst(d.type)
  /\ ~WideCounts /\ d.kind = "count" /\ d.meaning # NoValue => d.count = d.meaning.v /\ d.meaning.v > 0

MovesRight(c, moves) == \A d \in moves : MoveRight(c, d)

Inv ==
  /\ ctx \in {"local", "global", "count"}
  /\ stack \in Seq(ToSet(stack))
  /\ \A i \in 1..Len(stack) : OperandRight(ctx, stack[i])
  /\ MovesRight(ctx, done)

-----------------------------------------------------------------------------
(***************************************************************************)
(* Steps of the stack.                                                     *)
(***************************************************************************)
\* What is left of a list with one more element on it.
LEMMA StackStep ==
  ASSUME NEW s, s \in Seq(ToSet(s)), NEW n \in 0..Len(s), NEW o
  PROVE  LET r == Append(SubSeq(s, 1, n), o)
         IN  /\ r \in Seq(ToSet(r))
             /\ \A i \in 1..Len(r) : r[i] = o \/ \E j \in 1..Len(s) : r[i] = s[j]
<1> DEFINE S == ToSet(s) \cup {o}
           q == SubSeq(s, 1, n)
           r == Append(q, o)
<1>1. Len(s) \in Nat /\ \A i \in 1..Len(s) : s[i] \in ToSet(s)
  BY LenProperties
<1>2. n \in Nat /\ \A i \in 1..n : i \in 1..Len(s)
  BY <1>1
<1>3. q \in Seq(S) /\ Len(q) = n /\ \A i \in 1..n : q[i] = s[i]
  <2>1. 1 \in Int /\ n \in Int /\ \A i \in 1..n : s[i] \in S
    BY <1>1, <1>2
  <2> HIDE DEF S
  <2>2. /\ SubSeq(s, 1, n) \in Seq(S)
        /\ Len(SubSeq(s, 1, n)) = IF 1 <= n THEN n - 1 + 1 ELSE 0
        /\ \A i \in 1..(n - 1 + 1) : SubSeq(s, 1, n)[i] = s[1 + i - 1]
    BY <2>1, SubSeqProperties
  <2>3. n - 1 + 1 = n /\ \A i \in 1..n : 1 + i - 1 = i
    BY <2>1
  <2> QED
    BY <2>2, <2>3, <1>2
<1>4. o \in S
  OBVIOUS
<1> HIDE DEF q, S
<1>5. r \in Seq(S) /\ Len(r) = n + 1 /\ r[n + 1] = o /\ \A i \in 1..n : r[i] = q[i]
  BY <1>3, <1>4, AppendProperties
<1> HIDE DEF r
<1>6. \A i \in 1..Len(r) : r[i] = o \/ \E j \in 1..Len(s) : r[i] = s[j]
  <2>1. SUFFICES ASSUME NEW i \in 1..Len(r) PROVE r[i] = o \/ \E j \in 1..Len(s) : r[i] = s[j]
    OBVIOUS
  <2>2. i \in 1..n \/ i = n + 1
    BY <1>2, <1>5
  <2> QED
    BY <2>2, <1>2, <1>3, <1>5
<1>7. r \in Seq(ToSet(r))
  <2>1. DOMAIN r = 1..Len(r) /\ Len(r) \in Nat
    BY <1>5, LenProperties
  <2>2. \A i \in 1..Len(r) : r[i] \in ToSet(r)
    BY <2>1 DEF ToSet
  <2>3. r \in [1..Len(r) -> ToSet(r)]
    <3>1. r = [i \in 1..Len(r) |-> r[i]]
      BY <1>5, LenProperties
    <3> QED
      BY <2>2, <3>1
  <2> QED
    BY <2>1, <2>3, SeqDef
<1> QED
  BY <1>6, <1>7 DEF r, q

\* An operand that is used is one of the stack.
LEMMA ArgRight ==
  ASSUME Inv, NEW k \in Nat, Len(stack) >= k, NEW i \in 1..k
  PROVE  OperandRight(ctx, Arg(k, i)) /\ (ctx # "count" /\ ~Untyped(k) => Arg(k, i).type \in ProgramTypes)
<1>1. Len(stack) \in Nat
  BY LenProperties DEF Inv
<1>2. Len(stack) - k + i \in 1..Len(stack)
  BY <1>1
<1>3. OperandRight(ctx, Arg(k, i))
  BY <1>2 DEF Inv, Arg
<1> QED
  BY <1>3 DEF OperandRight, Untyped

\* A handler that empties the stack keeps the invariant.
LEMMA EmptyRight ==
  ASSUME Inv, stack' = <<>>, ctx' = ctx, MovesRight(ctx, done')
  PROVE  Inv'
<1>1. <<>> \in Seq(ToSet(<<>>))
  BY EmptySeq
<1>2. 1..Len(<<>>) = {}
  OBVIOUS
<1> QED
  BY <1>1, <1>2 DEF Inv

\* A step that stores nothing.
LEMMA NoMoves == \A c : MovesRight(c, {})
BY DEF MovesRight

\* A statement that is refused, or goes wrong.
LEMMA EndRight ==
  ASSUME Inv, Refuse \/ GoWrong
  PROVE  Inv'
BY EmptyRight, NoMoves DEF Refuse, GoWrong

\* A statement that is accepted.
LEMMA FinishRight ==
  ASSUME Inv, NEW moves, Finish(moves), MovesRight(ctx, moves)
  PROVE  Inv'
BY EmptyRight DEF Finish

\* A handler that leaves an operand, which is right, on the stack keeps it too.
LEMMA ReplaceRight ==
  ASSUME Inv, NEW k \in Nat, Len(stack) >= k, NEW o, NEW moves, Replace(k, o, moves),
         OperandRight(ctx, Needed(o)), MovesRight(ctx, moves)
  PROVE  Inv'
<1> DEFINE n == Len(stack) - k
           new == Needed(o)
<1>1. Len(stack) \in Nat
  BY LenProperties DEF Inv
<1>2. n \in 0..Len(stack)
  BY <1>1
<1>3. stack' = Append(SubSeq(stack, 1, n), new) /\ ctx' = ctx /\ done' = moves
  BY DEF Replace
<1> HIDE DEF n, new
<1>4. /\ stack' \in Seq(ToSet(stack'))
      /\ \A i \in 1..Len(stack') : stack'[i] = new \/ \E j \in 1..Len(stack) : stack'[i] = stack[j]
  BY <1>2, <1>3, StackStep DEF Inv
<1>5. \A i \in 1..Len(stack') : OperandRight(ctx, stack'[i])
  BY <1>4 DEF Inv, new
<1> QED
  BY <1>3, <1>4, <1>5 DEF Inv

\* A leaf that is checked.
LEMMA PushRight ==
  ASSUME Inv, NEW o, Push(o), OperandRight(ctx, Needed(o))
  PROVE  Inv'
<1>1. Len(stack) \in Nat /\ stack \in Seq(ToSet(stack))
  BY LenProperties DEF Inv
<1>2. SubSeq(stack, 1, Len(stack)) = stack
  BY <1>1, SubSeqFull
<1>3. stack' = Append(SubSeq(stack, 1, Len(stack)), Needed(o)) /\ ctx' = ctx /\ done' = {}
  BY <1>2 DEF Push
<1>4. Len(stack) \in 0..Len(stack)
  BY <1>1
<1> DEFINE new == Needed(o)
<1> HIDE DEF new
<1>5. /\ stack' \in Seq(ToSet(stack'))
      /\ \A i \in 1..Len(stack') : stack'[i] = new \/ \E j \in 1..Len(stack) : stack'[i] = stack[j]
  BY <1>1, <1>3, <1>4, StackStep DEF new
<1>6. \A i \in 1..Len(stack') : OperandRight(ctx, stack'[i])
  BY <1>5 DEF Inv, new
<1> QED
  BY <1>3, <1>5, <1>6, NoMoves DEF Inv

\* What the context asks for in an operand with these fields.
NeededIs(o, t, lit, meaning, place, cast) ==
  /\ o.type = t
  /\ ctx = "local" => o.place = place /\ o.cast = cast /\ o.value = NoValue
  /\ ctx # "local" => o.place = NoPlace /\ o.value = lit /\ o.meaning = meaning

\* The operands that handlers leave.
LEMMA NeededOperand ==
  ASSUME NEW t, NEW lvalue, NEW lit, NEW meaning, NEW place, NEW cast
  PROVE  LET o == Operand(t, lvalue, lit, meaning, place)
         IN  /\ NeededIs(Needed(o), t, lit, meaning, place, FALSE)
             /\ NeededIs(Needed([o EXCEPT !.list = TRUE]), t, lit, meaning, place, FALSE)
             /\ NeededIs(Needed([o EXCEPT !.cast = cast]), t, lit, meaning, place, cast)
BY Zenon DEF NeededIs, Needed, Operand

\* What has to be shown of an operand that a handler leaves.
LEMMA OperandIs ==
  ASSUME NEW o, NEW t, NEW lit, NEW meaning, NEW place, NEW cast,
         NeededIs(o, t, lit, meaning, place, cast),
         ctx \in {"local", "global", "count"},
         t = NoType \/ t \in ProgramTypes,
         ctx = "global" \/ (ctx = "local" /\ ~AssignOperands) => t # NoType,
         ctx = "local" /\ t # NoType => PlaceRight(t, place, cast),
         ctx # "local" => ValueRight(ctx, t, lit, meaning)
  PROVE  OperandRight(ctx, o)
BY DEF NeededIs, OperandRight

\* The place of a variable or of a result.
LEMMA PlaceOfRight ==
  ASSUME NEW t \in ProgramTypes, NEW cast
  PROVE  PlaceRight(t, PlaceOf(t), cast)
BY DEF PlaceRight, PlaceOf, Place

\* An operand that is no constant.
LEMMA NoValueRight ==
  ASSUME NEW c, NEW t, NEW meaning
  PROVE  ValueRight(c, t, NoValue, meaning)
BY DEF ValueRight

\* A result without a value.
LEMMA RvalueRight ==
  ASSUME ctx \in {"local", "global", "count"}, NEW t \in ProgramTypes
  PROVE  /\ OperandRight(ctx, Needed(Rvalue(t)))
         /\ OperandRight(ctx, Needed([Rvalue(t) EXCEPT !.list = TRUE]))
<1>1. t # NoType
  BY ExprAssumption DEF ExprAssumption
<1> DEFINE o == Operand(t, FALSE, NoValue, NoValue, PlaceOf(t))
<1>2. Rvalue(t) = o
  BY <1>1 DEF Rvalue
<1>3. /\ NeededIs(Needed(o), t, NoValue, NoValue, PlaceOf(t), FALSE)
      /\ NeededIs(Needed([o EXCEPT !.list = TRUE]), t, NoValue, NoValue, PlaceOf(t), FALSE)
  BY NeededOperand
<1> HIDE DEF o
<1>4. OperandRight(ctx, Needed(o)) /\ OperandRight(ctx, Needed([o EXCEPT !.list = TRUE]))
  <2> DEFINE a == Needed(o)
             b == Needed([o EXCEPT !.list = TRUE])
  <2> HIDE DEF a, b
  <2>1. PlaceRight(t, PlaceOf(t), FALSE) /\ ValueRight(ctx, t, NoValue, NoValue)
    BY PlaceOfRight, NoValueRight
  <2>2. NeededIs(a, t, NoValue, NoValue, PlaceOf(t), FALSE) => OperandRight(ctx, a)
    BY <1>1, <2>1, OperandIs
  <2>3. NeededIs(b, t, NoValue, NoValue, PlaceOf(t), FALSE) => OperandRight(ctx, b)
    BY <1>1, <2>1, OperandIs
  <2> QED
    BY <1>3, <2>2, <2>3, Zenon DEF a, b
<1> QED
  BY <1>2, <1>4, Zenon

\* An operator that a handler applies to the operands on top keeps the invariant.
LEMMA ApplyRight ==
  ASSUME Inv, NEW k \in Nat, Len(stack) >= k, NEW t, NEW lvalue, NEW place, NEW cast, NEW outcome, NEW meaning,
         Apply(k, t, lvalue, place, cast, outcome, meaning),
         t = NoType \/ t \in ProgramTypes,
         ctx = "local" /\ t # NoType /\ ~Untyped(k) => PlaceRight(t, place, cast),
         ctx # "local" /\ ~Untyped(k) /\ outcome.kind = "value" /\ (ctx = "global" => t # NoType) =>
           ValueRight(ctx, t, outcome.lit, meaning)
  PROVE  Inv'
<1> DEFINE known == outcome.kind = "value"
           lit == IF known THEN outcome.lit ELSE NoValue
           number == IF known THEN meaning ELSE NoValue
           new == [Operand(t, lvalue, lit, number, place) EXCEPT !.cast = cast]
<1>1. \/ Refuse \/ GoWrong
      \/ ~Untyped(k) /\ (t # NoType \/ ctx = "count") /\ Replace(k, new, {})
  <2>1. IF Untyped(k) THEN GoWrong
        ELSE IF t = NoType /\ ctx # "count" THEN Refuse
        ELSE IF outcome.kind = "undefined" /\ ctx # "local" THEN GoWrong
        ELSE Replace(k, new, {})
    BY Zenon DEF Apply
  <2> HIDE DEF new
  <2> QED
    BY <2>1
<1>2. CASE Refuse \/ GoWrong
  BY <1>2, EndRight
<1>3. CASE ~Untyped(k) /\ (t # NoType \/ ctx = "count") /\ Replace(k, new, {})
  <2>1. ctx # "local" => ValueRight(ctx, t, lit, number)
    BY <1>3, NoValueRight
  <2>2. ctx \in {"local", "global", "count"}
    BY DEF Inv
  <2> HIDE DEF lit, number
  <2>3. NeededIs(Needed(new), t, lit, number, place, cast)
    BY NeededOperand
  <2> HIDE DEF new
  <2> DEFINE o == Needed(new)
  <2> HIDE DEF o
  <2>4. NeededIs(o, t, lit, number, place, cast) => OperandRight(ctx, o)
    BY <1>3, <2>1, <2>2, OperandIs
  <2>5. OperandRight(ctx, Needed(new))
    BY <2>3, <2>4, Zenon DEF o
  <2> QED
    BY <1>3, <2>5, NoMoves, ReplaceRight
<1> QED
  BY <1>1, <1>2, <1>3

\* The same of an operator that no constant has.
LEMMA ApplyVariableRight ==
  ASSUME Inv, NEW k \in Nat, Len(stack) >= k, NEW t, NEW lvalue, NEW place, NEW cast,
         ApplyVariable(k, t, lvalue, place, cast),
         t = NoType \/ t \in ProgramTypes,
         ctx = "local" /\ t # NoType /\ ~Untyped(k) => PlaceRight(t, place, cast)
  PROVE  Inv'
<1> DEFINE there == IF t = NoType THEN NoPlace ELSE place
<1>1. Apply(k, t, lvalue, there, cast, Throw, NoValue)
  BY DEF ApplyVariable
<1>2. Throw.kind # "value"
  BY DEF Throw
<1>3. ctx = "local" /\ t # NoType /\ ~Untyped(k) => PlaceRight(t, there, cast)
  OBVIOUS
<1> HIDE DEF there
<1> QED
  BY <1>1, <1>2, <1>3, ApplyRight

-----------------------------------------------------------------------------
(***************************************************************************)
(* The leaves.                                                             *)
(***************************************************************************)
\* A leaf of a type, with the value that it has.
LEMMA LeafRight ==
  ASSUME Inv, NEW t \in ProgramTypes, NEW lvalue, NEW lit, NEW meaning,
         Push(Operand(t, lvalue, lit, meaning, PlaceOf(t))),
         ctx # "local" => ValueRight(ctx, t, lit, meaning)
  PROVE  Inv'
<1> DEFINE o == Operand(t, lvalue, lit, meaning, PlaceOf(t))
           new == Needed(o)
<1>1. NeededIs(new, t, lit, meaning, PlaceOf(t), FALSE)
  BY NeededOperand
<1>2. t # NoType /\ PlaceRight(t, PlaceOf(t), FALSE) /\ ctx \in {"local", "global", "count"}
  BY PlaceOfRight, ExprAssumption DEF ExprAssumption, Inv
<1> HIDE DEF new, o
<1>3. OperandRight(ctx, new)
  BY <1>1, <1>2, OperandIs
<1>4. OperandRight(ctx, Needed(o))
  BY <1>3, Zenon DEF new
<1>5. Push(o)
  BY Zenon DEF o
<1> QED
  BY <1>4, <1>5, PushRight

\* A name, of whatever type it was declared with.
LEMMA NameStep ==
  ASSUME Inv, NEW t \in Vars, check_name(t)
  PROVE  Inv'
<1>1. t \in ProgramTypes
  BY ExprAssumption DEF ExprAssumption
<1>2. Push(Operand(t, TRUE, NoValue, NoValue, PlaceOf(t)))
  BY Zenon DEF check_name
<1> QED
  BY <1>1, <1>2, NoValueRight, LeafRight

\* A literal denotes itself.
LEMMA LiteralStep ==
  ASSUME Inv, NEW lit \in Literals, check_literal(lit)
  PROVE  Inv'
<1> DEFINE t == make_integer_type(lit.size, lit.signed)
           n == Wrapped(lit.value, lit.size, lit.signed)
<1>1. Push(Operand(t, FALSE, lit, n, PlaceOf(t)))
  BY Zenon DEF check_literal
<1>2. lit.size \in IntegerSizes /\ lit.signed \in BOOLEAN /\ lit.value \in 0..(Modulus(lit.size) - 1)
  BY ExprAssumption DEF ExprAssumption
<1>3. /\ t \in ProgramTypes /\ is_integer(Table, t)
      /\ Table[t.id].size = lit.size /\ is_signed(t) = lit.signed
  BY <1>2, IntegerType
<1>4. Canonical(n) /\ Denotes(lit, n)
  <2>1. Modulus(lit.size) \in Positive
    BY <1>2, ModulusIs
  <2>2. lit.value % Modulus(lit.size) = lit.value /\ lit.value \in Int
    BY <1>2, <2>1, RemainderSmall DEF Positive
  <2>3. Denotes(Literal(lit.value % Modulus(lit.size), lit.size, lit.signed), n) /\ Canonical(n)
    BY <1>2, <2>2, WrappedDenoted
  <2> HIDE DEF n
  <2> QED
    BY <2>2, <2>3 DEF Denotes, Literal
<1> HIDE DEF t, n
<1>5. ValueRight(ctx, t, lit, n)
  BY <1>3, <1>4 DEF ValueRight
<1> QED
  BY <1>1, <1>3, <1>5, LeafRight

\* A string is a pointer to const characters.
LEMMA StringStep ==
  ASSUME Inv, check_string
  PROVE  Inv'
<1> DEFINE i == get_id(Table, "int8_t")
           t == [id |-> i, const |-> TRUE, mods |-> <<Pointer>>]
<1>1. i \in Entries /\ Table[i].kind = "basic"
  BY TableAssumption DEF TableAssumption, Basics
<1>2. t \in ProgramTypes
  <2> HIDE DEF i
  <2>1. <<Pointer>> \in Seq({Pointer, ConstPointer} \cup (Nat \ {0}))
    OBVIOUS
  <2> QED
    BY <1>1, <2>1 DEF ProgramTypes
<1>3. Push(Rvalue(t))
  BY Zenon DEF check_string
<1> HIDE DEF t
<1>4. OperandRight(ctx, Needed(Rvalue(t)))
  BY <1>2, RvalueRight DEF Inv
<1> QED
  BY <1>3, <1>4, PushRight

-----------------------------------------------------------------------------
(***************************************************************************)
(* Unary and binary operators.                                             *)
(***************************************************************************)
\* The common type of two integer types.
LEMMA CommonInteger ==
  ASSUME NEW a \in ProgramTypes, NEW b \in ProgramTypes, is_integer(Table, a), is_integer(Table, b)
  PROVE  LET t == make_common_integer_type(a, b)
             wide == Table[a.id].size
             other == Table[b.id].size
         IN  /\ t \in ProgramTypes /\ is_integer(Table, t)
             /\ Table[t.id].size = IF wide > other THEN wide ELSE other
             /\ is_signed(t) = IF wide = other THEN is_signed(a) /\ is_signed(b)
                               ELSE IF wide > other THEN is_signed(a) ELSE is_signed(b)
<1> DEFINE wide == Table[a.id].size
           other == Table[b.id].size
           both == is_signed(a) /\ is_signed(b)
<1>1. wide \in IntegerSizes /\ other \in IntegerSizes /\ is_signed(a) \in BOOLEAN /\ is_signed(b) \in BOOLEAN
  BY IntegerIs
<1>2. wide \in Int /\ other \in Int
  BY <1>1 DEF IntegerSizes
<1>3. make_common_integer_type(a, b)
        = IF wide = other THEN make_integer_type(wide, both)
          ELSE IF wide > other THEN make_integer_type(wide, is_signed(a))
          ELSE make_integer_type(other, is_signed(b))
  BY Zenon DEF make_common_integer_type
<1> HIDE DEF wide, other
<1>4. CASE wide = other
  <2>1. both \in BOOLEAN /\ make_common_integer_type(a, b) = make_integer_type(wide, both)
    BY <1>3, <1>4
  <2>2. ~(wide > other)
    BY <1>2, <1>4
  <2> HIDE DEF both
  <2>3. LET t == make_integer_type(wide, both)
        IN  /\ t \in ProgramTypes /\ is_integer(Table, t)
            /\ Table[t.id].size = wide /\ is_signed(t) = both
    BY <1>1, <2>1, IntegerType
  <2> QED
    BY <2>1, <2>2, <2>3, <1>4 DEF wide, other, both
<1>5. CASE wide # other /\ wide > other
  <2>1. make_common_integer_type(a, b) = make_integer_type(wide, is_signed(a))
    BY <1>3, <1>5
  <2>2. LET t == make_integer_type(wide, is_signed(a))
        IN  /\ t \in ProgramTypes /\ is_integer(Table, t)
            /\ Table[t.id].size = wide /\ is_signed(t) = is_signed(a)
    BY <1>1, IntegerType
  <2> QED
    BY <2>1, <2>2, <1>5 DEF wide, other
<1>6. CASE wide # other /\ ~(wide > other)
  <2>1. make_common_integer_type(a, b) = make_integer_type(other, is_signed(b))
    BY <1>3, <1>6
  <2>2. LET t == make_integer_type(other, is_signed(b))
        IN  /\ t \in ProgramTypes /\ is_integer(Table, t)
            /\ Table[t.id].size = other /\ is_signed(t) = is_signed(b)
    BY <1>1, IntegerType
  <2> QED
    BY <2>1, <2>2, <1>6 DEF wide, other
<1> QED
  BY <1>4, <1>5, <1>6

\* A boolean is an int32_t.
LEMMA BooleanType ==
  LET t == make_boolean_type
  IN  /\ t \in ProgramTypes /\ is_integer(Table, t)
      /\ Table[t.id].size = 4 /\ is_signed(t) = TRUE
BY IntegerType DEF make_boolean_type, IntegerSizes

\* What binary_type says, operator by operator.
LEMMA BinaryType ==
  ASSUME NEW a \in ProgramTypes, NEW b \in ProgramTypes,
         NEW op \in Comparisons \cup Logic \cup BitOps \cup Arithmetic, binary_type(op, a, b) # NoType
  PROVE  /\ binary_type(op, a, b) \in ProgramTypes /\ is_integer(Table, binary_type(op, a, b))
         /\ op \in Comparisons \cup Logic => binary_type(op, a, b) = make_boolean_type
         /\ op \notin Comparisons \cup Logic => is_integer(Table, a) /\ is_integer(Table, b)
         /\ op \in BitOps => binary_type(op, a, b) = a
         /\ op \in Arithmetic => binary_type(op, a, b) = make_common_integer_type(a, b)
<1> DEFINE t == binary_type(op, a, b)
<1>1. CASE op \in Comparisons \cup Logic
  <2>1. op \notin BitOps /\ op \notin Arithmetic
    BY <1>1 DEF Comparisons, Logic, BitOps, Arithmetic
  <2>2. t = make_boolean_type
    BY <1>1, <2>1 DEF binary_type
  <2> QED
    BY <1>1, <2>1, <2>2, BooleanType
<1>2. CASE op \in BitOps
  <2>1. op \notin Comparisons \cup Logic /\ op \notin Arithmetic
    BY <1>2 DEF Comparisons, Logic, BitOps, Arithmetic
  <2>2. t = a /\ is_integer(Table, a) /\ is_integer(Table, b)
    BY <1>2, <2>1 DEF binary_type
  <2> QED
    BY <1>2, <2>1, <2>2
<1>3. CASE op \in Arithmetic
  <2>1. op \notin Comparisons \cup Logic /\ op \notin BitOps
    BY <1>3 DEF Comparisons, Logic, BitOps, Arithmetic
  <2>2. t = make_common_integer_type(a, b) /\ is_integer(Table, a) /\ is_integer(Table, b)
    BY <1>3, <2>1 DEF binary_type
  <2> QED
    BY <1>3, <2>1, <2>2, CommonInteger
<1> QED
  BY <1>1, <1>2, <1>3

\* The two types of a result.
BooleanResult(lit) == lit.size = 4 /\ lit.signed = TRUE
CommonResult(lit, l, r) == lit.size = common_size(l, r) /\ lit.signed = common_signed(l, r)

\* The type of what apply returns.
LEMMA BinaryShape ==
  ASSUME NEW op, NEW l, NEW r, apply_binary(op, l, r).kind = "value"
  PROVE  IF op \in Comparisons \cup Logic THEN BooleanResult(apply_binary(op, l, r).lit)
         ELSE CommonResult(apply_binary(op, l, r).lit, l, r)
<1>1. \E none, zero, bad, truth, low :
        apply_binary(op, l, r) =
          IF none THEN Undefined
          ELSE IF zero THEN Throw
          ELSE IF bad THEN Undefined
          ELSE IF op \in Comparisons \cup Logic THEN Outcome(make_bool(truth))
          ELSE Outcome(Literal(low, common_size(l, r), common_signed(l, r)))
  <2> DEFINE size == common_size(l, r)
             signed == common_signed(l, r)
             low == convert_to(r.value, r.size, r.signed, size, signed)
             a == Converted_operand(l, size, signed)
             b == Converted_operand(r, size, signed)
             overflows == signed /\ op \in Arithmetic
                          /\ ~InInt64(IF op = "%" THEN quotient(a, b) ELSE calculated(op, a, b))
             zero == op \in {"/", "%"} /\ low = 0
             wide == op \in {"<<", ">>"} /\ b \notin 0..(Bits - 1)
             none == size = 0
             bad == wide \/ overflows
             truth == holds(op, a, b)
             result == calculated(op, a, b) % Modulus(size)
  <2>1. apply_binary(op, l, r) =
          IF none THEN Undefined
          ELSE IF zero THEN Throw
          ELSE IF bad THEN Undefined
          ELSE IF op \in Comparisons \cup Logic THEN Outcome(make_bool(truth))
          ELSE Outcome(Literal(result, size, signed))
    BY DEF apply_binary, Converted_operand
  <2> HIDE DEF none, zero, bad, truth, result
  <2> QED
    BY <2>1, Zenon
<1>2. PICK none, zero, bad, truth, low :
        apply_binary(op, l, r) =
          IF none THEN Undefined
          ELSE IF zero THEN Throw
          ELSE IF bad THEN Undefined
          ELSE IF op \in Comparisons \cup Logic THEN Outcome(make_bool(truth))
          ELSE Outcome(Literal(low, common_size(l, r), common_signed(l, r)))
  BY <1>1
<1>3. Throw.kind # "value" /\ Undefined.kind # "value"
  BY DEF Throw, Undefined
<1>4. \A lit : Outcome(lit).lit = lit
  BY DEF Outcome
<1>5. CASE op \in Comparisons \cup Logic
  <2>1. apply_binary(op, l, r) = Outcome(make_bool(truth))
    BY <1>2, <1>3, <1>5
  <2> DEFINE lit == apply_binary(op, l, r).lit
  <2>2. lit = make_bool(truth)
    BY <2>1, <1>4
  <2>3. BooleanResult(make_bool(truth))
    BY Zenon DEF make_bool, Literal, BooleanResult
  <2> HIDE DEF lit
  <2>4. BooleanResult(lit)
    BY <2>2, <2>3
  <2> QED
    BY <2>4, <1>5 DEF lit
<1>6. CASE op \notin Comparisons \cup Logic
  <2>1. apply_binary(op, l, r) = Outcome(Literal(low, common_size(l, r), common_signed(l, r)))
    BY <1>2, <1>3, <1>6
  <2> DEFINE lit == apply_binary(op, l, r).lit
  <2>2. lit = Literal(low, common_size(l, r), common_signed(l, r))
    BY <2>1, <1>4
  <2>3. CommonResult(Literal(low, common_size(l, r), common_signed(l, r)), l, r)
    BY Zenon DEF Literal, CommonResult
  <2> HIDE DEF lit
  <2>4. CommonResult(lit, l, r)
    BY <2>2, <2>3
  <2> QED
    BY <2>4, <1>6 DEF lit
<1> QED
  BY <1>5, <1>6

\* The same of one operand.
LEMMA UnaryShape ==
  ASSUME NEW op \in {"-", "~", "!"}, NEW l, apply_unary(op, l).kind = "value"
  PROVE  LET lit == apply_unary(op, l).lit
         IN  /\ op = "!" => lit.size = 4 /\ lit.signed = TRUE
             /\ op # "!" => lit.size = l.size /\ lit.signed = l.signed
<1> DEFINE a == IF l.signed THEN int64(sign_extend(l.value, l.size)) ELSE l.value
           bad == l.size = 0 \/ (op = "-" /\ l.signed /\ ~InInt64(-a))
           minus == (-a) % Modulus(l.size)
           not == (-a - 1) % Modulus(l.size)
           zero == a = 0
<1>1. apply_unary(op, l) =
        IF bad THEN Undefined
        ELSE CASE op = "!" -> Outcome(make_bool(zero))
               [] op = "-" -> Outcome(Literal(minus, l.size, l.signed))
               [] op = "~" -> Outcome(Literal(not, l.size, l.signed))
  BY DEF apply_unary
<1> HIDE DEF bad, minus, not, zero
<1>2. Undefined.kind # "value" /\ \A lit : Outcome(lit).lit = lit
  BY DEF Undefined, Outcome
<1>3. CASE op = "!"
  <2>1. apply_unary(op, l) = Outcome(make_bool(zero))
    BY <1>1, <1>2, <1>3
  <2>2. apply_unary(op, l).lit = make_bool(zero)
    BY <2>1, <1>2
  <2> QED
    BY <2>2, <1>3 DEF make_bool, Literal
<1>4. CASE op = "-"
  <2>1. apply_unary(op, l) = Outcome(Literal(minus, l.size, l.signed))
    BY <1>1, <1>2, <1>4
  <2>2. apply_unary(op, l).lit = Literal(minus, l.size, l.signed)
    BY <2>1, <1>2
  <2> QED
    BY <2>2, <1>4 DEF Literal
<1>5. CASE op = "~"
  <2>1. apply_unary(op, l) = Outcome(Literal(not, l.size, l.signed))
    BY <1>1, <1>2, <1>5
  <2>2. apply_unary(op, l).lit = Literal(not, l.size, l.signed)
    BY <2>1, <1>2
  <2> QED
    BY <2>2, <1>5 DEF Literal
<1> QED
  BY <1>3, <1>4, <1>5

\* In a global initial value, the literal of an integer has the size and the sign
\* of its type.
LiteralFits(lit, t) == lit.size = Table[t.id].size /\ lit.signed = is_signed(t)

\* A constant of two operands that fit their types fits the type of the operator.
LEMMA BinaryFits ==
  ASSUME NEW a \in ProgramTypes, NEW b \in ProgramTypes, NEW l, NEW r,
         NEW op \in Comparisons \cup Logic \cup BitOps \cup Arithmetic, binary_type(op, a, b) # NoType,
         apply_binary(op, l, r).kind = "value",
         is_integer(Table, a) => LiteralFits(l, a),
         is_integer(Table, b) => LiteralFits(r, b),
         op \in BitOps => l.size = r.size /\ l.signed = r.signed
  PROVE  LiteralFits(apply_binary(op, l, r).lit, binary_type(op, a, b))
<1> DEFINE lit == apply_binary(op, l, r).lit
           t == binary_type(op, a, b)
<1>1. /\ op \in Comparisons \cup Logic => t = make_boolean_type
      /\ op \notin Comparisons \cup Logic => is_integer(Table, a) /\ is_integer(Table, b)
      /\ op \in BitOps => t = a
      /\ op \in Arithmetic => t = make_common_integer_type(a, b)
  BY BinaryType
<1>2. IF op \in Comparisons \cup Logic THEN BooleanResult(lit) ELSE CommonResult(lit, l, r)
  BY BinaryShape
<1> HIDE DEF lit, t
<1>3. CASE op \in Comparisons \cup Logic
  <2>1. Table[t.id].size = 4 /\ is_signed(t) = TRUE
    BY <1>1, <1>3, BooleanType
  <2> QED
    BY <1>2, <1>3, <2>1 DEF LiteralFits, BooleanResult, lit, t
<1>4. CASE op \notin Comparisons \cup Logic
  <2>1. /\ is_integer(Table, a) /\ l.size = Table[a.id].size /\ l.signed = is_signed(a)
        /\ is_integer(Table, b) /\ r.size = Table[b.id].size /\ r.signed = is_signed(b)
    BY <1>1, <1>4 DEF LiteralFits
  <2>2. l.size \in Int /\ r.size \in Int /\ l.signed \in BOOLEAN /\ r.signed \in BOOLEAN
    BY <2>1, IntegerIs DEF IntegerSizes
  <2>3. CASE op \in BitOps
    <3>1. common_size(l, r) = l.size /\ common_signed(l, r) = l.signed
      BY <2>2, <2>3 DEF common_size, common_signed
    <3> QED
      BY <1>1, <1>2, <1>4, <2>1, <2>3, <3>1 DEF LiteralFits, CommonResult, lit, t
  <2>4. CASE op \in Arithmetic
    <3> DEFINE u == make_common_integer_type(a, b)
               wide == Table[a.id].size
               other == Table[b.id].size
    <3>0. /\ Table[u.id].size = IF wide > other THEN wide ELSE other
          /\ is_signed(u) = IF wide = other THEN is_signed(a) /\ is_signed(b)
                             ELSE IF wide > other THEN is_signed(a) ELSE is_signed(b)
      BY <2>1, CommonInteger
    <3>4. t = u /\ wide = l.size /\ other = r.size
      BY <1>1, <2>1, <2>4
    <3> HIDE DEF u, wide, other
    <3>1. /\ Table[t.id].size = IF l.size > r.size THEN l.size ELSE r.size
          /\ is_signed(t) = IF l.size = r.size THEN l.signed /\ r.signed
                             ELSE IF l.size > r.size THEN l.signed ELSE r.signed
      BY <2>1, <3>0, <3>4
    <3>2. Table[t.id].size = common_size(l, r) /\ is_signed(t) = common_signed(l, r)
      BY <3>1 DEF common_size, common_signed
    <3> QED
      BY <1>2, <1>4, <3>2 DEF LiteralFits, CommonResult, lit, t
  <2> QED
    BY <1>4, <2>3, <2>4
<1> QED
  BY <1>3, <1>4

\* A constant of one operand that fits its type fits the type of the operator.
LEMMA UnaryFits ==
  ASSUME NEW a \in ProgramTypes, NEW l, NEW op \in {"-", "~", "!"},
         apply_unary(op, l).kind = "value", LiteralFits(l, a)
  PROVE  LiteralFits(apply_unary(op, l).lit, IF op = "!" THEN make_boolean_type ELSE a)
BY UnaryShape, BooleanType DEF LiteralFits

\* The values of operands that are used.
LEMMA ValueOfArg ==
  ASSUME Inv, NEW k \in Nat, Len(stack) >= k, NEW i \in 1..k, ctx # "local"
  PROVE  LET o == Arg(k, i)
         IN  /\ o.value # NoValue /\ o.meaning # NoValue => Canonical(o.meaning) /\ Denotes(o.value, o.meaning)
             /\ ~MixedBits /\ ctx = "global" /\ o.value # NoValue /\ is_integer(Table, o.type) =>
                  LiteralFits(o.value, o.type)
BY ArgRight DEF OperandRight, ValueRight, LiteralFits

\* The operands of a handler, and their types.
LEMMA TypedArg ==
  ASSUME Inv, NEW k \in Nat, Len(stack) >= k, NEW i \in 1..k
  PROVE  /\ Arg(k, i).type # NoType => Arg(k, i).type \in ProgramTypes
         /\ Typed(k) => Arg(k, i).type \in ProgramTypes
         /\ ctx # "count" /\ ~Untyped(k) => Arg(k, i).type \in ProgramTypes
<1>1. Arg(k, i).type = NoType \/ Arg(k, i).type \in ProgramTypes
  BY ArgRight DEF OperandRight
<1> QED
  BY <1>1, ArgRight DEF Typed

\* Their places, in a function.
LEMMA PlaceOfArg ==
  ASSUME Inv, NEW k \in Nat, Len(stack) >= k, NEW i \in 1..k, ctx = "local", Arg(k, i).type # NoType
  PROVE  PlaceRight(Arg(k, i).type, Arg(k, i).place, Arg(k, i).cast)
BY ArgRight DEF OperandRight

\* A binary operator.
LEMMA BinaryStep ==
  ASSUME Inv, check_binary_op
  PROVE  Inv'
<1> DEFINE l == Arg(2, 1)
           r == Arg(2, 2)
           constant == l.value # NoValue /\ r.value # NoValue
           known == l.meaning # NoValue /\ r.meaning # NoValue
           type(op) == IF Typed(2) THEN binary_type(op, l.type, r.type) ELSE NoType
           outcome(op) == IF constant THEN apply_binary(op, l.value, r.value) ELSE Throw
           meaning(op) == IF outcome(op).kind = "value" /\ known
                          THEN BinaryMeaning(op, l.meaning, r.meaning) ELSE NoValue
<1>1. PICK op \in Ops :
        /\ constant /\ op \in BitOps /\ ~MixedBits =>
             l.value.size = r.value.size /\ l.value.signed = r.value.signed
        /\ Apply(2, type(op), FALSE, IF type(op) = NoType THEN NoPlace ELSE PlaceOf(type(op)), FALSE,
                 outcome(op), meaning(op))
  BY Zenon DEF check_binary_op
<1>2. Len(stack) >= 2 /\ 2 \in Nat /\ 1 \in 1..2 /\ 2 \in 1..2
  BY DEF check_binary_op, CanApply, Busy
<1>3. op \in Comparisons \cup Logic \cup BitOps \cup Arithmetic
  BY ExprAssumption DEF ExprAssumption
<1> DEFINE t == type(op)
           out == outcome(op)
           num == meaning(op)
           place == IF t = NoType THEN NoPlace ELSE PlaceOf(t)
<1>4. Apply(2, t, FALSE, place, FALSE, out, num)
  BY <1>1, Zenon
<1>5. t # NoType =>
        /\ l.type \in ProgramTypes /\ r.type \in ProgramTypes
        /\ t = binary_type(op, l.type, r.type) /\ t \in ProgramTypes
  <2>1. Typed(2) => l.type \in ProgramTypes /\ r.type \in ProgramTypes
    BY <1>2, TypedArg
  <2> HIDE DEF l, r
  <2> QED
    BY <2>1, <1>3, BinaryType
<1>6. ctx = "local" /\ t # NoType /\ ~Untyped(2) => PlaceRight(t, place, FALSE)
  <2> HIDE DEF t
  <2> QED
    BY <1>5, PlaceOfRight
<1>7. ASSUME ctx # "local", ~Untyped(2), out.kind = "value", ctx = "global" => t # NoType
      PROVE  ValueRight(ctx, t, out.lit, num)
  <2>1. constant /\ out = apply_binary(op, l.value, r.value)
    BY <1>7 DEF Throw
  <2>2. /\ known =>
             /\ Canonical(l.meaning) /\ Denotes(l.value, l.meaning)
             /\ Canonical(r.meaning) /\ Denotes(r.value, r.meaning)
        /\ ~MixedBits /\ ctx = "global" =>
             /\ is_integer(Table, l.type) => LiteralFits(l.value, l.type)
             /\ is_integer(Table, r.type) => LiteralFits(r.value, r.type)
    BY <1>2, <1>7, <2>1, ValueOfArg
  <2>3. num # NoValue => known /\ num = BinaryMeaning(op, l.meaning, r.meaning)
    OBVIOUS
  <2>4. num # NoValue => Canonical(num) /\ Denotes(out.lit, num)
    <3> HIDE DEF l, r, out, num
    <3> QED
      BY <1>3, <1>7, <2>1, <2>2, <2>3, BinaryRight
  <2>5. ~MixedBits /\ ctx = "global" => LiteralFits(out.lit, t)
    <3> SUFFICES ASSUME ~MixedBits, ctx = "global" PROVE LiteralFits(out.lit, t)
      OBVIOUS
    <3>1. op \in BitOps => l.value.size = r.value.size /\ l.value.signed = r.value.signed
      BY <1>1, <2>1
    <3> HIDE DEF l, r, out, num, t, constant, known
    <3>2. l.type \in ProgramTypes /\ r.type \in ProgramTypes /\ t = binary_type(op, l.type, r.type) /\ t # NoType
      BY <1>5, <1>7
    <3>3. /\ is_integer(Table, l.type) => LiteralFits(l.value, l.type)
          /\ is_integer(Table, r.type) => LiteralFits(r.value, r.type)
      BY <2>2
    <3>4. out = apply_binary(op, l.value, r.value) /\ out.kind = "value"
      BY <1>7, <2>1
    <3>5. LiteralFits(apply_binary(op, l.value, r.value).lit, binary_type(op, l.type, r.type))
      BY <1>3, <3>1, <3>2, <3>3, <3>4, BinaryFits
    <3> QED
      BY <3>2, <3>4, <3>5
  <2> HIDE DEF out, num, t
  <2> QED
    BY <2>4, <2>5 DEF ValueRight, LiteralFits
<1>8. t = NoType \/ t \in ProgramTypes
  BY <1>5
<1> HIDE DEF t, out, num, place
<1> QED
  BY <1>2, <1>4, <1>6, <1>7, <1>8, ApplyRight

\* A unary operator.
LEMMA UnaryStep ==
  ASSUME Inv, NEW op \in {"-", "~", "!"}, check_unary_op(op)
  PROVE  Inv'
<1> DEFINE o == Arg(1, 1)
           t == IF ~Typed(1) \/ ~is_integer(Table, o.type) THEN NoType
                ELSE IF op = "!" THEN make_boolean_type ELSE o.type
           place == IF t = NoType THEN NoPlace ELSE PlaceOf(t)
           out == IF o.value = NoValue THEN Throw ELSE apply_unary(op, o.value)
           num == IF o.meaning = NoValue THEN NoValue ELSE UnaryMeaning(op, o.meaning)
<1>1. Apply(1, t, FALSE, place, FALSE, out, num)
  BY Zenon DEF check_unary_op
<1>2. Len(stack) >= 1 /\ 1 \in Nat /\ 1 \in 1..1
  BY DEF check_unary_op, CanApply, Busy
<1>3. t # NoType =>
        /\ o.type \in ProgramTypes /\ is_integer(Table, o.type) /\ t \in ProgramTypes
        /\ t = IF op = "!" THEN make_boolean_type ELSE o.type
  <2>1. Typed(1) => o.type \in ProgramTypes
    BY <1>2, TypedArg
  <2> HIDE DEF o
  <2> QED
    BY <2>1, BooleanType
<1>4. ctx = "local" /\ t # NoType /\ ~Untyped(1) => PlaceRight(t, place, FALSE)
  <2> HIDE DEF t
  <2> QED
    BY <1>3, PlaceOfRight
<1>5. ASSUME ctx # "local", ~Untyped(1), out.kind = "value", ctx = "global" => t # NoType
      PROVE  ValueRight(ctx, t, out.lit, num)
  <2>1. o.value # NoValue /\ out = apply_unary(op, o.value)
    BY <1>5 DEF Throw
  <2>2. /\ o.meaning # NoValue => Canonical(o.meaning) /\ Denotes(o.value, o.meaning)
        /\ ~MixedBits /\ ctx = "global" /\ is_integer(Table, o.type) => LiteralFits(o.value, o.type)
    BY <1>2, <1>5, <2>1, ValueOfArg
  <2>3. num # NoValue => o.meaning # NoValue /\ num = UnaryMeaning(op, o.meaning)
    OBVIOUS
  <2>4. num # NoValue => Canonical(num) /\ Denotes(out.lit, num)
    <3> HIDE DEF o, out, num
    <3> QED
      BY <1>5, <2>1, <2>2, <2>3, UnaryRight
  <2>5. ~MixedBits /\ ctx = "global" => LiteralFits(out.lit, t)
    <3> HIDE DEF o, out, num, t
    <3> QED
      BY <1>3, <1>5, <2>1, <2>2, UnaryFits
  <2> HIDE DEF out, num, t
  <2> QED
    BY <2>4, <2>5 DEF ValueRight, LiteralFits
<1>6. t = NoType \/ t \in ProgramTypes
  BY <1>3
<1> HIDE DEF t, out, num, place
<1> QED
  BY <1>1, <1>2, <1>4, <1>5, <1>6, ApplyRight

-----------------------------------------------------------------------------
(***************************************************************************)
(* Operators that lead to an object.                                       *)
(***************************************************************************)
\* What has to be shown of a place.
LEMMA PlaceIs ==
  ASSUME NEW t, NEW cast, NEW frozen, NEW points, NEW room,
         ~CastTargets => (points => PointsToConst(t)) /\ (frozen /\ ~cast => Frozen(t)),
         ~ArrayCasts => room = size_of(Table, t)
  PROVE  PlaceRight(t, Place(frozen, points, room), cast)
BY Zenon DEF PlaceRight, Place

\* What an array or a pointer gives is right if its own place is.
LEMMA PointeeRight ==
  ASSUME NEW o, o.type \in ProgramTypes, is_array(o.type) \/ is_pointer(o.type), NEW cast,
         PlaceRight(o.type, o.place, o.cast), is_array(o.type) /\ o.cast => cast
  PROVE  PlaceRight(pointee_type(o.type), Pointee(o, pointee_type(o.type)), cast)
<1> DEFINE t == pointee_type(o.type)
           frozen == IF is_array(o.type) THEN o.place.frozen ELSE o.place.points
<1>1. Pointee(o, t) = Place(frozen, PointsToConst(t), size_of(Table, t))
  BY Zenon DEF Pointee
<1>2. ASSUME ~CastTargets, frozen, ~cast
      PROVE  Frozen(t)
  <2>1. CASE is_array(o.type)
    <3>1. o.place.frozen /\ ~o.cast
      BY <1>2, <2>1
    <3>2. Frozen(o.type)
      BY <3>1, <1>2 DEF PlaceRight
    <3> QED
      BY <2>1, <3>2, FrozenElement
  <2>2. CASE ~is_array(o.type)
    <3>1. PointsToConst(o.type)
      BY <1>2, <2>2 DEF PlaceRight
    <3> QED
      BY <3>1 DEF PointsToConst
  <2> QED
    BY <2>1, <2>2
<1> HIDE DEF frozen, t
<1>3. PlaceRight(t, Place(frozen, PointsToConst(t), size_of(Table, t)), cast)
  BY <1>2, PlaceIs
<1>4. PlaceRight(t, Pointee(o, t), cast)
  BY <1>1, <1>3
<1> QED
  BY <1>4 DEF t

\* Arrays and pointers have modifiers.
LEMMA HasMods ==
  ASSUME NEW t, is_array(t) \/ is_pointer(t)
  PROVE  t.mods # <<>>
BY DEF is_array, is_pointer

\* An element of an array, or what a pointer with an index leads to.
LEMMA SubscriptStep ==
  ASSUME Inv, check_subscript
  PROVE  Inv'
<1> DEFINE o == Arg(2, 1)
           good == /\ Typed(2)
                   /\ is_array(o.type) \/ is_pointer(o.type)
                   /\ is_integer(Table, Arg(2, 2).type)
           t == IF good THEN pointee_type(o.type) ELSE NoType
           place == Pointee(o, t)
<1>1. ApplyVariable(2, t, o.lvalue, place, o.cast)
  BY Zenon DEF check_subscript
<1>2. Len(stack) >= 2 /\ 2 \in Nat /\ 1 \in 1..2
  BY DEF check_subscript, CanApply, Busy
<1>3. ASSUME t # NoType
      PROVE  /\ o.type \in ProgramTypes /\ (is_array(o.type) \/ is_pointer(o.type))
             /\ t = pointee_type(o.type) /\ t \in ProgramTypes
  <2>1. good
    BY <1>3
  <2>2. o.type \in ProgramTypes
    BY <1>2, <2>1, TypedArg
  <2>3. o.type.mods # <<>>
    BY <2>1, HasMods
  <2> HIDE DEF o
  <2> QED
    BY <2>1, <2>2, <2>3, PointeeIs
<1>4. ASSUME ctx = "local", t # NoType, ~Untyped(2)
      PROVE  PlaceRight(t, place, o.cast)
  <2>1. o.type # NoType
    BY <1>3, <1>4, ExprAssumption DEF ExprAssumption
  <2>2. PlaceRight(o.type, o.place, o.cast)
    BY <1>2, <1>4, <2>1, PlaceOfArg
  <2> HIDE DEF o, t
  <2>3. PlaceRight(pointee_type(o.type), Pointee(o, pointee_type(o.type)), o.cast)
    BY <1>3, <1>4, <2>2, PointeeRight
  <2> QED
    BY <1>3, <1>4, <2>3
<1> HIDE DEF o, t, place
<1> QED
  BY <1>1, <1>2, <1>3, <1>4, ApplyVariableRight

\* What a pointer leads to.
LEMMA DerefStep ==
  ASSUME Inv, check_deref
  PROVE  Inv'
<1> DEFINE o == Arg(1, 1)
           t == IF Typed(1) /\ is_pointer(o.type) THEN pointee_type(o.type) ELSE NoType
           place == Pointee(o, t)
<1>1. ApplyVariable(1, t, TRUE, place, FALSE)
  BY Zenon DEF check_deref
<1>2. Len(stack) >= 1 /\ 1 \in Nat /\ 1 \in 1..1
  BY DEF check_deref, CanApply, Busy
<1>3. ASSUME t # NoType
      PROVE  /\ o.type \in ProgramTypes /\ is_pointer(o.type) /\ ~is_array(o.type)
             /\ t = pointee_type(o.type) /\ t \in ProgramTypes
  <2>1. Typed(1) /\ is_pointer(o.type)
    BY <1>3
  <2>2. o.type \in ProgramTypes
    BY <1>2, <2>1, TypedArg
  <2>3. o.type.mods # <<>> /\ ~is_array(o.type)
    BY <2>1, HasMods DEF is_array, is_pointer
  <2> HIDE DEF o
  <2> QED
    BY <2>1, <2>2, <2>3, PointeeIs
<1>4. ASSUME ctx = "local", t # NoType, ~Untyped(1)
      PROVE  PlaceRight(t, place, FALSE)
  <2>1. o.type # NoType
    BY <1>3, <1>4, ExprAssumption DEF ExprAssumption
  <2>2. PlaceRight(o.type, o.place, o.cast)
    BY <1>2, <1>4, <2>1, PlaceOfArg
  <2> HIDE DEF o, t
  <2>3. PlaceRight(pointee_type(o.type), Pointee(o, pointee_type(o.type)), FALSE)
    BY <1>3, <1>4, <2>2, PointeeRight
  <2> QED
    BY <1>3, <1>4, <2>3
<1> HIDE DEF o, t, place
<1> QED
  BY <1>1, <1>2, <1>3, <1>4, ApplyVariableRight

\* The address of an object, which knows whether that is const.
LEMMA AddrStep ==
  ASSUME Inv, check_addr
  PROVE  Inv'
<1> DEFINE o == Arg(1, 1)
           t == IF Typed(1) /\ o.lvalue THEN Address(o.type) ELSE NoType
           place == Place(FALSE, o.place.frozen, PtrSize)
<1>1. ApplyVariable(1, t, FALSE, place, FALSE)
  BY Zenon DEF check_addr, Address
<1>2. Len(stack) >= 1 /\ 1 \in Nat /\ 1 \in 1..1 /\ (o.cast => CastTargets)
  BY DEF check_addr, CanApply, Busy
<1>3. ASSUME t # NoType
      PROVE  /\ o.type \in ProgramTypes /\ t = Address(o.type)
             /\ t \in ProgramTypes /\ is_pointer(t) /\ pointee_type(t) = o.type
  <2>1. Typed(1)
    BY <1>3
  <2>2. o.type \in ProgramTypes
    BY <1>2, <2>1, TypedArg
  <2>3. t = Address(o.type)
    BY <1>3
  <2> HIDE DEF o, t
  <2> QED
    BY <2>2, <2>3, AddressIs
<1>4. ASSUME ctx = "local", t # NoType, ~Untyped(1)
      PROVE  PlaceRight(t, place, FALSE)
  <2>1. o.type # NoType
    BY <1>3, <1>4, ExprAssumption DEF ExprAssumption
  <2>2. PlaceRight(o.type, o.place, o.cast)
    BY <1>2, <1>4, <2>1, PlaceOfArg
  <2> HIDE DEF o, t
  <2>3. ~CastTargets => (o.place.frozen => PointsToConst(t))
    BY <1>2, <1>3, <1>4, <2>2 DEF PlaceRight, PointsToConst
  <2>4. PtrSize = size_of(Table, t)
    BY <1>3, <1>4, SizeOfPointer
  <2> DEFINE points == o.place.frozen
  <2> HIDE DEF points
  <2>5. PlaceRight(t, Place(FALSE, points, PtrSize), FALSE)
    BY <2>3, <2>4, PlaceIs DEF points
  <2> QED
    BY <2>5 DEF points
<1> HIDE DEF o, t, place
<1> QED
  BY <1>1, <1>2, <1>3, <1>4, ApplyVariableRight

\* A field that is found is one of the structure.
LEMMA FieldFound ==
  ASSUME NEW f, LET o == Arg(1, 1) IN o.type \in ProgramTypes, field_index(Arg(1, 1), f) # 0
  PROVE  /\ Typed(1) /\ is_struct(Table, Arg(1, 1).type)
         /\ field_index(Arg(1, 1), f) \in 1..Len(Table[Arg(1, 1).type.id].fields)
<1> DEFINE o == Arg(1, 1)
           fields == Table[o.type.id].fields
           found == {i \in 1..Len(fields) : fields[i].name = f}
<1>1. field_index(o, f) = IF Typed(1) /\ is_struct(Table, o.type)
                          THEN (IF found # {} THEN Min(found) ELSE 0) ELSE 0
  BY Zenon DEF field_index, SelectInSeq
<1>2. found \subseteq 1..Len(fields) /\ Len(fields) \in Nat
  BY ProgramType, FieldIs
<1>3. found \in SUBSET Nat
  BY <1>2
<1> HIDE DEF found, fields, o
<1>4. found # {} => Min(found) \in 1..Len(fields)
  BY <1>2, <1>3, MinOfSet
<1>5. Typed(1) /\ is_struct(Table, o.type) /\ found # {}
  BY <1>1 DEF o
<1> QED
  BY <1>1, <1>4, <1>5 DEF fields, o

\* A field, which is const if the structure is or holds something const.
LEMMA GetStep ==
  ASSUME Inv, NEW f, check_get(f)
  PROVE  Inv'
<1> DEFINE o == Arg(1, 1)
           i == field_index(o, f)
           field == Table[o.type.id].fields[i]
           t == IF i = 0 THEN NoType
                ELSE IF is_const(Table, o.type) THEN as_const(field.type) ELSE field.type
           frozen == o.place.frozen \/ Frozen(field.type)
           points == PointsToConst(field.type)
           place == Place(frozen, points, field.size)
<1>1. ApplyVariable(1, t, o.lvalue, place, o.cast)
  BY Zenon DEF check_get
<1>2. Len(stack) >= 1 /\ 1 \in Nat /\ 1 \in 1..1
  BY DEF check_get, CanApply, Busy
<1>3. o.type # NoType => o.type \in ProgramTypes
  BY <1>2, TypedArg
<1>4. ASSUME o.type \in ProgramTypes, i # 0
      PROVE  /\ field.type \in ProgramTypes /\ ~is_function(Table, field.type)
             /\ field.size = size_of(Table, field.type)
  <2>1. i \in 1..Len(Table[o.type.id].fields)
    BY <1>4, FieldFound
  <2>2. o.type.id \in Entries
    BY <1>4, ProgramType
  <2> HIDE DEF i, o
  <2> QED
    BY <2>1, <2>2, FieldIs
<1>5. field_index(o, f) # 0 => Typed(1)
  BY Zenon DEF field_index
<1>6. t # NoType => i # 0 /\ o.type \in ProgramTypes
  <2>1. t # NoType => i # 0
    OBVIOUS
  <2>2. Typed(1) => o.type # NoType
    BY <1>2 DEF Typed
  <2> HIDE DEF o, t
  <2> QED
    BY <1>3, <1>5, <2>1, <2>2 DEF i
<1>7. t # NoType => t = IF is_const(Table, o.type) THEN as_const(field.type) ELSE field.type
  OBVIOUS
<1>8. t # NoType => t \in ProgramTypes
  <2> HIDE DEF o, i, field, t
  <2> QED
    BY <1>4, <1>6, <1>7, AsConstIs
<1>9. ASSUME ctx = "local", t # NoType
      PROVE  PlaceRight(t, place, o.cast)
  <2>1. /\ field.type \in ProgramTypes /\ ~is_function(Table, field.type)
        /\ field.size = size_of(Table, field.type)
        /\ o.type \in ProgramTypes /\ o.type # NoType
    BY <1>4, <1>6, <1>9, ExprAssumption DEF ExprAssumption
  <2>2. PlaceRight(o.type, o.place, o.cast)
    BY <1>2, <1>9, <2>1, PlaceOfArg
  <2>3. frozen <=> o.place.frozen \/ Frozen(field.type)
    OBVIOUS
  <2>4. points <=> PointsToConst(field.type)
    OBVIOUS
  <2> HIDE DEF o, i, field, t, frozen, points
  <2>5. CASE is_const(Table, o.type)
    <3>1. t = as_const(field.type)
      BY <1>7, <1>9, <2>5
    <3>2. /\ Frozen(t) /\ size_of(Table, t) = field.size
          /\ PointsToConst(field.type) => PointsToConst(t)
      BY <2>1, <3>1, AsConstIs
    <3> QED
      BY <2>4, <3>2, PlaceIs
  <2>6. CASE ~is_const(Table, o.type)
    <3>1. t = field.type /\ size_of(Table, t) = field.size
      BY <1>7, <1>9, <2>1, <2>6
    <3>2. ~Frozen(o.type)
      BY <2>6, FrozenIsConst
    <3>3. ~CastTargets /\ frozen /\ ~o.cast => Frozen(t)
      BY <2>2, <2>3, <3>1, <3>2 DEF PlaceRight
    <3>4. points => PointsToConst(t)
      BY <2>4, <3>1
    <3> HIDE DEF place
    <3> DEFINE room == field.size
               cast == o.cast
    <3> HIDE DEF room, cast
    <3>5. PlaceRight(t, Place(frozen, points, room), cast)
      BY <3>1, <3>3, <3>4, PlaceIs DEF room, cast
    <3> QED
      BY <3>5 DEF room, cast, place
  <2> QED
    BY <2>5, <2>6
<1> HIDE DEF o, t, place
<1> QED
  BY <1>1, <1>2, <1>8, <1>9, ApplyVariableRight

\* A cast.
LEMMA CastStep ==
  ASSUME Inv, check_cast
  PROVE  Inv'
<1> DEFINE o == Arg(1, 1)
           good(t) == /\ o.type # NoType
                      /\ o.list => o.type = t
                      /\ castable(t, o.type)
           arrays(t) == o.type # NoType /\ is_array(t) /\ is_array(o.type)
           room(t) == IF arrays(t) THEN o.place.room ELSE size_of(Table, t)
           frozen == o.lvalue /\ o.place.frozen
<1>1. PICK t \in CastTypes :
        /\ arrays(t) /\ ~ArrayCasts => size_of(Table, t) = size_of(Table, o.type)
        /\ Apply(1, IF good(t) THEN t ELSE NoType, o.lvalue,
                 Place(frozen, PointsToConst(t), room(t)), TRUE, eval_cast(o, t), CastMeaning(o, t))
  BY Zenon DEF check_cast
<1> DEFINE u == IF good(t) THEN t ELSE NoType
           place == Place(frozen, PointsToConst(t), room(t))
           out == eval_cast(o, t)
           num == CastMeaning(o, t)
<1>2. Len(stack) >= 1 /\ 1 \in Nat /\ 1 \in 1..1
  BY DEF check_cast, CanApply, Busy
<1>3. t \in ProgramTypes /\ (u = NoType \/ u = t)
  BY ExprAssumption DEF ExprAssumption
<1>4. Apply(1, u, o.lvalue, place, TRUE, out, num)
  BY <1>1, Zenon
<1>5. ASSUME ctx = "local", u # NoType
      PROVE  PlaceRight(u, place, TRUE)
  <2>1. ~ArrayCasts => room(t) = size_of(Table, t)
    <3>1. CASE arrays(t)
      <4>1. PlaceRight(o.type, o.place, o.cast)
        BY <1>2, <1>5, <3>1, PlaceOfArg
      <4> QED
        BY <1>1, <3>1, <4>1 DEF PlaceRight
    <3>2. CASE ~arrays(t)
      BY <3>2
    <3> QED
      BY <3>1, <3>2
  <2> DEFINE r == room(t)
             points == PointsToConst(t)
  <2>2. points => PointsToConst(t)
    OBVIOUS
  <2>3. place = Place(frozen, points, r) /\ u = t
    BY <1>3, <1>5
  <2> HIDE DEF r, points, frozen, place, u
  <2>4. ~ArrayCasts => r = size_of(Table, t)
    BY <2>1 DEF r
  <2>5. PlaceRight(t, Place(frozen, points, r), TRUE)
    BY <2>2, <2>4, PlaceIs
  <2> QED
    BY <2>3, <2>5
<1>6. ASSUME ctx # "local", out.kind = "value", ctx = "global" => u # NoType
      PROVE  ValueRight(ctx, u, out.lit, num)
  <2>1. /\ o.value # NoValue
        /\ out.lit = converted(o.value, Table[t.id].size, is_signed(t))
    <3>1. out = IF o.value = NoValue \/ ~(is_integer(Table, t) \/ is_pointer(t)) THEN Throw
                ELSE Outcome(converted(o.value, Table[t.id].size, is_signed(t)))
      BY Zenon DEF eval_cast
    <3> HIDE DEF out, o
    <3>2. o.value # NoValue /\ out = Outcome(converted(o.value, Table[t.id].size, is_signed(t)))
      BY <1>6, <3>1 DEF Throw
    <3> QED
      BY <3>2 DEF Outcome
  <2>2. o.meaning # NoValue => Canonical(o.meaning) /\ Denotes(o.value, o.meaning)
    BY <1>2, <1>6, <2>1, ValueOfArg
  <2>3. num # NoValue =>
          /\ o.meaning # NoValue /\ is_integer(Table, t)
          /\ num = Wrapped(o.meaning.v, Table[t.id].size, is_signed(t))
    BY DEF CastMeaning
  <2>4. num # NoValue => Canonical(num) /\ Denotes(out.lit, num)
    <3>1. is_integer(Table, t) => Table[t.id].size \in IntegerSizes /\ is_signed(t) \in BOOLEAN
      BY <1>3, IntegerIs
    <3> HIDE DEF o, out, num
    <3> QED
      BY <2>1, <2>2, <2>3, <3>1, ConvertedRight
  <2>5. LiteralFits(out.lit, t)
    <3>1. LiteralFits(converted(o.value, Table[t.id].size, is_signed(t)), t)
      BY Zenon DEF converted, Literal, LiteralFits
    <3> HIDE DEF o, out
    <3> QED
      BY <2>1, <3>1
  <2>6. ctx = "global" => LiteralFits(out.lit, u)
    BY <1>3, <1>6, <2>5
  <2> HIDE DEF out, u, num
  <2> QED
    BY <2>4, <2>6 DEF ValueRight, LiteralFits
<1> HIDE DEF o, u, place, out, num
<1> QED
  BY <1>2, <1>3, <1>4, <1>5, <1>6, ApplyRight

-----------------------------------------------------------------------------
(***************************************************************************)
(* Calls, sizes, initializers.                                             *)
(***************************************************************************)
\* A size is a number of the type uint64_t.
LEMMA SizeNumber ==
  ASSUME NEW size \in Sizes
  PROVE  /\ Canonical(Number(size, 8, FALSE))
         /\ Denotes(Literal(size % Word, 8, FALSE), Number(size, 8, FALSE))
<1>1. SizeLimit = Modulus(8) /\ Word = Modulus(8) /\ 8 \in IntegerSizes
  BY WordIs, TableAssumption DEF TableAssumption
<1>2. Power[8 * Byte] = Word
  BY <1>1, ModulusIs
<1>3. size \in 0..(Modulus(8) - 1) /\ Modulus(8) \in Positive
  BY <1>1, ModulusIs DEF Sizes
<1>4. size \in Int /\ 0 <= size /\ size < Modulus(8)
  BY <1>3 DEF Positive
<1>5. Canonical(Number(size, 8, FALSE))
  BY <1>1, <1>4 DEF Canonical, Number
<1>6. Denotes(Literal(size % Word, 8, FALSE), Number(size, 8, FALSE))
  BY <1>2 DEF Denotes, Literal, Number
<1> QED
  BY <1>5, <1>6

\* The size of a type.
LEMMA SizeofRight ==
  ASSUME Inv, NEW k \in Nat, Len(stack) >= k, NEW t, t = NoType \/ t \in ProgramTypes, sizeof(k, t)
  PROVE  Inv'
<1> DEFINE size == IF t = NoType THEN 0 ELSE size_of(Table, t)
           good == t # NoType /\ ~is_function(Table, t)
           uint64 == make_integer_type(8, FALSE)
           u == IF good /\ size # 0 THEN uint64 ELSE NoType
           out == IF good THEN Outcome(Literal(size % Word, 8, FALSE)) ELSE Throw
           num == Number(size, 8, FALSE)
           place == PlaceOf(uint64)
<1>1. Apply(k, u, FALSE, place, FALSE, out, num)
  BY Zenon DEF sizeof
<1>2. size \in Sizes
  <2>1. t \in ProgramTypes => size_of(Table, t) \in Sizes
    BY ProgramType, SizeOfType
  <2> QED
    BY <2>1, Limits
<1>3. /\ uint64 \in ProgramTypes /\ is_integer(Table, uint64)
      /\ Table[uint64.id].size = 8 /\ is_signed(uint64) = FALSE
  BY IntegerType DEF IntegerSizes
<1>4. u = NoType \/ u = uint64
  OBVIOUS
<1>5. ASSUME out.kind = "value"
      PROVE  out.lit = Literal(size % Word, 8, FALSE)
  <2> DEFINE lit == Literal(size % Word, 8, FALSE)
  <2> HIDE DEF lit, good
  <2>1. out = IF good THEN Outcome(lit) ELSE Throw
    BY DEF lit
  <2> HIDE DEF out
  <2>2. out = Outcome(lit)
    BY <1>5, <2>1 DEF Throw
  <2>3. out.lit = lit
    BY <2>2 DEF Outcome
  <2> QED
    BY <2>3 DEF lit
<1> HIDE DEF size, uint64, u, out, place
<1>6. ASSUME out.kind = "value", ctx = "global" => u # NoType
      PROVE  ValueRight(ctx, u, out.lit, num)
  <2> DEFINE lit == Literal(size % Word, 8, FALSE)
  <2>1. Canonical(num) /\ Denotes(lit, num)
    BY <1>2, SizeNumber
  <2>2. lit.size = 8 /\ lit.signed = FALSE
    BY DEF Literal
  <2> HIDE DEF lit, num
  <2>3. ctx = "global" => lit.size = Table[u.id].size /\ lit.signed = is_signed(u)
    BY <1>3, <1>4, <1>6, <2>2
  <2>4. ValueRight(ctx, u, lit, num)
    BY <2>1, <2>3 DEF ValueRight
  <2>5. out.lit = lit
    BY <1>5, <1>6 DEF lit
  <2> QED
    BY <2>4, <2>5
<1>7. u # NoType => PlaceRight(u, place, FALSE)
  BY <1>3, <1>4, PlaceOfRight DEF place
<1>8. u = NoType \/ u \in ProgramTypes
  BY <1>3, <1>4
<1> HIDE DEF num
<1> QED
  BY <1>1, <1>6, <1>7, <1>8, ApplyRight

\* Of an expression, and of a type.
LEMMA SizeofStep ==
  ASSUME Inv, check_sizeof_expr \/ check_sizeof_type
  PROVE  Inv'
<1>1. Len(stack) \in Nat
  BY LenProperties DEF Inv
<1>2. CASE check_sizeof_expr
  <2> DEFINE t == IF Typed(1) THEN Arg(1, 1).type ELSE NoType
  <2>1. sizeof(1, t) /\ Len(stack) >= 1
    BY <1>2 DEF check_sizeof_expr, CanApply, Busy
  <2>2. Typed(1) => Arg(1, 1).type \in ProgramTypes
    BY <2>1, TypedArg
  <2>3. t = NoType \/ t \in ProgramTypes
    BY <2>2
  <2> HIDE DEF t
  <2> QED
    BY <2>1, <2>3, SizeofRight
<1>3. CASE check_sizeof_type
  <2>1. PICK t \in CastTypes : sizeof(0, t)
    BY <1>3 DEF check_sizeof_type
  <2>2. t \in ProgramTypes
    BY ExprAssumption DEF ExprAssumption
  <2> QED
    BY <1>1, <2>1, <2>2, SizeofRight
<1> QED
  BY <1>2, <1>3

\* An initializer.
LEMMA InitializerStep ==
  ASSUME Inv, NEW k \in 0..MaxOperands, check_initializer(k)
  PROVE  Inv'
<1>1. k \in Nat /\ Len(stack) >= k
  BY ExprAssumption DEF ExprAssumption, check_initializer, CanApply, Busy
<1>2. PICK t \in CastTypes : Refuse \/ GoWrong \/ Replace(k, [Rvalue(t) EXCEPT !.list = TRUE], {})
  BY Zenon DEF check_initializer
<1>3. CASE Refuse \/ GoWrong
  BY <1>3, EndRight
<1>4. CASE Replace(k, [Rvalue(t) EXCEPT !.list = TRUE], {})
  <2> DEFINE o == [Rvalue(t) EXCEPT !.list = TRUE]
  <2>1. t \in ProgramTypes /\ ctx \in {"local", "global", "count"}
    BY ExprAssumption DEF ExprAssumption, Inv
  <2>2. OperandRight(ctx, Needed(o))
    BY <2>1, RvalueRight
  <2>3. Replace(k, o, {})
    BY <1>4
  <2> HIDE DEF o
  <2> QED
    BY <1>1, <2>2, <2>3, NoMoves, ReplaceRight
<1> QED
  BY <1>2, <1>3, <1>4

\* What has to be shown of a value that is stored.
LEMMA MoveIs ==
  ASSUME NEW c, NEW kind \in {"assign", "pass", "init"}, NEW type, NEW place, NEW o,
         ~ArrayCasts /\ c = "local" => o.place.room = place.room,
         ~CastTargets /\ kind = "assign" => ~place.frozen /\ ~HoldsFrozen(type),
         ~CastTargets /\ kind = "pass" => (o.place.points => PointsToConst(type))
  PROVE  MoveRight(c, Move(kind, type, place, o))
<1> DEFINE d == Move(kind, type, place, o)
<1>1. d.kind = kind /\ d.type = type /\ d.place = place /\ d.from = o.place
  BY Zenon DEF Move
<1> HIDE DEF d
<1>2. MoveRight(c, d)
  BY <1>1 DEF MoveRight
<1> QED
  BY <1>2 DEF d

\* A value passed to a variable of a type that takes it.
LEMMA PassedRight ==
  ASSUME NEW c, NEW kind \in {"pass", "init"}, NEW t \in ProgramTypes, NEW o, OperandRight(c, o),
         o.type \in ProgramTypes, NEW policy, is_types_compatible(Table, t, o.type, policy),
         kind = "pass" => policy = "MAY_BE_CONST"
  PROVE  MoveRight(c, Move(kind, t, PlaceOf(t), o))
<1>1. o.type # NoType
  BY ExprAssumption DEF ExprAssumption
<1>2. size_of(Table, t) = size_of(Table, o.type)
  BY CompatibleSize
<1>3. PlaceOf(t).room = size_of(Table, t)
  BY Zenon DEF PlaceOf, Place
<1>4. c = "local" => PlaceRight(o.type, o.place, o.cast)
  BY <1>1 DEF OperandRight
<1>5. c # "local" => ~o.place.points
  <2>1. NoPlace.points = FALSE
    BY Zenon DEF NoPlace, Place
  <2> QED
    BY <2>1 DEF OperandRight
<1>6. ~ArrayCasts /\ c = "local" => o.place.room = PlaceOf(t).room
  BY <1>2, <1>3, <1>4 DEF PlaceRight
<1>7. ~CastTargets /\ kind = "pass" => (o.place.points => PointsToConst(t))
  <2> SUFFICES ASSUME ~CastTargets, kind = "pass", o.place.points PROVE PointsToConst(t)
    OBVIOUS
  <2>1. PointsToConst(o.type)
    BY <1>4, <1>5 DEF PlaceRight
  <2> QED
    BY <2>1, CompatiblePoints
<1> QED
  BY <1>6, <1>7, MoveIs

\* A value assigned to an object.
LEMMA AssignedRight ==
  ASSUME NEW left, NEW right, NEW t \in ProgramTypes, left.type \in ProgramTypes,
         PlaceRight(left.type, left.place, left.cast), left.cast => CastTargets,
         assignable(left, t), ~ArrayCasts => right.place.room = size_of(Table, t)
  PROVE  MovesRight(ctx, {Move("assign", left.type, left.place, right)})
<1>1. ~is_const(Table, left.type) /\ is_types_compatible(Table, left.type, t, "IGNORE")
  BY DEF assignable
<1>2. size_of(Table, left.type) = size_of(Table, t)
  BY <1>1, CompatibleSize
<1>3. ~Frozen(left.type) /\ ~HoldsFrozen(left.type)
  BY <1>1, HoldsNothing
<1>4. ~ArrayCasts => right.place.room = left.place.room
  BY <1>2 DEF PlaceRight
<1>5. ~CastTargets => ~left.place.frozen
  BY <1>3 DEF PlaceRight
<1> DEFINE d == Move("assign", left.type, left.place, right)
<1>6. MoveRight(ctx, d)
  <2> DEFINE type == left.type
             place == left.place
  <2>1. ~ArrayCasts => right.place.room = place.room
    BY <1>4
  <2>2. ~CastTargets => ~place.frozen /\ ~HoldsFrozen(type)
    BY <1>3, <1>5
  <2> HIDE DEF type, place
  <2>3. MoveRight(ctx, Move("assign", type, place, right))
    BY <2>1, <2>2, MoveIs
  <2> QED
    BY <2>3 DEF type, place
<1> QED
  BY <1>6, Zenon DEF MovesRight

\* A call passes its arguments to the parameters.
LEMMA CallStep ==
  ASSUME Inv, NEW k \in 0..MaxOperands, check_call(k)
  PROVE  Inv'
<1> DEFINE callee == Arg(k + 1, 1)
           fn == Table[callee.type.id]
           arg(i) == Arg(k + 1, i + 1)
           good == /\ Typed(k + 1) /\ is_function(Table, callee.type)
                   /\ Len(fn.params) = k
                   /\ \A i \in 1..k : is_types_compatible(Table, fn.params[i], arg(i).type, "MAY_BE_CONST")
           moves == {Move("pass", fn.params[i], PlaceOf(fn.params[i]), arg(i)) : i \in 1..k}
<1>1. IF good THEN Replace(k + 1, Rvalue(fn.returns[1]), moves)
      ELSE ApplyVariable(k + 1, NoType, FALSE, NoPlace, FALSE)
  BY Zenon DEF check_call
<1>2. k \in Nat
  BY ExprAssumption DEF ExprAssumption
<1>3. k + 1 \in Nat /\ Len(stack) >= k + 1 /\ 1 \in 1..(k + 1) /\ \A i \in 1..k : i + 1 \in 1..(k + 1)
  BY <1>2 DEF check_call, CanApply, Busy
<1>4. CASE good
  <2>1. callee.type \in ProgramTypes /\ fn.kind = "function" /\ callee.type.id \in Entries
    BY <1>3, <1>4, TypedArg, ProgramType DEF is_function
  <2>2. fn.returns[1] \in ProgramTypes /\ fn.params \in Seq(ProgramTypes)
    BY <2>1, TableAssumption DEF TableAssumption
  <2>3. \A i \in 1..k : fn.params[i] \in ProgramTypes
    BY <1>4, <2>2, ElementOfSeq
  <2>4. ASSUME NEW i \in 1..k
        PROVE  MoveRight(ctx, Move("pass", fn.params[i], PlaceOf(fn.params[i]), arg(i)))
    <3> DEFINE o == arg(i)
               p == fn.params[i]
    <3>1. OperandRight(ctx, o) /\ o.type \in ProgramTypes
      BY <1>3, <1>4, ArgRight, TypedArg
    <3>2. is_types_compatible(Table, p, o.type, "MAY_BE_CONST") /\ p \in ProgramTypes
      BY <1>4, <2>3
    <3> HIDE DEF o, p
    <3>3. MoveRight(ctx, Move("pass", p, PlaceOf(p), o))
      BY <3>1, <3>2, PassedRight
    <3> QED
      BY <3>3 DEF o, p
  <2>5. MovesRight(ctx, moves)
    <3> SUFFICES ASSUME NEW d \in moves PROVE MoveRight(ctx, d)
      BY DEF MovesRight
    <3> QED
      BY <2>4
  <2> DEFINE o == Rvalue(fn.returns[1])
  <2>6. OperandRight(ctx, Needed(o))
    BY <2>2, RvalueRight DEF Inv
  <2>7. Replace(k + 1, o, moves)
    BY <1>1, <1>4
  <2> HIDE DEF o, moves
  <2> QED
    BY <1>3, <2>5, <2>6, <2>7, ReplaceRight
<1>5. CASE ~good
  <2>1. ApplyVariable(k + 1, NoType, FALSE, NoPlace, FALSE)
    BY <1>1, <1>5
  <2> QED
    BY <1>3, <2>1, ApplyVariableRight
<1> QED
  BY <1>4, <1>5

-----------------------------------------------------------------------------
(***************************************************************************)
(* Statements.                                                             *)
(***************************************************************************)
\* An assignment.
LEMMA AssignmentStep ==
  ASSUME Inv, check_assignment
  PROVE  Inv'
<1> DEFINE right == stack[1]
           left == stack[2]
           moves == {Move("assign", left.type, left.place, right)}
<1>1. ctx = "local" /\ Len(stack) = 2 /\ (left.cast => CastTargets)
  BY DEF check_assignment
<1>2. \/ Refuse \/ GoWrong
      \/ Typed(2) /\ assignable(left, right.type) /\ Finish(moves)
  BY Zenon DEF check_assignment
<1>3. CASE Refuse \/ GoWrong
  BY <1>3, EndRight
<1>4. CASE Typed(2) /\ assignable(left, right.type) /\ Finish(moves)
  <2>1. right = Arg(2, 1) /\ left = Arg(2, 2)
    BY <1>1 DEF Arg
  <2>2. 2 \in Nat /\ Len(stack) >= 2 /\ 1 \in 1..2 /\ 2 \in 1..2
    BY <1>1
  <2>3. right.type \in ProgramTypes /\ left.type \in ProgramTypes
    BY <1>4, <2>1, <2>2, TypedArg
  <2>4. right.type # NoType /\ left.type # NoType
    BY <2>3, ExprAssumption DEF ExprAssumption
  <2>5. PlaceRight(right.type, right.place, right.cast) /\ PlaceRight(left.type, left.place, left.cast)
    BY <1>1, <2>1, <2>2, <2>4, PlaceOfArg
  <2> HIDE DEF right, left
  <2>6. ~ArrayCasts => right.place.room = size_of(Table, right.type)
    BY <2>5 DEF PlaceRight
  <2> DEFINE type == right.type
  <2> HIDE DEF type
  <2>7. MovesRight(ctx, {Move("assign", left.type, left.place, right)})
    BY <1>1, <1>4, <2>3, <2>5, <2>6, AssignedRight DEF type
  <2> QED
    BY <1>4, <2>7, FinishRight
<1> QED
  BY <1>2, <1>3, <1>4

\* An operand without a type.
LEMMA NoTypeRight ==
  ASSUME ctx = "local", AssignOperands
  PROVE  OperandRight(ctx, Needed(Rvalue(NoType)))
<1> DEFINE o == Operand(NoType, FALSE, NoValue, NoValue, NoPlace)
           new == Needed(o)
<1>1. Rvalue(NoType) = o
  BY Zenon DEF Rvalue
<1>2. NeededIs(new, NoType, NoValue, NoValue, NoPlace, FALSE)
  BY NeededOperand
<1> HIDE DEF new, o
<1>3. OperandRight(ctx, new)
  BY <1>2, OperandIs
<1> QED
  BY <1>1, <1>3 DEF new

\* A compound assignment.
LEMMA CompoundStep ==
  ASSUME Inv, check_compound_assignment
  PROVE  Inv'
<1> DEFINE left == Arg(2, 1)
           right == Arg(2, 2)
           type(op) == IF Typed(2) THEN binary_type(op, left.type, right.type) ELSE NoType
           moves(op) == {Move("assign", left.type, left.place, Rvalue(type(op)))}
<1>1. PICK op \in Ops \cap (BitOps \cup Arithmetic) :
        \/ Refuse \/ GoWrong
        \/ /\ type(op) # NoType /\ assignable(left, type(op)) /\ (left.cast => CastTargets)
           /\ \/ Finish(moves(op))
              \/ AssignOperands /\ Replace(2, Rvalue(NoType), moves(op))
  BY Zenon DEF check_compound_assignment
<1>2. ctx = "local" /\ Len(stack) >= 2 /\ 2 \in Nat /\ 1 \in 1..2 /\ 2 \in 1..2
  BY DEF check_compound_assignment, Busy
<1> DEFINE t == type(op)
<1>3. CASE Refuse \/ GoWrong
  BY <1>3, EndRight
<1>4. ASSUME t # NoType, assignable(left, t), left.cast => CastTargets
      PROVE  MovesRight(ctx, moves(op))
  <2>1. Typed(2) /\ t = binary_type(op, left.type, right.type)
    BY <1>4
  <2>2. left.type \in ProgramTypes /\ right.type \in ProgramTypes
    BY <1>2, <2>1, TypedArg
  <2>3. op \in Comparisons \cup Logic \cup BitOps \cup Arithmetic /\ left.type # NoType
    BY <2>2, ExprAssumption DEF ExprAssumption
  <2>4. PlaceRight(left.type, left.place, left.cast)
    BY <1>2, <2>3, PlaceOfArg
  <2> DEFINE o == Rvalue(t)
  <2> HIDE DEF left, right, t
  <2>5. t \in ProgramTypes
    BY <1>4, <2>1, <2>2, <2>3, BinaryType
  <2>6. o.place.room = size_of(Table, t)
    <3>1. Rvalue(t).place = PlaceOf(t)
      BY <1>4, Zenon DEF Rvalue, Operand
    <3>2. PlaceOf(t).room = size_of(Table, t)
      BY Zenon DEF PlaceOf, Place
    <3> QED
      BY <3>1, <3>2
  <2> HIDE DEF o
  <2>7. MovesRight(ctx, {Move("assign", left.type, left.place, o)})
    BY <1>4, <2>2, <2>4, <2>5, <2>6, AssignedRight
  <2> QED
    BY <2>7 DEF o, t
<1> DEFINE m == moves(op)
<1>5. CASE Finish(m) /\ MovesRight(ctx, m)
  <2> HIDE DEF m
  <2> QED
    BY <1>5, FinishRight
<1>6. CASE AssignOperands /\ Replace(2, Rvalue(NoType), m) /\ MovesRight(ctx, m)
  <2> HIDE DEF m
  <2>1. OperandRight(ctx, Needed(Rvalue(NoType)))
    BY <1>2, <1>6, NoTypeRight
  <2> QED
    BY <1>2, <1>6, <2>1, ReplaceRight
<1> QED
  BY <1>1, <1>3, <1>4, <1>5, <1>6, Zenon

\* A declaration with an initial value.
LEMMA DeclarationStep ==
  ASSUME Inv, check_declaration
  PROVE  Inv'
<1> DEFINE right == stack[1]
<1>1. Len(stack) = 1
  BY DEF check_declaration
<1>2. PICK t \in CastTypes :
        \/ Refuse \/ GoWrong
        \/ /\ ~Untyped(1) /\ ctx # "count" /\ is_types_compatible(Table, t, right.type, "IGNORE")
           /\ Finish({Move("init", t, PlaceOf(t), right)})
  BY Zenon DEF check_declaration
<1>3. CASE Refuse \/ GoWrong
  BY <1>3, EndRight
<1>4. CASE /\ ~Untyped(1) /\ ctx # "count" /\ is_types_compatible(Table, t, right.type, "IGNORE")
           /\ Finish({Move("init", t, PlaceOf(t), right)})
  <2>1. right = Arg(1, 1) /\ 1 \in Nat /\ Len(stack) >= 1 /\ 1 \in 1..1
    BY <1>1 DEF Arg
  <2>2. t \in ProgramTypes /\ right.type \in ProgramTypes /\ OperandRight(ctx, right)
    BY <1>4, <2>1, ArgRight, ExprAssumption DEF ExprAssumption
  <2> HIDE DEF right
  <2> DEFINE d == Move("init", t, PlaceOf(t), right)
  <2>3. MoveRight(ctx, d)
    BY <1>4, <2>2, PassedRight
  <2>4. Finish({d})
    BY <1>4
  <2> HIDE DEF d
  <2>5. MovesRight(ctx, {d})
    BY <2>3 DEF MovesRight
  <2> QED
    BY <2>4, <2>5, FinishRight
<1> QED
  BY <1>2, <1>3, <1>4

\* A return of a value.
LEMMA ReturnStep ==
  ASSUME Inv, check_return
  PROVE  Inv'
<1> DEFINE right == stack[1]
<1>1. Len(stack) = 1 /\ ctx = "local"
  BY DEF check_return
<1>2. PICK t \in CastTypes :
        \/ Refuse \/ GoWrong
        \/ /\ Typed(1) /\ is_types_compatible(Table, t, right.type, "MAY_BE_CONST")
           /\ Finish({Move("pass", t, PlaceOf(t), right)})
  BY Zenon DEF check_return
<1>3. CASE Refuse \/ GoWrong
  BY <1>3, EndRight
<1>4. CASE /\ Typed(1) /\ is_types_compatible(Table, t, right.type, "MAY_BE_CONST")
           /\ Finish({Move("pass", t, PlaceOf(t), right)})
  <2>1. right = Arg(1, 1) /\ 1 \in Nat /\ Len(stack) >= 1 /\ 1 \in 1..1
    BY <1>1 DEF Arg
  <2>2. t \in ProgramTypes /\ right.type \in ProgramTypes /\ OperandRight(ctx, right)
    BY <1>4, <2>1, ArgRight, TypedArg, ExprAssumption DEF ExprAssumption
  <2> HIDE DEF right
  <2> DEFINE d == Move("pass", t, PlaceOf(t), right)
  <2>3. MoveRight(ctx, d)
    BY <1>4, <2>2, PassedRight
  <2>4. Finish({d})
    BY <1>4
  <2> HIDE DEF d
  <2>5. MovesRight(ctx, {d})
    BY <2>3 DEF MovesRight
  <2> QED
    BY <2>4, <2>5, FinishRight
<1> QED
  BY <1>2, <1>3, <1>4

\* Statements that store nothing.
LEMMA PlainStep ==
  ASSUME Inv, check_condition \/ check_stmt
  PROVE  Inv'
<1>1. Refuse \/ GoWrong \/ Finish({})
  BY Zenon DEF check_condition, check_stmt
<1> QED
  BY <1>1, EndRight, FinishRight, NoMoves

\* An unsigned word with the low half of a positive int32_t is the number that it
\* was made from, if that was an int32_t.
LEMMA CountIs ==
  ASSUME NEW v \in Int, v \in -Half(4)..(Half(4) - 1),
         v % Modulus(8) # 0, ~((v % Modulus(8)) % Modulus(4) >= Half(4))
  PROVE  v % Modulus(8) = v /\ v > 0
<1> DEFINE m == Modulus(4)
           w == Modulus(8)
           h == Half(4)
<1>1. 4 \in IntegerSizes /\ 8 \in IntegerSizes
  BY DEF IntegerSizes
<1>2. m \in Positive /\ h \in Positive /\ m = 2 * h /\ w \in Positive
  BY <1>1, ModulusIs
<1>3. PICK q \in Positive : w = q * m
  BY <1>1, ModulusDivides
<1>4. (v % w) % m = v % m
  <2> HIDE DEF m, w
  <2> QED
    BY <1>2, <1>3, RemainderTwice
<1>5. w >= m
  <2> HIDE DEF m, w, h
  <2>1. q \in Nat /\ q >= 1 /\ m \in Nat
    BY <1>2 DEF Positive
  <2>2. q * m >= 1 * m
    BY <2>1
  <2> QED
    BY <1>3, <2>1, <2>2
<1>6. -h <= v /\ v <= h - 1 /\ h \in Nat /\ h >= 1
  BY <1>2 DEF Positive
<1> HIDE DEF m, w, h
<1>7. CASE v >= 0
  <2>1. v \in 0..(w - 1)
    BY <1>2, <1>5, <1>6, <1>7 DEF Positive
  <2>2. v % w = v
    BY <1>2, <2>1, RemainderSmall
  <2>3. v # 0
    BY <2>2 DEF w
  <2> QED
    BY <1>7, <2>2, <2>3 DEF w
<1>8. CASE v < 0
  <2> DEFINE r == v + m
  <2>1. r \in 0..(m - 1) /\ r >= h /\ r - m = v
    BY <1>2, <1>6, <1>8 DEF Positive
  <2> HIDE DEF r
  <2>2. v % m = r
    BY <1>2, <2>1, RemainderSmall
  <2> QED
    BY <1>4, <2>1, <2>2 DEF m, w, h
<1> QED
  BY <1>7, <1>8

\* The size of an array.
LEMMA ArraySizeStep ==
  ASSUME Inv, array_size
  PROVE  Inv'
<1> DEFINE o == stack[1]
           count == converted(o.value, 8, FALSE).value
           low == count % Modulus(4)
           d == [kind |-> "count", count |-> count, meaning |-> o.meaning]
<1>1. ctx = "count" /\ Len(stack) = 1
  BY DEF array_size
<1>2. \/ Refuse
      \/ /\ o.value # NoValue /\ count # 0 /\ ~(low >= Half(4))
         /\ o.meaning # NoValue => WideCounts \/ o.meaning.v \in -Half(4)..(Half(4) - 1)
         /\ Finish({d})
  BY Zenon DEF array_size, Half
<1>3. CASE Refuse
  BY <1>3, EndRight
<1>4. CASE /\ o.value # NoValue /\ count # 0 /\ ~(low >= Half(4))
           /\ o.meaning # NoValue => WideCounts \/ o.meaning.v \in -Half(4)..(Half(4) - 1)
           /\ Finish({d})
  <2>1. 1 \in 1..Len(stack)
    BY <1>1
  <2>2. OperandRight(ctx, o)
    BY <2>1 DEF Inv
  <2>3. o.meaning # NoValue => Canonical(o.meaning) /\ Denotes(o.value, o.meaning)
    BY <1>1, <1>4, <2>2 DEF OperandRight, ValueRight
  <2>4. ASSUME o.meaning # NoValue, ~WideCounts
        PROVE  count = o.meaning.v /\ o.meaning.v > 0
    <3> DEFINE v == o.meaning.v
    <3>1. count = v % Modulus(8)
      <4>1. 8 \in IntegerSizes /\ FALSE \in BOOLEAN
        BY DEF IntegerSizes
      <4> DEFINE lit == o.value
                 num == o.meaning
      <4>2. Canonical(num) /\ Denotes(lit, num)
        BY <2>3, <2>4
      <4> HIDE DEF lit, num
      <4>3. converted(lit, 8, FALSE).value = num.v % Modulus(8)
        BY <4>1, <4>2, ConvertedRight
      <4> QED
        BY <4>3 DEF lit, num
    <3>2. v \in Int /\ v \in -Half(4)..(Half(4) - 1)
      BY <1>4, <2>3, <2>4 DEF Canonical
    <3>3. v % Modulus(8) # 0 /\ ~((v % Modulus(8)) % Modulus(4) >= Half(4))
      <4> HIDE DEF v, o
      <4> QED
        BY <1>4, <3>1
    <3> HIDE DEF v, count
    <3>4. v % Modulus(8) = v /\ v > 0
      BY <3>2, <3>3, CountIs
    <3> QED
      BY <3>1, <3>4 DEF v
  <2>5. d.kind = "count" /\ d.count = count /\ d.meaning = o.meaning
    OBVIOUS
  <2> HIDE DEF d, count, o
  <2>6. MoveRight(ctx, d)
    BY <2>4, <2>5 DEF MoveRight
  <2>7. MovesRight(ctx, {d})
    BY <2>6 DEF MovesRight
  <2> QED
    BY <1>4, <2>7, FinishRight
<1> QED
  BY <1>2, <1>3, <1>4

-----------------------------------------------------------------------------
(***************************************************************************)
(* The theorems.                                                           *)
(***************************************************************************)
\* At first nothing is on the stack.
LEMMA InvInit ==
  Init => Inv
<1> SUFFICES ASSUME Init PROVE Inv
  OBVIOUS
<1>1. ctx \in {"local", "global", "count"} /\ stack = <<>> /\ done = {}
  BY ExprAssumption DEF ExprAssumption, Init
<1>2. <<>> \in Seq(ToSet(<<>>)) /\ 1..Len(<<>>) = {}
  BY EmptySeq
<1> QED
  BY <1>1, <1>2, NoMoves DEF Inv

\* Every handler keeps the operands right, and every statement stores what is right.
LEMMA InvNext ==
  Inv /\ [Next]_vars => Inv'
<1> SUFFICES ASSUME Inv, [Next]_vars PROVE Inv'
  OBVIOUS
<1>1. CASE \E t \in Vars : check_name(t)
  BY <1>1, NameStep
<1>2. CASE \E lit \in Literals : check_literal(lit)
  BY <1>2, LiteralStep
<1>3. CASE check_string
  BY <1>3, StringStep
<1>4. CASE check_binary_op
  BY <1>4, BinaryStep
<1>5. CASE check_compound_assignment
  BY <1>5, CompoundStep
<1>6. CASE \E op \in {"-", "~", "!"} : check_unary_op(op)
  BY <1>6, UnaryStep
<1>7. CASE check_subscript
  BY <1>7, SubscriptStep
<1>8. CASE check_deref
  BY <1>8, DerefStep
<1>9. CASE check_addr
  BY <1>9, AddrStep
<1>10. CASE \E f \in FieldNames : check_get(f)
  BY <1>10, GetStep
<1>11. CASE \E k \in 0..MaxOperands : check_call(k)
  BY <1>11, CallStep
<1>12. CASE \E k \in 0..MaxOperands : check_initializer(k)
  BY <1>12, InitializerStep
<1>13. CASE check_cast
  BY <1>13, CastStep
<1>14. CASE check_sizeof_expr \/ check_sizeof_type
  BY <1>14, SizeofStep
<1>15. CASE check_declaration
  BY <1>15, DeclarationStep
<1>16. CASE check_return
  BY <1>16, ReturnStep
<1>17. CASE check_assignment
  BY <1>17, AssignmentStep
<1>18. CASE check_condition \/ check_stmt
  BY <1>18, PlainStep
<1>19. CASE array_size
  BY <1>19, ArraySizeStep
<1>20. CASE UNCHANGED vars
  BY <1>20 DEF vars, Inv
<1> QED
  BY <1>1, <1>2, <1>3, <1>4, <1>5, <1>6, <1>7, <1>8, <1>9, <1>10, <1>11, <1>12, <1>13, <1>14,
     <1>15, <1>16, <1>17, <1>18, <1>19, <1>20, Zenon DEF Next

\* The invariant, of every behaviour.
LEMMA InvAlways ==
  Spec => []Inv
BY InvInit, InvNext, PTL DEF Spec

\* An operand that is right has the number that it should have.
LEMMA InvEval ==
  Inv => EvalRight
BY DEF Inv, OperandRight, ValueRight, EvalRight

\* And the type.
LEMMA InvTyped ==
  ~MixedBits => (Inv => EvalTyped)
<1> SUFFICES ASSUME ~MixedBits, Inv, ctx = "global", NEW i \in 1..Len(stack),
                    stack[i].value # NoValue, is_integer(Table, stack[i].type)
             PROVE  /\ stack[i].value.size = size_of(Table, stack[i].type)
                    /\ stack[i].value.signed = is_signed(stack[i].type)
  BY Zenon DEF EvalTyped
<1> DEFINE o == stack[i]
<1>1. OperandRight(ctx, o) /\ o.value # NoValue /\ is_integer(Table, o.type)
  BY DEF Inv
<1> HIDE DEF o
<1>2. o.type \in ProgramTypes /\ ValueRight(ctx, o.type, o.value, o.meaning)
  BY <1>1 DEF OperandRight
<1>3. o.value.size = Table[o.type.id].size /\ o.value.signed = is_signed(o.type)
  BY <1>1, <1>2 DEF ValueRight
<1>4. size_of(Table, o.type) = Table[o.type.id].size
  BY <1>1, <1>2, IntegerIs
<1> QED
  BY <1>3, <1>4 DEF o

\* What is stored is right.
LEMMA InvMoves ==
  /\ ~WideCounts => (Inv => CountRight)
  /\ ~CastTargets => (Inv => ConstKept)
  /\ ~ArrayCasts => (Inv => FitsObject)
BY DEF Inv, MovesRight, MoveRight, CountRight, ConstKept, FitsObject

\* What is accepted has a type.
LEMMA InvAccepted ==
  ~AssignOperands => (Inv => TypedWhenAccepted)
BY DEF Inv, OperandRight, TypedWhenAccepted

\* eval_const comes to the number that the language gives an expression: for every
\* program, operator, literal, cast and size of a byte (Literal::apply, convert_to
\* and sign_extend, types.cpp).
THEOREM EvaluationIsRight ==
  Spec => []EvalRight
BY InvAlways, InvEval, PTL

\* A global's initial value has the size and the sign of its type, unless a constant
\* applies a bit operator to two types (check_binary_op and Literal::apply).
THEOREM EvaluationIsTyped ==
  ASSUME ~MixedBits
  PROVE  Spec => []EvalTyped
<1>1. Inv => EvalTyped
  BY InvTyped
<1> QED
  BY <1>1, InvAlways, PTL

\* An array has as many elements as the program says, if that is an int32_t
\* (make_node_type).
THEOREM CountsAreRight ==
  ASSUME ~WideCounts
  PROVE  Spec => []CountRight
<1>1. Inv => CountRight
  BY InvMoves
<1> QED
  BY <1>1, InvAlways, PTL

\* Nothing declared const is changed, however it is reached, unless a cast is
\* assigned to or its address is taken (check_get, check_subscript, check_addr, is_const).
THEOREM ConstIsKept ==
  ASSUME ~CastTargets
  PROVE  Spec => []ConstKept
<1>1. Inv => ConstKept
  BY InvMoves
<1> QED
  BY <1>1, InvAlways, PTL

\* What is stored is as large as the place, unless an array is cast to one of another
\* size (is_types_compatible, check_cast).
THEOREM ValuesFit ==
  ASSUME ~ArrayCasts
  PROVE  Spec => []FitsObject
<1>1. Inv => FitsObject
  BY InvMoves
<1> QED
  BY <1>1, InvAlways, PTL

\* What check_expr accepts has a type, unless a compound assignment is an operand:
\* that is the only way to the violation that the run of the assertions shows.
THEOREM AcceptedIsTyped ==
  ASSUME ~AssignOperands
  PROVE  Spec => []TypedWhenAccepted
<1>1. Inv => TypedWhenAccepted
  BY InvAccepted
<1> QED
  BY <1>1, InvAlways, PTL
=============================================================================

-------------------------- MODULE DataPath_proofs --------------------------
(***************************************************************************)
(* What the instructions compute is what the manual says, for every        *)
(* operand and for numbers of every even width up to 64 bits; no division  *)
(* traps.                                                                  *)
(***************************************************************************)
EXTENDS DataPath, TLAPS, FiniteSetTheorems, WellFoundedInduction

----------------------------------------------------------------------------
(* Arithmetic.                                                             *)

\* A set of numbers has a least element.
Below == {ss \in Nat \X Nat : ss[1] < ss[2]}

LEMMA Least ==
  ASSUME NEW T \in SUBSET Nat, T # {}
  PROVE  \E x \in T : \A y \in T : x <= y
<1>1. IsWellFoundedOn(Below, Nat)
  <2>1. Below = OpToRel(<, Nat)
    BY Zenon DEF OpToRel, Below
  <2> QED BY <2>1, NatLessThanWellFounded, Zenon
<1>2. PICK x \in T : \A y \in T : ~(<<y, x>> \in Below)
  BY <1>1, WFMin
<1>3. \A y \in T : ~(y < x)
  BY <1>2 DEF Below
<1> QED BY <1>3

\* One more number doubles the number of sets of numbers.
LEMMA Doubling ==
  ASSUME NEW S, IsFiniteSet(S), NEW e, e \notin S
  PROVE  /\ IsFiniteSet(SUBSET (S \cup {e}))
         /\ Cardinality(SUBSET (S \cup {e})) = 2 * Cardinality(SUBSET S)
<1> DEFINE A == SUBSET S
           B == {x \in SUBSET (S \cup {e}) : e \in x}
           f == [x \in A |-> x \cup {e}]
<1>1. IsFiniteSet(A)
  BY FS_SUBSET
<1>2. f \in Injection(A, B)
  <2>1. f \in [A -> B]
    OBVIOUS
  <2>2. ASSUME NEW x \in A, NEW y \in A, f[x] = f[y] PROVE x = y
    <3>1. x = f[x] \ {e} /\ y = f[y] \ {e}
      OBVIOUS
    <3> QED BY <2>2, <3>1
  <2> HIDE DEF f, A, B
  <2> QED BY <2>1, <2>2, Zenon DEF Injection, IsInjective
<1>3. f \in Surjection(A, B)
  <2>1. f \in [A -> B]
    OBVIOUS
  <2>2. ASSUME NEW y \in B PROVE \E x \in A : f[x] = y
    <3>1. y \ {e} \in A /\ f[y \ {e}] = y
      OBVIOUS
    <3> QED BY <3>1
  <2> HIDE DEF f, A, B
  <2> QED BY <2>1, <2>2 DEF Surjection
<1>4. ExistsBijection(A, B)
  <2> HIDE DEF f, A, B
  <2> QED BY <1>2, <1>3 DEF ExistsBijection, Bijection
<1>5. IsFiniteSet(B) /\ Cardinality(B) = Cardinality(A)
  <2> HIDE DEF f, A, B
  <2> QED BY <1>1, <1>4, FS_Bijection
<1>6. A \cap B = {}
  OBVIOUS
<1>7. SUBSET (S \cup {e}) = A \cup B
  OBVIOUS
<1>8. Cardinality(A) \in Nat
  <2> HIDE DEF A
  <2> QED BY <1>1, FS_CardinalityType
<1>9. IsFiniteSet(A \cup B) /\ Cardinality(A \cup B) = Cardinality(A) + Cardinality(A) - 0
  <2>1. Cardinality(A \cap B) = 0
    BY <1>6, FS_EmptySet
  <2> HIDE DEF A, B
  <2>2. /\ IsFiniteSet(A \cup B)
        /\ Cardinality(A \cup B) = Cardinality(A) + Cardinality(B) - Cardinality(A \cap B)
    BY <1>1, <1>5, FS_Union
  <2> QED BY <1>5, <2>1, <2>2
<1>10. IsFiniteSet(A \cup B) /\ Cardinality(A \cup B) = 2 * Cardinality(A)
  <2> HIDE DEF A, B
  <2> QED BY <1>8, <1>9
<1> QED BY ONLY <1>7, <1>10, Zenon

\* Powers of two.
LEMMA Powers ==
  ASSUME NEW k \in Nat
  PROVE  2 ^ k \in Nat /\ 2 ^ k >= 1 /\ 2 ^ (k + 1) = 2 * 2 ^ k
<1> DEFINE S == 1 .. k
<1>1. IsFiniteSet(S) /\ Cardinality(S) = k
  <2>1. Cardinality(S) = IF 1 > k THEN 0 ELSE k - 1 + 1
    BY FS_Interval
  <2>2. Cardinality(S) = k
    BY <2>1
  <2> QED BY <2>2, FS_Interval
<1>2. S \cup {k + 1} = 1 .. (k + 1) /\ k + 1 \notin S
  OBVIOUS
<1>3. IsFiniteSet(S \cup {k + 1}) /\ Cardinality(S \cup {k + 1}) = k + 1
  <2> HIDE DEF S
  <2> QED BY <1>1, <1>2, FS_AddElement
<1>4. Cardinality(SUBSET S) = 2 ^ k /\ IsFiniteSet(SUBSET S)
  <2> HIDE DEF S
  <2> QED BY <1>1, FS_SUBSET
<1>5. Cardinality(SUBSET (S \cup {k + 1})) = 2 ^ (k + 1)
  <2> HIDE DEF S
  <2> QED BY <1>3, FS_SUBSET
<1>6. 2 ^ (k + 1) = 2 * 2 ^ k
  <2> HIDE DEF S
  <2> QED BY <1>1, <1>2, <1>4, <1>5, Doubling
<1>7. 2 ^ k \in Nat
  <2> HIDE DEF S
  <2> QED BY <1>4, FS_CardinalityType
<1>8. 2 ^ k # 0
  <2>1. SUBSET S # {}
    OBVIOUS
  <2> HIDE DEF S
  <2> QED BY <1>4, <2>1, FS_EmptySet
<1> QED BY <1>6, <1>7, <1>8

\* Powers of two multiply.
LEMMA PowerSum ==
  ASSUME NEW j \in Nat
  PROVE  \A k \in Nat : 2 ^ (j + k) = 2 ^ j * 2 ^ k
<1> DEFINE T == {k \in Nat : 2 ^ (j + k) # 2 ^ j * 2 ^ k}
<1> SUFFICES ASSUME T # {} PROVE FALSE
  OBVIOUS
<1>1. PICK k \in T : \A m \in T : k <= m
  <2>1. T \in SUBSET Nat
    OBVIOUS
  <2> HIDE DEF T
  <2> QED BY <2>1, Least
<1>2. k \in Nat /\ 2 ^ (j + k) # 2 ^ j * 2 ^ k
  OBVIOUS
<1>3. 2 ^ 0 = 1 /\ 2 ^ j \in Nat
  BY Powers
<1>4. k # 0
  <2> SUFFICES ASSUME k = 0 PROVE FALSE
    OBVIOUS
  <2>1. 2 ^ (j + k) = 2 ^ j /\ 2 ^ k = 1
    BY <1>3
  <2> QED BY <1>2, <1>3, <2>1
<1>5. k - 1 \in Nat /\ k - 1 \notin T
  BY <1>1, <1>2, <1>4
<1>6. 2 ^ (j + (k - 1)) = 2 ^ j * 2 ^ (k - 1)
  BY <1>5
<1>7. 2 ^ k = 2 * 2 ^ (k - 1) /\ 2 ^ (k - 1) \in Nat
  <2>1. (k - 1) + 1 = k
    BY <1>2
  <2> QED BY <1>5, <2>1, Powers
<1>8. 2 ^ (j + k) = 2 * 2 ^ (j + (k - 1))
  <2>1. (j + (k - 1)) + 1 = j + k /\ j + (k - 1) \in Nat
    BY <1>2, <1>5
  <2> QED BY <2>1, Powers
<1> DEFINE a == 2 ^ j
           b == 2 ^ (k - 1)
<1>9. a \in Nat /\ b \in Nat /\ 2 ^ (j + k) = 2 * (a * b) /\ 2 ^ k = 2 * b
  BY <1>3, <1>6, <1>7, <1>8
<1>10. 2 ^ (j + k) = a * 2 ^ k
  <2> HIDE DEF a, b
  <2> QED BY <1>9
<1> QED BY <1>2, <1>10

\* Quotient and remainder are unique.
LEMMA DivUnique ==
  ASSUME NEW d \in Nat, d > 0, NEW q \in Int, NEW r \in 0 .. d - 1
  PROVE  (d * q + r) \div d = q /\ (d * q + r) % d = r
<1> DEFINE v == d * q + r
           q1 == v \div d
           r1 == v % d
<1>1. v \in Int
  OBVIOUS
<1>2. q1 \in Int /\ r1 \in 0 .. d - 1 /\ v = d * q1 + r1
  <2> HIDE DEF v
  <2> QED BY <1>1
<1>3. d * (q - q1) = r1 - r
  <2>1. d * (q - q1) = d * q - d * q1
    <3> HIDE DEF q1
    <3> QED BY <1>2
  <2> HIDE DEF q1, r1
  <2> QED BY <1>2, <2>1
<1>4. q = q1
  <2> HIDE DEF q1, r1, v
  <2>1. CASE q - q1 >= 1
    <3>1. d * (q - q1) >= d
      BY <1>2, <2>1
    <3> QED BY <1>2, <1>3, <3>1
  <2>2. CASE q - q1 <= -1
    <3>1. d * (q - q1) <= -d
      BY <1>2, <2>2
    <3> QED BY <1>2, <1>3, <3>1
  <2> QED BY <1>2, <2>1, <2>2
<1> HIDE DEF q1, r1
<1>5. r = r1
  BY <1>2, <1>4
<1> QED BY <1>4, <1>5 DEF q1, r1

\* A multiple of the divisor adds to the quotient only.
LEMMA DivTurn ==
  ASSUME NEW d \in Nat, d > 0, NEW q \in Int, NEW v \in Int
  PROVE  (v + d * q) \div d = (v \div d) + q /\ (v + d * q) % d = v % d
<1> DEFINE p == v \div d
           r == v % d
<1>1. p \in Int /\ r \in 0 .. d - 1 /\ v = d * p + r
  OBVIOUS
<1> HIDE DEF p, r
<1>2. d * (p + q) + r = v + d * q
  <2>1. d * (p + q) = d * p + d * q
    BY <1>1
  <2> QED BY <1>1, <2>1
<1>3. p + q \in Int
  BY <1>1
<1>4. (d * (p + q) + r) \div d = p + q /\ (d * (p + q) + r) % d = r
  BY ONLY <1>1, <1>3, DivUnique, d \in Nat, d > 0
<1> QED BY <1>2, <1>4 DEF p, r

\* Dividing twice.
LEMMA DivDiv ==
  ASSUME NEW a \in Nat, a > 0, NEW b \in Nat, b > 0, NEW v \in Int
  PROVE  (v \div a) \div b = v \div (a * b)
<1> DEFINE p == v \div a
           r == v % a
           p1 == p \div b
           r1 == p % b
<1>1. p \in Int /\ r \in 0 .. a - 1 /\ v = a * p + r
  OBVIOUS
<1>2. p1 \in Int /\ r1 \in 0 .. b - 1 /\ p = b * p1 + r1
  <2> HIDE DEF p
  <2> QED BY <1>1
<1> DEFINE d == a * b
           s == a * r1 + r
<1> HIDE DEF p, r, p1, r1
<1>3. d \in Nat /\ d > 0
  OBVIOUS
<1>4. v = d * p1 + s
  <2>1. a * (b * p1 + r1) = (a * b) * p1 + a * r1
    BY <1>2
  <2> QED BY <1>1, <1>2, <2>1
<1>5. s \in 0 .. d - 1
  <2>1. a * r1 \in Nat /\ a * (b - 1 - r1) >= 0
    BY <1>2
  <2>2. a * (b - 1 - r1) = a * b - a - a * r1
    BY <1>2
  <2> QED BY <1>1, <2>1, <2>2
<1>6. (d * p1 + s) \div d = p1
  <2> HIDE DEF d, s
  <2> QED BY <1>2, <1>3, <1>5, DivUnique
<1>7. v \div d = p1
  <2> HIDE DEF d, s
  <2> QED BY <1>4, <1>6
<1> QED BY <1>7 DEF p1, p

\* The remainder by twice the divisor has one more bit of the quotient.
LEMMA ModStep ==
  ASSUME NEW d \in Nat, d > 0, NEW v \in Int
  PROVE  v % (2 * d) = (v % d) + d * ((v \div d) % 2)
<1> DEFINE p == v \div d
           r == v % d
           p1 == p \div 2
           r1 == p % 2
<1>1. p \in Int /\ r \in 0 .. d - 1 /\ v = d * p + r
  OBVIOUS
<1>2. p1 \in Int /\ r1 \in 0 .. 1 /\ p = 2 * p1 + r1
  <2> HIDE DEF p
  <2> QED BY <1>1
<1> HIDE DEF p, r, p1, r1
<1> DEFINE e == 2 * d
           s == r + d * r1
<1>3. s \in 0 .. e - 1
  <2>1. CASE r1 = 0
    BY <1>1, <2>1
  <2>2. CASE r1 = 1
    BY <1>1, <2>2
  <2> QED BY <1>2, <2>1, <2>2
<1>4. v = e * p1 + s
  <2>1. d * (2 * p1 + r1) = (2 * d) * p1 + d * r1
    BY <1>2
  <2> QED BY <1>1, <1>2, <2>1
<1>5. (e * p1 + s) % e = s
  <2>1. e \in Nat /\ e > 0
    OBVIOUS
  <2> HIDE DEF e, s
  <2> QED BY <1>2, <1>3, <2>1, DivUnique
<1>6. v % e = s
  <2> HIDE DEF e, s
  <2> QED BY <1>4, <1>5
<1> QED BY <1>6 DEF p, r, r1

----------------------------------------------------------------------------
(* Words and numbers.                                                      *)

\* Bit b of a number is not changed by a multiple of a higher power.
LEMMA BitTurn ==
  ASSUME NEW size \in Nat, NEW b \in 0 .. size - 1, NEW v \in Int, NEW q \in Int
  PROVE  ((v + 2 ^ size * q) \div 2 ^ b) % 2 = (v \div 2 ^ b) % 2
<1>1. size - b - 1 \in Nat /\ b \in Nat /\ (size - b - 1) + 1 = size - b /\ b + (size - b) = size
      /\ size - b \in Nat
  OBVIOUS
<1>2. 2 ^ size = 2 ^ b * 2 ^ (size - b)
  BY <1>1, PowerSum
<1>3. 2 ^ (size - b) = 2 * 2 ^ (size - b - 1)
  BY <1>1, Powers
<1> DEFINE d == 2 ^ b
           e == 2 ^ (size - b - 1)
<1>4. d \in Nat /\ d > 0 /\ e \in Nat /\ 2 ^ size = d * (2 * e)
  BY <1>1, <1>2, <1>3, Powers
<1> HIDE DEF d, e
<1> DEFINE t == e * q
<1>5. t \in Int /\ 2 ^ size * q = d * (2 * t)
  BY <1>4
<1> HIDE DEF t
<1>6. (v + d * (2 * t)) \div d = (v \div d) + 2 * t
  <2>1. 2 * t \in Int
    BY <1>5
  <2> QED BY ONLY <1>4, <2>1, v \in Int, DivTurn
<1> DEFINE p == v \div d
<1>7. p \in Int
  BY <1>4
<1>8. (p + 2 * t) % 2 = p % 2
  <2> HIDE DEF p
  <2> QED BY <1>5, <1>7, DivTurn
<1> QED BY <1>5, <1>6, <1>8 DEF d

\* A word of size bits does not tell numbers apart that differ by a turn.
LEMMA WordTurn ==
  ASSUME NEW size \in Nat, NEW v \in Int, NEW q \in Int
  PROVE  WordOf(v + 2 ^ size * q, size) = WordOf(v, size)
<1>1. ASSUME NEW b \in Bits(size)
      PROVE  ((v + 2 ^ size * q) \div 2 ^ b) % 2 = (v \div 2 ^ b) % 2
  BY BitTurn DEF Bits
<1> QED BY <1>1 DEF WordOf

\* The low digits of a number determine a word of so many bits.
LEMMA WordLow ==
  ASSUME NEW size \in Nat, NEW v \in Int
  PROVE  WordOf(v % 2 ^ size, size) = WordOf(v, size)
<1> DEFINE d == 2 ^ size
           r == v % d
           q == v \div d
<1>1. d \in Nat /\ d > 0
  BY Powers
<1>2. q \in Int /\ r \in Int /\ v = r + d * q
  <2> HIDE DEF d
  <2> QED BY <1>1
<1>3. WordOf(r + 2 ^ size * q, size) = WordOf(r, size)
  <2> HIDE DEF r, q
  <2> QED BY <1>2, WordTurn
<1> QED BY <1>2, <1>3

\* Equal words are the low digits of equal numbers.
LEMMA LowDigits ==
  ASSUME NEW size \in Nat, NEW v \in Int, NEW w \in Int, WordOf(v, size) = WordOf(w, size)
  PROVE  v % 2 ^ size = w % 2 ^ size
<1> DEFINE T == {k \in Nat : k <= size /\ v % 2 ^ k # w % 2 ^ k}
<1> SUFFICES ASSUME T # {} PROVE FALSE
  OBVIOUS
<1>1. PICK k \in T : \A m \in T : k <= m
  <2>1. T \in SUBSET Nat
    OBVIOUS
  <2> HIDE DEF T
  <2> QED BY <2>1, Least
<1>2. k \in Nat /\ k <= size /\ v % 2 ^ k # w % 2 ^ k
  OBVIOUS
<1>3. k # 0
  <2> SUFFICES ASSUME k = 0 PROVE FALSE
    OBVIOUS
  <2>1. 2 ^ k = 1
    OBVIOUS
  <2>2. v % 1 = w % 1
    OBVIOUS
  <2> QED BY <1>2, <2>1, <2>2
<1>4. k - 1 \in Nat /\ k - 1 \notin T /\ k - 1 \in Bits(size) /\ (k - 1) + 1 = k
  BY <1>1, <1>2, <1>3 DEF Bits
<1>5. v % 2 ^ (k - 1) = w % 2 ^ (k - 1)
  BY <1>2, <1>4
<1>6. 2 ^ (k - 1) \in Nat /\ 2 ^ (k - 1) > 0 /\ 2 ^ k = 2 * 2 ^ (k - 1)
  BY <1>4, Powers
<1>7. ((v \div 2 ^ (k - 1)) % 2 = 1) <=> ((w \div 2 ^ (k - 1)) % 2 = 1)
  <2>1. (k - 1 \in WordOf(v, size)) <=> (k - 1 \in WordOf(w, size))
    OBVIOUS
  <2> QED BY <1>4, <2>1 DEF WordOf
<1> DEFINE d == 2 ^ (k - 1)
<1>8. (v \div d) % 2 = (w \div d) % 2
  <2>1. (v \div d) \in Int /\ (w \div d) \in Int
    <3>1. d \in Nat /\ d > 0
      BY <1>6
    <3> HIDE DEF d
    <3> QED BY <3>1
  <2>2. (v \div d) % 2 \in 0 .. 1 /\ (w \div d) % 2 \in 0 .. 1
    <3> HIDE DEF d
    <3> QED BY <2>1
  <2> QED BY <1>7, <2>2
<1>9. v % (2 * d) = w % (2 * d)
  <2>1. v % (2 * d) = (v % d) + d * ((v \div d) % 2)
    BY <1>6, ModStep
  <2>2. w % (2 * d) = (w % d) + d * ((w \div d) % 2)
    BY <1>6, ModStep
  <2> QED BY <1>5, <1>8, <2>1, <2>2
<1> QED BY <1>2, <1>6, <1>9

\* A number that fits is its own remainder.
LEMMA ModSmall ==
  ASSUME NEW d \in Nat, NEW v \in 0 .. d - 1
  PROVE  v % d = v /\ v \div d = 0
<1>1. (d * 0 + v) \div d = 0 /\ (d * 0 + v) % d = v
  BY DivUnique
<1> QED BY <1>1

\* Every word is the word of a number that fits.
LEMMA NumbersExist ==
  ASSUME NEW size \in Nat
  PROVE  \A x \in SUBSET Bits(size) : \E v \in 0 .. 2 ^ size - 1 : WordOf(v, size) = x
<1> DEFINE T == {k \in Nat : ~\A x \in SUBSET Bits(k) : \E v \in 0 .. 2 ^ k - 1 : WordOf(v, k) = x}
<1> SUFFICES ASSUME T # {} PROVE FALSE
  OBVIOUS
<1>1. PICK k \in T : \A m \in T : k <= m
  <2>1. T \in SUBSET Nat
    OBVIOUS
  <2> HIDE DEF T
  <2> QED BY <2>1, Least
<1>2. PICK x \in SUBSET Bits(k) : ~\E v \in 0 .. 2 ^ k - 1 : WordOf(v, k) = x
  OBVIOUS
<1>3. k \in Nat
  OBVIOUS
<1>4. k # 0
  <2> SUFFICES ASSUME k = 0 PROVE FALSE
    OBVIOUS
  <2>1. Bits(k) = {} /\ 2 ^ k = 1
    BY DEF Bits
  <2>2. x = {} /\ WordOf(0, k) = {}
    BY <1>2, <2>1 DEF WordOf
  <2> QED BY <1>2, <2>1, <2>2
<1> DEFINE j == k - 1
<1>5. j \in Nat /\ j \notin T /\ k = j + 1
  BY <1>1, <1>3, <1>4
<1>6. PICK v \in 0 .. 2 ^ j - 1 : WordOf(v, j) = x \cap Bits(j)
  <2>1. \A y \in SUBSET Bits(j) : \E v \in 0 .. 2 ^ j - 1 : WordOf(v, j) = y
    BY <1>5
  <2> QED BY <2>1
<1> HIDE DEF T, j
<1>7. 2 ^ j \in Nat /\ 2 ^ j > 0 /\ 2 ^ k = 2 * 2 ^ j
  BY <1>5, Powers
<1> DEFINE q == IF j \in x THEN 1 ELSE 0
           w == v + 2 ^ j * q
<1>8. w \in 0 .. 2 ^ k - 1 /\ v \in Int /\ q \in Int
  BY <1>6, <1>7
<1>9. WordOf(w, j) = x \cap Bits(j)
  <2> HIDE DEF q
  <2> QED BY <1>5, <1>6, <1>8, WordTurn
<1>10. w \div 2 ^ j = q
  <2>1. w \div 2 ^ j = (v \div 2 ^ j) + q
    <3> HIDE DEF q
    <3> QED BY <1>7, <1>8, DivTurn
  <2>2. v \div 2 ^ j = 0
    BY <1>6, <1>7, ModSmall
  <2> QED BY <2>1, <2>2
<1>11. q % 2 = 1 <=> j \in x
  OBVIOUS
<1> HIDE DEF w, q
<1>12. WordOf(w, k) = x
  <2>1. \A b \in Bits(k) : b \in Bits(j) \/ b = j
    BY <1>5 DEF Bits
  <2>2. Bits(j) \subseteq Bits(k) /\ j \in Bits(k) /\ j \notin Bits(j)
    BY <1>5 DEF Bits
  <2>3. ASSUME NEW b \in Bits(k) PROVE b \in x <=> (w \div 2 ^ b) % 2 = 1
    <3>1. CASE b \in Bits(j)
      <4>1. b \in x \cap Bits(j) <=> b \in WordOf(w, j)
        BY <1>9
      <4> QED BY <3>1, <4>1 DEF WordOf
    <3>2. CASE b = j
      BY <1>10, <1>11, <3>2
    <3> QED BY <2>1, <3>1, <3>2
  <2>4. x \subseteq Bits(k)
    BY <1>2
  <2> QED BY <2>3, <2>4 DEF WordOf
<1> QED BY <1>2, <1>8, <1>12

\* The number a word is.
LEMMA NumOfFacts ==
  ASSUME NEW size \in Nat, NEW x \in SUBSET Bits(size)
  PROVE  NumOf(x, size) \in 0 .. 2 ^ size - 1 /\ NumOf(x, size) \in Nat /\ WordOf(NumOf(x, size), size) = x
<1>1. \E v \in 0 .. 2 ^ size - 1 : WordOf(v, size) = x
  BY NumbersExist
<1>2. NumOf(x, size) \in 0 .. 2 ^ size - 1 /\ WordOf(NumOf(x, size), size) = x
  BY ONLY <1>1, Zenon DEF NumOf
<1> QED BY <1>2, Powers

\* It is the only one of its size.
LEMMA NumOfWord ==
  ASSUME NEW size \in Nat, NEW v \in 0 .. 2 ^ size - 1
  PROVE  NumOf(WordOf(v, size), size) = v
<1> DEFINE x == WordOf(v, size)
           w == NumOf(x, size)
<1>1. x \in SUBSET Bits(size)
  BY DEF WordOf
<1>2. w \in 0 .. 2 ^ size - 1 /\ WordOf(w, size) = x
  <2> HIDE DEF x
  <2> QED BY <1>1, NumOfFacts
<1>3. 2 ^ size \in Nat
  BY Powers
<1>4. w % 2 ^ size = v % 2 ^ size
  <2> HIDE DEF w
  <2> QED BY <1>2, <1>3, LowDigits
<1>5. w % 2 ^ size = w /\ v % 2 ^ size = v
  <2> HIDE DEF w
  <2> QED BY <1>2, <1>3, ModSmall
<1> QED BY <1>4, <1>5

\* The low part of a word is the remainder of its number.
LEMMA LowPart ==
  ASSUME NEW size \in Nat, NEW low \in Nat, low <= size, NEW x \in SUBSET Bits(size)
  PROVE  NumOf(x \cap Bits(low), low) = NumOf(x, size) % 2 ^ low
<1> DEFINE v == NumOf(x, size)
           d == 2 ^ low
<1>1. v \in Nat /\ WordOf(v, size) = x
  BY NumOfFacts
<1>2. d \in Nat /\ d > 0
  BY Powers
<1>3. v % d \in 0 .. d - 1
  <2> HIDE DEF v, d
  <2> QED BY <1>1, <1>2
<1>4. WordOf(v % d, low) = WordOf(v, low)
  <2> HIDE DEF v
  <2> QED BY <1>1, WordLow
<1>5. WordOf(v, low) = x \cap Bits(low)
  <2>1. Bits(low) \subseteq Bits(size)
    BY DEF Bits
  <2> HIDE DEF v
  <2> QED BY <1>1, <2>1 DEF WordOf
<1>6. NumOf(WordOf(v % d, low), low) = v % d
  <2> DEFINE r == v % d
  <2>1. r \in 0 .. 2 ^ low - 1
    BY <1>3
  <2> HIDE DEF r
  <2>2. NumOf(WordOf(r, low), low) = r
    BY <2>1, NumOfWord
  <2> QED BY <2>2 DEF r
<1> QED BY <1>4, <1>5, <1>6

\* The empty word is zero, and no other.
LEMMA EmptyIsZero ==
  ASSUME NEW size \in Nat, NEW x \in SUBSET Bits(size)
  PROVE  NumOf(x, size) = 0 <=> x = {}
<1>1. WordOf(0, size) = {}
  <2>1. ASSUME NEW b \in Bits(size) PROVE (0 \div 2 ^ b) % 2 = 0
    <3>1. 2 ^ b \in Nat /\ 2 ^ b > 0
      BY Powers DEF Bits
    <3>2. 0 \div 2 ^ b = 0
      BY <3>1, ModSmall
    <3> QED BY <3>2
  <2> QED BY <2>1 DEF WordOf
<1>2. 0 \in 0 .. 2 ^ size - 1
  BY Powers
<1>3. NumOf({}, size) = 0
  BY <1>1, <1>2, NumOfWord
<1> QED BY <1>1, <1>3, NumOfFacts

\* All ones is the greatest number, and no other.
LEMMA OnesAreGreatest ==
  ASSUME NEW size \in Nat, NEW x \in SUBSET Bits(size)
  PROVE  NumOf(x, size) = 2 ^ size - 1 <=> x = Bits(size)
<1> DEFINE v == 2 ^ size - 1
<1>1. v \in 0 .. 2 ^ size - 1 /\ v \in Int
  BY Powers
<1>2. ASSUME NEW b \in Bits(size) PROVE (v \div 2 ^ b) % 2 = 1
  <2>1. size - b - 1 \in Nat /\ b \in Nat /\ size - b \in Nat
        /\ b + (size - b) = size /\ (size - b - 1) + 1 = size - b
    BY DEF Bits
  <2>2. 2 ^ size = 2 ^ b * 2 ^ (size - b) /\ 2 ^ (size - b) = 2 * 2 ^ (size - b - 1)
    BY <2>1, PowerSum, Powers
  <2> DEFINE d == 2 ^ b
             e == 2 ^ (size - b - 1)
  <2>3. d \in Nat /\ d > 0 /\ e \in Nat /\ 2 ^ size = d * (2 * e)
    BY <2>1, <2>2, Powers
  <2>4. v = d * (2 * e - 1) + (d - 1)
    <3> HIDE DEF d, e
    <3>1. d * (2 * e - 1) = d * (2 * e) - d
      BY <2>3
    <3> QED BY <2>3, <3>1
  <2>5. (d * (2 * e - 1) + (d - 1)) \div d = 2 * e - 1
    <3> HIDE DEF d, e
    <3>1. 2 * e - 1 \in Int /\ d - 1 \in 0 .. d - 1
      BY <2>3
    <3> QED BY ONLY <2>3, <3>1, DivUnique
  <2>6. (2 * e - 1) % 2 = 1
    <3> HIDE DEF e
    <3> QED BY <2>3
  <2> QED BY <2>4, <2>5, <2>6
<1>3. WordOf(v, size) = Bits(size)
  <2> HIDE DEF v
  <2> QED BY <1>2 DEF WordOf
<1>4. NumOf(Bits(size), size) = v
  <2> HIDE DEF v
  <2> QED BY <1>1, <1>3, NumOfWord
<1> QED BY <1>3, <1>4, NumOfFacts

\* The highest bit tells the upper half of the numbers.
LEMMA HighestBit ==
  ASSUME NEW size \in Nat, size >= 1, NEW x \in SUBSET Bits(size)
  PROVE  /\ size - 1 \in x <=> NumOf(x, size) >= 2 ^ (size - 1)
         /\ 2 ^ size = 2 * 2 ^ (size - 1)
         /\ 2 ^ (size - 1) \in Nat /\ 2 ^ (size - 1) > 0
<1> DEFINE d == 2 ^ (size - 1)
           v == NumOf(x, size)
<1>1. size - 1 \in Nat /\ (size - 1) + 1 = size /\ size - 1 \in Bits(size)
  BY DEF Bits
<1>2. d \in Nat /\ d > 0 /\ 2 ^ size = 2 * d
  BY <1>1, Powers
<1>3. v \in 0 .. 2 * d - 1 /\ WordOf(v, size) = x
  BY <1>2, NumOfFacts
<1>4. size - 1 \in x <=> (v \div d) % 2 = 1
  BY <1>1, <1>3 DEF WordOf
<1>5. CASE v >= d
  <2>1. (d * 1 + (v - d)) \div d = 1
    <3> HIDE DEF d, v
    <3>1. v - d \in 0 .. d - 1
      BY <1>2, <1>3, <1>5
    <3> QED BY ONLY <1>2, <3>1, DivUnique
  <2>2. d * 1 + (v - d) = v
    <3> HIDE DEF d, v
    <3> QED BY <1>2, <1>3
  <2> QED BY <1>2, <1>4, <1>5, <2>1, <2>2
<1>6. CASE v < d
  <2>1. v \div d = 0
    <3> HIDE DEF d, v
    <3>1. v \in 0 .. d - 1
      BY <1>2, <1>3, <1>6
    <3> QED BY <1>2, <3>1, ModSmall
  <2>2. ~(v >= d)
    <3> HIDE DEF d, v
    <3> QED BY <1>2, <1>3, <1>6
  <2> QED BY <1>2, <1>4, <2>1, <2>2
<1>7. v >= d \/ v < d
  <2> HIDE DEF d, v
  <2> QED BY <1>2, <1>3
<1> QED BY <1>5, <1>6, <1>7

\* What a word is as a number with a sign.
LEMMA SNumFacts ==
  ASSUME NEW size \in Nat, size >= 1, NEW x \in SUBSET Bits(size)
  PROVE  /\ SNum(x, size) \in -(2 ^ (size - 1)) .. 2 ^ (size - 1) - 1
         /\ SNum(x, size) \in Int
         /\ SNum(x, size) = 0 <=> x = {}
         /\ SNum(x, size) = -1 <=> x = Bits(size)
         /\ \E q \in Int : SNum(x, size) = NumOf(x, size) + 2 ^ size * q
<1> DEFINE d == 2 ^ (size - 1)
           v == NumOf(x, size)
           w == SNum(x, size)
<1>1. d \in Nat /\ d > 0 /\ 2 ^ size = 2 * d /\ (size - 1 \in x <=> v >= d)
  BY HighestBit
<1>2. v \in 0 .. 2 * d - 1 /\ v \in Nat
  BY <1>1, NumOfFacts
<1>3. w = v - (IF v >= d THEN 2 * d ELSE 0)
  BY <1>1 DEF SNum
<1>4. (v = 0 <=> x = {}) /\ (v = 2 * d - 1 <=> x = Bits(size))
  BY <1>1, EmptyIsZero, OnesAreGreatest
<1> HIDE DEF d, v, w
<1>5. w \in -d .. d - 1 /\ w \in Int
  BY <1>1, <1>2, <1>3
<1>6. w = 0 <=> v = 0
  BY <1>1, <1>2, <1>3
<1>7. w = -1 <=> v = 2 * d - 1
  BY <1>1, <1>2, <1>3
<1>8. \E q \in Int : w = v + (2 * d) * q
  <2>1. CASE v >= d
    <3>1. w = v + (2 * d) * (-1)
      BY <1>1, <1>2, <1>3, <2>1
    <3> QED BY <3>1
  <2>2. CASE v < d
    <3>1. w = v + (2 * d) * 0
      BY <1>1, <1>2, <1>3, <2>2
    <3> QED BY <3>1
  <2> QED BY <1>1, <1>2, <2>1, <2>2
<1>9. 2 ^ size = 2 * d
  BY <1>1
<1> QED BY <1>4, <1>5, <1>6, <1>7, <1>8, <1>9 DEF d, v, w

----------------------------------------------------------------------------
(* Divisions and multiplications.                                          *)

\* The registers' widths in numbers.
LEMMA DigitsFacts ==
  /\ Digits \in Nat /\ Digits >= 2 /\ Digits <= 64
  /\ Digits \div 2 \in Nat /\ Digits \div 2 >= 1 /\ Digits = 2 * (Digits \div 2)
  /\ Digits \div 2 <= 32
<1>1. PICK k \in 1 .. 32 : Digits = 2 * k
  BY DigitsAssumption
<1> QED BY <1>1

\* What the host's division of numbers without a sign yields fits.
LEMMA UnsignedQuotient ==
  ASSUME NEW v \in Nat, NEW w \in Nat, w > 0
  PROVE  Quotient(v, w) = v \div w /\ Quotient(v, w) \in 0 .. v
<1> DEFINE q == v \div w
<1>1. q \in Nat /\ v % w \in Nat /\ v = w * q + (v % w)
  OBVIOUS
<1> HIDE DEF q
<1>2. q <= v
  <2>1. w * q >= q
    BY <1>1
  <2>2. w * q <= v
    BY <1>1
  <2> QED BY <1>1, <2>1, <2>2
<1>3. Quotient(v, w) = q
  BY DEF Quotient, Abs, q
<1> QED BY <1>1, <1>2, <1>3 DEF q

\* Of numbers with a sign it fits too, unless the divisor is -1 or zero.
LEMMA SignedQuotient ==
  ASSUME NEW d \in Nat, d > 0, NEW v \in -d .. d - 1, NEW w \in -d .. d - 1, w # 0, w # -1
  PROVE  Quotient(v, w) \in -d .. -d + 2 * d - 1
<1> DEFINE a == Abs(v)
           c == Abs(w)
           q == a \div c
<1>1. a \in Nat /\ c \in Nat /\ c > 0 /\ a <= d /\ (v >= 0 => a <= d - 1) /\ (w < 0 => c >= 2)
      /\ (w < 0 => d >= 2)
  BY DEF Abs
<1>2. q \in Nat /\ a % c \in Nat /\ a = c * q + (a % c)
  <2> HIDE DEF a, c
  <2> QED BY <1>1
<1>3. Quotient(v, w) = IF (v < 0) = (w < 0) THEN q ELSE -q
  BY DEF Quotient
<1> HIDE DEF a, c, q
<1>4. q <= a
  <2>1. c * q >= q
    BY <1>1, <1>2
  <2>2. c * q <= a
    BY <1>1, <1>2
  <2> QED BY <1>1, <1>2, <2>1, <2>2
<1>5. CASE w >= 0
  <2>1. CASE v >= 0
    BY <1>1, <1>2, <1>3, <1>4, <1>5, <2>1
  <2>2. CASE v < 0
    BY <1>1, <1>2, <1>3, <1>4, <1>5, <2>2
  <2> QED BY <2>1, <2>2
<1>6. CASE w < 0
  <2>1. c * q >= 2 * q
    BY <1>1, <1>2, <1>6
  <2>2. c * q <= a
    BY <1>1, <1>2
  <2>3. q <= d - 1
    BY <1>1, <1>2, <1>6, <2>1, <2>2
  <2>4. Quotient(v, w) = q \/ Quotient(v, w) = -q
    BY <1>3
  <2> QED BY <1>1, <1>2, <2>3, <2>4
<1> QED BY <1>5, <1>6

\* Dividing by -1 negates.
LEMMA NegativeQuotient ==
  ASSUME NEW v \in Int
  PROVE  Quotient(v, -1) = -v
<1>1. Abs(-1) = 1 /\ Abs(v) \in Nat
  <2>1. \A x \in Int : Abs(x) = IF x < 0 THEN -x ELSE x
    BY Zenon DEF Abs
  <2> QED BY ONLY <2>1, v \in Int
<1>2. Abs(v) \div 1 = Abs(v)
  <2>1. \A a \in Nat : a \div 1 = a
    OBVIOUS
  <2> QED BY <1>1, <2>1
<1>3. Quotient(v, -1) = IF v < 0 THEN Abs(v) ELSE -Abs(v)
  BY <1>1, <1>2 DEF Quotient
<1> QED BY <1>3 DEF Abs

\* Neither adding to nor subtracting from the low half of a product changes
\* the low digits of the result, whichever digits were cut before.
LEMMA LowDigitsOfSum ==
  ASSUME NEW m \in Nat, m > 0, NEW a \in Int, NEW u \in Int, NEW v \in Int
  PROVE  /\ \E q \in Int : (a % m) + (((u % m) * (v % m)) % m) = (a + u * v) + m * q
         /\ \E q \in Int : (a % m) - (((u % m) * (v % m)) % m) = (a - u * v) + m * q
<1> DEFINE a0 == a % m
           a1 == a \div m
           u0 == u % m
           u1 == u \div m
           v0 == v % m
           v1 == v \div m
           p  == u0 * v0
           p0 == p % m
           p1 == p \div m
<1>1. a0 \in Int /\ a1 \in Int /\ a = m * a1 + a0
  OBVIOUS
<1>2. u0 \in Int /\ u1 \in Int /\ u = m * u1 + u0
  OBVIOUS
<1>3. v0 \in Int /\ v1 \in Int /\ v = m * v1 + v0
  OBVIOUS
<1> HIDE DEF a0, a1, u0, u1, v0, v1
<1>4. p \in Int
  BY <1>2, <1>3
<1> HIDE DEF p
<1>5. p0 \in Int /\ p1 \in Int /\ p = m * p1 + p0
  BY <1>4
<1> HIDE DEF p0, p1
<1> DEFINE t == u1 * v + u0 * v1
<1>6. t \in Int /\ u * v = m * t + p
  <2>1. u * v = m * (u1 * v) + u0 * v
    BY <1>2
  <2>2. u0 * v = m * (u0 * v1) + u0 * v0
    BY <1>2, <1>3
  <2> DEFINE x == u1 * v
             y == u0 * v1
  <2>3. x \in Int /\ y \in Int
    BY <1>2, <1>3
  <2>4. u * v = m * x + (m * y + p)
    BY <2>1, <2>2 DEF p
  <2> HIDE DEF x, y
  <2>5. m * (x + y) = m * x + m * y /\ m * x \in Int /\ m * y \in Int /\ x + y \in Int
    BY <2>3
  <2>6. u * v = m * (x + y) + p
    BY <1>4, <2>4, <2>5
  <2> QED BY <2>5, <2>6 DEF x, y
<1> HIDE DEF t
<1> DEFINE w == u * v
<1>7. w \in Int /\ w = m * t + p
  BY <1>6
<1> HIDE DEF w
<1>8. a0 + p0 = (a + w) + m * (-(a1 + t + p1)) /\ -(a1 + t + p1) \in Int
  <2>1. m * (-(a1 + t + p1)) = -(m * a1) - (m * t) - (m * p1)
    BY <1>1, <1>5, <1>6
  <2>2. m * a1 \in Int /\ m * t \in Int /\ m * p1 \in Int
    BY <1>1, <1>5, <1>6
  <2> QED BY <1>1, <1>4, <1>5, <1>6, <1>7, <2>1, <2>2
<1>9. a0 - p0 = (a - w) + m * (t + p1 - a1) /\ t + p1 - a1 \in Int
  <2>1. m * (t + p1 - a1) = m * t + m * p1 - m * a1
    BY <1>1, <1>5, <1>6
  <2>2. m * a1 \in Int /\ m * t \in Int /\ m * p1 \in Int
    BY <1>1, <1>5, <1>6
  <2> QED BY <1>1, <1>4, <1>5, <1>6, <1>7, <2>1, <2>2
<1>10. /\ \E q \in Int : a0 + p0 = (a + w) + m * q
       /\ \E q \in Int : a0 - p0 = (a - w) + m * q
  BY <1>8, <1>9
<1> QED BY <1>10 DEF a0, p0, p, u0, v0, w

\* The high half of a product is the upper half of its bits.
LEMMA HighHalf ==
  ASSUME NEW size \in Nat, NEW p \in Int
  PROVE  WordOf(p \div 2 ^ size, size) = {b \in Bits(size) : b + size \in WordOf(p, 2 * size)}
<1>1. ASSUME NEW b \in Bits(size)
      PROVE  b \in WordOf(p \div 2 ^ size, size) <=> b + size \in WordOf(p, 2 * size)
  <2>1. b \in Nat /\ b + size \in Bits(2 * size) /\ b + size = size + b
    BY DEF Bits
  <2>2. 2 ^ (size + b) = 2 ^ size * 2 ^ b
    BY <2>1, PowerSum
  <2>3. (p \div 2 ^ size) \div 2 ^ b = p \div (2 ^ size * 2 ^ b)
    <3>1. 2 ^ size \in Nat /\ 2 ^ size > 0 /\ 2 ^ b \in Nat /\ 2 ^ b > 0
      BY <2>1, Powers
    <3> QED BY ONLY <3>1, p \in Int, DivDiv
  <2> QED BY <2>1, <2>2, <2>3 DEF WordOf
<1>2. WordOf(p \div 2 ^ size, size) \subseteq Bits(size)
  BY DEF WordOf
<1> QED BY <1>1, <1>2

----------------------------------------------------------------------------
(* Types.                                                                  *)

\* What the operands of each form are.
LEMMA Operands ==
  ASSUME NEW f, Decoded(f)
  PROVE  /\ f.sf \in BOOLEAN
         /\ f.form \in {"and", "orr", "eor", "ubfm", "bfm", "sbfx", "sbfiz"} =>
              f.N \in 0 .. 1 /\ f.immr \in 0 .. 63 /\ f.imms \in 0 .. 63 /\ f.n \subseteq Bits(64)
         /\ f.form \in {"movn", "movz", "movk"} =>
              f.hw \in 0 .. 3 /\ f.imm \subseteq Bits(16) /\ f.d \subseteq Bits(64)
         /\ f.form \in {"ubfm", "bfm"} => f.d \subseteq Bits(64)
         /\ f.form \in {"sbfx", "sbfiz"} => (f.form = "sbfx") = (f.imms >= f.immr)
         /\ f.form = "extr" => f.lsb \in 0 .. 63 /\ f.n \subseteq Bits(64) /\ f.m \subseteq Bits(64)
         /\ f.form \in {"rbit", "rev16", "rev32", "rev", "clz", "cls"} => f.n \subseteq Bits(64)
         /\ f.form \in {"udiv", "sdiv", "madd", "msub", "smaddl", "smsubl", "umaddl", "umsubl",
                        "umulh", "smulh"} => f.n \subseteq Bits(Digits) /\ f.m \subseteq Bits(Digits)
         /\ f.form \in {"madd", "msub", "smaddl", "smsubl", "umaddl", "umsubl"} =>
              f.d \subseteq Bits(Digits)
<1>1. CASE f \in [form : {"and", "orr", "eor"}, sf : BOOLEAN, N : 0 .. 1, immr : 0 .. 63,
                  imms : 0 .. 63, n : Words]
  BY <1>1 DEF Words
<1>2. CASE f \in [form : {"movn", "movz", "movk"}, sf : BOOLEAN, hw : 0 .. 3,
                  imm : SUBSET Bits(16), d : Words]
  BY <1>2 DEF Words
<1>3. CASE f \in [form : {"ubfm", "bfm"}, sf : BOOLEAN, N : 0 .. 1, immr : 0 .. 63,
                  imms : 0 .. 63, n : Words, d : Words]
  BY <1>3 DEF Words
<1>4. CASE /\ f \in [form : {"sbfx", "sbfiz"}, sf : BOOLEAN, N : 0 .. 1, immr : 0 .. 63,
                     imms : 0 .. 63, n : Words]
           /\ (f.form = "sbfx") = (f.imms >= f.immr)
  BY <1>4 DEF Words
<1>5. CASE f \in [form : {"extr"}, sf : BOOLEAN, lsb : 0 .. 63, n : Words, m : Words]
  BY <1>5 DEF Words
<1>6. CASE f \in [form : {"rbit", "rev16", "rev", "clz", "cls"}, sf : BOOLEAN, n : Words]
  BY <1>6 DEF Words
<1>7. CASE f \in [form : {"rev32"}, sf : {TRUE}, n : Words]
  BY <1>7 DEF Words
<1>8. CASE f \in [form : {"udiv", "sdiv"}, sf : BOOLEAN, n : Numbers, m : Numbers]
  BY <1>8 DEF Numbers
<1>9. CASE f \in [form : {"madd", "msub"}, sf : BOOLEAN, n : Numbers, m : Numbers, d : Numbers]
  BY <1>9 DEF Numbers
<1>10. CASE f \in [form : {"smaddl", "smsubl", "umaddl", "umsubl"}, sf : {TRUE}, n : Numbers,
                   m : Numbers, d : Numbers]
  BY <1>10 DEF Numbers
<1>11. CASE f \in [form : {"umulh", "smulh"}, sf : {TRUE}, n : Numbers, m : Numbers]
  BY <1>11 DEF Numbers
<1> QED
  BY <1>1, <1>2, <1>3, <1>4, <1>5, <1>6, <1>7, <1>8, <1>9, <1>10, <1>11 DEF Decoded

\* The widths of an instruction.
LEMMA Widths ==
  ASSUME Decoded(insn)
  PROVE  /\ i.sf \in BOOLEAN
         /\ Width = IF i.sf THEN 64 ELSE 32
         /\ Width \in {32, 64} /\ Width \in Nat
         /\ Narrow \in Nat /\ Narrow >= 1 /\ Narrow <= Digits /\ Narrow <= Width
<1>1. i.sf \in BOOLEAN
  BY Operands DEF i
<1> QED BY <1>1, DigitsFacts DEF Width, Narrow

\* Of a word so many bits are kept.
LEMMA Shifts ==
  ASSUME NEW size \in Nat, NEW n \in Nat, NEW x, x \subseteq Bits(size)
  PROVE  /\ Shr(x, n) \subseteq Bits(size)
         /\ Shl(x, n, size) \subseteq Bits(size)
         /\ n <= size => Ror(x, n, size) \subseteq Bits(size)
         /\ \A b \in Int : b \in Shr(x, n) <=> b >= 0 /\ b + n \in x
         /\ \A b \in Int : b \in Shl(x, n, size) <=> b < size /\ b - n \in x
<1>1. \A b : b \in x => b \in Int /\ b >= 0 /\ b < size
  BY DEF Bits
<1>2. \A b \in Int : b \in Shr(x, n) <=> b >= 0 /\ b + n \in x
  <2>1. ASSUME NEW b \in Int, b \in Shr(x, n) PROVE b >= 0 /\ b + n \in x
    BY <1>1, <2>1 DEF Shr
  <2>2. ASSUME NEW b \in Int, b >= 0, b + n \in x PROVE b \in Shr(x, n)
    <3>1. b + n >= n /\ (b + n) - n = b
      BY <2>2
    <3> QED BY <2>2, <3>1 DEF Shr
  <2> QED BY <2>1, <2>2
<1>3. \A b \in Int : b \in Shl(x, n, size) <=> b < size /\ b - n \in x
  <2>1. ASSUME NEW b \in Int, b \in Shl(x, n, size) PROVE b < size /\ b - n \in x
    BY <1>1, <2>1 DEF Shl
  <2>2. ASSUME NEW b \in Int, b < size, b - n \in x PROVE b \in Shl(x, n, size)
    <3>1. (b - n) + n = b
      OBVIOUS
    <3> QED BY <2>2, <3>1 DEF Shl
  <2> QED BY <2>1, <2>2
<1>4. Shr(x, n) \subseteq Bits(size)
  BY <1>1 DEF Shr, Bits
<1>5. Shl(x, n, size) \subseteq Bits(size)
  BY <1>1 DEF Shl, Bits
<1>6. ASSUME n <= size PROVE Shl(x, size - n, size) \subseteq Bits(size)
  BY <1>1, <1>6 DEF Shl, Bits
<1> QED BY <1>2, <1>3, <1>4, <1>5, <1>6 DEF Ror

\* The manual's result is the instruction's.
LEMMA ArmSame ==
  ASSUME insn' = insn
  PROVE  Arm' = Arm
<1>1. Width' = Width
  BY DEF Width, i
<1>2. FieldAt' = FieldAt
  BY <1>1 DEF FieldAt, i
<1>3. FieldIs' = FieldIs
  BY <1>1, <1>2 DEF FieldIs, i
<1>4. ZeroRun' = ZeroRun
  BY <1>1 DEF ZeroRun, i
<1>5. SignRun' = SignRun
  BY <1>1 DEF SignRun, i
<1> QED BY <1>1, <1>2, <1>3, <1>4, <1>5 DEF Arm, Low, BytesReversed, Ld, LdN, Narrow, i

\* A step decides how the instruction ends and does not change it.
LEMMA StepsOnce ==
  ASSUME Next
  PROVE  insn' = insn /\ (outcome = "fetched" \/ (outcome' = outcome /\ rd' = rd))
BY DEF Next, LogicalImm, MoveWide, Bitfield, Extract, Reverse, Count, Divide, Multiply, Done, Div,
       Is, St, Bad, Trap, vars

\* How a step ends: with a word of the instruction's width, or refused.
Ended == \/ outcome' = "kNext" /\ rd' \subseteq Bits(Width)
         \/ outcome' = "kBad" /\ rd' = rd

LEMMA LogicalImmEnds ==
  ASSUME Decoded(insn), LogicalImm
  PROVE  Ended
<1>1. CASE Bad
  BY <1>1 DEF Bad, Ended
<1>2. CASE ~Bad
  <2>1. PICK w : /\ outcome' = "kNext"
                 /\ rd' = CASE i.form = "and" -> Ld(i.n) \cap Ld(w)
                            [] i.form = "orr" -> Ld(i.n) \cup Ld(w)
                            [] i.form = "eor" -> Xor(Ld(i.n), Ld(w))
    BY <1>2 DEF LogicalImm, St
  <2>2. \A x : Ld(x) \subseteq Bits(Width)
    BY DEF Ld
  <2>3. i.form \in {"and", "orr", "eor"}
    BY DEF LogicalImm, Is
  <2> QED BY <2>1, <2>2, <2>3 DEF Ended, Xor
<1> QED BY <1>1, <1>2

LEMMA MoveWideEnds ==
  ASSUME Decoded(insn), MoveWide
  PROVE  Ended
<1>1. i.form \in {"movn", "movz", "movk"}
  BY DEF MoveWide, Is
<1>2. i.hw \in 0 .. 3 /\ i.imm \subseteq Bits(16) /\ i.d \subseteq Bits(64)
  BY <1>1, Operands DEF i
<1> DEFINE field == Shl(i.imm, 16 * i.hw, 64)
           keep  == Not(Shl(Bits(16), 16 * i.hw, 64), 64)
<1>3. CASE ~i.sf /\ i.hw > 1
  BY <1>3 DEF MoveWide, Bad, Ended
<1>4. CASE i.sf \/ i.hw <= 1
  <2>1. field \subseteq Bits(Width)
    <3>1. \A b \in i.imm : b \in Int /\ 0 <= b /\ b < 16
      BY <1>2 DEF Bits
    <3>2. \A b \in i.imm : b + 16 * i.hw < Width /\ b + 16 * i.hw >= 0
      BY <1>2, <1>4, <3>1, Widths
    <3> QED BY <1>2, <3>1, <3>2, Widths DEF Shl, Bits
  <2>2. (Ld(i.d) \cap keep) \cup field \subseteq Bits(Width)
    BY <2>1 DEF Ld
  <2>3. Moved(i.form, field, Width) \subseteq Bits(Width)
    BY <2>1 DEF Moved, Not
  <2>4. /\ outcome' = "kNext"
        /\ rd' = IF i.form = "movk" THEN (Ld(i.d) \cap keep) \cup field ELSE Moved(i.form, field, Width)
    BY <1>2, <1>4 DEF MoveWide, St
  <2> HIDE DEF field, keep
  <2> QED BY <2>2, <2>3, <2>4 DEF Ended
<1> QED BY <1>2, <1>3, <1>4

LEMMA BitfieldEnds ==
  ASSUME Decoded(insn), Bitfield
  PROVE  Ended
<1>1. i.form \in {"ubfm", "sbfx", "sbfiz", "bfm"}
  BY DEF Bitfield, Is
<1>2. CASE Bad
  BY <1>2 DEF Bad, Ended
<1>3. CASE ~Bad
  <2>1. PICK k :
         LET R    == i.immr % Width
             S    == i.imms % Width
             m    == Ld(k.wmask \cap k.tmask)
             bot  == Ror(Ld(i.n), R, Width) \cap m
             sign == Neg1(Shr(Ld(i.n), S) \cap {0}, Width)
         IN St(CASE i.form = "ubfm" -> bot
                 [] i.form = "bfm"  -> bot \cup (Ld(i.d) \cap Not(m, Width))
                 [] OTHER           -> bot \cup (sign \cap Not(m, Width)))
    BY <1>3, Zenon DEF Bitfield
  <2> DEFINE R    == i.immr % Width
             S    == i.imms % Width
             m    == Ld(k.wmask \cap k.tmask)
             bot  == Ror(Ld(i.n), R, Width) \cap m
             sign == Neg1(Shr(Ld(i.n), S) \cap {0}, Width)
  <2>2. bot \subseteq Bits(Width)
    BY DEF Ld
  <2>3. \A x : x \cap Not(m, Width) \subseteq Bits(Width)
    BY DEF Not
  <2>4. /\ outcome' = "kNext"
        /\ rd' = CASE i.form = "ubfm" -> bot
                   [] i.form = "bfm"  -> bot \cup (Ld(i.d) \cap Not(m, Width))
                   [] OTHER           -> bot \cup (sign \cap Not(m, Width))
    BY <2>1, Zenon DEF St
  <2> HIDE DEF bot, m, sign
  <2>5. rd' = bot \/ rd' = bot \cup (Ld(i.d) \cap Not(m, Width)) \/ rd' = bot \cup (sign \cap Not(m, Width))
    BY <1>1, <2>4
  <2> QED BY <2>2, <2>3, <2>4, <2>5 DEF Ended
<1> QED BY <1>2, <1>3

LEMMA ExtractEnds ==
  ASSUME Decoded(insn), Extract
  PROVE  Ended
<1>1. i.form = "extr"
  BY DEF Extract, Is
<1>2. i.lsb \in 0 .. 63
  BY <1>1, Operands DEF i
<1> DEFINE s == i.lsb % Width
<1>3. s \in Nat /\ s <= Width /\ Width \in Nat
  BY <1>2, Widths
<1>4. Ld(i.m) \subseteq Bits(Width) /\ Ld(i.n) \subseteq Bits(Width)
  BY DEF Ld
<1>5. rd' = Shrd(Ld(i.m), Ld(i.n), s, Width) /\ outcome' = "kNext"
  BY DEF Extract, St
<1> HIDE DEF s
<1>6. Width - s \in Nat
  BY <1>3
<1>7. Shr(Ld(i.m), s) \subseteq Bits(Width) /\ Shl(Ld(i.n), Width - s, Width) \subseteq Bits(Width)
  BY <1>3, <1>4, <1>6, Shifts
<1> QED BY <1>5, <1>7 DEF Ended, Shrd

\* A step of a swap network keeps the width.
LEMMA SwapStep ==
  ASSUME Decoded(insn), NEW v, v \subseteq Bits(Width), NEW s \in Nat
  PROVE  swap_step(v, s) \subseteq Bits(Width)
<1>1. v \cap Evens(s) \subseteq Bits(Width) /\ Width \in Nat
  BY Widths
<1> QED BY <1>1, Shifts DEF swap_step

LEMMA ReverseEnds ==
  ASSUME Decoded(insn), Reverse
  PROVE  Ended
<1>1. Ld(i.n) \subseteq Bits(Width) /\ Width \in {32, 64}
  BY Widths DEF Ld
<1>2. CASE Is({"rbit"})
  <2> DEFINE v == swap_step(swap_step(swap_step(swap_step(swap_step(Ld(i.n), 1), 2), 4), 8), 16)
  <2>1. v \subseteq Bits(Width)
    BY <1>1, SwapStep
  <2>2. /\ outcome' = "kNext"
        /\ rd' = IF i.sf THEN Shr(v, 32) \cup Shl(v, 32, 64) ELSE v
    BY <1>2 DEF Reverse, Is, St
  <2> HIDE DEF v
  <2>3. CASE i.sf
    <3>1. Width = 64
      BY <2>3 DEF Width
    <3>2. Shr(v, 32) \subseteq Bits(64) /\ Shl(v, 32, 64) \subseteq Bits(64)
      BY <2>1, <3>1, Shifts
    <3> QED BY <2>2, <2>3, <3>1, <3>2 DEF Ended
  <2>4. CASE ~i.sf
    BY <2>1, <2>2, <2>4 DEF Ended
  <2> QED BY <2>3, <2>4
<1>3. CASE Is({"rev16"}) /\ St(swap_step(Ld(i.n), 8))
  BY <1>1, <1>3, SwapStep DEF St, Ended
<1>4. CASE Is({"rev32"}) /\ St(swap_step(swap_step(Ld(i.n), 8), 16))
  BY <1>1, <1>4, SwapStep DEF St, Ended
<1>5. CASE Is({"rev"}) /\ St(Bswap(Ld(i.n), Width))
  <2>1. ASSUME NEW b \in Ld(i.n) PROVE (Width - 8) - 8 * (b \div 8) + (b % 8) \in Bits(Width)
    <3>1. b \in 0 .. Width - 1
      BY <1>1 DEF Bits
    <3>2. CASE Width = 32
      BY <3>1, <3>2 DEF Bits
    <3>3. CASE Width = 64
      BY <3>1, <3>3 DEF Bits
    <3> QED BY <1>1, <3>2, <3>3
  <2>2. Bswap(Ld(i.n), Width) \subseteq Bits(Width)
    BY <2>1 DEF Bswap
  <2> QED BY <1>5, <2>2 DEF St, Ended
<1> QED BY <1>2, <1>3, <1>4, <1>5 DEF Reverse, Is

\* The bits of a number of fewer digits are bits of the register.
LEMMA WordFits ==
  ASSUME Decoded(insn), NEW v, NEW size \in Nat, size <= Width
  PROVE  WordOf(v, size) \subseteq Bits(Width)
BY Widths DEF WordOf, Bits

LEMMA CountEnds ==
  ASSUME Decoded(insn), Count
  PROVE  Ended
<1>1. PICK v : outcome' = "kNext" /\ rd' = WordOf(v, 7)
  BY DEF Count, St
<1>2. 7 <= Width
  BY Widths
<1> QED BY <1>1, <1>2, WordFits DEF Ended

\* Division without a sign: never a trap, and the manual's quotient.
LEMMA UdivResult ==
  ASSUME Decoded(insn), Divide, i.form = "udiv"
  PROVE  /\ outcome' = "kNext"
         /\ rd' = IF LdN(i.m) = {} THEN {}
                  ELSE WordOf(NumOf(LdN(i.n), Narrow) \div NumOf(LdN(i.m), Narrow), Narrow)
<1> DEFINE n == LdN(i.n)
           m == LdN(i.m)
           v == NumOf(n, Narrow)
           w == NumOf(m, Narrow)
<1>1. n \in SUBSET Bits(Narrow) /\ m \in SUBSET Bits(Narrow)
  BY DEF LdN
<1>2. Narrow \in Nat
  BY Widths
<1>3. v \in 0 .. 2 ^ Narrow - 1 /\ w \in 0 .. 2 ^ Narrow - 1 /\ v \in Nat /\ w \in Nat
      /\ (w = 0 <=> m = {})
  <2> HIDE DEF n, m
  <2> QED BY <1>1, <1>2, NumOfFacts, EmptyIsZero
<1>4. IF m = {} THEN St({}) ELSE Div(v, w, 0, Narrow)
  BY DEF Divide, Is
<1>5. CASE m = {}
  BY <1>4, <1>5 DEF St
<1>6. CASE m # {}
  <2> HIDE DEF n, m, v, w
  <2>1. w > 0
    BY <1>3, <1>6
  <2>2. Quotient(v, w) = v \div w /\ Quotient(v, w) \in 0 .. v
    BY <1>3, <2>1, UnsignedQuotient
  <2>3. Quotient(v, w) \in 0 .. (0 + 2 ^ Narrow - 1) /\ w # 0
    BY <1>2, <1>3, <2>1, <2>2, Powers
  <2>4. St(WordOf(Quotient(v, w), Narrow))
    BY <1>4, <1>6, <2>3 DEF Div
  <2> QED BY <1>6, <2>2, <2>4 DEF St, n, m, v, w
<1> QED BY <1>5, <1>6

\* Division with a sign: the quotient that the host could not hold is taken
\* by negation instead.
LEMMA SdivResult ==
  ASSUME Decoded(insn), Divide, i.form = "sdiv"
  PROVE  /\ outcome' = "kNext"
         /\ rd' = IF LdN(i.m) = {} THEN {}
                  ELSE WordOf(Quotient(SNum(LdN(i.n), Narrow), SNum(LdN(i.m), Narrow)), Narrow)
<1> DEFINE n == LdN(i.n)
           m == LdN(i.m)
           u == NumOf(n, Narrow)
           v == SNum(n, Narrow)
           w == SNum(m, Narrow)
           d == 2 ^ (Narrow - 1)
<1>1. n \in SUBSET Bits(Narrow) /\ m \in SUBSET Bits(Narrow)
  BY DEF LdN
<1>2. Narrow \in Nat /\ Narrow >= 1
  BY Widths
<1>3. /\ v \in -d .. d - 1 /\ w \in -d .. d - 1 /\ v \in Int /\ w \in Int
      /\ (w = 0 <=> m = {}) /\ (w = -1 <=> m = Bits(Narrow))
      /\ \E q \in Int : v = u + 2 ^ Narrow * q
  <2> HIDE DEF n, m
  <2>1. v \in -d .. d - 1 /\ v \in Int /\ \E q \in Int : v = u + 2 ^ Narrow * q
    BY ONLY <1>1, <1>2, SNumFacts
  <2>2. w \in -d .. d - 1 /\ w \in Int /\ (w = 0 <=> m = {}) /\ (w = -1 <=> m = Bits(Narrow))
    BY ONLY <1>1, <1>2, SNumFacts
  <2> QED BY <2>1, <2>2
<1>4. u \in Nat
  <2> HIDE DEF n
  <2> QED BY <1>1, <1>2, NumOfFacts
<1>5. d \in Nat /\ d > 0 /\ 2 ^ Narrow = 2 * d
  BY <1>1, <1>2, HighestBit
<1>6. IF m = {} THEN St({})
      ELSE IF Negates(m, Narrow) THEN St(WordOf(-u, Narrow)) ELSE Div(v, w, -d, Narrow)
  BY DEF Divide, Is
<1>7. CASE m = {}
  BY <1>6, <1>7 DEF St
<1>8. CASE m = Bits(Narrow) /\ m # {}
  <2> HIDE DEF n, m, u, v, w, d
  <2>1. PICK q \in Int : v = u + 2 ^ Narrow * q
    BY <1>3
  <2>2. 2 ^ Narrow \in Nat
    BY <1>2, Powers
  <2>3. -v = -u + 2 ^ Narrow * (-q)
    <3>1. 2 ^ Narrow * (-q) = -(2 ^ Narrow * q)
      BY <2>1, <2>2
    <3>2. 2 ^ Narrow * q \in Int
      BY <2>1, <2>2
    <3> QED BY <1>4, <2>1, <3>1, <3>2
  <2>4. WordOf(-u + 2 ^ Narrow * (-q), Narrow) = WordOf(-u, Narrow)
    <3>1. -u \in Int /\ -q \in Int
      BY <1>4, <2>1
    <3> QED BY <1>2, <3>1, WordTurn
  <2>5. Quotient(v, w) = -v
    <3>1. w = -1
      BY <1>3, <1>8
    <3> QED BY <1>3, <3>1, NegativeQuotient
  <2>6. St(WordOf(-u, Narrow))
    BY <1>6, <1>8 DEF Negates
  <2>7. WordOf(Quotient(v, w), Narrow) = WordOf(-u, Narrow)
    BY ONLY <2>3, <2>4, <2>5
  <2> QED BY <1>8, <2>6, <2>7 DEF St, n, m, v, w
<1>9. CASE m # Bits(Narrow) /\ m # {}
  <2> HIDE DEF n, m, u, v, w, d
  <2>1. w # 0 /\ w # -1
    BY <1>3, <1>9
  <2>2. Quotient(v, w) \in -d .. (-d + 2 * d - 1)
    BY ONLY <1>3, <1>5, <2>1, SignedQuotient
  <2>3. Quotient(v, w) \in -d .. (-d + 2 ^ Narrow - 1)
    BY <1>5, <2>2
  <2>4. St(WordOf(Quotient(v, w), Narrow))
    BY <1>6, <1>9, <2>1, <2>3 DEF Div, Negates
  <2> QED BY <1>9, <2>4 DEF St, n, m, v, w
<1> QED BY <1>7, <1>8, <1>9

LEMMA DivideEnds ==
  ASSUME Decoded(insn), Divide
  PROVE  Ended
<1>1. i.form \in {"udiv", "sdiv"}
  BY DEF Divide, Is
<1>2. PICK v : outcome' = "kNext" /\ (rd' = {} \/ rd' = WordOf(v, Narrow))
  <2>1. CASE i.form = "udiv"
    BY <2>1, UdivResult
  <2>2. CASE i.form = "sdiv"
    BY <2>2, SdivResult
  <2> QED BY <1>1, <2>1, <2>2
<1> QED BY <1>2, Widths, WordFits DEF Ended

LEMMA MultiplyEnds ==
  ASSUME Decoded(insn), Multiply
  PROVE  Ended
<1>1. CASE i.form \in {"madd", "msub"}
  <2>1. PICK v : outcome' = "kNext" /\ rd' = WordOf(v, Narrow)
    BY <1>1 DEF Multiply, Is, St
  <2> QED BY <2>1, Widths, WordFits DEF Ended
<1>2. CASE i.form \notin {"madd", "msub"}
  <2>1. PICK v : outcome' = "kNext" /\ rd' = WordOf(v, Digits) /\ i.sf
    BY <1>2 DEF Multiply, Is, St
  <2>2. Narrow = Digits
    BY <2>1 DEF Narrow
  <2> QED BY <2>1, <2>2, Widths, WordFits DEF Ended
<1> QED BY <1>1, <1>2

\* Whatever the step.
LEMMA NextEnds ==
  ASSUME Decoded(insn), Next
  PROVE  Ended \/ UNCHANGED vars
BY LogicalImmEnds, MoveWideEnds, BitfieldEnds, ExtractEnds, ReverseEnds, CountEnds, DivideEnds,
   MultiplyEnds DEF Next, Done

----------------------------------------------------------------------------
(* What every behaviour keeps.                                             *)

\* No register ever gets a bit beyond the width of the instruction: what st_r
\* relies on when it moves 32 bits, and the host's registers hold for the
\* next instruction (tr_dp_imm, tr_dp_reg, st_r).
THEOREM TypeCorrect == Spec => []TypeOK
<1>1. Init => TypeOK
  BY DEF Init, TypeOK
<1>2. TypeOK /\ [Next]_vars => TypeOK'
  <2> SUFFICES ASSUME TypeOK, [Next]_vars PROVE TypeOK'
    OBVIOUS
  <2>1. Decoded(insn)
    BY InsnsAssumption DEF TypeOK
  <2>2. CASE UNCHANGED vars
    BY <2>2 DEF TypeOK, vars, Width, i
  <2>3. CASE Next
    <3>1. insn' = insn
      BY <2>3, StepsOnce
    <3>2. Width' = Width
      BY <3>1 DEF Width, i
    <3>3. Ended \/ UNCHANGED vars
      BY <2>1, <2>3, NextEnds
    <3> QED BY <2>2, <3>1, <3>2, <3>3 DEF TypeOK, Ended
  <2> QED BY <2>2, <2>3
<1> QED BY <1>1, <1>2, PTL DEF Spec

\* No division takes the host process down, for any operands of any width:
\* the only quotients the host's div and idiv cannot hold are those by zero
\* and of the least number by -1, and both are taken another way (UDIV, SDIV
\* in tr_dp_reg).
THEOREM NoDivisionTraps == Spec => []NoTrap
<1>1. Init => NoTrap
  BY DEF Init, NoTrap
<1>2. TypeOK /\ NoTrap /\ [Next]_vars => NoTrap'
  <2> SUFFICES ASSUME TypeOK, NoTrap, [Next]_vars PROVE NoTrap'
    OBVIOUS
  <2>1. Decoded(insn)
    BY InsnsAssumption DEF TypeOK
  <2>2. CASE UNCHANGED vars
    BY <2>2 DEF NoTrap, vars
  <2>3. CASE Next
    BY <2>1, <2>2, <2>3, NextEnds DEF NoTrap, Ended
  <2> QED BY <2>2, <2>3
<1> QED BY <1>1, <1>2, TypeCorrect, PTL DEF Spec

----------------------------------------------------------------------------
(* The manual's results, one group of instructions after the other.        *)

\* The step yields what the manual says, and refuses what it reserves.
Right ==
  /\ outcome' = "kNext" => Arm = {rd'}
  /\ outcome' = "kBad"  => Arm = {}

LEMMA DivideRight ==
  ASSUME Decoded(insn), Divide
  PROVE  Right
<1>1. CASE i.form = "udiv"
  <2>1. Arm = {IF LdN(i.m) = {} THEN {}
               ELSE WordOf(NumOf(LdN(i.n), Narrow) \div NumOf(LdN(i.m), Narrow), Narrow)}
    BY <1>1 DEF Arm
  <2> QED BY <1>1, <2>1, UdivResult DEF Right
<1>2. CASE i.form = "sdiv"
  <2>1. Arm = {IF LdN(i.m) = {} THEN {}
               ELSE WordOf(Quotient(SNum(LdN(i.n), Narrow), SNum(LdN(i.m), Narrow)), Narrow)}
    BY <1>2 DEF Arm
  <2> QED BY <1>2, <2>1, SdivResult DEF Right
<1> QED BY <1>1, <1>2 DEF Divide, Is

\* Sums and differences of products of the low parts of registers.
LEMMA MaddRight ==
  ASSUME Decoded(insn), Multiply, i.form \in {"madd", "msub"}
  PROVE  Right
<1> DEFINE m  == 2 ^ Narrow
           a  == NumOf(i.d, Digits)
           u  == NumOf(i.n, Digits)
           v  == NumOf(i.m, Digits)
           a0 == NumOf(LdN(i.d), Narrow)
           u0 == NumOf(LdN(i.n), Narrow)
           v0 == NumOf(LdN(i.m), Narrow)
           p0 == Imul(u0, v0, Narrow)
<1>1. i.d \in SUBSET Bits(Digits) /\ i.n \in SUBSET Bits(Digits) /\ i.m \in SUBSET Bits(Digits)
  BY Operands DEF i
<1>2. Narrow \in Nat /\ Narrow <= Digits /\ Digits \in Nat
  BY Widths, DigitsFacts
<1>3. a \in Int /\ u \in Int /\ v \in Int /\ m \in Nat /\ m > 0
  BY <1>1, <1>2, NumOfFacts, Powers
<1>4. a0 = a % m /\ u0 = u % m /\ v0 = v % m
  BY <1>1, <1>2, LowPart DEF LdN
<1>5. p0 = (u0 * v0) % m
  BY DEF Imul
<1>6. St(WordOf(IF i.form = "msub" THEN a0 - p0 ELSE a0 + p0, Narrow))
  BY DEF Multiply, Is
<1> HIDE DEF m, a, u, v, a0, u0, v0, p0
<1>7. /\ \E q \in Int : a0 + p0 = (a + u * v) + m * q
      /\ \E q \in Int : a0 - p0 = (a - u * v) + m * q
  <2>1. /\ \E q \in Int : (a % m) + (((u % m) * (v % m)) % m) = (a + u * v) + m * q
        /\ \E q \in Int : (a % m) - (((u % m) * (v % m)) % m) = (a - u * v) + m * q
    BY ONLY <1>3, LowDigitsOfSum
  <2> QED BY <1>4, <1>5, <2>1
<1>8. WordOf(a0 + p0, Narrow) = WordOf(a + u * v, Narrow)
  <2>1. PICK q \in Int : a0 + p0 = (a + u * v) + m * q
    BY <1>7
  <2>2. a + u * v \in Int
    BY <1>3
  <2>3. WordOf((a + u * v) + 2 ^ Narrow * q, Narrow) = WordOf(a + u * v, Narrow)
    BY ONLY <1>2, <2>1, <2>2, WordTurn
  <2> QED BY <2>1, <2>3 DEF m
<1>9. WordOf(a0 - p0, Narrow) = WordOf(a - u * v, Narrow)
  <2>1. PICK q \in Int : a0 - p0 = (a - u * v) + m * q
    BY <1>7
  <2>2. a - u * v \in Int
    BY <1>3
  <2>3. WordOf((a - u * v) + 2 ^ Narrow * q, Narrow) = WordOf(a - u * v, Narrow)
    BY ONLY <1>2, <2>1, <2>2, WordTurn
  <2> QED BY <2>1, <2>3 DEF m
<1>10. CASE i.form = "madd"
  <2>1. Arm = {WordOf(a + u * v, Narrow)}
    BY <1>10 DEF Arm, a, u, v
  <2> QED BY <1>6, <1>8, <1>10, <2>1 DEF St, Right
<1>11. CASE i.form = "msub"
  <2>1. Arm = {WordOf(a - u * v, Narrow)}
    BY <1>11 DEF Arm, a, u, v
  <2> QED BY <1>6, <1>9, <1>11, <2>1 DEF St, Right
<1> QED BY <1>10, <1>11

\* The long forms take their factors from the low halves, with or without
\* sign.
LEMMA LongRight ==
  ASSUME Decoded(insn), Multiply, i.form \in {"smaddl", "smsubl", "umaddl", "umsubl"}
  PROVE  Right
<1> DEFINE m == 2 ^ Digits
           a == NumOf(i.d, Digits)
           x == Low(i.n)
           y == Low(i.m)
           h == Digits \div 2
<1>1. i.d \in SUBSET Bits(Digits)
  BY Operands DEF i
<1>2. Digits \in Nat /\ h \in Nat /\ h >= 1
  BY DigitsFacts
<1>3. x \in Int /\ y \in Int
  <2>1. i.n \cap Bits(h) \in SUBSET Bits(h) /\ i.m \cap Bits(h) \in SUBSET Bits(h)
    OBVIOUS
  <2>2. /\ SNum(i.n \cap Bits(h), h) \in Int /\ NumOf(i.n \cap Bits(h), h) \in Int
        /\ SNum(i.m \cap Bits(h), h) \in Int /\ NumOf(i.m \cap Bits(h), h) \in Int
    <3> HIDE DEF h
    <3> QED BY <1>2, <2>1, SNumFacts, NumOfFacts
  <2> QED BY <2>2 DEF Low
<1>4. a \in Int /\ m \in Nat /\ m > 0
  BY <1>1, <1>2, NumOfFacts, Powers
<1> DEFINE p == x * y
           p0 == p % m
           q == p \div m
<1>5. p \in Int
  <2> HIDE DEF x, y
  <2> QED BY <1>3
<1>6. St(WordOf(IF i.form \in {"smsubl", "umsubl"} THEN a - p0 ELSE a + p0, Digits))
  BY DEF Multiply, Is, Imul, Low
<1> HIDE DEF p
<1>7. q \in Int /\ p0 \in Int /\ p = m * q + p0
  <2> HIDE DEF m
  <2> QED BY <1>4, <1>5
<1> HIDE DEF a, m, q, p0
<1>8. a + p = (a + p0) + m * q /\ a - p = (a - p0) + m * (-q)
  <2>1. m * (-q) = -(m * q) /\ m * q \in Int
    BY <1>4, <1>7
  <2> QED BY <1>4, <1>5, <1>7, <2>1
<1>9. a + p0 \in Int /\ a - p0 \in Int /\ -q \in Int
  BY <1>4, <1>7
<1>10. /\ WordOf((a + p0) + 2 ^ Digits * q, Digits) = WordOf(a + p0, Digits)
       /\ WordOf((a - p0) + 2 ^ Digits * (-q), Digits) = WordOf(a - p0, Digits)
  BY ONLY <1>2, <1>7, <1>9, WordTurn
<1>11. WordOf(a + p, Digits) = WordOf(a + p0, Digits) /\ WordOf(a - p, Digits) = WordOf(a - p0, Digits)
  BY <1>8, <1>10 DEF m
<1>12. CASE i.form \in {"smaddl", "umaddl"}
  <2>1. Arm = {WordOf(a + p, Digits)}
    BY <1>12 DEF Arm, a, p
  <2> QED BY <1>6, <1>11, <1>12, <2>1 DEF St, Right
<1>13. CASE i.form \in {"smsubl", "umsubl"}
  <2>1. Arm = {WordOf(a - p, Digits)}
    BY <1>13 DEF Arm, a, p
  <2> QED BY <1>6, <1>11, <1>13, <2>1 DEF St, Right
<1> QED BY <1>12, <1>13

LEMMA MultiplyRight ==
  ASSUME Decoded(insn), Multiply
  PROVE  Right
<1>1. CASE i.form \in {"madd", "msub"}
  BY <1>1, MaddRight
<1>2. CASE i.form \in {"smaddl", "smsubl", "umaddl", "umsubl"}
  BY <1>2, LongRight
<1>3. Digits \in Nat /\ Digits >= 1
  BY DigitsFacts
<1>4. CASE i.form = "umulh"
  <2> DEFINE p == NumOf(i.n, Digits) * NumOf(i.m, Digits)
  <2>1. i.n \in SUBSET Bits(Digits) /\ i.m \in SUBSET Bits(Digits)
    BY <1>4, Operands DEF i
  <2>2. p \in Int
    <3>1. NumOf(i.n, Digits) \in Int /\ NumOf(i.m, Digits) \in Int
      BY <1>3, <2>1, NumOfFacts
    <3> QED BY <3>1
  <2>3. Arm = {{b \in Bits(Digits) : b + Digits \in WordOf(p, 2 * Digits)}}
    BY <1>4 DEF Arm
  <2>4. rd' = WordOf(p \div 2 ^ Digits, Digits) /\ outcome' = "kNext"
    BY <1>4 DEF Multiply, Is, St
  <2> HIDE DEF p
  <2> QED BY <1>3, <2>2, <2>3, <2>4, HighHalf DEF Right
<1>5. CASE i.form = "smulh"
  <2> DEFINE p == SNum(i.n, Digits) * SNum(i.m, Digits)
  <2>1. i.n \in SUBSET Bits(Digits) /\ i.m \in SUBSET Bits(Digits)
    BY <1>5, Operands DEF i
  <2>2. p \in Int
    <3>1. SNum(i.n, Digits) \in Int /\ SNum(i.m, Digits) \in Int
      BY <1>3, <2>1, SNumFacts
    <3> QED BY <3>1
  <2>3. Arm = {{b \in Bits(Digits) : b + Digits \in WordOf(p, 2 * Digits)}}
    BY <1>5 DEF Arm
  <2>4. rd' = WordOf(p \div 2 ^ Digits, Digits) /\ outcome' = "kNext"
    BY <1>5 DEF Multiply, Is, St
  <2> HIDE DEF p
  <2> QED BY <1>3, <2>2, <2>3, <2>4, HighHalf DEF Right
<1> QED BY <1>1, <1>2, <1>4, <1>5 DEF Multiply, Is

\* The greatest of a set of positions.
LEMMA Greatest ==
  ASSUME NEW size \in Nat, NEW x \in SUBSET Bits(size), x # {}
  PROVE  Max(x) \in x /\ \A b \in x : Max(x) >= b
<1> DEFINE T == {size - 1 - b : b \in x}
<1>1. \A b \in x : b \in Int /\ 0 <= b /\ b < size
  BY DEF Bits
<1>2. T \in SUBSET Nat /\ T # {}
  BY <1>1
<1>3. PICK t \in T : \A y \in T : t <= y
  <2> HIDE DEF T
  <2> QED BY <1>2, Least
<1>4. PICK a \in x : t = size - 1 - a
  OBVIOUS
<1>5. \A b \in x : a >= b
  <2>1. \A b \in x : t <= size - 1 - b
    BY <1>3
  <2> HIDE DEF T
  <2> QED BY <1>1, <1>4, <2>1
<1>6. \E b \in x : \A c \in x : b >= c
  BY <1>5
<1> QED BY ONLY <1>6, Zenon DEF Max

\* It is the only one that is not less than any.
LEMMA OneGreatest ==
  ASSUME NEW S \in SUBSET Int, NEW a \in S, \A b \in S : a >= b
  PROVE  Max(S) = a
<1>1. \E x \in S : \A b \in S : x >= b
  OBVIOUS
<1>2. Max(S) \in S /\ \A b \in S : Max(S) >= b
  BY ONLY <1>1, Zenon DEF Max
<1>3. Max(S) >= a /\ a >= Max(S) /\ Max(S) \in Int /\ a \in Int
  BY <1>2
<1> QED BY <1>3

LEMMA CountRight ==
  ASSUME Decoded(insn), Exact(insn), Count
  PROVE  Right
<1> DEFINE x == Ld(i.n)
<1>1. i.form = "clz"
  BY DEF Exact, Count, Is, i
<1>2. Width \in Nat /\ x \in SUBSET Bits(Width)
  BY Widths DEF Ld
<1>3. rd' = WordOf(IF x = {} THEN Width ELSE Width - 1 - Max(x), 7) /\ outcome' = "kNext"
  BY <1>1 DEF Count, St, Bsr
<1>4. ZeroRun \in SUBSET Int
  BY <1>2 DEF ZeroRun
<1>5. \A b \in Int : b \in x <=> b \in i.n /\ 0 <= b /\ b <= Width - 1
  BY DEF Ld, Bits
<1>6. ASSUME NEW k \in 0 .. Width
      PROVE  k \in ZeroRun <=> \A b \in x : b < Width - k
  <2>1. ASSUME k \in ZeroRun, NEW b \in x PROVE b < Width - k
    <3>1. b \in Int /\ b \in i.n /\ 0 <= b /\ b <= Width - 1
      BY <1>2, <1>5 DEF Bits
    <3>2. b \notin (Width - k) .. (Width - 1)
      BY <2>1, <3>1 DEF ZeroRun
    <3> QED BY <1>2, <3>1, <3>2
  <2>2. ASSUME \A b \in x : b < Width - k PROVE k \in ZeroRun
    <3>1. ASSUME NEW b \in (Width - k) .. (Width - 1), b \in i.n PROVE FALSE
      <4>1. b \in x /\ b >= Width - k /\ b \in Int
        BY <1>2, <1>5, <3>1
      <4> QED BY <1>2, <2>2, <4>1
    <3> QED BY <3>1 DEF ZeroRun
  <2> QED BY <2>1, <2>2
<1> HIDE DEF x
<1>7. CASE x = {}
  <2>1. Width \in ZeroRun /\ \A k \in ZeroRun : Width >= k
    BY <1>2, <1>6, <1>7 DEF ZeroRun
  <2>2. Max(ZeroRun) = Width
    BY <1>4, <2>1, OneGreatest
  <2> QED BY <1>1, <1>3, <1>7, <2>2 DEF Right, Arm
<1>8. CASE x # {}
  <2> DEFINE a == Max(x)
             k == Width - 1 - a
  <2>1. a \in x /\ \A b \in x : a >= b
    BY <1>2, <1>8, Greatest
  <2>2. a \in Int /\ 0 <= a /\ a < Width
    <3>1. x \subseteq 0 .. Width - 1
      BY <1>2 DEF Bits
    <3> HIDE DEF a
    <3> QED BY <1>2, <2>1, <3>1
  <2> HIDE DEF a
  <2>3. \A b \in x : b \in Int /\ b <= a
    BY <1>2, <2>1, <2>2 DEF Bits
  <2>4. k \in 0 .. Width /\ \A b \in x : b < Width - k
    BY <1>2, <2>2, <2>3
  <2>5. k \in ZeroRun
    <3> HIDE DEF k
    <3> QED BY <1>6, <2>4
  <2>6. ASSUME NEW j \in ZeroRun PROVE k >= j
    <3>1. j \in 0 .. Width
      BY DEF ZeroRun
    <3>2. a < Width - j
      BY <1>6, <2>1, <3>1
    <3> QED BY <1>2, <2>2, <3>1, <3>2
  <2>7. Max(ZeroRun) = k
    <3> HIDE DEF k
    <3> QED BY <1>4, <2>5, <2>6, OneGreatest
  <2>8. rd' = WordOf(k, 7)
    BY <1>3, <1>8 DEF a
  <2> HIDE DEF k
  <2>9. Arm = {WordOf(k, 7)}
    BY <1>1, <2>7 DEF Arm
  <2> QED BY <1>3, <2>8, <2>9 DEF Right
<1> QED BY <1>3, <1>7, <1>8

\* Where a shift puts the 16 bits of a wide move.
LEMMA FieldBits ==
  ASSUME NEW hw \in 0 .. 3, NEW x, x \subseteq Bits(16)
  PROVE  \A b \in Bits(64) : b \in Shl(x, 16 * hw, 64) <=> b \div 16 = hw /\ b % 16 \in x
<1>1. x \subseteq Bits(64)
  BY DEF Bits
<1>2. 64 \in Nat /\ 16 * hw \in Nat
  OBVIOUS
<1>3. \A b \in Int : b \in Shl(x, 16 * hw, 64) <=> b < 64 /\ b - 16 * hw \in x
  BY ONLY <1>1, <1>2, Shifts
<1>4. ASSUME NEW b \in Bits(64)
      PROVE  b - 16 * hw \in x <=> b \div 16 = hw /\ b % 16 \in x
  <2>1. b \in 0 .. 63
    BY DEF Bits
  <2>2. \A c \in x : c \in 0 .. 15
    BY DEF Bits
  <2>3. CASE b \div 16 = hw
    <3>1. b - 16 * hw = b % 16
      BY <2>1, <2>3
    <3> QED BY <2>3, <3>1
  <2>4. CASE b \div 16 # hw
    <3>1. b - 16 * hw \notin 0 .. 15
      BY <2>1, <2>4
    <3> QED BY <2>2, <2>4, <3>1
  <2> QED BY <2>3, <2>4
<1> QED BY <1>3, <1>4 DEF Bits

LEMMA MoveWideRight ==
  ASSUME Decoded(insn), MoveWide
  PROVE  Right
<1>1. i.form \in {"movn", "movz", "movk"}
  BY DEF MoveWide, Is
<1>2. i.hw \in 0 .. 3 /\ i.imm \subseteq Bits(16) /\ i.d \subseteq Bits(64) /\ i.sf \in BOOLEAN
  BY <1>1, Operands DEF i
<1>3. CASE ~i.sf /\ i.hw > 1
  <2>1. Arm = {}
    BY <1>1, <1>3 DEF Arm
  <2>2. outcome' = "kBad"
    BY <1>3 DEF MoveWide, Bad
  <2> QED BY <2>1, <2>2 DEF Right
<1>4. CASE ~(~i.sf /\ i.hw > 1)
  <2> DEFINE field == Shl(i.imm, 16 * i.hw, 64)
             taken == Shl(Bits(16), 16 * i.hw, 64)
             keep  == Not(taken, 64)
             A == {b \in Bits(Width) :
                     IF b \div 16 = i.hw THEN ((b % 16) \in i.imm) # (i.form = "movn")
                     ELSE CASE i.form = "movz" -> FALSE
                            [] i.form = "movn" -> TRUE
                            [] i.form = "movk" -> b \in i.d}
  <2>1. Arm = {A}
    BY <1>1, <1>4 DEF Arm
  <2>2. /\ outcome' = "kNext"
        /\ rd' = IF i.form = "movk" THEN (Ld(i.d) \cap keep) \cup field ELSE Moved(i.form, field, Width)
    BY <1>2, <1>4 DEF MoveWide, St
  <2>3. rd' \subseteq Bits(Width)
    BY <2>2, MoveWideEnds DEF Ended
  <2>4. Bits(Width) \subseteq Bits(64)
    BY Widths DEF Bits
  <2>5. \A b \in Bits(64) : b \in field <=> b \div 16 = i.hw /\ b % 16 \in i.imm
    BY <1>2, FieldBits
  <2>6. \A b \in Bits(64) : b \in taken <=> b \div 16 = i.hw
    <3>1. \A b \in Bits(64) : b % 16 \in Bits(16)
      BY DEF Bits
    <3> QED BY <1>2, <3>1, FieldBits
  <2> HIDE DEF field, taken
  <2>7. ASSUME NEW b \in Bits(Width) PROVE b \in rd' <=> b \in A
    <3>1. b \in Bits(64)
      BY <2>4
    <3>2. CASE i.form = "movk"
      <4>1. b \in rd' <=> b \in field \/ (b \in i.d /\ b \notin taken)
        BY <2>2, <3>1, <3>2 DEF Ld, Not
      <4> QED BY <2>5, <2>6, <3>1, <3>2, <4>1
    <3>3. CASE i.form = "movn"
      <4>1. b \in rd' <=> b \notin field
        BY <2>2, <3>1, <3>3 DEF Moved, Not
      <4> QED BY <2>5, <3>1, <3>3, <4>1
    <3>4. CASE i.form = "movz"
      <4>1. b \in rd' <=> b \in field
        BY <2>2, <3>1, <3>4 DEF Moved
      <4> QED BY <2>5, <3>1, <3>4, <4>1
    <3> QED BY <1>1, <3>2, <3>3, <3>4
  <2>8. A \subseteq Bits(Width)
    OBVIOUS
  <2> HIDE DEF A
  <2>9. rd' = A
    BY <2>3, <2>7, <2>8
  <2> QED BY <2>1, <2>2, <2>9 DEF Right
<1> QED BY <1>3, <1>4

LEMMA ExtractRight ==
  ASSUME Decoded(insn), Exact(insn), Extract
  PROVE  Right
<1>1. i.form = "extr"
  BY DEF Extract, Is
<1>2. i.lsb \in 0 .. 63 /\ i.lsb < Width /\ Width \in Nat
  <2>1. Exact(i)
    BY DEF i
  <2> QED BY <1>1, <2>1, Operands, Widths DEF i, Exact
<1> DEFINE s == i.lsb
           A == {b \in Bits(Width) : IF b + s < Width THEN b + s \in i.m ELSE b + s - Width \in i.n}
           lo == Shr(Ld(i.m), s)
           hi == Shl(Ld(i.n), Width - s, Width)
<1>3. s % Width = s
  BY <1>2, ModSmall
<1>4. rd' = lo \cup hi /\ outcome' = "kNext"
  BY <1>3 DEF Extract, St, Shrd
<1>5. Ld(i.m) \subseteq Bits(Width) /\ Ld(i.n) \subseteq Bits(Width) /\ Width - s \in Nat /\ s \in Nat
  BY <1>2 DEF Ld
<1>6. /\ \A b \in Int : b \in lo <=> b >= 0 /\ b + s \in Ld(i.m)
      /\ \A b \in Int : b \in hi <=> b < Width /\ b - (Width - s) \in Ld(i.n)
      /\ lo \subseteq Bits(Width) /\ hi \subseteq Bits(Width)
  BY ONLY <1>2, <1>5, Shifts
<1>7. Arm = {A}
  BY <1>1, <1>2 DEF Arm
<1> HIDE DEF s, lo, hi
<1>8. ASSUME NEW b \in Bits(Width) PROVE b \in lo \cup hi <=> b \in A
  <2>1. b \in Int /\ 0 <= b /\ b < Width
    BY <1>2 DEF Bits
  <2>2. b - (Width - s) = b + s - Width
    BY <1>2, <1>5, <2>1
  <2>3. CASE b + s < Width
    <3>1. b + s \in Bits(Width) /\ b + s - Width \notin Bits(Width)
      BY <1>2, <1>5, <2>1, <2>3 DEF Bits
    <3> QED BY <1>6, <2>1, <2>2, <2>3, <3>1 DEF Ld
  <2>4. CASE ~(b + s < Width)
    <3>1. b + s \notin Bits(Width) /\ b + s - Width \in Bits(Width)
      BY <1>2, <1>5, <2>1, <2>4 DEF Bits
    <3> QED BY <1>6, <2>1, <2>2, <2>4, <3>1 DEF Ld
  <2> QED BY <2>3, <2>4
<1>9. A \subseteq Bits(Width)
  OBVIOUS
<1> HIDE DEF A
<1>10. lo \cup hi = A
  BY <1>6, <1>8, <1>9
<1> QED BY <1>4, <1>7, <1>10 DEF Right

\* A step of the network moves a group of the lowest bits up.
LEMMA SwapLow ==
  ASSUME Decoded(insn), NEW s \in {1, 2, 4, 8, 16}, NEW v, v \subseteq Bits(s)
  PROVE  swap_step(v, s) = {b + s : b \in v}
<1>1. Width \in {32, 64}
  BY Widths
<1>2. ASSUME NEW b \in v
      PROVE  /\ b \in Int /\ 0 <= b /\ b < s /\ b + s < Width
             /\ b \in Bits(Width) /\ (b \div s) % 2 = 0
  <2>1. b \in 0 .. s - 1
    BY DEF Bits
  <2>2. b \div s = 0
    BY <2>1, ModSmall
  <2>3. b + s < Width /\ b \in Bits(Width)
    BY <1>1, <2>1 DEF Bits
  <2> QED BY <2>1, <2>2, <2>3
<1>3. v \cap Evens(s) = v
  BY <1>2 DEF Evens
<1>4. Shr(v, s) = {}
  BY <1>2 DEF Shr
<1>5. Shl(v, s, Width) = {b + s : b \in v}
  BY <1>2 DEF Shl
<1> QED BY <1>3, <1>4, <1>5 DEF swap_step

LEMMA RbitRight ==
  ASSUME Decoded(insn), Exact(insn), Reverse, i.form = "rbit"
  PROVE  Right
<1> DEFINE x == Ld(i.n)
           v == swap_step(swap_step(swap_step(swap_step(swap_step(x, 1), 2), 4), 8), 16)
<1>1. x = {} \/ x = {0}
  <2>1. x \subseteq {0}
    BY DEF Exact, Ld, Width, i
  <2> QED BY <2>1
<1>2. /\ outcome' = "kNext"
      /\ rd' = IF i.sf THEN Shr(v, 32) \cup Shl(v, 32, 64) ELSE v
  BY DEF Reverse, Is, St
<1>3. Arm = {{b \in Bits(Width) : Width - 1 - b \in i.n}}
  BY DEF Arm
<1>4. Width \in {32, 64} /\ Width = IF i.sf THEN 64 ELSE 32
  BY Widths
<1>5. \A b \in Bits(Width) : b \in Int /\ 0 <= b /\ b < Width /\ Width - 1 - b \in Bits(Width)
  BY <1>4 DEF Bits
<1> HIDE DEF x
<1>6. CASE x = {}
  <2>1. \A s \in {1, 2, 4, 8, 16} : swap_step({}, s) = {}
    BY SwapLow
  <2>2. v = {}
    BY <1>6, <2>1
  <2>3. Shr({}, 32) = {} /\ Shl({}, 32, 64) = {}
    BY DEF Shr, Shl
  <2>4. {b \in Bits(Width) : Width - 1 - b \in i.n} = {}
    BY <1>5, <1>6 DEF Ld, x
  <2> HIDE DEF v
  <2> QED BY <1>2, <1>3, <2>2, <2>3, <2>4 DEF Right
<1>7. CASE x = {0}
  <2>1. swap_step({0}, 1) = {1}
    <3>1. {0} \subseteq Bits(1)
      BY DEF Bits
    <3> QED BY <3>1, SwapLow
  <2>2. swap_step({1}, 2) = {3}
    <3>1. {1} \subseteq Bits(2)
      BY DEF Bits
    <3> QED BY <3>1, SwapLow
  <2>3. swap_step({3}, 4) = {7}
    <3>1. {3} \subseteq Bits(4)
      BY DEF Bits
    <3> QED BY <3>1, SwapLow
  <2>4. swap_step({7}, 8) = {15}
    <3>1. {7} \subseteq Bits(8)
      BY DEF Bits
    <3> QED BY <3>1, SwapLow
  <2>5. swap_step({15}, 16) = {31}
    <3>1. {15} \subseteq Bits(16)
      BY DEF Bits
    <3> QED BY <3>1, SwapLow
  <2>6. v = {31}
    BY <1>7, <2>1, <2>2, <2>3, <2>4, <2>5
  <2> HIDE DEF v
  <2>7. Shr({31}, 32) = {} /\ Shl({31}, 32, 64) = {63}
    BY DEF Shr, Shl
  <2>8. rd' = {Width - 1}
    BY <1>2, <1>4, <2>6, <2>7
  <2>9. {b \in Bits(Width) : Width - 1 - b \in i.n} = {Width - 1}
    <3>1. ASSUME NEW b \in Bits(Width) PROVE Width - 1 - b \in i.n <=> b = Width - 1
      <4>1. Width - 1 - b \in i.n <=> Width - 1 - b \in x
        BY <1>5 DEF x, Ld
      <4> QED BY <1>4, <1>5, <1>7, <4>1
    <3>2. Width - 1 \in Bits(Width)
      BY <1>4 DEF Bits
    <3> QED BY <3>1, <3>2
  <2> QED BY <1>2, <1>3, <2>8, <2>9 DEF Right
<1> QED BY <1>1, <1>6, <1>7

LEMMA Rev16Right ==
  ASSUME Decoded(insn), Exact(insn), Reverse, i.form = "rev16"
  PROVE  Right
<1> DEFINE x == Ld(i.n)
           A == BytesReversed(2)
           B == {b + 8 : b \in x}
<1>1. x \subseteq Bits(8)
  BY DEF Exact, Ld, Width, i
<1>2. outcome' = "kNext" /\ rd' = swap_step(x, 8)
  BY DEF Reverse, Is, St
<1>3. Arm = {A}
  BY DEF Arm
<1>4. Width \in {32, 64}
  BY Widths
<1>5. rd' = B
  <2> HIDE DEF x
  <2> QED BY <1>1, <1>2, SwapLow
<1>6. \A c \in Bits(Width) : c \in i.n <=> c \in x
  BY DEF Ld
<1>7. \A c \in x : c \in 0 .. 7
  BY <1>1 DEF Bits
<1>8. A \subseteq Bits(Width) /\ B \subseteq Bits(Width)
  BY <1>4, <1>7 DEF BytesReversed, Bits
<1> HIDE DEF x
<1>9. ASSUME NEW b \in Bits(Width) PROVE b \in A <=> b \in B
  <2> DEFINE c == 16 * (b \div 16) + 8 * (1 - ((b \div 8) % 2)) + (b % 8)
  <2>1. b \in 0 .. 63 /\ b < Width
    BY <1>4 DEF Bits
  <2>2. c \in Bits(Width)
    BY <1>4, <2>1 DEF Bits
  <2>3. b \in A <=> c \in i.n
    BY DEF BytesReversed
  <2>4. c \in 0 .. 7 => b = c + 8
    BY <2>1
  <2>5. b - 8 \in 0 .. 7 => c = b - 8
    BY <2>1
  <2>6. b \in B <=> b - 8 \in x
    BY <1>7, <2>1
  <2> HIDE DEF c
  <2>7. c \in x <=> b - 8 \in x
    BY <1>7, <2>1, <2>4, <2>5
  <2> QED BY <1>6, <2>2, <2>3, <2>6, <2>7
<1> HIDE DEF A, B
<1>10. A = B
  BY <1>8, <1>9
<1> QED BY <1>2, <1>3, <1>5, <1>10 DEF Right

LEMMA Rev32Right ==
  ASSUME Decoded(insn), Exact(insn), Reverse, i.form = "rev32"
  PROVE  Right
<1> DEFINE x == Ld(i.n)
           A == BytesReversed(4)
           B == {b + 24 : b \in x}
<1>1. x \subseteq Bits(8)
  BY DEF Exact, Ld, Width, i
<1>2. outcome' = "kNext" /\ rd' = swap_step(swap_step(x, 8), 16)
  BY DEF Reverse, Is, St
<1>3. Arm = {A}
  BY DEF Arm
<1>4. Width \in {32, 64}
  BY Widths
<1>6. \A c \in Bits(Width) : c \in i.n <=> c \in x
  BY DEF Ld
<1>7. \A c \in x : c \in 0 .. 7
  BY <1>1 DEF Bits
<1>5. rd' = B
  <2> DEFINE v == {b + 8 : b \in x}
  <2>1. swap_step(x, 8) = v
    <3> HIDE DEF x
    <3> QED BY <1>1, SwapLow
  <2>2. v \subseteq Bits(16)
    BY <1>7 DEF Bits
  <2>3. swap_step(v, 16) = {b + 16 : b \in v}
    <3> HIDE DEF v
    <3> QED BY <2>2, SwapLow
  <2>4. {b + 16 : b \in v} = B
    <3>1. \A b \in x : (b + 8) + 16 = b + 24
      BY <1>7
    <3> HIDE DEF x
    <3> QED BY <3>1
  <2> QED BY <1>2, <2>1, <2>3, <2>4
<1>8. A \subseteq Bits(Width) /\ B \subseteq Bits(Width)
  BY <1>4, <1>7 DEF BytesReversed, Bits
<1> HIDE DEF x
<1>9. ASSUME NEW b \in Bits(Width) PROVE b \in A <=> b \in B
  <2> DEFINE c == 32 * (b \div 32) + 8 * (3 - ((b \div 8) % 4)) + (b % 8)
  <2>1. b \in 0 .. 63 /\ b < Width
    BY <1>4 DEF Bits
  <2>2. c \in Bits(Width)
    BY <1>4, <2>1 DEF Bits
  <2>3. b \in A <=> c \in i.n
    BY DEF BytesReversed
  <2>4. c \in 0 .. 7 => b = c + 24
    BY <2>1
  <2>5. b - 24 \in 0 .. 7 => c = b - 24
    BY <2>1
  <2>6. b \in B <=> b - 24 \in x
    BY <1>7, <2>1
  <2> HIDE DEF c
  <2>7. c \in x <=> b - 24 \in x
    BY <1>7, <2>1, <2>4, <2>5
  <2> QED BY <1>6, <2>2, <2>3, <2>6, <2>7
<1> HIDE DEF A, B
<1>10. A = B
  BY <1>8, <1>9
<1> QED BY <1>2, <1>3, <1>5, <1>10 DEF Right

\* Reversing all bytes.
LEMMA RevRight ==
  ASSUME Decoded(insn), Reverse, i.form = "rev"
  PROVE  Right
<1> DEFINE A == BytesReversed(Width \div 8)
           B == Bswap(Ld(i.n), Width)
           At(b) == (Width - 8) - 8 * (b \div 8) + (b % 8)
           k == Width \div 8
           From(b) == 8 * k * (b \div (8 * k)) + 8 * (k - 1 - ((b \div 8) % k)) + (b % 8)
<1>1. outcome' = "kNext" /\ rd' = B /\ Arm = {A}
  BY DEF Reverse, Is, St, Arm
<1>2. Width \in {32, 64}
  BY Widths
<1>3. ASSUME NEW b \in Bits(Width)
      PROVE  From(b) = At(b) /\ At(b) \in Bits(Width) /\ At(At(b)) = b
  <2>1. CASE Width = 32
    <3>1. b \in 0 .. 31
      BY <2>1 DEF Bits
    <3> QED BY <2>1, <3>1 DEF Bits
  <2>2. CASE Width = 64
    <3>1. b \in 0 .. 63
      BY <2>2 DEF Bits
    <3> QED BY <2>2, <3>1 DEF Bits
  <2> QED BY <1>2, <2>1, <2>2
<1>4. \A b : b \in A <=> b \in Bits(Width) /\ From(b) \in i.n
  BY DEF BytesReversed
<1>5. \A b : b \in B <=> \E c \in Ld(i.n) : b = At(c)
  BY DEF Bswap
<1>6. \A c : c \in Ld(i.n) <=> c \in Bits(Width) /\ c \in i.n
  BY DEF Ld
<1> HIDE DEF A, B, At, From
<1>7. ASSUME NEW b \in A PROVE b \in B
  <2>1. b \in Bits(Width) /\ At(b) \in Ld(i.n) /\ b = At(At(b))
    BY <1>3, <1>4, <1>6
  <2> QED BY <1>5, <2>1
<1>8. ASSUME NEW b \in B PROVE b \in A
  <2>1. PICK c \in Ld(i.n) : b = At(c)
    BY <1>5
  <2>2. c \in Bits(Width) /\ c \in i.n /\ b \in Bits(Width) /\ From(b) = At(b) /\ At(b) = c
    BY <1>3, <1>6, <2>1
  <2> QED BY <1>4, <2>2
<1>9. A = B
  BY <1>7, <1>8
<1> QED BY <1>1, <1>9 DEF Right

LEMMA ReverseRight ==
  ASSUME Decoded(insn), Exact(insn), Reverse
  PROVE  Right
BY RbitRight, Rev16Right, Rev32Right, RevRight DEF Reverse, Is

----------------------------------------------------------------------------
(* Masks.                                                                  *)

\* bsr finds the highest bit of a number of seven bits.
LEMMA HighestOf ==
  ASSUME NEW c \in 1 .. 127
  PROVE  /\ c \in 1 .. 1    => Bsr(WordOf(c, 7)) = 0
         /\ c \in 2 .. 3    => Bsr(WordOf(c, 7)) = 1
         /\ c \in 4 .. 7    => Bsr(WordOf(c, 7)) = 2
         /\ c \in 8 .. 15   => Bsr(WordOf(c, 7)) = 3
         /\ c \in 16 .. 31  => Bsr(WordOf(c, 7)) = 4
         /\ c \in 32 .. 63  => Bsr(WordOf(c, 7)) = 5
         /\ c \in 64 .. 127 => Bsr(WordOf(c, 7)) = 6
<1> DEFINE W == WordOf(c, 7)
<1>1. /\ 2 ^ 0 = 1 /\ 2 ^ 1 = 2 /\ 2 ^ 2 = 4 /\ 2 ^ 3 = 8 /\ 2 ^ 4 = 16 /\ 2 ^ 5 = 32 /\ 2 ^ 6 = 64
  OBVIOUS
<1>2. /\ 0 \in W <=> (c \div 1) % 2 = 1
      /\ 1 \in W <=> (c \div 2) % 2 = 1
      /\ 2 \in W <=> (c \div 4) % 2 = 1
      /\ 3 \in W <=> (c \div 8) % 2 = 1
      /\ 4 \in W <=> (c \div 16) % 2 = 1
      /\ 5 \in W <=> (c \div 32) % 2 = 1
      /\ 6 \in W <=> (c \div 64) % 2 = 1
  <2>1. \A b \in 0 .. 6 : b \in W <=> (c \div 2 ^ b) % 2 = 1
    BY DEF WordOf, Bits
  <2>2. 0 \in W <=> (c \div 2 ^ 0) % 2 = 1
    BY <2>1
  <2>3. 1 \in W <=> (c \div 2 ^ 1) % 2 = 1
    BY <2>1
  <2>4. 2 \in W <=> (c \div 2 ^ 2) % 2 = 1
    BY <2>1
  <2>5. 3 \in W <=> (c \div 2 ^ 3) % 2 = 1
    BY <2>1
  <2>6. 4 \in W <=> (c \div 2 ^ 4) % 2 = 1
    BY <2>1
  <2>7. 5 \in W <=> (c \div 2 ^ 5) % 2 = 1
    BY <2>1
  <2>8. 6 \in W <=> (c \div 2 ^ 6) % 2 = 1
    BY <2>1
  <2> QED BY <1>1, <2>2, <2>3, <2>4, <2>5, <2>6, <2>7, <2>8
<1>3. W \in SUBSET Int /\ W \subseteq 0 .. 6
  BY DEF WordOf, Bits
<1> HIDE DEF W
<1>4. ASSUME NEW k \in 0 .. 6, k \in W, \A b \in 0 .. 6 : b > k => b \notin W PROVE Bsr(W) = k
  <2>1. \A b \in W : k >= b
    BY <1>3, <1>4
  <2> QED BY <1>3, <1>4, <2>1, OneGreatest DEF Bsr
<1>5. CASE c \in 1 .. 1
  <2>1. 0 \in W /\ 1 \notin W /\ 2 \notin W /\ 3 \notin W /\ 4 \notin W /\ 5 \notin W /\ 6 \notin W
    BY <1>2, <1>5
  <2>2. \A b \in 0 .. 6 : b > 0 => b \notin W
    BY <2>1
  <2> QED BY <1>4, <1>5, <2>1, <2>2 DEF W
<1>6. CASE c \in 2 .. 3
  <2>1. 1 \in W /\ 2 \notin W /\ 3 \notin W /\ 4 \notin W /\ 5 \notin W /\ 6 \notin W
    BY <1>2, <1>6
  <2>2. \A b \in 0 .. 6 : b > 1 => b \notin W
    BY <2>1
  <2> QED BY <1>4, <1>6, <2>1, <2>2 DEF W
<1>7. CASE c \in 4 .. 7
  <2>1. 2 \in W /\ 3 \notin W /\ 4 \notin W /\ 5 \notin W /\ 6 \notin W
    BY <1>2, <1>7
  <2>2. \A b \in 0 .. 6 : b > 2 => b \notin W
    BY <2>1
  <2> QED BY <1>4, <1>7, <2>1, <2>2 DEF W
<1>8. CASE c \in 8 .. 15
  <2>1. 3 \in W /\ 4 \notin W /\ 5 \notin W /\ 6 \notin W
    BY <1>2, <1>8
  <2>2. \A b \in 0 .. 6 : b > 3 => b \notin W
    BY <2>1
  <2> QED BY <1>4, <1>8, <2>1, <2>2 DEF W
<1>9. CASE c \in 16 .. 31
  <2>1. 4 \in W /\ 5 \notin W /\ 6 \notin W
    BY <1>2, <1>9
  <2>2. \A b \in 0 .. 6 : b > 4 => b \notin W
    BY <2>1
  <2> QED BY <1>4, <1>9, <2>1, <2>2 DEF W
<1>10. CASE c \in 32 .. 63
  <2>1. 5 \in W /\ 6 \notin W
    BY <1>2, <1>10
  <2>2. \A b \in 0 .. 6 : b > 5 => b \notin W
    BY <2>1
  <2> QED BY <1>4, <1>10, <2>1, <2>2 DEF W
<1>11. CASE c \in 64 .. 127
  <2>1. 6 \in W
    BY <1>2, <1>11
  <2>2. \A b \in 0 .. 6 : b > 6 => b \notin W
    BY <2>1
  <2> QED BY <1>4, <1>11, <2>1, <2>2 DEF W
<1> QED BY <1>5, <1>6, <1>7, <1>8, <1>9, <1>10, <1>11

\* What decode_bit_masks takes for the size of the element is what the manual
\* takes for it.
LEMMA DecodeSize ==
  ASSUME NEW N \in 0 .. 1, NEW imms \in 0 .. 63, NEW c, c = N * 64 + (63 - imms)
  PROVE  \/ c = 0 /\ ElementSizes(N, imms) = {}
         \/ c # 0 /\ Bsr(WordOf(c, 7)) = 0 /\ ElementSizes(N, imms) = {}
         \/ \E len \in 1 .. 6 : /\ c # 0 /\ Bsr(WordOf(c, 7)) = len
                                /\ ElementSizes(N, imms) = {2 ^ len}
                                /\ 2 ^ len \in {2, 4, 8, 16, 32, 64}
<1>1. c \in 0 .. 127
  OBVIOUS
<1>2. 2 ^ 1 = 2 /\ 2 ^ 2 = 4 /\ 2 ^ 3 = 8 /\ 2 ^ 4 = 16 /\ 2 ^ 5 = 32 /\ 2 ^ 6 = 64
  OBVIOUS
<1>3. CASE N = 1
  <2>1. c \in 64 .. 127
    BY <1>3
  <2>2. Bsr(WordOf(c, 7)) = 6
    BY <1>1, <2>1, HighestOf
  <2>3. ElementSizes(N, imms) = {64}
    BY <1>3 DEF ElementSizes
  <2> QED BY <1>2, <2>1, <2>2, <2>3
<1>4. CASE N = 0 /\ imms \in 0 .. 31
  <2>1. c \in 32 .. 63
    BY <1>4
  <2>2. Bsr(WordOf(c, 7)) = 5
    BY <1>1, <2>1, HighestOf
  <2>3. ElementSizes(N, imms) = {32}
    BY <1>4 DEF ElementSizes
  <2> QED BY <1>2, <2>1, <2>2, <2>3
<1>5. CASE N = 0 /\ imms \in 32 .. 47
  <2>1. c \in 16 .. 31
    BY <1>5
  <2>2. Bsr(WordOf(c, 7)) = 4
    BY <1>1, <2>1, HighestOf
  <2>3. ElementSizes(N, imms) = {16}
    BY <1>5 DEF ElementSizes
  <2> QED BY <1>2, <2>1, <2>2, <2>3
<1>6. CASE N = 0 /\ imms \in 48 .. 55
  <2>1. c \in 8 .. 15
    BY <1>6
  <2>2. Bsr(WordOf(c, 7)) = 3
    BY <1>1, <2>1, HighestOf
  <2>3. ElementSizes(N, imms) = {8}
    BY <1>6 DEF ElementSizes
  <2> QED BY <1>2, <2>1, <2>2, <2>3
<1>7. CASE N = 0 /\ imms \in 56 .. 59
  <2>1. c \in 4 .. 7
    BY <1>7
  <2>2. Bsr(WordOf(c, 7)) = 2
    BY <1>1, <2>1, HighestOf
  <2>3. ElementSizes(N, imms) = {4}
    BY <1>7 DEF ElementSizes
  <2> QED BY <1>2, <2>1, <2>2, <2>3
<1>8. CASE N = 0 /\ imms \in 60 .. 61
  <2>1. c \in 2 .. 3
    BY <1>8
  <2>2. Bsr(WordOf(c, 7)) = 1
    BY <1>1, <2>1, HighestOf
  <2>3. ElementSizes(N, imms) = {2}
    BY <1>8 DEF ElementSizes
  <2> QED BY <1>2, <2>1, <2>2, <2>3
<1>9. CASE N = 0 /\ imms \in 62 .. 63
  <2>1. c = 0 \/ (c \in 1 .. 127 /\ c \in 1 .. 1)
    BY <1>9
  <2>2. ElementSizes(N, imms) = {}
    BY <1>9 DEF ElementSizes
  <2>3. c # 0 => Bsr(WordOf(c, 7)) = 0
    BY <2>1, HighestOf
  <2> QED BY <2>1, <2>2, <2>3
<1> QED BY <1>3, <1>4, <1>5, <1>6, <1>7, <1>8, <1>9

\* A remainder below twice the divisor.
LEMMA ModOnce ==
  ASSUME NEW d \in Nat, NEW v \in 0 .. 2 * d - 1
  PROVE  v % d = IF v < d THEN v ELSE v - d
<1>1. CASE v < d
  BY <1>1, ModSmall
<1>2. CASE v >= d
  <2>1. v - d \in 0 .. d - 1 /\ d * 1 + (v - d) = v /\ d > 0
    BY <1>2
  <2>2. (d * 1 + (v - d)) % d = v - d
    BY ONLY <2>1, DivUnique, d \in Nat, 1 \in Int
  <2> QED BY <1>2, <2>1, <2>2
<1> QED BY <1>1, <1>2

\* A bit of the turned element is one if R places further on lies one of the
\* ones.
LEMMA TurnedBits ==
  ASSUME NEW e \in 2 .. 64, NEW S \in 0 .. e - 1, NEW R \in 0 .. e - 1, NEW c \in 0 .. e - 1
  PROVE  c \in Turned(ones_mask(S + 1), R, e) <=> (c + R) % e <= S
<1> DEFINE x == ones_mask(S + 1)
<1>1. x = 0 .. S
  BY DEF ones_mask, Bits
<1>2. (c + R) % e = IF c + R < e THEN c + R ELSE c + R - e
  <2>1. c + R \in 0 .. 2 * e - 1 /\ e \in Nat
    OBVIOUS
  <2> QED BY ONLY <2>1, ModOnce
<1>3. CASE R = 0
  BY <1>1, <1>2, <1>3 DEF Turned
<1>4. CASE R # 0
  <2>1. ones_mask(e) = 0 .. e - 1
    BY DEF ones_mask, Bits
  <2>2. x \subseteq Bits(64) /\ R \in Nat /\ e - R \in Nat /\ c \in Int /\ 64 \in Nat
    <3>1. \A b \in 0 .. S : b \in 0 .. 63
      OBVIOUS
    <3> HIDE DEF x
    <3> QED BY <1>1, <3>1 DEF Bits
  <2> HIDE DEF x
  <2>3. c \in Shr(x, R) <=> c >= 0 /\ c + R \in x
    BY ONLY <2>2, Shifts
  <2>4. c \in Shl(x, e - R, 64) <=> c < 64 /\ c - (e - R) \in x
    BY ONLY <2>2, Shifts
  <2>5. c \in Turned(x, R, e) <=> c \in Shr(x, R) \/ c \in Shl(x, e - R, 64)
    BY <1>4, <2>1 DEF Turned
  <2>6. c - (e - R) = c + R - e
    OBVIOUS
  <2>7. c \in Turned(x, R, e) <=> c + R \in 0 .. S \/ c + R - e \in 0 .. S
    BY <1>1, <2>3, <2>4, <2>5, <2>6
  <2> QED BY <1>2, <2>7 DEF x
<1> QED BY <1>3, <1>4

\* The masks of an element of e bits.
Masks(e, imms, immr) ==
  [wmask |-> {b \in Bits(64) : (b + immr) % e <= imms % e},
   tmask |-> {b \in Bits(64) : b % e <= ((imms % e) - (immr % e)) % e}]

\* What decode_bit_masks makes of it.
MadeMasks(e, imms, immr) ==
  [wmask |-> replicate(Turned(ones_mask((imms % e) + 1), immr % e, e), e),
   tmask |-> replicate(ones_mask((((imms % e) - (immr % e)) % e) + 1), e)]

LEMMA ElementMasks ==
  ASSUME NEW e \in {2, 4, 8, 16, 32, 64}, NEW imms \in 0 .. 63, NEW immr \in 0 .. 63
  PROVE  Masks(e, imms, immr) = MadeMasks(e, imms, immr)
<1> DEFINE S == imms % e
           R == immr % e
           D == (S - R) % e
           turned == Turned(ones_mask(S + 1), R, e)
           w1 == {b \in Bits(64) : (b + immr) % e <= S}
           w2 == replicate(turned, e)
           t1 == {b \in Bits(64) : b % e <= D}
           t2 == replicate(ones_mask(D + 1), e)
<1>1. e \in 2 .. 64 /\ S \in 0 .. e - 1 /\ R \in 0 .. e - 1 /\ D \in 0 .. e - 1
  OBVIOUS
<1>2. \A b \in Bits(64) : b \in 0 .. 63 /\ b % e \in 0 .. e - 1
  BY DEF Bits
<1>3. ASSUME NEW b \in Bits(64) PROVE b \in w1 <=> b \in w2
  <2>1. (b + immr) % e = ((b % e) + R) % e
    <3>1. b \in 0 .. 63
      BY <1>2
    <3> QED BY <3>1
  <2>2. b % e \in turned <=> ((b % e) + R) % e <= S
    <3> DEFINE c == b % e
    <3>1. c \in 0 .. e - 1
      BY <1>2
    <3> HIDE DEF S, R, c
    <3>2. c \in Turned(ones_mask(S + 1), R, e) <=> (c + R) % e <= S
      BY ONLY <1>1, <3>1, TurnedBits
    <3> QED BY <3>2 DEF c
  <2> HIDE DEF turned
  <2> QED BY <2>1, <2>2 DEF replicate
<1>4. ASSUME NEW b \in Bits(64) PROVE b \in t1 <=> b \in t2
  <2> HIDE DEF D
  <2>1. ones_mask(D + 1) = 0 .. D
    BY <1>1 DEF ones_mask, Bits
  <2> QED BY <1>1, <1>2, <2>1 DEF replicate
<1>5. w1 \subseteq Bits(64) /\ w2 \subseteq Bits(64) /\ t1 \subseteq Bits(64) /\ t2 \subseteq Bits(64)
  BY DEF replicate
<1>6. w1 = w2 /\ t1 = t2
  <2> HIDE DEF w1, w2, t1, t2
  <2> QED BY <1>3, <1>4, <1>5
<1>7. Masks(e, imms, immr) = [wmask |-> w1, tmask |-> t1]
  BY DEF Masks
<1>8. MadeMasks(e, imms, immr) = [wmask |-> w2, tmask |-> t2]
  BY DEF MadeMasks
<1> QED BY ONLY <1>6, <1>7, <1>8

\* The sizes of an operand, of its element, and its masks; none if reserved.
OperandSizes == {32, 64}
Sizes(N, imms, immediate, datasize) ==
  {f \in ElementSizes(N, imms) : f <= datasize /\ ~(immediate /\ imms % f = f - 1)}
AllMasks(N, imms, immr, immediate, datasize) ==
  {Masks(e, imms, immr) : e \in Sizes(N, imms, immediate, datasize)}

\* decode_bit_masks yields the masks of the manual's element, for every
\* encoding, and none where the manual has none.
LEMMA DecodeMasks ==
  ASSUME NEW N \in 0 .. 1, NEW imms \in 0 .. 63, NEW immr \in 0 .. 63,
         NEW immediate \in BOOLEAN, NEW datasize \in OperandSizes
  PROVE  decode_bit_masks(N, imms, immr, immediate, datasize) =
           AllMasks(N, imms, immr, immediate, datasize)
<1> DEFINE c == N * 64 + (63 - imms)
           len == Bsr(WordOf(c, 7))
           E == Sizes(N, imms, immediate, datasize)
           made == MadeMasks(2 ^ len, imms, immr)
<1> USE DEF OperandSizes
<1>1. decode_bit_masks(N, imms, immr, immediate, datasize) =
        IF \/ c = 0 \/ len < 1 \/ datasize < 2 ^ len
           \/ immediate /\ imms % (2 ^ len) = 2 ^ len - 1
        THEN {} ELSE {made}
  BY DEF decode_bit_masks, MadeMasks
<1>5. decode_bit_masks(N, imms, immr, immediate, datasize) = {Masks(f, imms, immr) : f \in E}
      => decode_bit_masks(N, imms, immr, immediate, datasize) = AllMasks(N, imms, immr, immediate, datasize)
  BY DEF AllMasks
<1>6. \A f : f \in E <=> f \in ElementSizes(N, imms) /\ f <= datasize /\ ~(immediate /\ imms % f = f - 1)
  BY DEF Sizes
<1>7. ElementSizes(N, imms) = {} => {Masks(f, imms, immr) : f \in E} = {}
  BY <1>6
<1> HIDE DEF E
<1>2. CASE c = 0 /\ ElementSizes(N, imms) = {}
  BY <1>1, <1>2, <1>5, <1>7
<1>3. CASE c # 0 /\ len = 0 /\ ElementSizes(N, imms) = {}
  <2>1. decode_bit_masks(N, imms, immr, immediate, datasize) = {}
    <3> HIDE DEF len, c
    <3> QED BY <1>1, <1>3
  <2> QED BY <1>3, <1>5, <1>7, <2>1
<1>4. CASE \E l \in 1 .. 6 : /\ c # 0 /\ len = l
                             /\ ElementSizes(N, imms) = {2 ^ l}
                             /\ 2 ^ l \in {2, 4, 8, 16, 32, 64}
  <2> DEFINE e == 2 ^ len
  <2>1. c # 0 /\ len \in 1 .. 6 /\ ElementSizes(N, imms) = {e} /\ e \in {2, 4, 8, 16, 32, 64}
    BY <1>4
  <2>2. made = Masks(e, imms, immr)
    <3> HIDE DEF e
    <3>1. Masks(e, imms, immr) = MadeMasks(e, imms, immr)
      BY ONLY <2>1, imms \in 0 .. 63, immr \in 0 .. 63, ElementMasks
    <3> QED BY <3>1 DEF e
  <2> HIDE DEF c, len, made
  <2>3. decode_bit_masks(N, imms, immr, immediate, datasize) =
          IF datasize < e \/ (immediate /\ imms % e = e - 1) THEN {} ELSE {made}
    BY <1>1, <2>1
  <2> HIDE DEF e
  <2>4. CASE datasize < e \/ (immediate /\ imms % e = e - 1)
    <3>1. E = {}
      BY <1>6, <2>1, <2>4
    <3>2. {Masks(f, imms, immr) : f \in E} = {}
      BY <3>1
    <3> QED BY <1>5, <2>3, <2>4, <3>2
  <2>5. CASE ~(datasize < e \/ (immediate /\ imms % e = e - 1))
    <3>1. E = {e}
      BY <1>6, <2>1, <2>5
    <3>2. {Masks(f, imms, immr) : f \in E} = {Masks(e, imms, immr)}
      BY <3>1
    <3> QED BY <1>5, <2>2, <2>3, <2>5, <3>2
  <2> QED BY <2>4, <2>5
<1> QED BY <1>2, <1>3, <1>4, DecodeSize

\* The same of the current instruction, for both uses of decode_bit_masks.
MasksAre(N, imms, immr, datasize) ==
  /\ decode_bit_masks(N, imms, immr, TRUE, datasize) = AllMasks(N, imms, immr, TRUE, datasize)
  /\ decode_bit_masks(N, imms, immr, FALSE, datasize) = AllMasks(N, imms, immr, FALSE, datasize)

LEMMA BothMasks ==
  ASSUME NEW N \in 0 .. 1, NEW imms \in 0 .. 63, NEW immr \in 0 .. 63, NEW datasize \in OperandSizes
  PROVE  MasksAre(N, imms, immr, datasize)
<1>1. TRUE \in BOOLEAN
  OBVIOUS
<1>2. FALSE \in BOOLEAN
  OBVIOUS
<1>3. \A immediate \in BOOLEAN :
        decode_bit_masks(N, imms, immr, immediate, datasize) = AllMasks(N, imms, immr, immediate, datasize)
  BY DecodeMasks
<1>4. decode_bit_masks(N, imms, immr, TRUE, datasize) = AllMasks(N, imms, immr, TRUE, datasize)
  BY ONLY <1>1, <1>3, Zenon
<1>5. decode_bit_masks(N, imms, immr, FALSE, datasize) = AllMasks(N, imms, immr, FALSE, datasize)
  BY ONLY <1>2, <1>3, Zenon
<1> QED BY ONLY <1>4, <1>5 DEF MasksAre

LEMMA InsnMasks ==
  ASSUME Decoded(insn), i.form \in {"and", "orr", "eor", "ubfm", "bfm", "sbfx", "sbfiz"}
  PROVE  MasksAre(i.N, i.imms, i.immr, Width)
<1>1. i.N \in 0 .. 1
  BY Operands DEF i
<1>2. i.imms \in 0 .. 63
  BY Operands DEF i
<1>3. i.immr \in 0 .. 63
  BY Operands DEF i
<1>4. Width \in OperandSizes
  BY Widths DEF OperandSizes
<1>5. \A N \in 0 .. 1, imms \in 0 .. 63, immr \in 0 .. 63, datasize \in OperandSizes :
        MasksAre(N, imms, immr, datasize)
  BY BothMasks
<1> QED BY ONLY <1>1, <1>2, <1>3, <1>4, <1>5

\* There is at most one size.
LEMMA OneElementSize ==
  ASSUME NEW N \in 0 .. 1, NEW imms \in 0 .. 63
  PROVE  /\ ElementSizes(N, imms) \subseteq {2, 4, 8, 16, 32, 64}
         /\ \A a, b \in ElementSizes(N, imms) : a = b
BY DEF ElementSizes

LEMMA LogicalImmRight ==
  ASSUME Decoded(insn), LogicalImm
  PROVE  Right
<1> DEFINE Op(w) == CASE i.form = "and" -> Ld(i.n) \cap w
                      [] i.form = "orr" -> Ld(i.n) \cup w
                      [] i.form = "eor" -> Xor(Ld(i.n), w)
           Meant == IF i.N = 1 /\ ~i.sf THEN {} ELSE LogicalImmediates(i.N, i.imms, i.immr, Width)
           Found == IF ~i.sf /\ i.N = 1 THEN {} ELSE decode_bit_masks(i.N, i.imms, i.immr, TRUE, Width)
<1>1. i.form \in {"and", "orr", "eor"}
  BY DEF LogicalImm, Is
<1>2. i.N \in 0 .. 1 /\ i.imms \in 0 .. 63 /\ i.immr \in 0 .. 63 /\ Width \in {32, 64}
  BY <1>1, Operands, Widths DEF i
<1>3. Arm = {Op(w) : w \in Meant}
  BY <1>1, Zenon DEF Arm
<1>4. \/ Found = {} /\ outcome' = "kBad"
      \/ \E k \in Found : rd' = Op(Ld(k.wmask)) /\ outcome' = "kNext"
  BY DEF LogicalImm, Bad, St
<1> HIDE DEF Op
<1>5. CASE i.N = 1 /\ ~i.sf
  <2>1. Found = {} /\ Meant = {}
    BY <1>5
  <2> QED BY <1>3, <1>4, <2>1 DEF Right
<1>6. CASE ~(i.N = 1 /\ ~i.sf)
  <2> DEFINE E == {f \in ElementSizes(i.N, i.imms) : f <= Width /\ i.imms % f # f - 1}
             Ones(e) == {b \in Bits(Width) : (b + i.immr) % e <= i.imms % e}
  <2>1. Meant = {Ones(e) : e \in E}
    BY <1>6 DEF LogicalImmediates
  <2>2. Found = {Masks(e, i.imms, i.immr) : e \in E}
    <3>1. decode_bit_masks(i.N, i.imms, i.immr, TRUE, Width) = AllMasks(i.N, i.imms, i.immr, TRUE, Width)
      <4>1. MasksAre(i.N, i.imms, i.immr, Width)
        BY <1>1, InsnMasks
      <4> QED BY ONLY <4>1 DEF MasksAre
    <3>2. E = Sizes(i.N, i.imms, TRUE, Width)
      BY DEF Sizes
    <3> QED BY <1>6, <3>1, <3>2, Zenon DEF AllMasks
  <2>3. ASSUME NEW e \in E PROVE Ld(Masks(e, i.imms, i.immr).wmask) = Ones(e)
    <3>1. Bits(Width) \subseteq Bits(64)
      BY <1>2 DEF Bits
    <3>2. Masks(e, i.imms, i.immr).wmask = {b \in Bits(64) : (b + i.immr) % e <= i.imms % e}
      BY DEF Masks
    <3> QED BY <3>1, <3>2 DEF Ld
  <2>4. \A a, b \in E : a = b
    BY <1>2, OneElementSize
  <2> HIDE DEF E, Ones, Meant, Found
  <2>5. CASE E = {}
    <3>1. Found = {} /\ Meant = {}
      BY <2>1, <2>2, <2>5
    <3> QED BY <1>3, <1>4, <3>1 DEF Right
  <2>6. CASE E # {}
    <3>1. PICK e : E = {e}
      BY <2>4, <2>6
    <3>2. Found = {Masks(e, i.imms, i.immr)} /\ Meant = {Ones(e)}
      BY <2>1, <2>2, <3>1
    <3>3. rd' = Op(Ones(e)) /\ outcome' = "kNext"
      BY <1>4, <2>3, <3>1, <3>2
    <3>4. Arm = {Op(Ones(e))}
      BY <1>3, <3>2
    <3> QED BY <3>3, <3>4 DEF Right
  <2> QED BY <2>5, <2>6
<1> QED BY <1>5, <1>6

----------------------------------------------------------------------------
(* Bit fields.                                                             *)

\* The two masks of a field of the whole operand leave the field's place.
InMasks(w, R, S, b) == (b + R) % w <= S % w /\ b % w <= ((S % w) - (R % w)) % w
Field(w, R, S) == IF S >= R THEN 0 .. S - R ELSE w - R .. w - R + S

LEMMA FieldMask ==
  ASSUME NEW w \in OperandSizes, NEW R \in Bits(w), NEW S \in Bits(w), NEW b \in Bits(w)
  PROVE  InMasks(w, R, S, b) <=> b \in Field(w, R, S)
<1> USE DEF OperandSizes, Bits
<1>1. w \in Nat /\ S % w = S /\ R % w = R /\ b % w = b
  BY ModSmall
<1>2. (b + R) % w = IF b + R < w THEN b + R ELSE b + R - w
  <2> DEFINE v == b + R
  <2>1. v \in 0 .. 2 * w - 1
    OBVIOUS
  <2>2. w \in Nat
    BY <1>1
  <2> HIDE DEF v
  <2>3. v % w = IF v < w THEN v ELSE v - w
    BY ONLY <2>1, <2>2, ModOnce
  <2> QED BY <2>3 DEF v
<1>3. (S - R) % w = IF S >= R THEN S - R ELSE S - R + w
  <2>1. CASE S >= R
    <3>1. S - R \in 0 .. w - 1
      BY <2>1
    <3>2. (S - R) % w = S - R
      BY ONLY <1>1, <3>1, ModSmall
    <3> QED BY <2>1, <3>2
  <2>2. CASE S < R
    <3>1. S - R + w \in 0 .. w - 1 /\ w > 0
      BY <2>2
    <3>2. (w * (-1) + (S - R + w)) % w = S - R + w
      BY ONLY <1>1, <3>1, DivUnique, -1 \in Int
    <3>3. w * (-1) + (S - R + w) = S - R
      OBVIOUS
    <3> QED BY <2>2, <3>2, <3>3
  <2> QED BY <2>1, <2>2
<1> QED BY <1>1, <1>2, <1>3 DEF InMasks, Field

\* A rotation to the right.
LEMMA RorBits ==
  ASSUME NEW w \in Nat, NEW R \in 0 .. w - 1, NEW x, x \subseteq Bits(w), NEW b \in 0 .. w - 1
  PROVE  b \in Ror(x, R, w) <=> (b + R) % w \in x
<1>1. (b + R) % w = IF b + R < w THEN b + R ELSE b + R - w
  <2> DEFINE v == b + R
  <2>1. v \in 0 .. 2 * w - 1
    OBVIOUS
  <2> HIDE DEF v
  <2>2. v % w = IF v < w THEN v ELSE v - w
    BY ONLY <2>1, ModOnce, w \in Nat
  <2> QED BY <2>2 DEF v
<1>2. R \in Nat /\ w - R \in Nat /\ b \in Int
  OBVIOUS
<1>3. b \in Shr(x, R) <=> b >= 0 /\ b + R \in x
  BY ONLY <1>2, Shifts, w \in Nat, x \subseteq Bits(w)
<1>4. b \in Shl(x, w - R, w) <=> b < w /\ b - (w - R) \in x
  BY ONLY <1>2, Shifts, w \in Nat, x \subseteq Bits(w)
<1>5. b - (w - R) = b + R - w
  OBVIOUS
<1>6. \A c : c \in x => c \in 0 .. w - 1
  BY DEF Bits
<1>7. b \in Ror(x, R, w) <=> b + R \in x \/ b + R - w \in x
  BY <1>3, <1>4, <1>5 DEF Ror
<1> QED BY <1>1, <1>6, <1>7

\* What a bit-field instruction that is not refused leaves, in the manual's
\* terms.
LEMMA FieldResult ==
  ASSUME Decoded(insn), Bitfield, ~(i.sf # (i.N = 1)), i.immr < Width, i.imms < Width
  PROVE  /\ outcome' = "kNext"
         /\ FieldAt \subseteq Bits(Width) /\ FieldIs \subseteq FieldAt
         /\ rd' = FieldIs \cup
                    CASE i.form = "ubfm" -> {}
                      [] i.form = "bfm"  -> Ld(i.d) \ FieldAt
                      [] OTHER           -> (IF i.imms \in i.n THEN Bits(Width) ELSE {}) \ FieldAt
<1>1. i.form \in {"ubfm", "sbfx", "sbfiz", "bfm"}
  BY DEF Bitfield, Is
<1>2. /\ i.N \in 0 .. 1 /\ i.imms \in 0 .. 63 /\ i.immr \in 0 .. 63 /\ i.sf \in BOOLEAN
      /\ Width = (IF i.sf THEN 64 ELSE 32) /\ Width \in {32, 64}
  BY <1>1, Operands, Widths DEF i
<1> DEFINE R == i.immr
           S == i.imms
           k == Masks(Width, S, R)
           m == Ld(k.wmask \cap k.tmask)
           bot == Ror(Ld(i.n), R, Width) \cap m
           sign == Neg1(Shr(Ld(i.n), S) \cap {0}, Width)
<1>3. R \in 0 .. Width - 1 /\ S \in 0 .. Width - 1
  BY <1>2
<1>4. R % Width = R /\ S % Width = S
  BY <1>2, <1>3, ModSmall
<1>5. decode_bit_masks(i.N, S, R, FALSE, Width) = {k}
  <2>1. ElementSizes(i.N, S) = {Width}
    BY <1>2, <1>3 DEF ElementSizes
  <2>2. Sizes(i.N, S, FALSE, Width) = {Width}
    BY <1>2, <2>1 DEF Sizes
  <2>3. AllMasks(i.N, S, R, FALSE, Width) = {k}
    BY <2>2 DEF AllMasks
  <2>8. decode_bit_masks(i.N, S, R, FALSE, Width) = AllMasks(i.N, S, R, FALSE, Width)
    <3>1. MasksAre(i.N, i.imms, i.immr, Width)
      BY <1>1, InsnMasks
    <3> QED BY ONLY <3>1 DEF MasksAre
  <2> QED BY <2>3, <2>8
<1>6. /\ outcome' = "kNext"
      /\ rd' = CASE i.form = "ubfm" -> bot
                 [] i.form = "bfm"  -> bot \cup (Ld(i.d) \cap Not(m, Width))
                 [] OTHER           -> bot \cup (sign \cap Not(m, Width))
  <2> HIDE DEF k
  <2> QED BY <1>4, <1>5 DEF Bitfield, St
<1>7. \A b : b \in Bits(Width) <=> b \in 0 .. Width - 1
  BY DEF Bits
<1>8. FieldAt = Field(Width, R, S)
  BY DEF FieldAt, Field
<1>9. FieldAt \subseteq Bits(Width)
  BY <1>2, <1>3, <1>8 DEF Bits, Field
<1>10. m = FieldAt
  <2>1. \A b : b \in m <=> b \in Bits(Width) /\ InMasks(Width, R, S, b)
    <3>1. Bits(Width) \subseteq Bits(64)
      BY <1>2 DEF Bits
    <3>2. /\ k.wmask = {b \in Bits(64) : (b + R) % Width <= S % Width}
          /\ k.tmask = {b \in Bits(64) : b % Width <= ((S % Width) - (R % Width)) % Width}
      BY DEF Masks
    <3> HIDE DEF k
    <3> QED BY <3>1, <3>2 DEF Ld, InMasks
  <2> HIDE DEF m
  <2>2. Width \in OperandSizes
    BY <1>2 DEF OperandSizes
  <2>3. ASSUME NEW b \in 0 .. Width - 1 PROVE b \in m <=> b \in FieldAt
    <3>1. InMasks(Width, R, S, b) <=> b \in Field(Width, R, S)
      <4> HIDE DEF R, S
      <4>1. R \in Bits(Width)
        BY <1>3, <1>7
      <4>2. S \in Bits(Width)
        BY <1>3, <1>7
      <4>3. b \in Bits(Width)
        BY <1>7
      <4> QED BY ONLY <2>2, <4>1, <4>2, <4>3, FieldMask
    <3> QED BY <1>7, <1>8, <2>1, <3>1
  <2> QED BY <1>7, <1>9, <2>1, <2>3
<1>11. bot = FieldIs
  <2>1. Width \in Nat /\ Ld(i.n) \subseteq Bits(Width)
    BY <1>2 DEF Ld
  <2>2. ASSUME NEW b \in FieldAt
        PROVE  b \in Ror(Ld(i.n), R, Width) <=> (b + R) % Width \in i.n
    <3>1. b \in 0 .. Width - 1
      BY <1>7, <1>9
    <3>2. b \in Ror(Ld(i.n), R, Width) <=> (b + R) % Width \in Ld(i.n)
      <4> HIDE DEF R
      <4> QED BY ONLY <1>3, <2>1, <3>1, RorBits
    <3>3. (b + R) % Width \in Bits(Width)
      <4> HIDE DEF R
      <4> QED BY <1>2, <1>3, <3>1 DEF Bits
    <3> QED BY <3>2, <3>3 DEF Ld
  <2> HIDE DEF m
  <2> QED BY <1>10, <2>2 DEF FieldIs
<1>12. sign = IF S \in i.n THEN Bits(Width) ELSE {}
  <2> DEFINE z == Shr(Ld(i.n), S)
  <2>1. Width \in Nat /\ Ld(i.n) \subseteq Bits(Width) /\ S \in Nat /\ 0 \in Int
    BY <1>2, <1>3 DEF Ld
  <2>2. 0 \in z <=> 0 >= 0 /\ 0 + S \in Ld(i.n)
    <3> HIDE DEF S
    <3> QED BY ONLY <2>1, Shifts
  <2>3. 0 \in z <=> S \in i.n
    BY <1>3, <1>7, <2>1, <2>2 DEF Ld
  <2> HIDE DEF z
  <2>4. Neg1(z \cap {0}, Width) = IF S \in i.n THEN Bits(Width) ELSE {}
    BY <2>3 DEF Neg1
  <2> QED BY <2>4 DEF z
<1> HIDE DEF bot, m, sign
<1>13. Ld(i.d) \cap Not(m, Width) = Ld(i.d) \ FieldAt
  BY <1>10 DEF Ld, Not
<1>14. sign \cap Not(m, Width) = (IF i.imms \in i.n THEN Bits(Width) ELSE {}) \ FieldAt
  BY <1>10, <1>12 DEF Not
<1>15. FieldIs \subseteq FieldAt
  BY DEF FieldIs
<1> QED BY <1>1, <1>6, <1>9, <1>11, <1>13, <1>14, <1>15

LEMMA BitfieldRight ==
  ASSUME Decoded(insn), Exact(insn), Bitfield
  PROVE  Right
<1>1. i.form \in {"ubfm", "sbfx", "sbfiz", "bfm"}
  BY DEF Bitfield, Is
<1> DEFINE Rest == CASE i.form = "ubfm" -> {}
                     [] i.form = "bfm"  -> Ld(i.d) \ FieldAt
                     [] OTHER -> IF i.imms \in i.n
                                 THEN {b \in Bits(Width) : \A c \in FieldAt : b > c} ELSE {}
<1>2. Arm = IF i.sf # (i.N = 1) \/ i.immr >= Width \/ i.imms >= Width THEN {} ELSE {FieldIs \cup Rest}
  BY <1>1, Zenon DEF Arm
<1>5. /\ i.N \in 0 .. 1 /\ i.imms \in 0 .. 63 /\ i.immr \in 0 .. 63 /\ i.sf \in BOOLEAN
      /\ Width = (IF i.sf THEN 64 ELSE 32) /\ Width \in {32, 64}
  BY <1>1, Operands, Widths DEF i
<1>6. ~(i.sf # (i.N = 1)) => (i.immr < Width /\ i.imms < Width) \/ (~i.sf /\ i.imms > 61)
  <2>1. Exact(i)
    BY DEF i
  <2> QED BY <1>1, <1>5, <2>1 DEF Exact
<1>3. CASE i.sf # (i.N = 1)
  <2>1. outcome' = "kBad"
    BY <1>3 DEF Bitfield, Bad
  <2> QED BY <1>2, <1>3, <2>1 DEF Right
<1>7. CASE ~(i.sf # (i.N = 1)) /\ ~i.sf /\ i.imms > 61
  <2>1. i.N = 0 /\ Arm = {}
    BY <1>2, <1>5, <1>7
  <2>2. decode_bit_masks(i.N, i.imms, i.immr, FALSE, Width) = {}
    <3>1. ElementSizes(i.N, i.imms) = {}
      BY <1>5, <1>7, <2>1 DEF ElementSizes
    <3>2. AllMasks(i.N, i.imms, i.immr, FALSE, Width) = {}
      BY <3>1 DEF AllMasks, Sizes
    <3>7. decode_bit_masks(i.N, i.imms, i.immr, FALSE, Width) = AllMasks(i.N, i.imms, i.immr, FALSE, Width)
      <4>1. MasksAre(i.N, i.imms, i.immr, Width)
        BY <1>1, InsnMasks
      <4> QED BY ONLY <4>1 DEF MasksAre
    <3> QED BY <3>2, <3>7
  <2>3. outcome' = "kBad"
    BY <1>7, <2>2 DEF Bitfield, Bad
  <2> QED BY <2>1, <2>3 DEF Right
<1>4. CASE ~(i.sf # (i.N = 1)) /\ i.immr < Width /\ i.imms < Width
  <2> DEFINE Left == CASE i.form = "ubfm" -> {}
                       [] i.form = "bfm"  -> Ld(i.d) \ FieldAt
                       [] OTHER           -> (IF i.imms \in i.n THEN Bits(Width) ELSE {}) \ FieldAt
  <2>1. outcome' = "kNext" /\ rd' = FieldIs \cup Left
    BY <1>4, FieldResult
  <2>3. Arm = {FieldIs \cup Rest}
    BY <1>2, <1>4, <1>5
  <2>2. Left = Rest
    <3>1. CASE i.form \in {"ubfm", "bfm"}
      BY <3>1
    <3>2. CASE i.form = "sbfiz"
      <4>1. i.imms \notin i.n
        BY <3>2 DEF Exact, i
      <4> QED BY <3>2, <4>1
    <3>3. CASE i.form = "sbfx"
      <4>1. i.imms \in 0 .. 63 /\ i.immr \in 0 .. 63 /\ i.imms >= i.immr
        BY <3>3, Operands DEF i
      <4> DEFINE last == i.imms - i.immr
      <4>2. FieldAt = 0 .. last /\ last \in Nat
        BY <4>1 DEF FieldAt
      <4> HIDE DEF last
      <4>3. \A b \in Bits(Width) : b \notin FieldAt <=> \A c \in FieldAt : b > c
        <5>1. \A b \in Bits(Width) : b \in Int /\ b >= 0
          BY Widths DEF Bits
        <5>2. last \in FieldAt
          BY <4>2
        <5> QED BY <4>2, <5>1, <5>2
      <4>4. Bits(Width) \ FieldAt = {b \in Bits(Width) : \A c \in FieldAt : b > c}
        BY <4>3
      <4> QED BY <3>3, <4>4
    <3> QED BY <1>1, <3>1, <3>2, <3>3
  <2> HIDE DEF Left, Rest
  <2> QED BY <2>1, <2>2, <2>3 DEF Right
<1> QED BY <1>3, <1>4, <1>6, <1>7

----------------------------------------------------------------------------
(* Every instruction.                                                      *)

LEMMA NextRight ==
  ASSUME Decoded(insn), Exact(insn), Next, outcome = "fetched"
  PROVE  Right
<1>1. CASE LogicalImm
  BY <1>1, LogicalImmRight
<1>2. CASE MoveWide
  BY <1>2, MoveWideRight
<1>3. CASE Bitfield
  BY <1>3, BitfieldRight
<1>4. CASE Extract
  BY <1>4, ExtractRight
<1>5. CASE Reverse
  BY <1>5, ReverseRight
<1>6. CASE Count
  BY <1>6, CountRight
<1>7. CASE Divide
  BY <1>7, DivideRight
<1>8. CASE Multiply
  BY <1>8, MultiplyRight
<1> QED BY <1>1, <1>2, <1>3, <1>4, <1>5, <1>6, <1>7, <1>8 DEF Next, Done

\* Whatever the instructions and their operands are: one that the translation
\* is right for at all leaves in its register what the manual says, or is
\* refused, and then the manual reserves it (decode_bit_masks, tr_dp_imm,
\* tr_dp_reg).
THEOREM Agreement == Spec => [](Exact(insn) => AgreesWithArm)
<1>1. Init => (Exact(insn) => AgreesWithArm)
  BY DEF Init, AgreesWithArm
<1>2. TypeOK /\ (Exact(insn) => AgreesWithArm) /\ [Next]_vars => (Exact(insn) => AgreesWithArm)'
  <2> SUFFICES ASSUME TypeOK, Exact(insn) => AgreesWithArm, [Next]_vars, Exact(insn)'
               PROVE  AgreesWithArm'
    OBVIOUS
  <2>1. insn' = insn
    BY StepsOnce DEF vars
  <2>2. Arm' = Arm
    BY <2>1, ArmSame
  <2>3. Decoded(insn) /\ Exact(insn)
    BY <2>1, InsnsAssumption DEF TypeOK, Exact
  <2>4. CASE outcome' = outcome /\ rd' = rd
    BY <2>2, <2>3, <2>4 DEF AgreesWithArm
  <2>5. CASE Next /\ outcome = "fetched"
    <3>1. Right
      BY <2>3, <2>5, NextRight
    <3> QED BY <2>2, <3>1 DEF AgreesWithArm, Right
  <2> QED BY <2>4, <2>5, StepsOnce DEF vars
<1> QED BY <1>1, <1>2, TypeCorrect, PTL DEF Spec

\* So a program of nothing but such instructions computes what the manual says
\* throughout.
THEOREM ExactProgramsAgree ==
  ASSUME \A f \in Insns : Exact(f)
  PROVE  Spec => []AgreesWithArm
<1>1. TypeOK /\ (Exact(insn) => AgreesWithArm) => AgreesWithArm
  BY DEF TypeOK
<1> QED BY <1>1, TypeCorrect, Agreement, PTL
=============================================================================

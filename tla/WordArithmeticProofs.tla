------------------------ MODULE WordArithmeticProofs ------------------------
(***************************************************************************)
(* Facts about powers of two and the operations on words, for words of any *)
(* width.                                                                  *)
(***************************************************************************)
EXTENDS WordArithmetic, NumberProofs

-----------------------------------------------------------------------------
(* Powers of two. *)

LEMMA Powers == \A n \in 0 .. wordBits + 3 : 2^n \in Nat \ {0}
<1>. DEFINE T == {n \in Nat : 2^n \in Nat \ {0}}
<1>1. 0 \in T
  BY WordAssumption
<1>2. ASSUME NEW n \in 1 .. wordBits + 3, n - 1 \in T PROVE n \in T
  <2>1. 2^n = 2 * 2^(n - 1)
    BY WordAssumption
  <2>. QED  BY <1>2, <2>1
<1>3. wordBits + 3 \in Nat
  BY WordAssumption
<1>. HIDE DEF T
<1>4. \A n \in 0 .. wordBits + 3 : n \in T
  BY <1>1, <1>2, <1>3, Induction
<1>. QED  BY <1>4 DEF T

LEMMA ModulusType == Modulus \in Nat /\ Modulus > 0
BY Powers, WordAssumption DEF Modulus

LEMMA PowerSum ==
    ASSUME NEW m \in Nat, NEW k \in Nat, m + k <= wordBits
    PROVE  2^m * 2^k = 2^(m + k)
<1>. DEFINE T == {n \in Nat : n <= k => 2^m * 2^n = 2^(m + n)}
<1>1. 0 \in T
  BY WordAssumption, Powers
<1>2. ASSUME NEW n \in 1 .. k, n - 1 \in T PROVE n \in T
  <2>1. 2^n = 2 * 2^(n - 1) /\ 2^(m + n) = 2 * 2^((m + n) - 1)
    BY WordAssumption
  <2>2. 2^m * 2^(n - 1) = 2^(m + (n - 1)) /\ m + (n - 1) = (m + n) - 1
    BY <1>2
  <2>3. 2^m \in Nat /\ 2^(n - 1) \in Nat
    BY Powers, WordAssumption
  <2>4. 2^m * (2 * 2^(n - 1)) = 2 * (2^m * 2^(n - 1))
    BY <2>3
  <2>. QED  BY <2>1, <2>2, <2>4
<1>. HIDE DEF T
<1>3. k \in T
  <2>1. \A n \in 0 .. k : n \in T
    BY <1>1, <1>2, Induction
  <2>. QED  BY <2>1
<1>. QED  BY <1>3 DEF T

(* The lowest bits, with one more. *)
LEMMA NextBit ==
    ASSUME NEW a \in Nat, NEW n \in 1 .. wordBits
    PROVE  /\ bit(a, n - 1) \in {0, 1}
           /\ a % 2^n = (a % 2^(n - 1)) + 2^(n - 1) * bit(a, n - 1)
<1>. DEFINE p == 2^(n - 1)
            q == a \div p
            r == a % p
<1>1. 2^n = 2 * p /\ p \in Nat /\ p > 0
  BY WordAssumption, Powers
<1>2. q \in Nat /\ r \in 0 .. p - 1 /\ a = p * q + r
  BY <1>1, Quotients
<1>3. q % 2 \in {0, 1} /\ q \div 2 \in Nat /\ q = 2 * (q \div 2) + (q % 2)
  BY <1>2
<1>. HIDE DEF q, r, p
<1>4. p * (q % 2) + r \in 0 .. 2 * p - 1
  BY <1>1, <1>2, <1>3
<1>5. a = (2 * p) * (q \div 2) + (p * (q % 2) + r)
  <2>. DEFINE h == q \div 2
              c == q % 2
  <2>1. p * (2 * h + c) = (2 * p) * h + p * c
    BY <1>1, <1>3
  <2>. QED  BY <1>1, <1>2, <1>3, <2>1
<1>6. a % (2 * p) = p * (q % 2) + r
  <2>. DEFINE d == 2 * p
              h == q \div 2
              l == p * (q % 2) + r
  <2>1. d \in Nat /\ d > 0 /\ h \in Int /\ l \in 0 .. d - 1 /\ a = d * h + l
    BY <1>1, <1>3, <1>4, <1>5
  <2>. HIDE DEF d, h, l
  <2>2. a % d = l
    BY <2>1, QuotientIs
  <2>. QED  BY <2>2 DEF d, l
<1>7. bit(a, n - 1) = q % 2
  BY DEF bit, p, q
<1>8. a % 2^n = r + p * bit(a, n - 1)
  <2>1. p * (q % 2) \in Nat
    BY <1>1, <1>3
  <2>2. a % 2^n = p * bit(a, n - 1) + r
    BY <1>1, <1>6, <1>7, Zenon
  <2>. QED  BY <1>2, <1>7, <2>1, <2>2
<1>. QED  BY <1>3, <1>7, <1>8 DEF p, r

-----------------------------------------------------------------------------
(* Exclusive or. *)

Differ(a, b, n) == (bit(a, n - 1) + bit(b, n - 1)) % 2

LEMMA XorBelow ==
    ASSUME NEW a \in Nat, NEW b \in Nat
    PROVE  /\ xorBelow(a, b)[0] = 0
           /\ \A n \in 1 .. wordBits :
                  xorBelow(a, b)[n] = xorBelow(a, b)[n - 1] + 2^(n - 1) * Differ(a, b, n)
           /\ \A n \in 0 .. wordBits : xorBelow(a, b)[n] \in 0 .. 2^n - 1
<1>. DEFINE F == [n \in 1 .. wordBits |-> [x \in Nat |-> x + 2^(n - 1) * Differ(a, b, n)]]
            low == xorBelow(a, b)
<1>1. ASSUME NEW n \in 1 .. wordBits
      PROVE  2^(n - 1) \in Nat /\ 2^(n - 1) > 0 /\ 2^n = 2 * 2^(n - 1) /\ Differ(a, b, n) \in {0, 1}
  <2>1. n - 1 \in 0 .. wordBits + 3 /\ n \in 1 .. wordBits + 3
    BY WordAssumption
  <2>2. 2^(n - 1) \in Nat \ {0} /\ 2^n = 2 * 2^(n - 1)
    BY <2>1, Powers, WordAssumption
  <2>3. bit(a, n - 1) \in {0, 1} /\ bit(b, n - 1) \in {0, 1}
    BY NextBit
  <2>4. Differ(a, b, n) \in {0, 1}
    BY <2>3 DEF Differ
  <2>. QED  BY <2>2, <2>4
<1>2. F \in [1 .. wordBits -> [Nat -> Nat]]
  BY <1>1
<1>. HIDE DEF F
<1>3. PICK h \in [0 .. wordBits -> Nat] : Recursive(h, wordBits, 0, F)
  BY <1>2, Recursion, WordAssumption
<1>4. \A n \in 0 .. wordBits :
          (IF n = 0 THEN 0 ELSE F[n][h[n - 1]]) =
          (IF n = 0 THEN 0 ELSE h[n - 1] + 2^(n - 1) * ((bit(a, n - 1) + bit(b, n - 1)) % 2))
  <2>1. ASSUME NEW n \in 1 .. wordBits
        PROVE  F[n][h[n - 1]] = h[n - 1] + 2^(n - 1) * Differ(a, b, n)
    <3>1. h[n - 1] \in Nat
      BY <1>3, WordAssumption
    <3>. QED  BY <3>1 DEF F
  <2>. QED  BY <2>1 DEF Differ
<1>5. h = [n \in 0 .. wordBits |->
              IF n = 0 THEN 0
              ELSE h[n - 1] + 2^(n - 1) * ((bit(a, n - 1) + bit(b, n - 1)) % 2)]
  BY <1>3, <1>4 DEF Recursive
<1>6. low = [n \in 0 .. wordBits |->
                IF n = 0 THEN 0
                ELSE low[n - 1] + 2^(n - 1) * ((bit(a, n - 1) + bit(b, n - 1)) % 2)]
  <2>. QED  BY <1>5, Zenon DEF xorBelow
<1>. HIDE DEF low
<1>7. low[0] = 0 /\ \A n \in 1 .. wordBits : low[n] = low[n - 1] + 2^(n - 1) * Differ(a, b, n)
  <2>1. \A n \in 0 .. wordBits :
            low[n] = IF n = 0 THEN 0
                     ELSE low[n - 1] + 2^(n - 1) * ((bit(a, n - 1) + bit(b, n - 1)) % 2)
    BY <1>6, Zenon
  <2>2. 0 \in 0 .. wordBits /\ \A n \in 1 .. wordBits : n \in 0 .. wordBits /\ n # 0
    BY WordAssumption
  <2>. QED  BY <2>1, <2>2 DEF Differ
<1>. DEFINE T == {n \in Nat : low[n] \in 0 .. 2^n - 1}
<1>8. 0 \in T
  BY <1>7, WordAssumption
<1>9. ASSUME NEW n \in 1 .. wordBits, n - 1 \in T PROVE n \in T
  BY <1>1, <1>7, <1>9
<1>10. \A n \in 0 .. wordBits : n \in T
  <2>. HIDE DEF T
  <2>. QED  BY <1>8, <1>9, Induction, WordAssumption
<1>. QED  BY <1>7, <1>10 DEF low

LEMMA XorType == \A a, b \in Words : xor[a][b] \in Words
<1>. SUFFICES ASSUME NEW a \in Words, NEW b \in Words PROVE xor[a][b] \in Words
  OBVIOUS
<1>1. a \in Nat /\ b \in Nat
  BY ModulusType DEF Words
<1>2. xorBelow(a, b)[wordBits] \in 0 .. 2^wordBits - 1
  BY <1>1, XorBelow, WordAssumption
<1>3. xor[a][b] = xorBelow(a, b)[wordBits]
  BY Zenon DEF xor
<1>. QED  BY <1>2, <1>3 DEF Words, Modulus

(* From what is combined and one of its parts the other follows, bit by    *)
(* bit from the lowest.                                                    *)
LEMMA XorLossless ==
    ASSUME NEW a \in Words, NEW c \in Words, NEW b \in Words, xor[a][b] = xor[c][b]
    PROVE  a = c
<1>. DEFINE x == xorBelow(a, b)
            y == xorBelow(c, b)
            T == {n \in Nat : x[n] = y[n] => a % 2^n = c % 2^n}
<1>1. a \in Nat /\ b \in Nat /\ c \in Nat
  BY ModulusType DEF Words
<1>2. x[wordBits] = y[wordBits]
  BY DEF xor
<1>3. 0 \in T
  <2>1. a % 1 = 0 /\ c % 1 = 0
    BY <1>1
  <2>. QED  BY <2>1, WordAssumption
<1>4. ASSUME NEW n \in 1 .. wordBits, n - 1 \in T PROVE n \in T
  <2>. SUFFICES ASSUME x[n] = y[n] PROVE a % 2^n = c % 2^n
    BY <1>4
  <2>. DEFINE p == 2^(n - 1)
              d == Differ(a, b, n)
              e == Differ(c, b, n)
              u == x[n - 1]
              v == y[n - 1]
  <2>1. n - 1 \in 0 .. wordBits /\ p \in Nat /\ p > 0
    BY WordAssumption, Powers
  <2>2. u \in 0 .. p - 1 /\ v \in 0 .. p - 1 /\ x[n] = u + p * d /\ y[n] = v + p * e
    BY <1>1, <2>1, XorBelow
  <2>3. /\ bit(a, n - 1) \in {0, 1} /\ bit(b, n - 1) \in {0, 1} /\ bit(c, n - 1) \in {0, 1}
        /\ a % 2^n = (a % p) + p * bit(a, n - 1)
        /\ c % 2^n = (c % p) + p * bit(c, n - 1)
    BY <1>1, NextBit
  <2>4. d \in {0, 1} /\ e \in {0, 1} /\ (d = e => bit(a, n - 1) = bit(c, n - 1))
    BY <2>3 DEF Differ
  <2>5. d = e /\ u = v
    <3>. HIDE DEF p, d, e, u, v, x, y
    <3>1. u + p * d = v + p * e
      BY <2>2
    <3>2. d \in Int /\ e \in Int /\ p * d \in Int /\ p * e \in Int
      BY <2>1, <2>4
    <3>3. p * d + u = p * e + v
      BY <2>1, <2>2, <3>1, <3>2
    <3>. QED  BY <2>1, <2>2, <3>2, <3>3, SameQuotient
  <2>6. a % p = c % p
    BY <1>4, <2>5
  <2>. QED  BY <2>3, <2>4, <2>5, <2>6
<1>5. wordBits \in T
  <2>. HIDE DEF T
  <2>1. \A n \in 0 .. wordBits : n \in T
    BY <1>3, <1>4, Induction, WordAssumption
  <2>. QED  BY <2>1, WordAssumption
<1>6. a % Modulus = c % Modulus
  BY <1>2, <1>5 DEF Modulus
<1>. QED  BY <1>6, ModulusType DEF Words

-----------------------------------------------------------------------------
(* Rotation. *)

(* The two parts of a word change places. *)
LEMMA Rotated ==
    ASSUME NEW a \in Words, NEW k \in Int
    PROVE  LET p == 2^(k % wordBits)
               q == 2^(wordBits - (k % wordBits))
           IN  /\ p \in Nat /\ p > 0 /\ q \in Nat /\ q > 0 /\ p * q = Modulus
               /\ a % q \in 0 .. q - 1 /\ a \div q \in 0 .. p - 1
               /\ RotateLeft(a, k) = p * (a % q) + (a \div q)
<1>. DEFINE n == k % wordBits
            p == 2^n
            q == 2^(wordBits - n)
            l == a % q
            h == a \div q
<1>1. n \in 0 .. wordBits - 1 /\ wordBits \in Nat
  BY WordAssumption
<1>. HIDE DEF n
<1>2. n \in Nat /\ wordBits - n \in Nat /\ n + (wordBits - n) = wordBits
  BY <1>1
<1>3. p \in Nat /\ p > 0 /\ q \in Nat /\ q > 0
  BY <1>1, Powers
<1>4. p * q = Modulus
  BY <1>1, <1>2, PowerSum DEF Modulus
<1>. HIDE DEF p, q
<1>5. a \in Nat /\ a < p * q
  BY <1>4, ModulusType DEF Words
<1>6. l \in 0 .. q - 1 /\ h \in Nat /\ a = q * h + l
  BY <1>3, <1>5, Quotients
<1>. HIDE DEF l, h
<1>7. h < p
  <2>1. ASSUME h >= p PROVE FALSE
    <3>1. h - p \in Nat /\ q * (h - p) \in Nat /\ q * p \in Nat
      BY <1>3, <1>6, <2>1
    <3>2. q * h = q * p + q * (h - p) /\ q * p = p * q
      BY <1>3, <1>6
    <3>. QED  BY <1>3, <1>5, <1>6, <3>1, <3>2
  <2>. QED  BY <1>3, <1>6, <2>1
<1>8. p * l \in 0 .. p * q - 1
  <2>1. q - 1 - l \in Nat /\ p * (q - 1 - l) \in Nat /\ p * l \in Nat
    BY <1>3, <1>6
  <2>2. p * q = p * l + p + p * (q - 1 - l)
    BY <1>3, <1>6
  <2>. QED  BY <1>3, <2>1, <2>2
<1>9. a * p = (p * q) * h + p * l
  BY <1>3, <1>6
<1>10. (a * p) % (p * q) = p * l
  <2>. DEFINE M == p * q
              r == p * l
  <2>1. M \in Nat /\ M > 0 /\ r \in 0 .. M - 1 /\ h \in Int /\ a * p = M * h + r
    BY <1>3, <1>4, <1>6, <1>8, <1>9, ModulusType
  <2>. HIDE DEF M, r
  <2>2. (M * h + r) % M = r
    BY <2>1, QuotientIs
  <2>. QED  BY <2>1, <2>2 DEF M, r
<1>11. RotateLeft(a, k) = ((a * p) % (p * q)) + h
  BY <1>4 DEF RotateLeft, n, p, q, h
<1>. QED  BY <1>3, <1>4, <1>6, <1>7, <1>10, <1>11 DEF n, p, q, l, h

LEMMA RotateType == \A a \in Words, k \in Int : RotateLeft(a, k) \in Words
<1>. SUFFICES ASSUME NEW a \in Words, NEW k \in Int PROVE RotateLeft(a, k) \in Words
  OBVIOUS
<1>. DEFINE p == 2^(k % wordBits)
            q == 2^(wordBits - (k % wordBits))
            l == a % q
            h == a \div q
<1>1. /\ p \in Nat /\ p > 0 /\ q \in Nat /\ q > 0 /\ p * q = Modulus
      /\ l \in 0 .. q - 1 /\ h \in 0 .. p - 1 /\ RotateLeft(a, k) = p * l + h
  BY Rotated
<1>. HIDE DEF p, q, l, h
<1>2. q - 1 - l \in Nat /\ p * (q - 1 - l) \in Nat /\ p * l \in Nat
  BY <1>1
<1>3. Modulus = p * l + p + p * (q - 1 - l)
  BY <1>1
<1>. QED  BY <1>1, <1>2, <1>3 DEF Words

LEMMA RotateLossless ==
    ASSUME NEW a \in Words, NEW c \in Words, NEW k \in Int, RotateLeft(a, k) = RotateLeft(c, k)
    PROVE  a = c
<1>. DEFINE p == 2^(k % wordBits)
            q == 2^(wordBits - (k % wordBits))
<1>1. /\ p \in Nat /\ p > 0 /\ q \in Nat /\ q > 0
      /\ a % q \in 0 .. q - 1 /\ a \div q \in 0 .. p - 1
      /\ c % q \in 0 .. q - 1 /\ c \div q \in 0 .. p - 1
      /\ p * (a % q) + (a \div q) = p * (c % q) + (c \div q)
  BY Rotated
<1>. HIDE DEF p, q
<1>2. a % q \in Int /\ c % q \in Int
  BY <1>1
<1>3. a % q = c % q /\ a \div q = c \div q
  BY <1>1, <1>2, SameQuotient
<1>4. a \in Int /\ c \in Int
  BY ModulusType DEF Words
<1>. QED  BY <1>1, <1>3, <1>4, Quotients

-----------------------------------------------------------------------------
(* Products. *)

LEMMA ProductBound ==
    ASSUME NEW k \in Nat, NEW l \in Nat, NEW a \in 0 .. k, NEW b \in 0 .. l
    PROVE  a * b \in 0 .. k * l
<1>1. (k - a) * l \in Nat /\ a * (l - b) \in Nat /\ a * b \in Nat
  OBVIOUS
<1>2. k * l = (k - a) * l + a * (l - b) + a * b
  OBVIOUS
<1>. QED  BY <1>1, <1>2

LEMMA HighType == \A a, b \in Words : high(a, b) \in Words
<1>. SUFFICES ASSUME NEW a \in Words, NEW b \in Words PROVE high(a, b) \in Words
  OBVIOUS
<1>. DEFINE M == Modulus
            h == high(a, b)
<1>1. M \in Nat /\ M > 0 /\ a \in 0 .. M - 1 /\ b \in 0 .. M - 1
  BY ModulusType DEF Words
<1>2. a * b \in Nat /\ a * b <= (M - 1) * (M - 1)
  <2>. HIDE DEF M
  <2>. QED  BY <1>1, ProductBound
<1>3. h \in Nat /\ M * h <= a * b
  BY <1>1, <1>2, Quotients DEF high
<1>. HIDE DEF M, h
<1>4. h < M
  <2>1. ASSUME h >= M PROVE FALSE
    <3>1. M * (h - M) \in Nat
      BY <1>1, <1>3, <2>1
    <3>2. M * h = M * M + M * (h - M) /\ M * M = (M - 1) * (M - 1) + M + (M - 1)
      BY <1>1, <1>3
    <3>. QED  BY <1>1, <1>2, <1>3, <3>1, <3>2
  <2>. QED  BY <1>1, <1>3, <2>1
<1>. QED  BY <1>1, <1>3, <1>4 DEF M, h, Words

(* A word is its signed value, plus Modulus if that is negative. *)
LEMMA SignOf ==
    ASSUME NEW a \in Words
    PROVE  LET x == SignedValue(a)
               s == IF x < 0 THEN 1 ELSE 0
           IN  x \in Int /\ -Modulus <= 2 * x /\ 2 * x < Modulus /\ a = x + s * Modulus
BY ModulusType DEF Words, SignedValue

LEMMA SignedBack ==
    ASSUME NEW q \in Int, -Modulus <= 2 * q, 2 * q < Modulus
    PROVE  SignedValue(q % Modulus) = q
<1>. DEFINE M == Modulus
<1>1. M \in Nat /\ M > 0
  BY ModulusType
<1>. HIDE DEF M
<1>2. -M <= 2 * q /\ 2 * q < M
  BY DEF M
<1>3. CASE q >= 0
  <2>1. M * 0 + q = q /\ q \in 0 .. M - 1
    BY <1>1, <1>2, <1>3
  <2>2. q % M = q
    BY <1>1, <2>1, QuotientIs
  <2>. QED  BY <2>2, <1>2 DEF SignedValue, M
<1>4. CASE q < 0
  <2>1. M * (-1) + (q + M) = q /\ q + M \in 0 .. M - 1
    BY <1>1, <1>2, <1>4
  <2>2. q % M = q + M
    BY <1>1, <2>1, QuotientIs
  <2>3. ~ (2 * (q + M) < M)
    BY <1>1, <1>2
  <2>4. SignedValue(q + M) = q
    BY <1>1, <2>3 DEF SignedValue, M
  <2>. QED  BY <2>2, <2>4 DEF M
<1>. QED  BY <1>3, <1>4

(* The product of two signed values is far from the largest. *)
LEMMA SignedRange ==
    ASSUME NEW M \in Nat, M >= 2, NEW x \in Int, NEW y \in Int,
           -M <= 2 * x, 2 * x < M, -M <= 2 * y, 2 * y < M
    PROVE  -M <= 2 * ((x * y) \div M) /\ 2 * ((x * y) \div M) < M
<1>. DEFINE z == x * y
            Q == z \div M
<1>1. 4 * z = (2 * x) * (2 * y) /\ z \in Int
  OBVIOUS
<1>2. 4 * z <= M * M /\ 4 * z >= -((M - 1) * M)
  <2>. DEFINE u == 2 * x
              v == 2 * y
  <2>1. u \in Int /\ v \in Int /\ -M <= u /\ u < M /\ -M <= v /\ v < M /\ 4 * z = u * v
    BY <1>1
  <2>. HIDE DEF u, v, z
  <2>2. M - 1 \in Nat /\ (M - 1) * (M - 1) <= M * M /\ (M - 1) * M \in Nat /\ M * M \in Nat
    <3>1. M * M = (M - 1) * (M - 1) + M + (M - 1)
      OBVIOUS
    <3>. QED  BY <3>1
  <2>3. CASE u >= 0 /\ v >= 0
    <3>1. u * v \in 0 .. (M - 1) * (M - 1)
      <4>1. u \in 0 .. M - 1 /\ v \in 0 .. M - 1
        BY <2>1, <2>3
      <4>. QED  BY <2>2, <4>1, ProductBound
    <3>. QED  BY <2>1, <2>2, <3>1
  <2>4. CASE u < 0 /\ v < 0
    <3>1. (-u) * (-v) \in 0 .. M * M
      <4>1. -u \in 0 .. M /\ -v \in 0 .. M
        BY <2>1, <2>4
      <4>. QED  BY <4>1, ProductBound
    <3>2. (-u) * (-v) = u * v
      BY <2>1
    <3>. QED  BY <2>1, <2>2, <3>1, <3>2
  <2>5. CASE u >= 0 /\ v < 0
    <3>1. u * (-v) \in 0 .. (M - 1) * M
      <4>1. u \in 0 .. M - 1 /\ -v \in 0 .. M
        BY <2>1, <2>5
      <4>. QED  BY <2>2, <4>1, ProductBound
    <3>2. u * (-v) = -(u * v) /\ u * v \in Int
      BY <2>1
    <3>. QED  BY <2>1, <2>2, <3>1, <3>2
  <2>6. CASE u < 0 /\ v >= 0
    <3>1. v * (-u) \in 0 .. (M - 1) * M
      <4>1. v \in 0 .. M - 1 /\ -u \in 0 .. M
        BY <2>1, <2>6
      <4>. QED  BY <2>2, <4>1, ProductBound
    <3>2. v * (-u) = -(u * v) /\ u * v \in Int
      BY <2>1
    <3>. QED  BY <2>1, <2>2, <3>1, <3>2
  <2>. QED  BY <2>1, <2>3, <2>4, <2>5, <2>6
<1>3. Q \in Int /\ M * Q <= z /\ z < M * Q + M
  <2>. HIDE DEF z
  <2>1. z \div M \in Int /\ z % M \in 0 .. M - 1 /\ z = M * (z \div M) + (z % M)
    BY <1>1, Quotients
  <2>2. M * Q \in Int
    BY <2>1
  <2>. QED  BY <1>1, <2>1, <2>2
<1>. HIDE DEF z, Q
<1>4. 4 * Q <= M
  <2>1. ASSUME 4 * Q > M PROVE FALSE
    <3>1. M * (4 * Q - M) >= M
      BY <1>3, <2>1
    <3>2. M * (4 * Q - M) = 4 * (M * Q) - M * M /\ M * Q \in Int /\ M * M \in Int
      BY <1>3
    <3>. QED  BY <1>1, <1>2, <1>3, <3>1, <3>2
  <2>. QED  BY <1>3, <2>1
<1>5. 4 * Q + M + 3 > 0
  <2>1. ASSUME 4 * Q + M + 3 <= 0 PROVE FALSE
    <3>1. M * (4 * Q + M + 3) <= 0
      BY <1>3, <2>1
    <3>2. /\ M * (4 * Q + M + 3) = 4 * (M * Q) + 4 * M + (M - 1) * M
          /\ M * Q \in Int /\ (M - 1) * M \in Int
      BY <1>3
    <3>. QED  BY <1>1, <1>2, <1>3, <3>1, <3>2
  <2>. QED  BY <1>3, <2>1
<1>6. -M <= 2 * Q /\ 2 * Q < M
  BY <1>3, <1>4, <1>5
<1>. QED  BY <1>6 DEF Q, z

(* smulh, the ISMULH_R of superscalar programs, and int128mul give the high *)
(* word of the product of the signed values.                                *)
THEOREM SignedHigh ==
    ASSUME NEW a \in Words, NEW b \in Words
    PROVE  SignedValue(int128mul(a, b)) = (SignedValue(a) * SignedValue(b)) \div Modulus
<1>. DEFINE M == Modulus
            x == SignedValue(a)
            y == SignedValue(b)
            s == IF x < 0 THEN 1 ELSE 0
            t == IF y < 0 THEN 1 ELSE 0
            z == x * y
            Q == z \div M
<1>1. M \in Nat /\ M >= 2
  <2>1. 2^wordBits = 2 * 2^(wordBits - 1) /\ 2^(wordBits - 1) \in Nat \ {0}
    BY WordAssumption, Powers
  <2>. QED  BY <2>1 DEF Modulus
<1>2. /\ x \in Int /\ -M <= 2 * x /\ 2 * x < M /\ a = x + s * M
      /\ y \in Int /\ -M <= 2 * y /\ 2 * y < M /\ b = y + t * M
  BY SignOf
<1>3. s \in {0, 1} /\ t \in {0, 1} /\ (x < 0 <=> s = 1) /\ (y < 0 <=> t = 1)
  OBVIOUS
<1>. HIDE DEF x, y, s, t, M
<1>4. z \in Int
  BY <1>2
<1>5. -M <= 2 * Q /\ 2 * Q < M
  BY <1>1, <1>2, SignedRange
<1>. HIDE DEF z
<1>6. Q \in Int /\ z % M \in 0 .. M - 1 /\ z = M * Q + (z % M)
  BY <1>1, <1>4, Quotients
<1>. HIDE DEF Q
<1>7. a * b = M * (Q + s * y + t * x + s * t * M) + (z % M)
  <2>1. a * b = x * y + x * (t * M) + (s * M) * y + (s * M) * (t * M)
    BY <1>1, <1>2, <1>3
  <2>2. /\ x * (t * M) = M * (t * x) /\ (s * M) * y = M * (s * y)
        /\ (s * M) * (t * M) = M * (s * t * M)
    BY <1>1, <1>2, <1>3
  <2>3. M * (Q + s * y + t * x + s * t * M) = M * Q + M * (s * y) + M * (t * x) + M * (s * t * M)
    BY <1>1, <1>2, <1>3, <1>6
  <2>4. /\ M * Q \in Int /\ M * (s * y) \in Int /\ M * (t * x) \in Int
        /\ M * (s * t * M) \in Int /\ z % M \in Int
    BY <1>1, <1>2, <1>3, <1>6
  <2>5. a * b = z + M * (t * x) + M * (s * y) + M * (s * t * M)
    BY <2>1, <2>2 DEF z
  <2>. HIDE DEF z
  <2>. QED  BY <1>4, <1>6, <2>3, <2>4, <2>5
<1>8. high(a, b) = Q + s * y + t * x + s * t * M
  <2>. DEFINE q == Q + s * y + t * x + s * t * M
              r == z % M
  <2>1. q \in Int /\ r \in 0 .. M - 1 /\ M > 0 /\ a * b = M * q + r
    BY <1>1, <1>2, <1>3, <1>6, <1>7
  <2>. HIDE DEF q, r
  <2>2. (M * q + r) \div M = q
    BY <1>1, <2>1, QuotientIs
  <2>. QED  BY <2>1, <2>2 DEF high, M, q
<1>9. int128mul(a, b) = (high(a, b) - s * b - t * a) % M
  <2>1. /\ (IF x < 0 THEN b ELSE 0) = s * b
        /\ (IF y < 0 THEN a ELSE 0) = t * a
    BY <1>1, <1>2, <1>3
  <2>. QED  BY <2>1 DEF int128mul, x, y, M
<1>10. high(a, b) - s * b - t * a = Q - s * t * M
  BY <1>1, <1>2, <1>3, <1>6, <1>8
<1>11. (Q - s * t * M) % M = Q % M
  <2>1. Q \div M \in Int /\ Q % M \in 0 .. M - 1 /\ Q = M * (Q \div M) + (Q % M)
    BY <1>1, <1>6, Quotients
  <2>. DEFINE q == (Q \div M) - s * t
              r == Q % M
  <2>2. q \in Int /\ r \in 0 .. M - 1 /\ M > 0 /\ Q - s * t * M = M * q + r
    <3>. DEFINE f == Q \div M
                g == s * t
    <3>1. f \in Int /\ g \in Int /\ r \in 0 .. M - 1 /\ Q = M * f + r /\ s * t * M = g * M
      BY <1>1, <1>3, <2>1
    <3>. HIDE DEF f, g, r
    <3>2. Q - g * M = M * (f - g) + r
      BY <1>1, <3>1
    <3>. QED  BY <1>1, <3>1, <3>2 DEF f, g
  <2>. HIDE DEF q, r
  <2>3. (M * q + r) % M = r
    BY <1>1, <2>2, QuotientIs
  <2>. QED  BY <2>2, <2>3 DEF r
<1>12. SignedValue(Q % M) = Q
  BY <1>5, <1>6, SignedBack DEF M
<1>. QED  BY <1>9, <1>10, <1>11, <1>12 DEF Q, z, x, y, M
=============================================================================

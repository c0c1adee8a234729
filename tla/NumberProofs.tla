---------------------------- MODULE NumberProofs ----------------------------
(***************************************************************************)
(* Facts about natural numbers that the other proofs need: induction, the  *)
(* existence of functions that are defined by recursion, and quotients.    *)
(***************************************************************************)
EXTENDS Integers, TLAPS, WellFoundedInduction

-----------------------------------------------------------------------------
(* Induction is on the least counterexample. *)

LEMMA Least ==
    ASSUME NEW T, T \subseteq Nat, T # {}
    PROVE  \E x \in T : \A y \in T : x <= y
<1>. DEFINE R == {ss \in Nat \X Nat : ss[1] < ss[2]}
<1>1. IsWellFoundedOn(R, Nat)
  BY NatLessThanWellFounded DEF OpToRel
<1>2. PICK x \in T : \A y \in T : ~ (<<y, x>> \in R)
  <2>. HIDE DEF R
  <2>. QED  BY <1>1, WFMin
<1>3. x \in Nat /\ \A y \in T : y \in Nat /\ ~ (y < x)
  BY <1>2
<1>. QED  BY <1>3

(* A set that holds 0, and with a number the next one, holds all up to N.  *)
LEMMA Induction ==
    ASSUME NEW N \in Nat, NEW T, 0 \in T, \A n \in 1 .. N : n - 1 \in T => n \in T
    PROVE  \A n \in 0 .. N : n \in T
<1>. DEFINE Out == {n \in 0 .. N : n \notin T}
<1>. SUFFICES ASSUME Out # {} PROVE FALSE
  OBVIOUS
<1>1. PICK x \in Out : \A y \in Out : x <= y
  <2>. Out \subseteq Nat
    OBVIOUS
  <2>. HIDE DEF Out
  <2>. QED  BY Least
<1>2. x \in 1 .. N /\ x - 1 \in 0 .. N /\ x - 1 \notin Out
  BY <1>1
<1>. QED  BY <1>1, <1>2

(* A function given by its first value and by each value from the one      *)
(* before it exists.                                                       *)
Recursive(h, N, first, F) ==
    h = [n \in 0 .. N |-> IF n = 0 THEN first ELSE F[n][h[n - 1]]]

LEMMA Recursion ==
    ASSUME NEW S, NEW N \in Nat, NEW first \in S, NEW F \in [1 .. N -> [S -> S]]
    PROVE  \E h \in [0 .. N -> S] : Recursive(h, N, first, F)
<1>. DEFINE Upto(n, h) == h \in [0 .. n -> S] /\ h[0] = first
                          /\ \A k \in 1 .. n : h[k] = F[k][h[k - 1]]
            T == {n \in 0 .. N : \E h : Upto(n, h)}
<1>1. 0 \in T
  <2>1. Upto(0, [n \in {0} |-> first])
    OBVIOUS
  <2>2. 0 \in 0 .. N
    OBVIOUS
  <2>. QED  BY <2>1, <2>2, Zenon
<1>2. ASSUME NEW n \in 1 .. N, n - 1 \in T PROVE n \in T
  <2>1. PICK h : Upto(n - 1, h)
    BY <1>2, Zenon
  <2>. DEFINE next == F[n][h[n - 1]]
              g == [k \in 0 .. n |-> IF k = n THEN next ELSE h[k]]
  <2>2. next \in S
    BY <2>1
  <2>3. g \in [0 .. n -> S] /\ g[0] = first /\ g[n] = next
        /\ \A k \in 0 .. n - 1 : g[k] = h[k]
    BY <2>1, <2>2
  <2>. HIDE DEF g
  <2>4. ASSUME NEW k \in 1 .. n PROVE g[k] = F[k][g[k - 1]]
    <3>1. k - 1 \in 0 .. n - 1
      OBVIOUS
    <3>2. CASE k = n
      BY <3>1, <3>2, <2>3
    <3>3. CASE k # n
      BY <3>1, <3>3, <2>1, <2>3
    <3>. QED  BY <3>2, <3>3
  <2>5. Upto(n, g)
    BY <2>3, <2>4
  <2>. QED  BY <2>5
<1>. HIDE DEF T
<1>3. N \in T
  <2>1. \A n \in 0 .. N : n \in T
    BY <1>1, <1>2, Induction
  <2>. QED  BY <2>1
<1>4. PICK h : Upto(N, h)
  BY <1>3 DEF T
<1>5. Recursive(h, N, first, F)
  BY <1>4 DEF Recursive
<1>. QED  BY <1>4, <1>5

-----------------------------------------------------------------------------
(* Quotients and remainders. *)

LEMMA Quotients ==
    ASSUME NEW n \in Int, NEW d \in Nat, d > 0
    PROVE  /\ n \div d \in Int /\ n % d \in 0 .. d - 1
           /\ n = d * (n \div d) + (n % d)
           /\ n >= 0 => n \div d \in Nat
OBVIOUS

LEMMA SameQuotient ==
    ASSUME NEW d \in Nat, d > 0, NEW p \in Int, NEW q \in Int,
           NEW i \in 0 .. d - 1, NEW j \in 0 .. d - 1,
           d * p + i = d * q + j
    PROVE  p = q /\ i = j
<1>1. CASE p = q
  BY <1>1
<1>2. CASE p < q
  <2>1. d * (q - p) >= d
    BY <1>2
  <2>2. d * (q - p) = i - j
    OBVIOUS
  <2>. QED  BY <2>1, <2>2
<1>3. CASE q < p
  <2>1. d * (p - q) >= d
    BY <1>3
  <2>2. d * (p - q) = j - i
    OBVIOUS
  <2>. QED  BY <2>1, <2>2
<1>. QED  BY <1>1, <1>2, <1>3

LEMMA QuotientIs ==
    ASSUME NEW d \in Nat, d > 0, NEW q \in Int, NEW r \in 0 .. d - 1
    PROVE  (d * q + r) \div d = q /\ (d * q + r) % d = r
<1>. DEFINE n == d * q + r
<1>1. n \in Int
  OBVIOUS
<1>. HIDE DEF n
<1>2. n \div d \in Int /\ n % d \in 0 .. d - 1 /\ n = d * (n \div d) + (n % d)
  BY <1>1, Quotients
<1>3. d * (n \div d) + (n % d) = d * q + r
  BY <1>2 DEF n
<1>4. n \div d = q /\ n % d = r
  BY <1>2, <1>3, SameQuotient
<1>. QED  BY <1>4 DEF n

LEMMA Multiple ==
    ASSUME NEW q \in Nat, NEW d \in Nat, d > 0
    PROVE  d * q \in Nat /\ (d * q) % d = 0
OBVIOUS

LEMMA Divides ==
    ASSUME NEW a \in Nat, NEW d \in Nat, d > 0, a % d = 0
    PROVE  \E q \in Nat : a = d * q
<1>1. a \div d \in Nat /\ a = d * (a \div d) + (a % d)
  BY Quotients
<1>2. d * (a \div d) \in Nat
  BY <1>1
<1>3. a = d * (a \div d)
  BY <1>1, <1>2
<1>. QED  BY <1>1, <1>3
=============================================================================

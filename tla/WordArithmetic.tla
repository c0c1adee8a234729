--------------------------- MODULE WordArithmetic ---------------------------
(***************************************************************************)
(* Unsigned words of wordBits bits (uint64) and the operations on them     *)
(* that the instructions of the virtual machine (instructions.go) and of   *)
(* superscalar programs (superscalar_program.go) share.                    *)
(***************************************************************************)
EXTENDS Integers

CONSTANT wordBits           \* 64

Modulus == 2^wordBits

(* The second says what an exponent is, of which the provers know nothing.  *)
ASSUME WordAssumption ==
    /\ wordBits \in Nat \ {0}
    /\ 2^0 = 1 /\ \A n \in 1 .. wordBits + 3 : 2^n = 2 * 2^(n - 1)

Words == 0 .. Modulus - 1
SignedValue(w) == IF 2 * w < Modulus THEN w ELSE w - Modulus

high(a, b) == (a * b) \div Modulus

(* The high word of a signed product: int128mul, and smulh likewise. *)
int128mul(a, b) ==
    (high(a, b) - (IF SignedValue(a) < 0 THEN b ELSE 0)
                - (IF SignedValue(b) < 0 THEN a ELSE 0)) % Modulus

(* Mutant: the bits that leave on the left do not come back. *)
RotateLeftShift(a, k) == (a * 2^(k % wordBits)) % Modulus

RotateLeft(a, k) ==
    LET n == k % wordBits
    IN  ((a * 2^n) % Modulus) + (a \div 2^(wordBits - n))

bit(w, n) == (w \div 2^n) % 2

(* The exclusive or of the n lowest bits, for every n. *)
xorBelow(a, b) ==
    LET low[n \in 0 .. wordBits] ==
            IF n = 0 THEN 0
            ELSE low[n - 1] + 2^(n - 1) * ((bit(a, n - 1) + bit(b, n - 1)) % 2)
    IN  low
xor == [a \in Words |-> [b \in Words |-> xorBelow(a, b)[wordBits]]]
=============================================================================

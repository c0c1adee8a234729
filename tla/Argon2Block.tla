---------------------------- MODULE Argon2Block ----------------------------
(***************************************************************************)
(* The functions on blocks of internal/argon2d: XOR, and the compression   *)
(* function with its permutation (compression.go, g.go, block.go), and     *)
(* Blake2bLong, which makes the first blocks and the tag                   *)
(* (blake2b_long.go).                                                      *)
(*                                                                         *)
(* A block is reduced to the set of its words that depend on one word that *)
(* is watched: the arithmetic is left out, its wiring is all there.  Of    *)
(* Blake2bLong the model keeps the sizes: a piece is a hash of "size"      *)
(* bytes of which the first "used" go to the output.                       *)
(***************************************************************************)
EXTENDS Integers, Sequences

QWordsInBlock == 128
WordIndices == 0 .. QWordsInBlock - 1

XOR(block, other) == block \cup other

-----------------------------------------------------------------------------
(* The mixing function: two rounds of fBlaMka additions and exclusive ors.  *)
g(a0, b0, c0, d0) ==
    LET a1 == a0 \/ b0      d1 == d0 \/ a1
        c1 == c0 \/ d1      b1 == b0 \/ c1
        a2 == a1 \/ b1      d2 == d1 \/ a2
        c2 == c1 \/ d2      b2 == b1 \/ c2
    IN  <<a2, b2, c2, d2>>

(* One g for each of four columns: the k-th has its i-th word in row i,      *)
(* shift columns to the right of the first.                                 *)
columnStep(v, shift) ==
    LET at(i, k) == 4 * i + ((k + i * shift) % 4)
        in(i, k) == at(i, k) \in v
        mixed(k) == g(in(0, k), in(1, k), in(2, k), in(3, k))
    IN  UNION {{at(i, k) : i \in {j \in 0 .. 3 : mixed(k)[j + 1]}} : k \in 0 .. 3}

(* The columns, then the diagonals. *)
gRound(v) == columnStep(columnStep(v, 0), 1)

(* The sixteen words of the i-th group, in consecutive order and in the     *)
(* interleaved one.                                                         *)
columnWord == [i \in 0 .. 7 |-> [k \in 0 .. 15 |-> 16 * i + k]]

(* Mutant: rows that are consecutive as well. *)
rowWordConsecutive == [i \in 0 .. 7 |-> [k \in 0 .. 15 |-> 16 * i + k]]

rowWord == [i \in 0 .. 7 |-> [k \in 0 .. 15 |-> 2 * i + 16 * (k \div 2) + (k % 2)]]

(* gRound on eight groups of sixteen words. *)
rounds(block, word) ==
    UNION {{word[i][k] : k \in gRound({j \in 0 .. 15 : word[i][j] \in block})} : i \in 0 .. 7}

applyBlake2bRound(block) == rounds(rounds(block, columnWord), rowWord)

fillBlock(prevBlock, refBlock, nextBlock, withXOR) ==
    LET Q == XOR(refBlock, prevBlock)
        R == XOR(applyBlake2bRound(Q), Q)
    IN  IF withXOR THEN XOR(R, nextBlock) ELSE R

-----------------------------------------------------------------------------
Piece(size, used) == [size |-> size, used |-> used]

(* Mutant: the last 64 bytes are not taken from one hash. *)
outSizeLate(remaining) == IF remaining >= 64 THEN Piece(64, 32) ELSE Piece(remaining, remaining)

outSize(remaining) == IF remaining > 64 THEN Piece(64, 32) ELSE Piece(remaining, remaining)

(* The hashes of the loop of Blake2bLong, one made from the other, when so  *)
(* many bytes have been copied.                                             *)
hashesFrom(outlen) ==
    LET rest[copied \in 0 .. outlen] ==
            IF copied = outlen THEN << >>
            ELSE LET piece == outSize(outlen - copied)
                 IN  <<piece>> \o rest[copied + piece.used]
    IN  rest

Blake2bLong(outlen) ==
    IF outlen = 0 THEN << >>
    ELSE IF outlen <= 64 THEN <<Piece(outlen, outlen)>>
    ELSE <<Piece(64, 32)>> \o hashesFrom(outlen)[32]
=============================================================================
